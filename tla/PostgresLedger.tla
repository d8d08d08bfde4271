---------------------------- MODULE PostgresLedger ----------------------------
(***************************************************************************)
(* PostgreSQLAdmissionLedger.execute, called by any number of handler      *)
(* threads of any number of gateway replicas against one database.         *)
(*                                                                         *)
(* Each attempt opens a session, takes two transaction-level advisory      *)
(* locks in ascending order of their 64-bit keys, looks its idempotency    *)
(* key and its context up, runs the admission operation inside the         *)
(* transaction, inserts one row and commits.  The thread (pc, result,      *)
(* answer) and its server session (tx, held, pending, snapshot) are kept   *)
(* apart: either can fail without the other noticing.                      *)
(***************************************************************************)
EXTENDS AdmissionRequests, Integers

CONSTANTS
  LockKey,    \* the signed advisory key of every lock name
  LockBound,  \* 2^63 in the program: eight bytes of a SHA-256
  Isolation,  \* default_transaction_isolation of the database or the DSN
  Faults      \* what may go wrong

LockNames == ({"idempotency"} \X Keys) \cup ({"context"} \X Contexts)

LockRange == -LockBound .. LockBound - 1

ASSUME LockKeyAssumption ==
  /\ LockBound \in Nat
  /\ LockKey \in [LockNames -> LockRange]

ASSUME SettingsAssumption ==
  /\ Isolation \in {"read committed", "repeatable read"}
  /\ Faults \subseteq {"session", "statement", "crash", "operation", "tamper"}

VARIABLES
  req,       \* the request each attempt carries
  pc,        \* where in execute the handler thread is
  result,    \* what execute is about to return or raise
  answer,    \* what execute returned or raised
  tx,        \* the server session's transaction
  held,      \* the advisory locks it holds
  pending,   \* the row it inserted and has not committed
  snapshot,  \* the rows a repeatable-read transaction sees
  rows       \* the committed rows of pgextassure_admissions

threadVars == <<pc, result, answer>>
sessionVars == <<tx, held, pending, snapshot>>
vars == <<req, threadVars, sessionVars, rows>>

-----------------------------------------------------------------------------
\* Mutant: the context has no lock of its own.
KeyLockOnly(a) == {LockKey[<<"idempotency", req[a].key>>]}

\* The set of the two keys: one key when the hashes collide.
Locks(a) == {LockKey[<<"idempotency", req[a].key>>],
             LockKey[<<"context", req[a].context>>]}

Missing(a) == Locks(a) \ held[a]

\* Mutant: the locks are taken as they are written, the key's first.
KeyLockFirst(a) ==
  LET first == LockKey[<<"idempotency", req[a].key>>]
  IN  IF first \in Missing(a) THEN {first} ELSE Missing(a)

\* The lock a asks for next: sorted().
NextLock(a) == {l \in Missing(a) : \A m \in Missing(a) : l <= m}

\* What a statement of a's transaction reads.
Visible(a) == IF Isolation = "read committed" THEN rows ELSE snapshot[a]

Goto(a, label) == pc' = [pc EXCEPT ![a] = label]

Return(a, ans) ==
  /\ Goto(a, "commit")
  /\ result' = [result EXCEPT ![a] = ans]

Raise(a, ans) ==
  /\ Goto(a, "rollback")
  /\ result' = [result EXCEPT ![a] = ans]

\* The end of a transaction releases its locks and leaves no uncommitted row.
EndTransaction(a, state) ==
  /\ tx' = [tx EXCEPT ![a] = state]
  /\ held' = [held EXCEPT ![a] = {}]
  /\ pending' = [pending EXCEPT ![a] = {}]
  /\ snapshot' = [snapshot EXCEPT ![a] = {}]

Init ==
  /\ req \in [Attempts -> Requests]
  /\ pc = [a \in Attempts |-> "start"]
  /\ result = [a \in Attempts |-> Says("pending")]
  /\ answer = [a \in Attempts |-> Says("pending")]
  /\ tx = [a \in Attempts |-> "none"]
  /\ held = [a \in Attempts |-> {}]
  /\ pending = [a \in Attempts |-> {}]
  /\ snapshot = [a \in Attempts |-> {}]
  /\ rows = {}

-----------------------------------------------------------------------------
(* The handler thread, one statement of execute at a time.                 *)

\* Connect and send the first statement; repeatable read fixes its snapshot
\* here, before the lock is granted.
Begin(a) ==
  /\ pc[a] = "start"
  /\ Goto(a, "lock")
  /\ tx' = [tx EXCEPT ![a] = "open"]
  /\ snapshot' = [snapshot EXCEPT ![a] =
                    IF Isolation = "repeatable read" THEN rows ELSE {}]
  /\ UNCHANGED <<req, result, answer, held, pending, rows>>

ConnectFails(a) ==
  /\ "session" \in Faults
  /\ pc[a] = "start"
  /\ Goto(a, "done")
  /\ answer' = [answer EXCEPT ![a] = Says("error")]
  /\ UNCHANGED <<req, result, sessionVars, rows>>

\* pg_advisory_xact_lock on the keys in ascending order, waiting without limit.
AcquireLock(a) ==
  /\ pc[a] = "lock"
  /\ tx[a] = "open"
  /\ \E l \in NextLock(a) :
       /\ \A b \in Attempts : l \notin held[b]
       /\ held' = [held EXCEPT ![a] = @ \cup {l}]
       /\ Goto(a, IF Missing(a) = {l} THEN "lookup" ELSE "lock")
  /\ UNCHANGED <<req, result, answer, tx, pending, snapshot, rows>>

\* SELECT by idempotency key: another request's row is a conflict, a row that
\* fails its digest an error, and otherwise its event is the answer.
Lookup(a) ==
  /\ pc[a] = "lookup"
  /\ tx[a] = "open"
  /\ \/ /\ \A row \in Visible(a) : row.key # req[a].key
        /\ Goto(a, "context")
        /\ UNCHANGED result
     \/ \E row \in Visible(a) :
          /\ row.key = req[a].key
          /\ \/ ~SameBinding(row, req[a]) /\ Raise(a, Says("conflict"))
             \/ SameBinding(row, req[a]) /\ ~Intact(row) /\ Raise(a, Says("error"))
             \/ SameBinding(row, req[a]) /\ Intact(row)
                  /\ Return(a, SaysEvent("replay", row.event))
  /\ UNCHANGED <<req, answer, sessionVars, rows>>

\* SELECT by request ID and target.
CheckContext(a) ==
  /\ pc[a] = "context"
  /\ tx[a] = "open"
  /\ IF \E row \in Visible(a) : row.context = req[a].context
       THEN Raise(a, Says("conflict"))
       ELSE Goto(a, "operate") /\ UNCHANGED result
  /\ UNCHANGED <<req, answer, sessionVars, rows>>

\* operation(): no statement, so a lost session is not noticed here.
Operate(a) ==
  /\ pc[a] = "operate"
  /\ \/ Verdict[req[a]] = "reject" /\ Raise(a, Says("rejected"))
     \/ Verdict[req[a]] # "reject" /\ Goto(a, "insert") /\ UNCHANGED result
     \/ "operation" \in Faults /\ Raise(a, Says("error"))
  /\ UNCHANGED <<req, answer, sessionVars, rows>>

\* Mutant: the table has its primary key only.
PrimaryKeyOnly(a) == \E row \in rows : row.key = req[a].key

UniqueViolation(a) == \E row \in rows : Overlaps(row, req[a])

\* INSERT under PRIMARY KEY (idempotency_key) and UNIQUE (request_id, target):
\* waits for the uncommitted row of another transaction, fails on a committed one.
Insert(a) ==
  /\ pc[a] = "insert"
  /\ tx[a] = "open"
  /\ \A b \in Attempts : \A row \in pending[b] : ~Overlaps(row, req[a])
  /\ IF UniqueViolation(a)
       THEN Raise(a, Says("error")) /\ UNCHANGED pending
       ELSE /\ Return(a, SaysEvent("fresh", EventOf(req[a])))
            /\ pending' = [pending EXCEPT ![a] = {RowOf(req[a])}]
  /\ UNCHANGED <<req, answer, tx, held, snapshot, rows>>

\* The acknowledgement of COMMIT reaches the thread and execute returns.
Acknowledge(a) ==
  /\ pc[a] = "commit"
  /\ tx[a] = "committed"
  /\ Goto(a, "done")
  /\ answer' = [answer EXCEPT ![a] = result[a]]
  /\ UNCHANGED <<req, result, sessionVars, rows>>

\* Mutant: a COMMIT that raises is taken for one that worked.
CommitErrorIgnored(a) ==
  /\ pc[a] \in {"lock", "lookup", "context", "insert", "commit"}
  /\ tx[a] \in {"none", "orphan", "doubt"}
  /\ Raise(a, IF pc[a] = "commit" THEN result[a] ELSE Says("error"))
  /\ UNCHANGED <<req, answer, sessionVars, rows>>

\* A statement on a session that is gone raises, and so does COMMIT.
StatementFails(a) ==
  /\ pc[a] \in {"lock", "lookup", "context", "insert", "commit"}
  /\ tx[a] \in {"none", "orphan", "doubt"}
  /\ Raise(a, Says("error"))
  /\ UNCHANGED <<req, answer, sessionVars, rows>>

\* A statement or the COMMIT raises although its session is alive: the disk is
\* full, or the server's settings allow a timeout or a cancellation.
StatementRefused(a) ==
  /\ "statement" \in Faults
  /\ pc[a] \in {"lock", "lookup", "context", "insert", "commit"}
  /\ tx[a] = "open"
  /\ Raise(a, Says("error"))
  /\ UNCHANGED <<req, answer, sessionVars, rows>>

\* except ... raise, finally close: a failing rollback is swallowed.
Rollback(a) ==
  /\ pc[a] = "rollback"
  /\ Goto(a, "done")
  /\ answer' = [answer EXCEPT ![a] = result[a]]
  /\ IF tx[a] = "open" THEN EndTransaction(a, "none") ELSE UNCHANGED sessionVars
  /\ UNCHANGED <<req, result, rows>>

-----------------------------------------------------------------------------
(* The database, and what may go wrong.                                    *)

\* COMMIT takes effect: the thread waits for it, or is gone ("doubt").
Commit(a) ==
  /\ (pc[a] = "commit" /\ tx[a] = "open") \/ tx[a] = "doubt"
  /\ rows' = rows \cup pending[a]
  /\ EndTransaction(a, IF tx[a] = "open" THEN "committed" ELSE "none")
  /\ UNCHANGED <<req, threadVars>>

\* The backend of a session whose client is gone gives up.
Abort(a) ==
  /\ tx[a] \in {"orphan", "doubt"}
  /\ EndTransaction(a, "none")
  /\ UNCHANGED <<req, threadVars, rows>>

\* A session loses its client: a COMMIT already sent may still take effect.
LoseClient(a) ==
  tx' = [tx EXCEPT ![a] = CASE @ = "committed" -> "none"
                            [] @ = "open" /\ pc[a] = "commit" -> "doubt"
                            [] @ = "open" /\ pc[a] # "commit" -> "orphan"
                            [] OTHER -> @]

\* The connection breaks, or the backend or the database server goes away.
SessionFails(a) ==
  /\ "session" \in Faults
  /\ tx[a] \in {"open", "committed"}
  /\ pc[a] # "done"
  /\ LoseClient(a)
  /\ UNCHANGED <<req, threadVars, held, pending, snapshot, rows>>

\* The gateway process dies: its clients get no answer.
Crash(a) ==
  /\ "crash" \in Faults
  /\ pc[a] \notin {"done", "crashed"}
  /\ Goto(a, "crashed")
  /\ LoseClient(a)
  /\ UNCHANGED <<req, result, answer, held, pending, snapshot, rows>>

\* event_json is overwritten by someone other than the gateway.
Tamper(row) ==
  /\ "tamper" \in Faults
  /\ rows' = (rows \ {row}) \cup {[row EXCEPT !.event = Tampered]}
  /\ UNCHANGED <<req, threadVars, sessionVars>>

Thread(a) ==
  \/ Begin(a)
  \/ AcquireLock(a)
  \/ Lookup(a)
  \/ CheckContext(a)
  \/ Operate(a)
  \/ Insert(a)
  \/ Acknowledge(a)
  \/ StatementFails(a)
  \/ Rollback(a)

Database(a) == Commit(a) \/ Abort(a)

Failure(a) == ConnectFails(a) \/ StatementRefused(a) \/ SessionFails(a) \/ Crash(a)

\* execute has ended in every attempt and no session is left.
Finished ==
  /\ \A a \in Attempts : pc[a] \in {"done", "crashed"}
  /\ \A a \in Attempts : tx[a] \in {"none", "committed"}
  /\ UNCHANGED vars

Next ==
  \/ \E a \in Attempts : Thread(a) \/ Database(a) \/ Failure(a)
  \/ \E row \in rows : Tamper(row)
  \/ Finished

Spec == Init /\ [][Next]_vars

\* A thread that can run does, the operation and the database answer, and the
\* backend of a lost client ends; nothing has to fail.
FairSpec ==
  /\ Spec
  /\ \A a \in Attempts : WF_vars(Thread(a)) /\ WF_vars(Database(a))

-----------------------------------------------------------------------------
(* Properties.                                                             *)

\* Every variable holds what the comment beside its declaration says.
TypeOK ==
  /\ req \in [Attempts -> Requests]
  /\ pc \in [Attempts -> {"start", "lock", "lookup", "context", "operate",
                          "insert", "commit", "rollback", "done", "crashed"}]
  /\ result \in [Attempts -> Answer]
  /\ answer \in [Attempts -> Answer]
  /\ tx \in [Attempts -> {"none", "open", "orphan", "doubt", "committed"}]
  /\ held \in [Attempts -> SUBSET LockRange]
  /\ pending \in [Attempts -> SUBSET Row]
  /\ snapshot \in [Attempts -> SUBSET Row]
  /\ rows \in SUBSET Row

\* No two committed or uncommitted rows share a key or a context, whatever
\* the isolation level and whichever sessions died (the two constraints).
Uncommitted == UNION {pending[a] : a \in Attempts}

OneRowPerBinding ==
  \A r, s \in rows \cup Uncommitted :
    r.key = s.key \/ r.context = s.context => r.sha = s.sha /\ r.key = s.key

\* The session is alive between its last look-up and the end of its
\* transaction, on the way to adding a row.
Admitting(a) ==
  \/ tx[a] = "open" /\ pc[a] \in {"operate", "insert"}
  \/ pending[a] # {}

\* Under read committed the two locks make the look-ups still true when the
\* operation runs and the row is written: nobody else is admitting the same
\* key or context and no committed row has appeared since.
AdmissionExclusive ==
  \A a \in Attempts :
    Admitting(a) =>
      /\ \A row \in rows : ~Overlaps(row, req[a])
      /\ \A b \in Attempts \ {a} : Admitting(b) => ~Overlaps(req[b], req[a])

\* a's session waits for a lock of b's, or for b's uncommitted row.
WaitsFor(a, b) ==
  \/ /\ tx[a] \in {"open", "orphan"}
     /\ NextLock(a) \cap held[b] # {}
  \/ /\ tx[a] = "open" /\ pc[a] = "insert"
     /\ \E row \in pending[b] : Overlaps(row, req[a])

\* No set of sessions waits only for itself, whatever lock names collide in
\* the 64-bit hash: this is what sorting the two keys is for.
NoDeadlock ==
  \A S \in SUBSET Attempts :
    S # {} => \E a \in S : \A b \in S : ~WaitsFor(a, b)

\* An event told to a client is the one whose digest is durable under the
\* client's key, context and package, however it got there.
AnswersDurable ==
  \A a \in Attempts :
    answer[a].kind \in EventAnswers =>
      \E row \in rows :
        /\ row.key = req[a].key
        /\ SameBinding(row, req[a])
        /\ row.sha = answer[a].event

\* Attempts that carry the same request are never told both an event and a
\* conflict, are told the same event, and one of them at most that its own
\* operation made it; errors and lost answers in between change nothing.
RetriesAgree ==
  \A a, b \in Attempts :
    req[a] = req[b] /\ a # b /\ answer[a].kind \in EventAnswers =>
      /\ answer[b].kind # "conflict"
      /\ answer[b].kind \in EventAnswers => answer[b].event = answer[a].event
      /\ answer[a].kind = "fresh" => answer[b].kind # "fresh"

\* The ledger the rows stand for: tampering with event_json is not a change of
\* what was admitted, because the digest gives it away.
Promise == INSTANCE AdmissionLedger WITH
  ledger <- {[key |-> row.key, context |-> row.context,
              package |-> row.package, event |-> row.sha] : row \in rows}

ImplementsPromise == Promise!Spec

\* execute ends in every attempt whose process lives, whoever else fails.
EveryAttemptEnds == \A a \in Attempts : <>(pc[a] \in {"done", "crashed"})
=============================================================================
