----------------------------- MODULE SQLiteLedger -----------------------------
(***************************************************************************)
(* SQLiteAdmissionLedger.execute, called by the handler threads of one     *)
(* gateway process against a local file in journal_mode DELETE, and the    *)
(* restarts of that process.                                               *)
(*                                                                         *)
(* BEGIN IMMEDIATE makes the thread the only writer or gives up after the  *)
(* busy timeout.  COMMIT is atomic: the rollback journal is SQLite's.      *)
(***************************************************************************)
EXTENDS AdmissionRequests

CONSTANT Faults   \* what may go wrong

ASSUME FaultsAssumption == Faults \subseteq {"crash", "io", "operation", "tamper"}

VARIABLES
  req,      \* the request each attempt carries
  pc,       \* where in execute the handler thread is
  result,   \* what execute is about to return or raise
  answer,   \* what execute returned or raised
  writers,  \* the threads between BEGIN IMMEDIATE and the end: one at most
  added,    \* the row the writer inserted
  file      \* the committed rows of the table "admissions"

vars == <<req, pc, result, answer, writers, added, file>>

Goto(a, label) == pc' = [pc EXCEPT ![a] = label]

Return(a, ans) ==
  /\ Goto(a, "commit")
  /\ result' = [result EXCEPT ![a] = ans]

Raise(a, ans) ==
  /\ Goto(a, "rollback")
  /\ result' = [result EXCEPT ![a] = ans]

\* execute returns or raises and its connection is closed.
End(a, ans) ==
  /\ Goto(a, "done")
  /\ answer' = [answer EXCEPT ![a] = ans]

Init ==
  /\ req \in [Attempts -> Requests]
  /\ pc = [a \in Attempts |-> "start"]
  /\ result = [a \in Attempts |-> Says("pending")]
  /\ answer = [a \in Attempts |-> Says("pending")]
  /\ writers = {}
  /\ added = {}
  /\ file = {}

-----------------------------------------------------------------------------
\* _connect: open the file and set the busy timeout.
Connect(a) ==
  /\ pc[a] = "start"
  /\ Goto(a, "begin")
  /\ UNCHANGED <<req, result, answer, writers, added, file>>

\* Mutant: a deferred BEGIN takes no lock.
DeferredBegin(a) ==
  /\ pc[a] = "begin"
  /\ writers' = writers \cup {a}
  /\ Goto(a, "lookup")
  /\ UNCHANGED <<req, result, answer, added, file>>

\* BEGIN IMMEDIATE, once there is no writer.
BeginImmediate(a) ==
  /\ pc[a] = "begin"
  /\ writers = {}
  /\ writers' = {a}
  /\ Goto(a, "lookup")
  /\ UNCHANGED <<req, result, answer, added, file>>

\* The writer outlasts the 30 seconds of the busy timeout: there is no
\* transaction to roll back.
BusyTimeout(a) ==
  /\ pc[a] = "begin"
  /\ writers # {}
  /\ End(a, Says("error"))
  /\ UNCHANGED <<req, result, writers, added, file>>

\* The file cannot be opened, a PRAGMA or BEGIN IMMEDIATE raises: there is no
\* transaction to roll back here either.
ConnectFails(a) ==
  /\ "io" \in Faults
  /\ pc[a] \in {"start", "begin"}
  /\ End(a, Says("error"))
  /\ UNCHANGED <<req, result, writers, added, file>>

\* SELECT by idempotency key.
Lookup(a) ==
  /\ pc[a] = "lookup"
  /\ \/ /\ \A row \in file : row.key # req[a].key
        /\ Goto(a, "context")
        /\ UNCHANGED result
     \/ \E row \in file :
          /\ row.key = req[a].key
          /\ \/ ~SameBinding(row, req[a]) /\ Raise(a, Says("conflict"))
             \/ SameBinding(row, req[a]) /\ ~Intact(row) /\ Raise(a, Says("error"))
             \/ SameBinding(row, req[a]) /\ Intact(row)
                  /\ Return(a, SaysEvent("replay", row.event))
  /\ UNCHANGED <<req, answer, writers, added, file>>

\* SELECT by request ID and target.
CheckContext(a) ==
  /\ pc[a] = "context"
  /\ IF \E row \in file : row.context = req[a].context
       THEN Raise(a, Says("conflict"))
       ELSE Goto(a, "operate") /\ UNCHANGED result
  /\ UNCHANGED <<req, answer, writers, added, file>>

\* operation(), with every other admission waiting for it.
Operate(a) ==
  /\ pc[a] = "operate"
  /\ \/ Verdict[req[a]] = "reject" /\ Raise(a, Says("rejected"))
     \/ Verdict[req[a]] # "reject" /\ Goto(a, "insert") /\ UNCHANGED result
     \/ "operation" \in Faults /\ Raise(a, Says("error"))
  /\ UNCHANGED <<req, answer, writers, added, file>>

\* INSERT; the table has both constraints here as well.
Insert(a) ==
  /\ pc[a] = "insert"
  /\ IF \E row \in file : Overlaps(row, req[a])
       THEN Raise(a, Says("error")) /\ UNCHANGED added
       ELSE Return(a, SaysEvent("fresh", EventOf(req[a]))) /\ added' = {RowOf(req[a])}
  /\ UNCHANGED <<req, answer, writers, file>>

\* Mutant: a COMMIT that raises is taken for one that worked.
CommitErrorIgnored(a) ==
  /\ "io" \in Faults
  /\ pc[a] \in {"lookup", "context", "insert", "commit"}
  /\ Raise(a, IF pc[a] = "commit" THEN result[a] ELSE Says("error"))
  /\ UNCHANGED <<req, answer, writers, added, file>>

\* A statement or the COMMIT raises sqlite3.Error: disk full, I/O error.
StatementFails(a) ==
  /\ "io" \in Faults
  /\ pc[a] \in {"lookup", "context", "insert", "commit"}
  /\ Raise(a, Says("error"))
  /\ UNCHANGED <<req, answer, writers, added, file>>

\* COMMIT: the row is durable and the file unlocked.
Commit(a) ==
  /\ pc[a] = "commit"
  /\ file' = file \cup added
  /\ added' = {}
  /\ writers' = writers \ {a}
  /\ Goto(a, "return")
  /\ UNCHANGED <<req, result, answer>>

\* return LedgerResult: the process may die between the commit and this.
ReturnResult(a) ==
  /\ pc[a] = "return"
  /\ End(a, result[a])
  /\ UNCHANGED <<req, result, writers, added, file>>

\* Mutant: a failed attempt neither rolls back nor closes its connection.
LeaveOpen(a) ==
  /\ pc[a] = "rollback"
  /\ End(a, result[a])
  /\ UNCHANGED <<req, result, writers, added, file>>

\* except BaseException: ROLLBACK, raise, close.  A ROLLBACK that fails
\* replaces what is being raised, and leaves the undoing to close.
Rollback(a) ==
  /\ pc[a] = "rollback"
  /\ added' = {}
  /\ writers' = writers \ {a}
  /\ \/ End(a, result[a])
     \/ "io" \in Faults /\ End(a, Says("error"))
  /\ UNCHANGED <<req, result, file>>

-----------------------------------------------------------------------------
Running(a) == pc[a] \notin {"start", "done", "crashed"}

\* The gateway process dies with every thread in it and is started again: the
\* lock and the uncommitted row go, the file stays.
Crash ==
  /\ "crash" \in Faults
  /\ \E a \in Attempts : Running(a)
  /\ pc' = [a \in Attempts |-> IF Running(a) THEN "crashed" ELSE pc[a]]
  /\ writers' = {}
  /\ added' = {}
  /\ UNCHANGED <<req, result, answer, file>>

\* event_json is overwritten while no transaction is open.
Tamper(row) ==
  /\ "tamper" \in Faults
  /\ writers = {}
  /\ file' = (file \ {row}) \cup {[row EXCEPT !.event = Tampered]}
  /\ UNCHANGED <<req, pc, result, answer, writers, added>>

Thread(a) ==
  \/ Connect(a)
  \/ BeginImmediate(a)
  \/ BusyTimeout(a)
  \/ ConnectFails(a)
  \/ Lookup(a)
  \/ CheckContext(a)
  \/ Operate(a)
  \/ Insert(a)
  \/ StatementFails(a)
  \/ Commit(a)
  \/ ReturnResult(a)
  \/ Rollback(a)

\* execute has ended in every attempt.
Finished == (\A a \in Attempts : pc[a] \in {"done", "crashed"}) /\ UNCHANGED vars

Next ==
  \/ \E a \in Attempts : Thread(a)
  \/ Crash
  \/ \E row \in file : Tamper(row)
  \/ Finished

Spec == Init /\ [][Next]_vars

\* Threads that can run do: SQLite answers, and the operation ends.
FairSpec == Spec /\ \A a \in Attempts : WF_vars(Thread(a))

-----------------------------------------------------------------------------
\* Every variable holds what the comment beside its declaration says.
TypeOK ==
  /\ req \in [Attempts -> Requests]
  /\ pc \in [Attempts -> {"start", "begin", "lookup", "context", "operate", "insert",
                          "commit", "return", "rollback", "done", "crashed"}]
  /\ result \in [Attempts -> Answer]
  /\ answer \in [Attempts -> Answer]
  /\ writers \in SUBSET Attempts
  /\ added \in SUBSET Row
  /\ file \in SUBSET Row

\* One thread at a time is between BEGIN IMMEDIATE and the end of its
\* transaction, and its look-ups stay true until its row is written.
OneWriter ==
  \A a \in Attempts :
    pc[a] \in {"lookup", "context", "operate", "insert", "commit", "rollback"} =>
      /\ writers = {a}
      /\ pc[a] \in {"operate", "insert"} => \A row \in file : ~Overlaps(row, req[a])

\* Attempts that carry the same request are never told both an event and a
\* conflict, and are told the same event, whatever happened to the process.
RetriesAgree ==
  \A a, b \in Attempts :
    req[a] = req[b] /\ a # b /\ answer[a].kind \in EventAnswers =>
      /\ answer[b].kind # "conflict"
      /\ answer[b].kind \in EventAnswers => answer[b].event = answer[a].event

\* The ledger the durable rows stand for.
Promise == INSTANCE AdmissionLedger WITH
  ledger <- {[key |-> row.key, context |-> row.context,
              package |-> row.package, event |-> row.sha] : row \in file}

ImplementsPromise == Promise!Spec

\* No exit of execute leaves the file locked against the other threads: the
\* writer lock is free again and again.
FileUnlocked == []<>(writers = {})
=============================================================================
