------------------------- MODULE PostgresLedgerProofs -------------------------
(***************************************************************************)
(* Theorems of PostgresLedger for any attempts, requests, lock keys and    *)
(* faults.                                                                 *)
(***************************************************************************)
EXTENDS PostgresLedger, RequestLemmas, WellFoundedInduction, NaturalsInduction, TLAPS

-----------------------------------------------------------------------------
(* Least and greatest lock keys                                            *)

\* A non-empty set of naturals has a least one.
LEMMA LeastKey ==
  ASSUME NEW T, T \subseteq Nat, T # {}
  PROVE  \E x \in T : \A y \in T : x <= y
<1>1. PICK x \in T : \A y \in T : ~(<<y, x>> \in OpToRel(<, Nat))
  BY NatLessThanWellFounded, WFMin
<1>2. \A y \in T : ~(y < x)
  BY <1>1 DEF OpToRel
<1> QED BY <1>2

\* A non-empty set of bounded lock keys has a greatest one: of the locks that a set
\* of sessions wants, one comes last.
LEMMA GreatestKey ==
  ASSUME NEW bound \in Int, NEW S, S \subseteq Int, S # {}, \A x \in S : x <= bound
  PROVE  \E x \in S : \A y \in S : y <= x
<1> DEFINE T == {bound - x : x \in S}
<1>1. T \subseteq Nat /\ T # {}
  <2>1. \A x \in S : bound - x \in Nat
    OBVIOUS
  <2> QED BY <2>1
<1> HIDE DEF T
<1>2. PICK t \in T : \A y \in T : t <= y
  BY <1>1, LeastKey
<1>3. PICK x \in S : t = bound - x
  BY <1>2 DEF T
<1>4. \A y \in S : bound - x <= bound - y
  BY <1>2, <1>3 DEF T
<1>5. \A y \in S : y <= x
  <2> SUFFICES ASSUME NEW y \in S PROVE y <= x
    OBVIOUS
  <2>1. bound - x <= bound - y /\ x \in Int /\ y \in Int
    BY <1>4
  <2> QED BY <2>1
<1> QED BY <1>5

-----------------------------------------------------------------------------
(* Type correctness.                                                       *)

\* The lock names of an attempt have keys in the range of the hash.
LEMMA LocksInRange ==
  ASSUME req \in [Attempts -> Requests], NEW a \in Attempts
  PROVE  Locks(a) \subseteq LockRange
BY RequestParts, LockKeyAssumption DEF Locks, LockNames

\* Only a request with an event reaches the INSERT.
InsertsAreVerified ==
  \A a \in Attempts : pc[a] = "insert" => Verdict[req[a]] # "reject"

TypeInv == TypeOK /\ InsertsAreVerified

\* Every action keeps every variable in its type.
LEMMA TypeStep == TypeInv /\ [Next]_vars => TypeInv'
<1> SUFFICES ASSUME TypeInv, [Next]_vars PROVE TypeInv'
  OBVIOUS
<1> USE DEF TypeInv, TypeOK, InsertsAreVerified
<1>1. ASSUME NEW a \in Attempts, Begin(a) PROVE TypeInv'
  BY <1>1 DEF Begin, Goto
<1>2. ASSUME NEW a \in Attempts, AcquireLock(a) PROVE TypeInv'
  <2>1. held' \in [Attempts -> SUBSET LockRange]
    BY <1>2, LocksInRange DEF AcquireLock, NextLock, Missing
  <2> QED BY <1>2, <2>1 DEF AcquireLock, Goto
<1>3. ASSUME NEW a \in Attempts, Lookup(a) PROVE TypeInv'
  <2>1. Visible(a) \subseteq Row
    BY DEF Visible
  <2>2. \A row \in Visible(a) : Intact(row) => row.event \in Event
    BY <2>1 DEF Intact, Row
  <2>3. result' \in [Attempts -> Answer]
    BY <1>3, <2>2, AnswerIsTyped DEF Lookup, Raise, Return, AnswerKinds, EventAnswers
  <2> QED BY <1>3, <2>3 DEF Lookup, Goto, Raise, Return, sessionVars
<1>4. ASSUME NEW a \in Attempts, CheckContext(a) PROVE TypeInv'
  BY <1>4, AnswerIsTyped DEF CheckContext, Goto, Raise, sessionVars, AnswerKinds
<1>5. ASSUME NEW a \in Attempts, Operate(a) PROVE TypeInv'
  BY <1>5, AnswerIsTyped DEF Operate, Goto, Raise, sessionVars, AnswerKinds
<1>6. ASSUME NEW a \in Attempts, Insert(a) PROVE TypeInv'
  <2>1. EventOf(req[a]) \in Event /\ RowOf(req[a]) \in Row
    BY <1>6, RowIsTyped DEF Insert
  <2> QED BY <1>6, <2>1, AnswerIsTyped
          DEF Insert, Goto, Raise, Return, AnswerKinds, EventAnswers
<1>7. ASSUME NEW a \in Attempts, Acknowledge(a) \/ Rollback(a) PROVE TypeInv'
  BY <1>7 DEF Acknowledge, Rollback, Goto, EndTransaction, sessionVars
<1>8. ASSUME NEW a \in Attempts, StatementFails(a) \/ StatementRefused(a) PROVE TypeInv'
  BY <1>8, AnswerIsTyped DEF StatementFails, StatementRefused, Raise, Goto, sessionVars, AnswerKinds
<1>9. ASSUME NEW a \in Attempts, Commit(a) \/ Abort(a) PROVE TypeInv'
  BY <1>9 DEF Commit, Abort, EndTransaction, threadVars
<1>10. ASSUME NEW a \in Attempts, ConnectFails(a) PROVE TypeInv'
  BY <1>10, AnswerIsTyped DEF ConnectFails, Goto, sessionVars, AnswerKinds
<1>11. ASSUME NEW a \in Attempts, SessionFails(a) PROVE TypeInv'
  BY <1>11 DEF SessionFails, LoseClient, threadVars
<1>12. ASSUME NEW a \in Attempts, Crash(a) PROVE TypeInv'
  BY <1>12 DEF Crash, LoseClient, Goto
<1>13. ASSUME NEW row \in rows, Tamper(row) PROVE TypeInv'
  <2>1. [row EXCEPT !.event = Tampered] \in Row
    BY <1>13 DEF Row
  <2> QED BY <1>13, <2>1 DEF Tamper, threadVars, sessionVars
<1>14. CASE UNCHANGED vars
  BY <1>14 DEF vars, threadVars, sessionVars
<1> QED
  BY <1>1, <1>2, <1>3, <1>4, <1>5, <1>6, <1>7, <1>8, <1>9, <1>10, <1>11, <1>12,
     <1>13, <1>14 DEF Next, Thread, Database, Failure, Finished

\* The ledger keeps its types whatever fails: TypeOK of the TLC runs.
THEOREM TypeCorrect == Spec => []TypeOK
<1>1. Init => TypeInv
  BY AnswerIsTyped DEF Init, TypeInv, TypeOK, InsertsAreVerified, AnswerKinds
<1>2. TypeInv => TypeOK
  BY DEF TypeInv
<1> QED BY <1>1, <1>2, TypeStep, PTL DEF Spec

-----------------------------------------------------------------------------
(* Locks.                                                                  *)

\* A session that has ended holds nothing, and none exists before Begin.
EndedHoldNothing ==
  /\ \A a \in Attempts :
       tx[a] \in {"none", "committed"} => held[a] = {} /\ pending[a] = {}
  /\ \A a \in Attempts : pc[a] = "start" => tx[a] = "none"

HeldAreWanted == \A a \in Attempts : held[a] \subseteq Locks(a)

\* Past the loop over lock_keys an open session has both locks, and keeps them
\* as long as it has a row.
FullyLocked ==
  \A a \in Attempts :
    \/ /\ tx[a] = "open"
       /\ pc[a] \in {"lookup", "context", "operate", "insert", "commit"}
    \/ pending[a] # {}
    => held[a] = Locks(a)

LocksExclusive ==
  \A a, b \in Attempts : a # b => held[a] \cap held[b] = {}

\* What a session holds is below what it still wants.
TakenInOrder ==
  \A a \in Attempts : \A l \in held[a], m \in Missing(a) : l < m

LockInv ==
  /\ EndedHoldNothing
  /\ HeldAreWanted
  /\ FullyLocked
  /\ LocksExclusive
  /\ TakenInOrder

\* A step that takes no lock keeps the order and the exclusion of locks.
LEMMA LocksOnlyReleased ==
  ASSUME LockInv, UNCHANGED req,
         \A b \in Attempts : held'[b] = held[b] \/ held'[b] = {}
  PROVE  HeldAreWanted' /\ LocksExclusive' /\ TakenInOrder'
<1>1. \A b \in Attempts : Locks(b)' = Locks(b)
  BY DEF Locks
<1>2. HeldAreWanted' /\ LocksExclusive'
  BY <1>1 DEF LockInv, HeldAreWanted, LocksExclusive
<1>3. TakenInOrder'
  <2> SUFFICES ASSUME NEW b \in Attempts, held'[b] = held[b]
               PROVE  \A l \in held'[b], m \in Missing(b)' : l < m
    BY DEF TakenInOrder
  <2> QED BY <1>1 DEF LockInv, TakenInOrder, Missing
<1> QED BY <1>2, <1>3

\* The end of a's transaction keeps the locking invariant.
LEMMA EndKeepsLocks ==
  ASSUME TypeInv, LockInv, UNCHANGED req, NEW a \in Attempts,
         NEW state \in {"none", "committed"}, EndTransaction(a, state),
         pc[a] # "start", \A b \in Attempts : b # a => pc'[b] = pc[b],
         pc'[a] # "start"
  PROVE  LockInv'
<1> USE DEF TypeInv, TypeOK, EndTransaction
<1>1. HeldAreWanted' /\ LocksExclusive' /\ TakenInOrder'
  BY LocksOnlyReleased
<1>2. EndedHoldNothing'
  BY DEF LockInv, EndedHoldNothing
<1>3. FullyLocked'
  <2> SUFFICES ASSUME NEW b \in Attempts, b # a,
                      \/ /\ tx[b] = "open"
                         /\ pc[b] \in {"lookup", "context", "operate", "insert", "commit"}
                      \/ pending[b] # {}
               PROVE  held'[b] = Locks(b)'
    BY DEF FullyLocked
  <2> QED BY DEF LockInv, FullyLocked, Locks
<1> QED BY <1>1, <1>2, <1>3 DEF LockInv

\* Every action keeps the locking invariant.
LEMMA LockStep == TypeInv /\ LockInv /\ [Next]_vars => LockInv'
<1> SUFFICES ASSUME TypeInv, LockInv, [Next]_vars PROVE LockInv'
  OBVIOUS
<1> USE DEF TypeInv, TypeOK
<1>1. ASSUME NEW a \in Attempts, AcquireLock(a) PROVE LockInv'
  <2> PICK l \in NextLock(a) :
        /\ \A b \in Attempts : l \notin held[b]
        /\ held' = [held EXCEPT ![a] = @ \cup {l}]
        /\ Goto(a, IF Missing(a) = {l} THEN "lookup" ELSE "lock")
    BY <1>1 DEF AcquireLock
  <2>1. l \in Missing(a) /\ \A m \in Missing(a) : l <= m
    BY DEF NextLock
  <2>2. /\ UNCHANGED <<req, tx, pending>> /\ tx[a] = "open" /\ pc[a] = "lock"
        /\ \A b \in Attempts : Locks(b)' = Locks(b)
    BY <1>1 DEF AcquireLock, Locks
  <2>3. EndedHoldNothing'
    BY <2>2 DEF LockInv, EndedHoldNothing, Goto
  <2>4. HeldAreWanted'
    BY <2>1, <2>2 DEF LockInv, HeldAreWanted, Missing
  <2>5. LocksExclusive'
    BY <2>1, <2>2 DEF LockInv, LocksExclusive
  <2>6. FullyLocked'
    <3>1. ASSUME Missing(a) = {l} PROVE held'[a] = Locks(a)
      BY <3>1, <2>4, <2>2 DEF HeldAreWanted, Missing
    <3>2. pending[a] # {} => Missing(a) = {}
      BY DEF LockInv, FullyLocked, Missing
    <3>3. ASSUME NEW b \in Attempts, b # a,
                 \/ /\ tx'[b] = "open"
                    /\ pc'[b] \in {"lookup", "context", "operate", "insert", "commit"}
                 \/ pending'[b] # {}
          PROVE  held'[b] = Locks(b)'
      BY <3>3, <2>2 DEF LockInv, FullyLocked, Goto
    <3> QED BY <2>1, <2>2, <3>1, <3>2, <3>3 DEF FullyLocked, Goto
  <2>7. TakenInOrder'
    <3>1. Locks(a) \subseteq Int
      BY LocksInRange, LockKeyAssumption DEF LockRange
    <3>2. \A m \in Missing(a) \ {l} : l < m
      BY <2>1, <3>1 DEF Missing
    <3>3. Missing(a)' = Missing(a) \ {l}
      BY <2>1, <2>2 DEF Missing
    <3>4. \A b \in Attempts : b # a => held'[b] = held[b] /\ Missing(b)' = Missing(b)
      BY <2>2 DEF Missing
    <3> QED BY <3>2, <3>3, <3>4 DEF LockInv, TakenInOrder
  <2> QED BY <2>3, <2>4, <2>5, <2>6, <2>7 DEF LockInv
<1>2. ASSUME NEW a \in Attempts, Rollback(a) /\ tx[a] = "open" PROVE LockInv'
  BY <1>2, EndKeepsLocks DEF Rollback, Goto
<1>3. ASSUME NEW a \in Attempts, Commit(a) \/ Abort(a) PROVE LockInv'
  <2>1. pc[a] # "start" /\ UNCHANGED <<req, pc>>
    BY <1>3 DEF Commit, Abort, threadVars, LockInv, EndedHoldNothing
  <2> QED BY <1>3, <2>1, EndKeepsLocks DEF Commit, Abort
<1>4. ASSUME UNCHANGED <<req, held>>, EndedHoldNothing', FullyLocked' PROVE LockInv'
  BY <1>4, LocksOnlyReleased DEF LockInv
<1> USE DEF LockInv, EndedHoldNothing, FullyLocked, Locks
<1>5. ASSUME NEW a \in Attempts, Begin(a) PROVE LockInv'
  BY <1>4, <1>5 DEF Begin, Goto
<1>6. ASSUME NEW a \in Attempts, Lookup(a) PROVE LockInv'
  BY <1>4, <1>6 DEF Lookup, Goto, Raise, Return, sessionVars
<1>7. ASSUME NEW a \in Attempts, CheckContext(a) \/ Operate(a) PROVE LockInv'
  BY <1>4, <1>7 DEF CheckContext, Operate, Goto, Raise, sessionVars
<1>8. ASSUME NEW a \in Attempts, Insert(a) PROVE LockInv'
  BY <1>4, <1>8 DEF Insert, Goto, Raise, Return
<1>9. ASSUME NEW a \in Attempts,
             \/ Acknowledge(a) \/ StatementFails(a) \/ StatementRefused(a) \/ ConnectFails(a)
             \/ Rollback(a) /\ tx[a] # "open"
      PROVE  LockInv'
  BY <1>4, <1>9
  DEF Acknowledge, StatementFails, StatementRefused, ConnectFails, Rollback, Goto, Raise, sessionVars
<1>10. ASSUME NEW a \in Attempts, SessionFails(a) PROVE LockInv'
  BY <1>4, <1>10 DEF SessionFails, LoseClient, threadVars
<1>11. ASSUME NEW a \in Attempts, Crash(a) PROVE LockInv'
  BY <1>4, <1>11 DEF Crash, LoseClient, Goto
<1>12. ASSUME NEW row \in rows, Tamper(row) PROVE LockInv'
  BY <1>4, <1>12 DEF Tamper, threadVars, sessionVars
<1>13. CASE UNCHANGED vars
  BY <1>4, <1>13 DEF vars, threadVars, sessionVars
<1> QED
  BY <1>1, <1>2, <1>3, <1>5, <1>6, <1>7, <1>8, <1>9, <1>10, <1>11, <1>12, <1>13
  DEF Next, Thread, Database, Failure, Finished

\* Overlapping requests share a lock, so two sessions cannot both have theirs.
LEMMA FullyLockedApart ==
  ASSUME TypeInv, LockInv, NEW a \in Attempts, NEW b \in Attempts, a # b,
         held[a] = Locks(a), held[b] = Locks(b)
  PROVE  ~Overlaps(req[a], req[b])
<1> SUFFICES ASSUME Overlaps(req[a], req[b]) PROVE Locks(a) \cap Locks(b) # {}
  BY DEF LockInv, LocksExclusive
<1> QED BY DEF Overlaps, Locks

-----------------------------------------------------------------------------
(* Bindings: one row for a key and one for a context.                      *)

\* An uncommitted row is the one its own request asks for.
PendingIsOwn ==
  \A a \in Attempts :
    /\ pending[a] \subseteq {RowOf(req[a])}
    /\ pending[a] # {} => Verdict[req[a]] # "reject"

RowsFollowInsert ==
  \A a \in Attempts :
    pending[a] # {} => pc[a] \in {"commit", "rollback", "done", "crashed"}

\* No committed row has the key or the context of an uncommitted one.
PendingIsNew ==
  \A a \in Attempts : pending[a] # {} => \A row \in rows : ~Overlaps(row, req[a])

RowsApart == \A r, s \in rows : Overlaps(r, s) => r = s

BindInv == PendingIsOwn /\ RowsFollowInsert /\ PendingIsNew /\ RowsApart

\* The names an uncommitted row carries.
LEMMA PendingNames ==
  ASSUME BindInv, NEW a \in Attempts, NEW row \in pending[a]
  PROVE  row.key = req[a].key /\ row.context = req[a].context
<1>1. row = RowOf(req[a])
  BY DEF BindInv, PendingIsOwn
<1> QED BY <1>1 DEF RowOf

\* Every action keeps the binding invariant.
LEMMA BindStep == TypeInv /\ LockInv /\ BindInv /\ [Next]_vars => BindInv'
<1> SUFFICES ASSUME TypeInv, LockInv, BindInv, [Next]_vars PROVE BindInv'
  OBVIOUS
<1> USE DEF TypeInv, TypeOK
<1>1. ASSUME NEW a \in Attempts, Insert(a) PROVE BindInv'
  <2>1. Verdict[req[a]] # "reject"
    BY <1>1 DEF Insert, InsertsAreVerified
  <2> QED BY <1>1, <2>1
          DEF Insert, Goto, Raise, Return, UniqueViolation, BindInv, PendingIsOwn,
              RowsFollowInsert, PendingIsNew, RowsApart
<1>2. ASSUME NEW a \in Attempts, Commit(a) PROVE BindInv'
  <2>1. \A row \in pending[a] : row = RowOf(req[a]) /\ \A r \in rows : ~Overlaps(r, row)
    BY DEF BindInv, PendingIsOwn, PendingIsNew, RowOf, Overlaps
  <2>2. \A b \in Attempts : b # a /\ pending[b] # {} /\ pending[a] # {} =>
          ~Overlaps(req[a], req[b])
    BY FullyLockedApart DEF LockInv, FullyLocked
  <2>3. /\ rows' = rows \cup pending[a]
        /\ pending' = [pending EXCEPT ![a] = {}]
        /\ UNCHANGED <<req, pc>>
    BY <1>2 DEF Commit, EndTransaction, threadVars
  <2>4. PendingIsOwn' /\ RowsFollowInsert'
    BY <2>3 DEF BindInv, PendingIsOwn, RowsFollowInsert
  <2>5. PendingIsNew'
    BY <2>1, <2>2, <2>3 DEF BindInv, PendingIsNew, RowOf, Overlaps
  <2>6. RowsApart'
    BY <2>1, <2>3 DEF BindInv, RowsApart, PendingIsOwn, Overlaps
  <2> QED BY <2>4, <2>5, <2>6 DEF BindInv
<1>3. ASSUME NEW row \in rows, Tamper(row) PROVE BindInv'
  <2> DEFINE tampered == [row EXCEPT !.event = Tampered]
  <2>1. /\ tampered.key = row.key /\ tampered.context = row.context
        /\ rows' = (rows \ {row}) \cup {tampered}
        /\ UNCHANGED <<req, pc, pending>>
    BY <1>3 DEF Tamper, threadVars, sessionVars, Row
  <2> HIDE DEF tampered
  <2>2. PendingIsOwn' /\ RowsFollowInsert' /\ PendingIsNew'
    BY <2>1 DEF BindInv, PendingIsOwn, RowsFollowInsert, PendingIsNew, Overlaps
  <2>3. RowsApart'
    BY <2>1 DEF BindInv, RowsApart, Overlaps
  <2> QED BY <2>2, <2>3 DEF BindInv
<1>4. ASSUME UNCHANGED <<req, rows>>, RowsFollowInsert',
             \A a \in Attempts : pending'[a] = pending[a] \/ pending'[a] = {}
      PROVE  BindInv'
  BY <1>4 DEF BindInv, PendingIsOwn, PendingIsNew, RowsApart
<1> USE DEF BindInv, RowsFollowInsert
<1>5. ASSUME NEW a \in Attempts,
             \/ Begin(a) \/ AcquireLock(a) \/ Lookup(a) \/ CheckContext(a) \/ Operate(a)
             \/ Acknowledge(a) \/ StatementFails(a) \/ StatementRefused(a) \/ ConnectFails(a)
      PROVE  BindInv'
  BY <1>4, <1>5
  DEF Begin, AcquireLock, Lookup, CheckContext, Operate, Acknowledge, StatementFails, StatementRefused,
      ConnectFails, Goto, Raise, Return, sessionVars
<1>6. ASSUME NEW a \in Attempts, Rollback(a) \/ Abort(a) PROVE BindInv'
  BY <1>4, <1>6 DEF Rollback, Abort, EndTransaction, Goto, threadVars, sessionVars
<1>7. ASSUME NEW a \in Attempts, SessionFails(a) \/ Crash(a) PROVE BindInv'
  BY <1>4, <1>7 DEF SessionFails, Crash, Goto, threadVars
<1>8. CASE UNCHANGED vars
  BY <1>4, <1>8 DEF vars, threadVars, sessionVars
<1> QED
  BY <1>1, <1>2, <1>3, <1>5, <1>6, <1>7, <1>8
  DEF Next, Thread, Database, Failure, Finished

\* Types, locks and bindings hold of every behaviour.
LEMMA BindingsCorrect == Spec => [](TypeInv /\ LockInv /\ BindInv)
<1>1. Init => TypeInv /\ LockInv
  BY AnswerIsTyped
  DEF Init, TypeInv, TypeOK, InsertsAreVerified, AnswerKinds, LockInv,
      EndedHoldNothing, HeldAreWanted, FullyLocked, LocksExclusive, TakenInOrder
<1>2. Init => BindInv
  BY DEF Init, BindInv, PendingIsOwn, RowsFollowInsert, PendingIsNew, RowsApart
<1> QED BY <1>1, <1>2, TypeStep, LockStep, BindStep, PTL DEF Spec

\* The primary key, the unique constraint and the locks leave one row for a
\* key and one for a context, at every isolation level and after any failure.
THEOREM UniqueBindings == Spec => []OneRowPerBinding
<1>1. TypeInv /\ LockInv /\ BindInv => OneRowPerBinding
  <2> SUFFICES ASSUME TypeInv, LockInv, BindInv,
                      NEW r \in rows \cup Uncommitted, NEW s \in rows \cup Uncommitted,
                      Overlaps(r, s)
               PROVE  r = s
    BY DEF OneRowPerBinding, Overlaps
  <2>1. CASE r \in rows /\ s \in rows
    BY <2>1 DEF BindInv, RowsApart
  <2>2. ASSUME NEW x \in rows, NEW a \in Attempts, NEW y \in pending[a]
        PROVE  ~Overlaps(x, y)
    BY DEF BindInv, PendingIsOwn, PendingIsNew, RowOf, Overlaps
  <2>3. ASSUME NEW a \in Attempts, NEW b \in Attempts,
               NEW x \in pending[a], NEW y \in pending[b], Overlaps(x, y)
        PROVE  x = y
    <3>1. Overlaps(req[a], req[b]) /\ x = RowOf(req[a]) /\ y = RowOf(req[b])
      BY <2>3 DEF BindInv, PendingIsOwn, RowOf, Overlaps
    <3>2. a = b
      BY <3>1, FullyLockedApart DEF LockInv, FullyLocked
    <3> QED BY <3>1, <3>2
  <2> QED BY <2>1, <2>2, <2>3 DEF Uncommitted, Overlaps
<1> QED BY <1>1, BindingsCorrect, PTL

\* The session that wants the greatest of the next locks of a set of sessions
\* waits for none of them.
LEMMA OrderPreventsDeadlock == TypeInv /\ LockInv /\ BindInv => NoDeadlock
<1> SUFFICES ASSUME TypeInv, LockInv, BindInv, NEW S \in SUBSET Attempts, S # {},
                    \A a \in S : \E b \in S : WaitsFor(a, b)
             PROVE  FALSE
  BY DEF NoDeadlock
<1>1. \A a \in S : \E b \in S : NextLock(a) \cap held[b] # {}
  <2> SUFFICES ASSUME NEW a \in S, NEW b \in S, tx[a] = "open", pc[a] = "insert",
                      NEW row \in pending[b], Overlaps(row, req[a])
               PROVE  NextLock(a) \cap held[b] # {}
    BY DEF WaitsFor
  <2>1. held[a] = Locks(a) /\ held[b] = Locks(b)
    BY DEF LockInv, FullyLocked
  <2>2. a # b
    BY DEF BindInv, RowsFollowInsert
  <2>3. Overlaps(req[b], req[a])
    BY DEF BindInv, PendingIsOwn, RowOf, Overlaps
  <2> QED BY <2>1, <2>2, <2>3, FullyLockedApart
<1> DEFINE Wanted == UNION {NextLock(a) : a \in S}
<1>2. Wanted \subseteq LockRange /\ Wanted # {}
  BY <1>1, LocksInRange DEF NextLock, Missing, TypeInv, TypeOK
<1>3. PICK g \in Wanted : \A m \in Wanted : m <= g
  <2> HIDE DEF Wanted
  <2>1. LockBound \in Int /\ Wanted \subseteq Int /\ \A m \in Wanted : m <= LockBound
    BY <1>2, LockKeyAssumption DEF LockRange
  <2> QED BY <1>2, <2>1, GreatestKey
<1>4. PICK a \in S : g \in NextLock(a)
  OBVIOUS
<1>5. PICK b \in S : NextLock(a) \cap held[b] # {}
  BY <1>1
<1>6. g \in held[b]
  <2>1. PICK h \in NextLock(a) : h \in held[b]
    BY <1>5
  <2>2. h <= g /\ g <= h /\ h \in Int /\ g \in Int
    BY <1>2, <1>4, LockKeyAssumption DEF NextLock, LockRange
  <2> QED BY <2>1, <2>2
<1>7. PICK k \in NextLock(b) : TRUE
  BY <1>1
<1>8. g < k
  BY <1>6, <1>7 DEF NextLock, LockInv, TakenInOrder
<1>9. k <= g
  BY <1>3, <1>7
<1> QED BY <1>2, <1>7, <1>8, <1>9, LockKeyAssumption DEF LockRange

\* Sorting the advisory locks rules deadlock out, whatever lock names collide.
THEOREM NeverDeadlocked == Spec => []NoDeadlock
BY BindingsCorrect, OrderPreventsDeadlock, PTL

-----------------------------------------------------------------------------
(* Exclusion: what the look-ups saw is still so when the row is written.   *)

\* The first look-up found no row for the key, and none has come since.
KeyStillFree ==
  \A a \in Attempts :
    tx[a] = "open" /\ pc[a] = "context" =>
      \A row \in rows : row.key # req[a].key

\* Both look-ups found none.
BothStillFree ==
  \A a \in Attempts : Admitting(a) => \A row \in rows : ~Overlaps(row, req[a])

FreeInv == KeyStillFree /\ BothStillFree

\* Under read committed every action keeps what the look-ups found.
LEMMA FreeStep ==
  ASSUME Isolation = "read committed"
  PROVE  TypeInv /\ LockInv /\ BindInv /\ FreeInv /\ [Next]_vars => FreeInv'
<1> SUFFICES ASSUME TypeInv, LockInv, BindInv, FreeInv, [Next]_vars PROVE FreeInv'
  OBVIOUS
<1> USE DEF TypeInv, TypeOK, FreeInv, KeyStillFree, BothStillFree, Admitting
<1>1. ASSUME NEW a \in Attempts, Commit(a) PROVE FreeInv'
  <2>1. /\ rows' = rows \cup pending[a]
        /\ UNCHANGED <<req, pc>>
        /\ pending' = [pending EXCEPT ![a] = {}]
        /\ \A b \in Attempts : b # a => tx'[b] = tx[b]
        /\ tx'[a] # "open"
    BY <1>1 DEF Commit, EndTransaction, threadVars
  <2>2. \A row \in pending[a] : row.key = req[a].key /\ row.context = req[a].context
    BY PendingNames
  <2>3. ASSUME NEW b \in Attempts, b # a, pending[a] # {},
               (tx[b] = "open" /\ pc[b] = "context") \/ Admitting(b)
        PROVE  ~Overlaps(req[a], req[b])
    BY <2>3, FullyLockedApart DEF LockInv, FullyLocked
  <2> QED BY <2>1, <2>2, <2>3 DEF Overlaps
<1>2. ASSUME NEW row \in rows, Tamper(row) PROVE FreeInv'
  <2> DEFINE tampered == [row EXCEPT !.event = Tampered]
  <2>1. /\ tampered.key = row.key /\ tampered.context = row.context
        /\ rows' = (rows \ {row}) \cup {tampered}
        /\ UNCHANGED <<req, pc, tx, pending>>
    BY <1>2 DEF Tamper, threadVars, sessionVars, Row
  <2> HIDE DEF tampered
  <2> QED BY <2>1 DEF Overlaps
<1>3. ASSUME NEW a \in Attempts, Lookup(a) PROVE FreeInv'
  BY <1>3 DEF Lookup, Visible, Goto, Raise, Return, sessionVars
<1>4. ASSUME NEW a \in Attempts, CheckContext(a) PROVE FreeInv'
  <2>1. /\ UNCHANGED <<req, rows, pending, tx>>
        /\ \/ pc' = [pc EXCEPT ![a] = "rollback"]
           \/ /\ pc' = [pc EXCEPT ![a] = "operate"]
              /\ \A row \in rows : row.context # req[a].context
        /\ tx[a] = "open" /\ pc[a] = "context"
    BY <1>4 DEF CheckContext, Visible, Goto, Raise, sessionVars
  <2>2. KeyStillFree'
    BY <2>1
  <2>3. \A b \in Attempts \ {a} : Admitting(b)' => Admitting(b)
    BY <2>1
  <2>4. Admitting(a)' => \A row \in rows : ~Overlaps(row, req[a])
    BY <2>1 DEF Overlaps
  <2> HIDE DEF Admitting
  <2> QED  BY <2>1, <2>2, <2>3, <2>4
<1>5. ASSUME NEW a \in Attempts, Insert(a) PROVE FreeInv'
  BY <1>5 DEF Insert, UniqueViolation, Goto, Raise, Return
<1>6. ASSUME UNCHANGED <<req, rows, pending>>,
             \A b \in Attempts :
               tx'[b] = "open" /\ pc'[b] = "context" => tx[b] = "open" /\ pc[b] = "context",
             \A b \in Attempts :
               tx'[b] = "open" /\ pc'[b] \in {"operate", "insert"} =>
                 tx[b] = "open" /\ pc[b] \in {"operate", "insert"}
      PROVE  FreeInv'
  BY <1>6
<1>7. ASSUME NEW a \in Attempts, Begin(a) PROVE FreeInv'
  BY <1>6, <1>7 DEF Begin, Goto
<1>8. ASSUME NEW a \in Attempts, AcquireLock(a) PROVE FreeInv'
  BY <1>6, <1>8 DEF AcquireLock, Goto
<1>9. ASSUME NEW a \in Attempts, Operate(a) PROVE FreeInv'
  BY <1>6, <1>9 DEF Operate, Goto, Raise, sessionVars
<1>10. ASSUME NEW a \in Attempts, Acknowledge(a) \/ ConnectFails(a) PROVE FreeInv'
  BY <1>6, <1>10 DEF Acknowledge, ConnectFails, Goto, sessionVars
<1>11. ASSUME NEW a \in Attempts, StatementFails(a) \/ StatementRefused(a) PROVE FreeInv'
  BY <1>6, <1>11 DEF StatementFails, StatementRefused, Goto, Raise, sessionVars
<1>12. ASSUME NEW a \in Attempts, SessionFails(a) \/ Crash(a) PROVE FreeInv'
  BY <1>6, <1>12, ZenonT(60) DEF SessionFails, Crash, LoseClient, Goto, threadVars
<1>13. ASSUME NEW a \in Attempts, Rollback(a) \/ Abort(a) PROVE FreeInv'
  BY <1>13 DEF Rollback, Abort, EndTransaction, Goto, threadVars, sessionVars
<1>14. CASE UNCHANGED vars
  BY <1>6, <1>14 DEF vars, threadVars, sessionVars
<1> QED
  BY <1>1, <1>2, <1>3, <1>4, <1>5, <1>7, <1>8, <1>9, <1>10, <1>11, <1>12, <1>13, <1>14
  DEF Next, Thread, Database, Failure, Finished

\* With the default isolation, one live session at a time runs the operation
\* for a key or a context, and only while neither is in the table.
THEOREM ExclusiveAdmission ==
  ASSUME Isolation = "read committed"
  PROVE  Spec => []AdmissionExclusive
<1>1. Init => FreeInv
  BY DEF Init, FreeInv, KeyStillFree, BothStillFree
<1>2. TypeInv /\ LockInv /\ FreeInv => AdmissionExclusive
  BY FullyLockedApart
  DEF AdmissionExclusive, Admitting, LockInv, FullyLocked, FreeInv, BothStillFree
<1> QED BY <1>1, <1>2, TypeStep, LockStep, BindStep, FreeStep, BindingsCorrect, PTL DEF Spec

-----------------------------------------------------------------------------
(* Answers: what the durable rows justify, under either isolation level.   *)

\* The rows of a snapshot are still there, and what it did not show a look-up it
\* goes on not to show.
SnapInv ==
  \A a \in Attempts :
    /\ Within(snapshot[a], rows)
    /\ Isolation = "repeatable read" /\ tx[a] = "open" /\ pc[a] = "context" =>
         \A row \in snapshot[a] : row.key # req[a].key

\* Every answer is justified by the durable rows, from where it is decided to
\* where it is given; a fresh one is once its row is committed.
AnswerOf(a) ==
  /\ pc[a] # "done" => answer[a] = Says("pending")
  /\ pc[a] = "rollback" => JustRefused(rows, req[a], result[a])
  /\ pc[a] = "commit" =>
       \/ pending[a] = {} /\ JustReplayed(rows, req[a], result[a])
       \/ /\ result[a] = SaysEvent("fresh", EventOf(req[a]))
          /\ tx[a] = "open" => pending[a] = {RowOf(req[a])}
          /\ tx[a] = "committed" => JustFresh(rows, req[a], result[a])
  /\ pc[a] = "done" => Just(rows, req[a], answer[a])

AnswerInv == \A a \in Attempts : AnswerOf(a)

\* a is told, or is about to be told, that its own operation made the entry.
Claims(a) ==
  \/ pc[a] = "commit" /\ tx[a] = "committed" /\ result[a].kind = "fresh"
  \/ pc[a] = "done" /\ answer[a].kind = "fresh"

FreshInv ==
  \A a, b \in Attempts : Claims(a) /\ Claims(b) /\ req[a].key = req[b].key => a = b

StableInv ==
  /\ TypeInv /\ LockInv /\ BindInv
  /\ Isolation = "read committed" => FreeInv
  /\ SnapInv /\ AnswerInv /\ FreshInv

\* Rows are added and tampered with, never removed.
LEMMA RowsGrow ==
  ASSUME TypeInv, [Next]_vars
  PROVE  Within(rows, rows') /\ req' = req
<1> USE DEF TypeInv, TypeOK
<1>1. rows' = rows => Within(rows, rows')
  BY DEF Within, SameEntry
<1>2. ASSUME NEW row \in rows, Tamper(row)
      PROVE  Within(rows, rows') /\ req' = req
  <2> DEFINE tampered == [row EXCEPT !.event = Tampered]
  <2>1. SameEntry(row, tampered) /\ rows' = (rows \ {row}) \cup {tampered} /\ req' = req
    BY <1>2 DEF Tamper, SameEntry, Row
  <2> HIDE DEF tampered
  <2> QED  BY <2>1 DEF Within, SameEntry
<1>3. ASSUME NEW a \in Attempts, Commit(a)
      PROVE  Within(rows, rows') /\ req' = req
  BY <1>3 DEF Commit, Within, SameEntry
<1>4. ASSUME NEW a \in Attempts,
             \/ Begin(a) \/ AcquireLock(a) \/ Lookup(a) \/ CheckContext(a) \/ Operate(a)
             \/ Insert(a) \/ Acknowledge(a) \/ StatementFails(a) \/ StatementRefused(a) \/ ConnectFails(a)
             \/ Rollback(a) \/ Abort(a) \/ SessionFails(a) \/ Crash(a)
      PROVE  rows' = rows /\ req' = req
  BY <1>4 DEF Begin, AcquireLock, Lookup, CheckContext, Operate, Insert, Acknowledge,
              StatementFails, StatementRefused, ConnectFails, Rollback, Abort, SessionFails, Crash
<1>5. CASE UNCHANGED vars
  BY <1>1, <1>5 DEF vars
<1> QED  BY <1>1, <1>2, <1>3, <1>4, <1>5 DEF Next, Thread, Database, Failure, Finished

\* What is visible to a session is durable.
LEMMA VisibleIsDurable ==
  ASSUME StableInv, NEW a \in Attempts
  PROVE  Within(Visible(a), rows)
BY DEF StableInv, SnapInv, Visible, Within, SameEntry

\* Every action keeps the snapshots.
LEMMA SnapStep ==
  ASSUME StableInv, [Next]_vars
  PROVE  SnapInv'
<1> USE DEF StableInv, TypeInv, TypeOK
<1>1. Within(rows, rows') /\ req' = req
  BY RowsGrow
<1>2. \A a \in Attempts : Within(snapshot[a], rows')
  BY <1>1, WithinTrans DEF SnapInv
<1>3. ASSUME \A a \in Attempts :
               /\ snapshot'[a] \in {snapshot[a], {}}
               /\ tx'[a] = "open" /\ pc'[a] = "context" => tx[a] = "open" /\ pc[a] = "context"
      PROVE  SnapInv'
  <2>1. Within({}, rows')
    BY DEF Within
  <2> QED  BY <1>1, <1>2, <1>3, <2>1 DEF SnapInv
<1>4. ASSUME NEW a \in Attempts, Begin(a)
      PROVE  SnapInv'
  <2>1. Within({}, rows') /\ Within(rows, rows')
    BY <1>1 DEF Within
  <2>2. /\ snapshot' = [snapshot EXCEPT ![a] =
                          IF Isolation = "repeatable read" THEN rows ELSE {}]
        /\ pc' = [pc EXCEPT ![a] = "lock"]
        /\ tx' = [tx EXCEPT ![a] = "open"]
    BY <1>4 DEF Begin, Goto
  <2>3. \A b \in Attempts : b # a =>
          snapshot'[b] = snapshot[b] /\ pc'[b] = pc[b] /\ tx'[b] = tx[b]
    BY <2>2
  <2>4. pc'[a] = "lock" /\ snapshot'[a] \in {rows, {}}
    BY <2>2
  <2> QED  BY <1>1, <1>2, <2>1, <2>3, <2>4 DEF SnapInv
<1>5. ASSUME NEW a \in Attempts, Lookup(a)
      PROVE  SnapInv'
  <2>1. snapshot' = snapshot /\ tx' = tx
    BY <1>5 DEF Lookup, sessionVars
  <2>2. pc'[a] = "context" => \A row \in Visible(a) : row.key # req[a].key
    BY <1>5 DEF Lookup, Goto, Raise, Return
  <2>3. \A b \in Attempts : b # a => pc'[b] = pc[b]
    BY <1>5 DEF Lookup, Goto, Raise, Return
  <2> QED  BY <1>1, <1>2, <2>1, <2>2, <2>3 DEF SnapInv, Visible
<1>6. ASSUME NEW a \in Attempts,
             \/ AcquireLock(a) \/ CheckContext(a) \/ Operate(a) \/ Insert(a) \/ Acknowledge(a)
             \/ StatementFails(a) \/ StatementRefused(a) \/ ConnectFails(a)
      PROVE  SnapInv'
  BY <1>3, <1>6 DEF AcquireLock, CheckContext, Operate, Insert, Acknowledge, StatementFails, StatementRefused,
                    ConnectFails, Goto, Raise, Return, sessionVars
<1>7. ASSUME NEW a \in Attempts, Rollback(a)
      PROVE  SnapInv'
  BY <1>3, <1>7 DEF Rollback, EndTransaction, Goto, sessionVars
<1>8. ASSUME NEW a \in Attempts, Commit(a) \/ Abort(a)
      PROVE  SnapInv'
  BY <1>3, <1>8 DEF Commit, Abort, EndTransaction, threadVars
<1>9. ASSUME NEW a \in Attempts, SessionFails(a) \/ Crash(a)
      PROVE  SnapInv'
  BY <1>3, <1>9 DEF SessionFails, Crash, LoseClient, Goto, threadVars
<1>10. CASE (\E row \in rows : Tamper(row)) \/ UNCHANGED vars
  BY <1>3, <1>10 DEF Tamper, vars, threadVars, sessionVars
<1> QED  BY <1>4, <1>5, <1>6, <1>7, <1>8, <1>9, <1>10
         DEF Next, Thread, Database, Failure, Finished

\* What a step does to others leaves an attempt's answer justified.
LEMMA AnswerStays ==
  ASSUME NEW a \in Attempts, AnswerOf(a), Within(rows, rows'), req' = req,
         pc'[a] = pc[a], result'[a] = result[a], answer'[a] = answer[a],
         tx'[a] = tx[a], pending'[a] = pending[a]
  PROVE  AnswerOf(a)'
BY AnswersStayJust DEF AnswerOf, Just

\* Every action keeps the answers justified.
LEMMA AnswerStep ==
  ASSUME StableInv, [Next]_vars
  PROVE  AnswerInv'
<1> USE DEF StableInv, TypeInv, TypeOK
<1>1. Within(rows, rows') /\ req' = req
  BY RowsGrow
<1>2. ASSUME NEW a \in Attempts, AnswerOf(a)',
             \A b \in Attempts \ {a} :
               /\ pc'[b] = pc[b] /\ result'[b] = result[b] /\ answer'[b] = answer[b]
               /\ tx'[b] = tx[b] /\ pending'[b] = pending[b]
      PROVE  AnswerInv'
  BY <1>1, <1>2, AnswerStays DEF AnswerInv
<1>3. ASSUME NEW a \in Attempts,
             Begin(a) \/ AcquireLock(a) \/ ConnectFails(a)
      PROVE  AnswerInv'
  <2>1. AnswerOf(a)'
    BY <1>3 DEF Begin, AcquireLock, ConnectFails, Goto, AnswerInv, AnswerOf, Just, JustRefused
  <2> QED  BY <1>2, <1>3, <2>1 DEF Begin, AcquireLock, ConnectFails, Goto, sessionVars
<1>4. ASSUME NEW a \in Attempts, Lookup(a)
      PROVE  AnswerInv'
  <2>1. ASSUME NEW row \in Visible(a), row.key = req[a].key, SameBinding(row, req[a]), Intact(row),
               Return(a, SaysEvent("replay", row.event))
        PROVE  AnswerOf(a)'
    <3>1. JustReplayed(Visible(a), req[a], SaysEvent("replay", row.event))
      BY <2>1 DEF JustReplayed, Holds, Intact
    <3>2. JustReplayed(rows, req[a], SaysEvent("replay", row.event))
      BY <3>1, VisibleIsDurable, AnswersStayJust
    <3>3. pending[a] = {}
      BY <1>4 DEF Lookup, BindInv, RowsFollowInsert
    <3> QED  BY <1>4, <2>1, <3>2, <3>3 DEF Lookup, Return, Goto, sessionVars, AnswerInv, AnswerOf
  <2>2. ASSUME NEW row \in Visible(a), row.key = req[a].key, ~SameBinding(row, req[a]),
               Raise(a, Says("conflict"))
        PROVE  AnswerOf(a)'
    <3>1. JustRefused(Visible(a), req[a], Says("conflict"))
      BY <2>2 DEF JustRefused, Holds, Overlaps
    <3>2. JustRefused(rows, req[a], Says("conflict"))
      BY <3>1, VisibleIsDurable, AnswersStayJust
    <3> QED  BY <1>4, <2>2, <3>2 DEF Lookup, Raise, Goto, sessionVars, AnswerInv, AnswerOf
  <2>3. ASSUME Raise(a, Says("error"))
        PROVE  AnswerOf(a)'
    BY <1>4, <2>3 DEF Lookup, Raise, Goto, AnswerInv, AnswerOf, JustRefused
  <2>4. ASSUME Goto(a, "context")
        PROVE  AnswerOf(a)'
    BY <1>4, <2>4 DEF Lookup, Goto, AnswerInv, AnswerOf
  <2>5. AnswerOf(a)'
    BY <1>4, <2>1, <2>2, <2>3, <2>4 DEF Lookup
  <2> QED  BY <1>2, <1>4, <2>5 DEF Lookup, Raise, Return, Goto, sessionVars
<1>5. ASSUME NEW a \in Attempts, CheckContext(a)
      PROVE  AnswerInv'
  <2>1. CASE \E row \in Visible(a) : row.context = req[a].context
    <3>1. \A row \in Visible(a) : row.key # req[a].key
      <4>1. tx[a] = "open" /\ pc[a] = "context"
        BY <1>5 DEF CheckContext
      <4>2. CASE Isolation = "read committed"
        BY <4>1, <4>2 DEF FreeInv, KeyStillFree, Visible
      <4>3. CASE Isolation = "repeatable read"
        BY <4>1, <4>3 DEF SnapInv, Visible
      <4> QED  BY <4>2, <4>3, SettingsAssumption
    <3>2. JustRefused(Visible(a), req[a], Says("conflict"))
      BY <2>1, <3>1 DEF JustRefused, Overlaps, Holds
    <3>3. JustRefused(rows, req[a], Says("conflict"))
      BY <3>2, VisibleIsDurable, AnswersStayJust
    <3>4. AnswerOf(a)'
      BY <1>5, <2>1, <3>3 DEF CheckContext, Raise, Goto, AnswerInv, AnswerOf
    <3> QED  BY <1>2, <1>5, <2>1, <3>4 DEF CheckContext, Raise, Goto, sessionVars
  <2>2. CASE ~\E row \in Visible(a) : row.context = req[a].context
    <3>1. AnswerOf(a)'
      BY <1>5, <2>2 DEF CheckContext, Goto, AnswerInv, AnswerOf
    <3> QED  BY <1>2, <1>5, <2>2, <3>1 DEF CheckContext, Goto, sessionVars
  <2> QED  BY <2>1, <2>2
<1>6. ASSUME NEW a \in Attempts, Operate(a)
      PROVE  AnswerInv'
  <2>1. AnswerOf(a)'
    BY <1>6 DEF Operate, Raise, Goto, AnswerInv, AnswerOf, JustRefused
  <2> QED  BY <1>2, <1>6, <2>1 DEF Operate, Raise, Goto, sessionVars
<1>7. ASSUME NEW a \in Attempts, Insert(a)
      PROVE  AnswerInv'
  <2>1. AnswerOf(a)'
    BY <1>7 DEF Insert, Raise, Return, Goto, AnswerInv, AnswerOf, JustRefused
  <2> QED  BY <1>2, <1>7, <2>1 DEF Insert, Raise, Return, Goto
<1>8. ASSUME NEW a \in Attempts, StatementFails(a) \/ StatementRefused(a)
      PROVE  AnswerInv'
  <2>1. AnswerOf(a)'
    BY <1>8 DEF StatementFails, StatementRefused, Raise, Goto, AnswerInv, AnswerOf, JustRefused
  <2> QED  BY <1>2, <1>8, <2>1 DEF StatementFails, StatementRefused, Raise, Goto, sessionVars
<1>9. ASSUME NEW a \in Attempts, Acknowledge(a)
      PROVE  AnswerInv'
  <2>1. JustReplayed(rows, req[a], result[a]) \/ JustFresh(rows, req[a], result[a])
    BY <1>9 DEF Acknowledge, AnswerInv, AnswerOf
  <2>2. AnswerOf(a)'
    BY <1>9, <2>1 DEF Acknowledge, Goto, AnswerInv, AnswerOf, Just
  <2> QED  BY <1>2, <1>9, <2>2 DEF Acknowledge, Goto, sessionVars
<1>10. ASSUME NEW a \in Attempts, Rollback(a)
       PROVE  AnswerInv'
  <2>1. AnswerOf(a)'
    BY <1>10 DEF Rollback, Goto, AnswerInv, AnswerOf, Just
  <2> QED  BY <1>2, <1>10, <2>1 DEF Rollback, EndTransaction, Goto, sessionVars
<1>11. ASSUME NEW a \in Attempts, Commit(a)
       PROVE  AnswerInv'
  <2>1. /\ rows' = rows \cup pending[a] /\ UNCHANGED <<pc, result, answer>>
        /\ pending' = [pending EXCEPT ![a] = {}]
        /\ \A b \in Attempts \ {a} : tx'[b] = tx[b]
        /\ pc[a] = "commit" => tx[a] \in {"open", "doubt"}
        /\ tx[a] = "doubt" => tx'[a] = "none"
        /\ tx[a] = "open" => tx'[a] = "committed"
    BY <1>11 DEF Commit, EndTransaction, threadVars
  <2>2. ASSUME pending[a] = {RowOf(req[a])}, result[a] = SaysEvent("fresh", EventOf(req[a]))
        PROVE  JustFresh(rows', req[a], result[a])
    <3>1. RowOf(req[a]) \in rows'
      BY <2>1, <2>2
    <3> QED  BY <2>2, <3>1 DEF JustFresh, Holds, SameBinding, RowOf
  <2>3. /\ JustReplayed(rows, req[a], result[a]) => JustReplayed(rows', req[a], result[a])
        /\ JustRefused(rows, req[a], result[a]) => JustRefused(rows', req[a], result[a])
        /\ Just(rows, req[a], answer[a]) => Just(rows', req[a], answer[a])
    BY <1>1, AnswersStayJust DEF Just
  <2>4. AnswerOf(a)
    BY DEF AnswerInv
  <2>5. pending'[a] = {}
    BY <2>1
  <2>6. tx[a] \in {"open", "doubt"}
    BY <1>11 DEF Commit
  <2>7. ASSUME pc[a] = "commit" PROVE AnswerOf(a)'
    BY <1>1, <2>1, <2>2, <2>3, <2>4, <2>5, <2>6, <2>7 DEF AnswerOf
  <2>8. ASSUME pc[a] # "commit" PROVE AnswerOf(a)'
    BY <1>1, <2>1, <2>3, <2>4, <2>8 DEF AnswerOf
  <2> QED  BY <1>2, <2>1, <2>7, <2>8
<1>12. ASSUME NEW a \in Attempts, Abort(a)
       PROVE  AnswerInv'
  <2>1. /\ UNCHANGED <<req, rows, pc, result, answer>>
        /\ pending'[a] = {} /\ tx'[a] = "none"
        /\ \A b \in Attempts \ {a} : tx'[b] = tx[b] /\ pending'[b] = pending[b]
    BY <1>12 DEF Abort, EndTransaction, threadVars
  <2>2. AnswerOf(a)'
    BY <2>1 DEF AnswerInv, AnswerOf
  <2> QED  BY <1>2, <2>1, <2>2
<1>13. ASSUME NEW a \in Attempts, SessionFails(a)
       PROVE  AnswerInv'
  <2>1. /\ UNCHANGED <<req, rows, pc, result, answer, pending>>
        /\ tx'[a] \notin {"open", "committed"}
        /\ \A b \in Attempts \ {a} : tx'[b] = tx[b]
    BY <1>13 DEF SessionFails, LoseClient, threadVars
  <2>2. AnswerOf(a)'
    BY <2>1 DEF AnswerInv, AnswerOf
  <2> QED  BY <1>2, <2>1, <2>2
<1>14. ASSUME NEW a \in Attempts, Crash(a)
       PROVE  AnswerInv'
  <2>1. /\ UNCHANGED <<req, rows, result, answer, pending>>
        /\ pc[a] # "done" /\ pc'[a] = "crashed"
        /\ \A b \in Attempts \ {a} : tx'[b] = tx[b] /\ pc'[b] = pc[b]
    BY <1>14 DEF Crash, LoseClient, Goto
  <2>2. AnswerOf(a)'
    BY <2>1 DEF AnswerInv, AnswerOf
  <2> QED  BY <1>2, <2>1, <2>2
<1>15. CASE (\E row \in rows : Tamper(row)) \/ UNCHANGED vars
  BY <1>1, <1>15, AnswerStays DEF Tamper, vars, threadVars, sessionVars, AnswerInv
<1> QED  BY <1>3, <1>4, <1>5, <1>6, <1>7, <1>8, <1>9, <1>10, <1>11, <1>12, <1>13, <1>14, <1>15
         DEF Next, Thread, Database, Failure, Finished

\* A claim rests on a durable row of its request.
LEMMA ClaimHasRow ==
  ASSUME StableInv, NEW a \in Attempts, Claims(a)
  PROVE  \E row \in rows : Holds(row, req[a])
<1>1. CASE pc[a] = "commit" /\ tx[a] = "committed" /\ result[a].kind = "fresh"
  BY <1>1 DEF StableInv, AnswerInv, AnswerOf, JustReplayed, JustFresh
<1>2. CASE pc[a] = "done" /\ answer[a].kind = "fresh"
  BY <1>2, ToldIsDurable DEF StableInv, AnswerInv, AnswerOf, EventAnswers
<1> QED  BY <1>1, <1>2 DEF Claims

\* A claim is made by the commit of one's own row, and by nothing else.
LEMMA ClaimStep ==
  ASSUME StableInv, [Next]_vars, NEW a \in Attempts, Claims(a)'
  PROVE  \/ Claims(a)
         \/ /\ tx[a] = "open" /\ tx'[a] = "committed"
            /\ \A b \in Attempts \ {a} : tx'[b] = tx[b]
            /\ \A row \in rows : ~Overlaps(row, req[a])
<1> USE DEF StableInv, TypeInv, TypeOK
<1>1. ASSUME NEW b \in Attempts, UNCHANGED <<tx, answer>>,
             pc'[b] \notin {"commit", "done"} \/ (pc'[b] = "commit" /\ tx[b] = "open"),
             \A d \in Attempts \ {b} : pc'[d] = pc[d] /\ result'[d] = result[d]
      PROVE  Claims(a)
  BY <1>1 DEF Claims
<1>2. ASSUME NEW b \in Attempts, Begin(b) \/ AcquireLock(b) \/ ConnectFails(b)
      PROVE  Claims(a)
  <2>1. CASE Begin(b)
    BY <2>1 DEF Begin, Goto, Claims
  <2>2. CASE AcquireLock(b)
    <3>1. \/ pc' = [pc EXCEPT ![b] = "lookup"]
          \/ pc' = [pc EXCEPT ![b] = "lock"]
      BY <2>2 DEF AcquireLock, Goto
    <3> QED  BY <1>1, <2>2, <3>1 DEF AcquireLock
  <2>3. CASE ConnectFails(b)
    BY <2>3, AnswerFields DEF ConnectFails, Goto, Claims, sessionVars
  <2> QED  BY <1>2, <2>1, <2>2, <2>3
<1>3. ASSUME NEW b \in Attempts, Lookup(b) \/ CheckContext(b) \/ Operate(b) \/ StatementFails(b) \/ StatementRefused(b)
      PROVE  Claims(a)
  <2>1. \A d \in Attempts \ {b} : pc'[d] = pc[d] /\ result'[d] = result[d]
    BY <1>3 DEF Lookup, CheckContext, Operate, StatementFails, StatementRefused, Return, Raise, Goto
  <2>2. UNCHANGED <<tx, answer>>
    BY <1>3 DEF Lookup, CheckContext, Operate, StatementFails, StatementRefused, sessionVars
  <2>3. pc'[b] \notin {"commit", "done"} \/ (pc'[b] = "commit" /\ tx[b] = "open")
    BY <1>3 DEF Lookup, CheckContext, Operate, StatementFails, StatementRefused, Return, Raise, Goto
  <2> QED  BY <1>1, <2>1, <2>2, <2>3
<1>4. ASSUME NEW b \in Attempts, Insert(b) \/ Acknowledge(b)
      PROVE  Claims(a)
  <2>1. CASE Insert(b)
    <3>1. /\ \A d \in Attempts \ {b} : pc'[d] = pc[d] /\ result'[d] = result[d]
          /\ pc'[b] \in {"commit", "rollback"} /\ tx[b] = "open"
          /\ UNCHANGED <<tx, answer>>
      BY <2>1, ZenonT(60) DEF Insert, Raise, Return, Goto
    <3> QED  BY <1>1, <3>1
  <2>2. CASE Acknowledge(b)
    BY <2>2 DEF Acknowledge, Goto, Claims, sessionVars
  <2> QED  BY <1>4, <2>1, <2>2
<1>5. ASSUME NEW b \in Attempts, Rollback(b)
      PROVE  Claims(a)
  <2>1. result[b].kind # "fresh"
    <3>1. AnswerOf(b) /\ pc[b] = "rollback"
      BY <1>5 DEF Rollback, AnswerInv
    <3>2. JustRefused(rows, req[b], result[b])
      BY <3>1 DEF AnswerOf
    <3> QED  BY <3>2, JustKinds
  <2>2. /\ pc' = [pc EXCEPT ![b] = "done"] /\ answer' = [answer EXCEPT ![b] = result[b]]
        /\ result' = result
        /\ \A d \in Attempts \ {b} : tx'[d] = tx[d]
    BY <1>5 DEF Rollback, EndTransaction, Goto, sessionVars
  <2>3. CASE a = b
    BY <2>1, <2>2, <2>3 DEF Claims
  <2>4. CASE a # b
    BY <2>2, <2>4 DEF Claims
  <2> QED  BY <2>3, <2>4
<1>6. ASSUME NEW b \in Attempts, Commit(b), ~Claims(a)
      PROVE  /\ tx[a] = "open" /\ tx'[a] = "committed"
             /\ \A c \in Attempts \ {a} : tx'[c] = tx[c]
             /\ \A row \in rows : ~Overlaps(row, req[a])
  <2>1. /\ UNCHANGED <<pc, result, answer>>
        /\ \A c \in Attempts \ {b} : tx'[c] = tx[c]
        /\ tx'[b] = "committed" => tx[b] = "open"
    BY <1>6 DEF Commit, EndTransaction, threadVars
  <2>2. a = b /\ tx'[a] = "committed" /\ tx[a] = "open" /\ pc[a] = "commit"
        /\ result[a].kind = "fresh"
    BY <1>6, <2>1 DEF Claims
  <2>3. pending[a] # {}
    <3>1. AnswerOf(a)
      BY DEF AnswerInv
    <3>2. ~JustReplayed(rows, req[a], result[a])
      BY <2>2, JustKinds
    <3> QED  BY <2>2, <3>1, <3>2 DEF AnswerOf
  <2> QED  BY <2>1, <2>2, <2>3 DEF BindInv, PendingIsNew
<1>7. ASSUME NEW b \in Attempts, Abort(b)
      PROVE  Claims(a)
  BY <1>7 DEF Abort, EndTransaction, Claims, threadVars
<1>8. ASSUME NEW b \in Attempts, SessionFails(b) \/ Crash(b)
      PROVE  Claims(a)
  BY <1>8 DEF SessionFails, Crash, LoseClient, Goto, Claims, threadVars
<1>9. CASE (\E row \in rows : Tamper(row)) \/ UNCHANGED vars
  BY <1>9 DEF Tamper, vars, threadVars, sessionVars, Claims
<1> QED  BY <1>1, <1>2, <1>3, <1>4, <1>5, <1>6, <1>7, <1>8, <1>9
         DEF Next, Thread, Database, Failure, Finished

\* Every action keeps claims to a key apart.
LEMMA FreshStep ==
  ASSUME StableInv, [Next]_vars
  PROVE  FreshInv'
<1> SUFFICES ASSUME NEW a \in Attempts, NEW b \in Attempts, Claims(a)', Claims(b)',
                    req'[a].key = req'[b].key
             PROVE  a = b
  BY DEF FreshInv
<1>1. req' = req
  BY RowsGrow DEF StableInv
<1>2. ASSUME NEW c \in Attempts, NEW d \in Attempts, Claims(d),
             \A row \in rows : ~Overlaps(row, req[c]), req[c].key = req[d].key
      PROVE  FALSE
  BY <1>2, ClaimHasRow DEF Holds, Overlaps
<1>3. CASE Claims(a) /\ Claims(b)
  BY <1>1, <1>3 DEF StableInv, FreshInv
<1> QED  BY <1>1, <1>2, <1>3, ClaimStep

\* Types, locks, rows, snapshots, answers and claims hold of every behaviour.
LEMMA StableCorrect == Spec => []StableInv
<1>1. Init => SnapInv /\ AnswerInv /\ FreshInv
  BY DEF Init, SnapInv, Within, AnswerInv, AnswerOf, FreshInv, Claims
<1>2. Init => FreeInv
  BY DEF Init, FreeInv, KeyStillFree, BothStillFree, Admitting
<1>3. Init => TypeInv /\ LockInv
  BY AnswerIsTyped
  DEF Init, TypeInv, TypeOK, InsertsAreVerified, AnswerKinds, LockInv,
      EndedHoldNothing, HeldAreWanted, FullyLocked, LocksExclusive, TakenInOrder
<1>4. Init => BindInv
  BY DEF Init, BindInv, PendingIsOwn, RowsFollowInsert, PendingIsNew, RowsApart
<1>5. Init => StableInv
  BY <1>1, <1>2, <1>3, <1>4 DEF StableInv
<1>6. StableInv /\ [Next]_vars => StableInv'
  <2> SUFFICES ASSUME StableInv, [Next]_vars PROVE StableInv'
    OBVIOUS
  <2>1. TypeInv' /\ LockInv' /\ BindInv'
    BY TypeStep, LockStep, BindStep DEF StableInv
  <2>2. Isolation = "read committed" => FreeInv'
    BY FreeStep DEF StableInv
  <2> QED  BY <2>1, <2>2, SnapStep, AnswerStep, FreshStep DEF StableInv
<1> QED  BY <1>5, <1>6, PTL DEF Spec

\* An event that is told is durable under the client's key, context and package,
\* whatever fails and whatever the isolation level.
THEOREM ToldAreDurable == Spec => []AnswersDurable
<1>1. ASSUME StableInv  PROVE AnswersDurable
  <2> SUFFICES ASSUME NEW a \in Attempts, answer[a].kind \in EventAnswers
               PROVE  \E row \in rows : /\ row.key = req[a].key /\ SameBinding(row, req[a])
                                        /\ row.sha = answer[a].event
    BY DEF AnswersDurable
  <2>1. AnswerOf(a) /\ answer[a] # Says("pending")
    BY <1>1, PendingKind DEF StableInv, AnswerInv, EventAnswers
  <2>2. Just(rows, req[a], answer[a])
    BY <2>1 DEF AnswerOf
  <2> QED  BY <2>2, ToldIsDurable DEF Holds
<1> QED  BY <1>1, StableCorrect, PTL

\* The answers to one request agree, and one at most is fresh.
THEOREM SameAnswers == Spec => []RetriesAgree
<1>1. ASSUME StableInv  PROVE RetriesAgree
  <2> SUFFICES ASSUME NEW a \in Attempts, NEW b \in Attempts, req[a] = req[b], a # b,
                      answer[a].kind \in EventAnswers
               PROVE  /\ answer[b].kind # "conflict"
                      /\ answer[b].kind \in EventAnswers => answer[b].event = answer[a].event
                      /\ answer[a].kind = "fresh" => answer[b].kind # "fresh"
    BY DEF RetriesAgree
  <2>1. \A c \in Attempts : pc[c] # "done" => answer[c].kind = "pending"
    BY <1>1, AnswerFields DEF StableInv, AnswerInv, AnswerOf
  <2>2. \A c \in Attempts : pc[c] = "done" => Just(rows, req[c], answer[c])
    BY <1>1 DEF StableInv, AnswerInv, AnswerOf
  <2>3. pc[a] = "done"
    BY <2>1 DEF EventAnswers
  <2>4. CASE pc[b] = "done"
    <3>1. /\ answer[b].kind # "conflict"
          /\ answer[b].kind \in EventAnswers => answer[b].event = answer[a].event
      <4>1. \A x, y \in rows : Overlaps(x, y) => x = y
        BY <1>1 DEF StableInv, BindInv, RowsApart
      <4>2. Just(rows, req[a], answer[a]) /\ Just(rows, req[a], answer[b])
        BY <2>2, <2>3, <2>4
      <4> QED  BY <4>1, <4>2, JustAgree
    <3>2. answer[a].kind = "fresh" => answer[b].kind # "fresh"
      BY <1>1, <2>3, <2>4 DEF StableInv, FreshInv, Claims
    <3> QED  BY <3>1, <3>2
  <2>5. CASE pc[b] # "done"
    BY <2>1, <2>5 DEF EventAnswers
  <2> QED  BY <2>4, <2>5
<1> QED  BY <1>1, StableCorrect, PTL

-----------------------------------------------------------------------------
(* The promise: both isolation levels keep it.                             *)

\* A justified answer is one of the promise's.
LEMMA JustIsPromised ==
  ASSUME NEW a \in Attempts, answer[a] = Says("pending"), UNCHANGED <<req, rows>>,
         NEW ans, answer' = [answer EXCEPT ![a] = ans],
         \/ JustRefused(rows, req[a], ans)
         \/ JustReplayed(rows, req[a], ans)
         \/ /\ JustFresh(rows, req[a], ans)
            /\ \A b \in Attempts : req[b].key = req[a].key => answer[b].kind # "fresh"
  PROVE  Promise!Next
<1>1. Promise!Tell(a, ans)
  BY DEF Promise!Tell, Promise!Says, Promise!NoEvent, Says, NoEvent
<1>2. CASE ans = Says("error")
  BY <1>1, <1>2 DEF Promise!Next, Promise!AnswerError, Promise!Says, Promise!NoEvent, Says, NoEvent
<1>3. CASE ans = Says("rejected") /\ Verdict[req[a]] = "reject"
  BY <1>1, <1>3
  DEF Promise!Next, Promise!AnswerRejected, Promise!Says, Promise!NoEvent, Says, NoEvent
<1>4. ASSUME ans = Says("conflict"), NEW row \in rows, Overlaps(row, req[a]), ~Holds(row, req[a])
      PROVE  Promise!Next
  <2>1. PICK e \in Durable(rows) : /\ e.key = row.key /\ e.context = row.context
                                   /\ e.package = row.package /\ e.event = row.sha
    BY DurableHas
  <2>2. Promise!Overlaps(e, req[a]) /\ ~(e.key = req[a].key /\ Promise!SameBinding(e, req[a]))
    BY <1>4, <2>1 DEF Promise!Overlaps, Promise!SameBinding, Overlaps, Holds, SameBinding
  <2>3. Promise!AnswerConflict(a)
    BY <1>1, <1>4, <2>2
    DEF Promise!AnswerConflict, Durable, Promise!Says, Promise!NoEvent, Says, NoEvent
  <2> QED  BY <2>3 DEF Promise!Next
<1>5. ASSUME NEW row \in rows, Holds(row, req[a]), ans = SaysEvent("replay", row.sha)
      PROVE  Promise!Next
  <2>1. PICK e \in Durable(rows) : /\ e.key = row.key /\ e.context = row.context
                                   /\ e.package = row.package /\ e.event = row.sha
    BY DurableHas
  <2>2. /\ e.key = req[a].key /\ Promise!SameBinding(e, req[a])
        /\ Promise!Tell(a, Promise!SaysEvent("replay", e.event))
    BY <1>1, <1>5, <2>1 DEF Promise!SameBinding, Holds, SameBinding, Promise!SaysEvent, SaysEvent
  <2>3. Promise!AnswerReplay(a)
    BY <2>2 DEF Promise!AnswerReplay, Durable
  <2> QED  BY <2>3 DEF Promise!Next
<1>6. ASSUME NEW row \in rows, Holds(row, req[a]), row.sha = EventOf(req[a]),
             ans = SaysEvent("fresh", EventOf(req[a])),
             \A b \in Attempts : req[b].key = req[a].key => answer[b].kind # "fresh"
      PROVE  Promise!Next
  <2>1. Promise!EventOf(req[a]) = EventOf(req[a])
    BY DEF Promise!EventOf, EventOf
  <2>2. Promise!EntryOf(req[a]) = [key |-> row.key, context |-> row.context,
                                   package |-> row.package, event |-> row.sha]
    BY <1>6, <2>1 DEF Promise!EntryOf, Holds, SameBinding
  <2>3. Promise!EntryOf(req[a]) \in Durable(rows)
    BY <2>2 DEF Durable
  <2>4. Promise!Tell(a, Promise!SaysEvent("fresh", Promise!EventOf(req[a])))
    BY <1>1, <1>6, <2>1 DEF Promise!SaysEvent, SaysEvent
  <2>5. Promise!AnswerFresh(a)
    BY <1>6, <2>3, <2>4 DEF Promise!AnswerFresh, Durable
  <2> QED  BY <2>5 DEF Promise!Next
<1> QED  BY <1>2, <1>3, <1>4, <1>5, <1>6 DEF JustRefused, JustReplayed, JustFresh

\* The commit of a new row records its entry.
LEMMA CommitIsRecord ==
  ASSUME NEW a \in Attempts, Commit(a), rows' = rows \cup {RowOf(req[a])},
         \A row \in rows : ~Overlaps(row, req[a]), Verdict[req[a]] # "reject"
  PROVE  Promise!Next
<1>1. Durable(rows') = Durable(rows) \cup {Promise!EntryOf(req[a])}
  <2> DEFINE new == RowOf(req[a])
  <2>1. [key |-> new.key, context |-> new.context, package |-> new.package, event |-> new.sha]
          = Promise!EntryOf(req[a])
    BY DEF RowOf, Promise!EntryOf, Promise!EventOf, EventOf
  <2>2. rows' = rows \cup {new}
    OBVIOUS
  <2> HIDE DEF new
  <2> QED  BY <2>1, <2>2 DEF Durable
<1>2. \A e \in Durable(rows) : ~Promise!Overlaps(e, req[a])
  BY DEF Durable, Promise!Overlaps, Overlaps
<1>3. Promise!Record(a)
  BY <1>1, <1>2 DEF Promise!Record, Durable, Commit, threadVars
<1> QED  BY <1>3 DEF Promise!Next

\* Every step is a step of the promise or changes nothing of it.
LEMMA PromiseStep ==
  ASSUME StableInv, [Next]_vars
  PROVE  [Promise!Next]_(Promise!vars)
<1> USE DEF StableInv
<1>1. ASSUME UNCHANGED <<req, answer, rows>>
      PROVE  UNCHANGED Promise!vars
  BY <1>1 DEF Promise!vars
<1>2. ASSUME NEW a \in Attempts,
             \/ Begin(a) \/ AcquireLock(a) \/ Lookup(a) \/ CheckContext(a) \/ Operate(a)
             \/ Insert(a) \/ StatementFails(a) \/ StatementRefused(a) \/ Abort(a) \/ SessionFails(a) \/ Crash(a)
      PROVE  UNCHANGED Promise!vars
  BY <1>1, <1>2 DEF Begin, AcquireLock, Lookup, CheckContext, Operate, Insert, StatementFails, StatementRefused,
                    Abort, SessionFails, Crash, threadVars
<1>3. ASSUME NEW a \in Attempts, ConnectFails(a)
      PROVE  Promise!Next
  <2>1. JustRefused(rows, req[a], Says("error"))
    BY DEF JustRefused
  <2>2. answer[a] = Says("pending")
    BY <1>3 DEF ConnectFails, AnswerInv, AnswerOf
  <2> QED  BY <1>3, <2>1, <2>2, JustIsPromised DEF ConnectFails
<1>4. ASSUME NEW a \in Attempts, Acknowledge(a)
      PROVE  Promise!Next
  <2>1. /\ answer[a] = Says("pending")
        /\ JustReplayed(rows, req[a], result[a]) \/ JustFresh(rows, req[a], result[a])
    BY <1>4 DEF Acknowledge, AnswerInv, AnswerOf
  <2>2. JustFresh(rows, req[a], result[a]) =>
          \A b \in Attempts : req[b].key = req[a].key => answer[b].kind # "fresh"
    <3> SUFFICES ASSUME JustFresh(rows, req[a], result[a]), NEW b \in Attempts,
                        req[b].key = req[a].key, answer[b].kind = "fresh"
                 PROVE  FALSE
      OBVIOUS
    <3>1. Claims(a)
      BY <1>4, JustKinds DEF Acknowledge, Claims
    <3>2. Claims(b)
      BY PendingKind DEF AnswerInv, AnswerOf, Claims
    <3>3. a = b
      BY <3>1, <3>2 DEF FreshInv
    <3> QED  BY <2>1, <3>3, PendingKind
  <2> QED  BY <1>4, <2>1, <2>2, JustIsPromised DEF Acknowledge
<1>5. ASSUME NEW a \in Attempts, Rollback(a)
      PROVE  Promise!Next
  <2>1. answer[a] = Says("pending") /\ JustRefused(rows, req[a], result[a])
    BY <1>5 DEF Rollback, AnswerInv, AnswerOf
  <2> QED  BY <1>5, <2>1, JustIsPromised DEF Rollback
<1>6. ASSUME NEW a \in Attempts, Commit(a)
      PROVE  Promise!Next \/ UNCHANGED Promise!vars
  <2>1. CASE pending[a] = {}
    BY <1>1, <1>6, <2>1 DEF Commit, threadVars
  <2>2. CASE pending[a] # {}
    <3>1. /\ rows' = rows \cup {RowOf(req[a])}
          /\ \A row \in rows : ~Overlaps(row, req[a])
          /\ Verdict[req[a]] # "reject"
      BY <1>6, <2>2 DEF Commit, BindInv, PendingIsOwn, PendingIsNew
    <3> QED  BY <1>6, <3>1, CommitIsRecord
  <2> QED  BY <2>1, <2>2
<1>7. ASSUME NEW row \in rows, Tamper(row)
      PROVE  UNCHANGED Promise!vars
  <2> DEFINE new == [row EXCEPT !.event = Tampered]
  <2>1. SameEntry(row, new) /\ rows' = (rows \ {row}) \cup {new}
    BY <1>7 DEF Tamper, SameEntry, TypeInv, TypeOK, Row
  <2>2. Durable(rows') = Durable(rows)
    <3> HIDE DEF new
    <3> QED  BY <2>1 DEF Durable, SameEntry
  <2> QED  BY <1>7, <2>2 DEF Tamper, Promise!vars, Durable, threadVars
<1>8. CASE UNCHANGED vars
  BY <1>1, <1>8 DEF vars, threadVars
<1> QED  BY <1>2, <1>3, <1>4, <1>5, <1>6, <1>7, <1>8
         DEF Next, Thread, Database, Failure, Finished

\* The PostgreSQL ledger keeps what a ledger promises, under either isolation level.
THEOREM KeepsPromise == Spec => ImplementsPromise
<1>1. Init => Promise!Init
  <2> SUFFICES ASSUME Init PROVE Promise!Init
    OBVIOUS
  <2>1. Durable({}) = {}
    BY DEF Durable
  <2> QED  BY <2>1 DEF Init, Promise!Init, Durable, Promise!Says, Promise!NoEvent, Says, NoEvent
<1>2. StableInv /\ [Next]_vars => [Promise!Next]_(Promise!vars)
  BY PromiseStep
<1> QED  BY <1>1, <1>2, StableCorrect, PTL DEF Spec, ImplementsPromise, Promise!Spec
=============================================================================
