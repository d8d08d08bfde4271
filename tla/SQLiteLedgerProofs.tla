-------------------------- MODULE SQLiteLedgerProofs --------------------------
(***************************************************************************)
(* Theorems of SQLiteLedger for any attempts, requests and faults: what it *)
(* tells its callers, and that it implements AdmissionLedger.              *)
(***************************************************************************)
EXTENDS SQLiteLedger, RequestLemmas, TLAPS

-----------------------------------------------------------------------------
(* The invariant                                                           *)

\* A transaction is open in the one writer only, its uncommitted row is the one
\* its request asks for, and nothing durable overlaps it.
WriterInv ==
  /\ \A a \in Attempts :
       pc[a] \in {"lookup", "context", "operate", "insert", "commit", "rollback"} =>
         /\ writers = {a}
         /\ pc[a] \in {"lookup", "context", "operate", "insert"} => added = {}
         /\ added # {} => /\ added = {RowOf(req[a])}
                          /\ Verdict[req[a]] # "reject"
                          /\ \A row \in file : ~Overlaps(row, req[a])
  /\ writers = {} => added = {}
  /\ \A a \in Attempts :
       /\ pc[a] \in {"context", "operate", "insert"} => \A row \in file : row.key # req[a].key
       /\ pc[a] \in {"operate", "insert"} => \A row \in file : row.context # req[a].context
       /\ pc[a] = "insert" => Verdict[req[a]] # "reject"

\* No two durable rows share a key or a context.
RowsApart ==
  \A r, s \in file : r.key = s.key \/ r.context = s.context => r = s

\* Every answer is justified by the durable rows, from where it is decided to
\* where it is given; until then nothing is told.
AnswerOf(a) ==
  /\ pc[a] # "done" => answer[a] = Says("pending")
  /\ pc[a] = "rollback" => JustRefused(file, req[a], result[a])
  /\ pc[a] = "commit" =>
       \/ added = {} /\ JustReplayed(file, req[a], result[a])
       \/ added = {RowOf(req[a])} /\ result[a] = SaysEvent("fresh", EventOf(req[a]))
  /\ pc[a] = "return" =>
       JustReplayed(file, req[a], result[a]) \/ JustFresh(file, req[a], result[a])
  /\ pc[a] = "done" => Just(file, req[a], answer[a])

AnswerInv == \A a \in Attempts : AnswerOf(a)

\* a is told, or is about to be told, that its own operation made the entry.
Claims(a) ==
  \/ pc[a] = "return" /\ result[a].kind = "fresh"
  \/ pc[a] = "done" /\ answer[a].kind = "fresh"

\* A key has one claimant, and none before its row is durable.
FreshInv ==
  \A a, b \in Attempts : Claims(a) /\ Claims(b) /\ req[a].key = req[b].key => a = b

LedgerInv == TypeOK /\ WriterInv /\ RowsApart /\ AnswerInv /\ FreshInv

\* The invariant holds at first.
LEMMA InitLedger ==
  ASSUME Init
  PROVE  LedgerInv
<1>1. TypeOK
  BY AnswerIsTyped DEF Init, TypeOK, AnswerKinds
<1>2. WriterInv /\ RowsApart /\ AnswerInv /\ FreshInv
  BY DEF Init, WriterInv, RowsApart, AnswerInv, AnswerOf, FreshInv, Claims
<1> QED  BY <1>1, <1>2 DEF LedgerInv

-----------------------------------------------------------------------------
(* What the steps do to the durable rows                                   *)

\* Tampering rewrites one row in place.
LEMMA TamperedRows ==
  ASSUME TypeOK, NEW row \in file, Tamper(row)
  PROVE  /\ [row EXCEPT !.event = Tampered] \in Row
         /\ SameEntry(row, [row EXCEPT !.event = Tampered])
         /\ Within(file, file')
         /\ \A s \in file' : \E r \in file : SameEntry(r, s)
         /\ RowsApart => RowsApart'
<1> DEFINE new == [row EXCEPT !.event = Tampered]
<1>1. row \in Row
  BY DEF TypeOK
<1>2. new \in Row /\ SameEntry(row, new)
  BY <1>1 DEF Row, SameEntry
<1>3. file' = (file \ {row}) \cup {new}
  BY DEF Tamper
<1>4. Within(file, file')
  BY <1>2, <1>3 DEF Within, SameEntry
<1>5. \A s \in file' : \E r \in file : SameEntry(r, s)
  BY <1>2, <1>3 DEF SameEntry
<1>6. ASSUME RowsApart
      PROVE  RowsApart'
  <2>1. ASSUME NEW r \in file \ {row}
        PROVE  r.key # new.key /\ r.context # new.context
    BY <1>2, <1>6, <2>1 DEF RowsApart, SameEntry
  <2> HIDE DEF new
  <2>2. \A r, s \in (file \ {row}) \cup {new} :
          r.key = s.key \/ r.context = s.context => r = s
    BY <1>6, <2>1 DEF RowsApart
  <2> QED  BY <1>3, <2>2 DEF RowsApart
<1> QED  BY <1>2, <1>4, <1>5, <1>6

-----------------------------------------------------------------------------
(* Types                                                                   *)

\* Every action keeps every variable in its type.
LEMMA TypeStep ==
  ASSUME TypeOK, WriterInv, [Next]_vars
  PROVE  TypeOK'
<1> USE DEF TypeOK
<1>1. ASSUME NEW a \in Attempts, Connect(a) \/ BeginImmediate(a) PROVE TypeOK'
  BY <1>1 DEF Connect, BeginImmediate, Goto
<1>2. ASSUME NEW a \in Attempts, BusyTimeout(a) \/ ConnectFails(a) PROVE TypeOK'
  BY <1>2, AnswerIsTyped DEF BusyTimeout, ConnectFails, End, Goto, AnswerKinds
<1>3. ASSUME NEW a \in Attempts, Lookup(a) PROVE TypeOK'
  <2>1. \A row \in file : Intact(row) => row.event \in Event
    BY DEF Intact, Row
  <2>2. result' \in [Attempts -> Answer]
    BY <1>3, <2>1, AnswerIsTyped DEF Lookup, Raise, Return, AnswerKinds, EventAnswers
  <2> QED  BY <1>3, <2>2 DEF Lookup, Goto, Raise, Return
<1>4. ASSUME NEW a \in Attempts, CheckContext(a) PROVE TypeOK'
  BY <1>4, AnswerIsTyped DEF CheckContext, Goto, Raise, AnswerKinds
<1>5. ASSUME NEW a \in Attempts, Operate(a) PROVE TypeOK'
  BY <1>5, AnswerIsTyped DEF Operate, Goto, Raise, AnswerKinds
<1>6. ASSUME NEW a \in Attempts, Insert(a) PROVE TypeOK'
  <2>1. EventOf(req[a]) \in Event /\ RowOf(req[a]) \in Row
    BY <1>6, RowIsTyped DEF Insert, WriterInv
  <2> QED  BY <1>6, <2>1, AnswerIsTyped
           DEF Insert, Goto, Raise, Return, AnswerKinds, EventAnswers
<1>7. ASSUME NEW a \in Attempts, StatementFails(a) PROVE TypeOK'
  BY <1>7, AnswerIsTyped DEF StatementFails, Raise, Goto, AnswerKinds
<1>8. ASSUME NEW a \in Attempts, Commit(a) PROVE TypeOK'
  BY <1>8 DEF Commit, Goto
<1>9. ASSUME NEW a \in Attempts, ReturnResult(a) \/ Rollback(a) PROVE TypeOK'
  BY <1>9, AnswerIsTyped DEF ReturnResult, Rollback, End, Goto, AnswerKinds
<1>10. CASE Crash
  BY <1>10 DEF Crash
<1>11. ASSUME NEW row \in file, Tamper(row) PROVE TypeOK'
  BY <1>11, TamperedRows DEF Tamper
<1>12. CASE UNCHANGED vars
  BY <1>12 DEF vars
<1> QED  BY <1>1, <1>2, <1>3, <1>4, <1>5, <1>6, <1>7, <1>8, <1>9, <1>10, <1>11, <1>12
         DEF Next, Thread, Finished

-----------------------------------------------------------------------------
(* The writer                                                              *)

\* Every action keeps the writer's invariant.
LEMMA WriterStep ==
  ASSUME TypeOK, WriterInv, AnswerInv, [Next]_vars
  PROVE  WriterInv'
<1> USE DEF TypeOK, WriterInv
<1>1. ASSUME NEW a \in Attempts, Connect(a) PROVE WriterInv'
  BY <1>1 DEF Connect, Goto
<1>2. ASSUME NEW a \in Attempts, BeginImmediate(a) PROVE WriterInv'
  BY <1>2 DEF BeginImmediate, Goto
<1>3. ASSUME NEW a \in Attempts, BusyTimeout(a) \/ ConnectFails(a) PROVE WriterInv'
  BY <1>3 DEF BusyTimeout, ConnectFails, End, Goto
<1>4. ASSUME NEW a \in Attempts, Lookup(a) PROVE WriterInv'
  BY <1>4 DEF Lookup, Goto, Raise, Return
<1>5. ASSUME NEW a \in Attempts, CheckContext(a) PROVE WriterInv'
  BY <1>5 DEF CheckContext, Goto, Raise
<1>6. ASSUME NEW a \in Attempts, Operate(a) PROVE WriterInv'
  BY <1>6 DEF Operate, Goto, Raise
<1>7. ASSUME NEW a \in Attempts, Insert(a) PROVE WriterInv'
  <2>1. /\ UNCHANGED <<req, writers, file>> /\ pc[a] = "insert"
        /\ \/ pc' = [pc EXCEPT ![a] = "rollback"] /\ added' = added
           \/ /\ pc' = [pc EXCEPT ![a] = "commit"] /\ added' = {RowOf(req[a])}
              /\ \A row \in file : ~Overlaps(row, req[a])
    BY <1>7 DEF Insert, Goto, Raise, Return
  <2> QED  BY <2>1
<1>8. ASSUME NEW a \in Attempts, StatementFails(a) PROVE WriterInv'
  BY <1>8 DEF StatementFails, Raise, Goto
<1>9. ASSUME NEW a \in Attempts, Commit(a) PROVE WriterInv'
  <2>1. writers = {a} /\ writers' = {} /\ added' = {} /\ pc' = [pc EXCEPT ![a] = "return"]
    BY <1>9 DEF Commit, Goto
  <2>2. \A b \in Attempts :
          pc'[b] \notin {"lookup", "context", "operate", "insert", "commit", "rollback"}
    BY <2>1
  <2> QED  BY <1>9, <2>1, <2>2 DEF Commit
<1>10. ASSUME NEW a \in Attempts, ReturnResult(a) PROVE WriterInv'
  BY <1>10 DEF ReturnResult, End, Goto
<1>11. ASSUME NEW a \in Attempts, Rollback(a) PROVE WriterInv'
  BY <1>11 DEF Rollback, End, Goto
<1>12. CASE Crash
  BY <1>12 DEF Crash, Running
<1>13. ASSUME NEW row \in file, Tamper(row) PROVE WriterInv'
  BY <1>13 DEF Tamper
<1>14. CASE UNCHANGED vars
  BY <1>14 DEF vars
<1> QED  BY <1>1, <1>2, <1>3, <1>4, <1>5, <1>6, <1>7, <1>8, <1>9, <1>10, <1>11, <1>12,
            <1>13, <1>14 DEF Next, Thread, Finished

\* The durable rows change when the writer's row is committed or one is tampered with.
LEMMA FileStep ==
  ASSUME LedgerInv, [Next]_vars
  PROVE  /\ RowsApart' /\ Within(file, file') /\ req' = req
         /\ \/ file' = file
            \/ \E row \in file : Tamper(row)
            \/ \E a \in Attempts : Commit(a) /\ file' = file \cup {RowOf(req[a])}
                                   /\ \A row \in file : ~Overlaps(row, req[a])
<1> USE DEF LedgerInv
<1>1. ASSUME NEW row \in file, Tamper(row)
      PROVE  RowsApart' /\ Within(file, file') /\ req' = req
  BY <1>1, TamperedRows DEF Tamper
<1>2. ASSUME file' = file
      PROVE  RowsApart' /\ Within(file, file')
  BY <1>2 DEF RowsApart, Within, SameEntry
<1>3. ASSUME NEW a \in Attempts, Commit(a), added # {}
      PROVE  /\ RowsApart' /\ Within(file, file')
             /\ file' = file \cup {RowOf(req[a])}
             /\ \A row \in file : ~Overlaps(row, req[a])
  <2>1. /\ file' = file \cup {RowOf(req[a])}
        /\ \A row \in file : ~Overlaps(row, req[a])
    BY <1>3 DEF Commit, WriterInv
  <2>2. RowsApart'
    BY <2>1 DEF RowsApart, RowOf, Overlaps
  <2> QED  BY <2>1, <2>2 DEF Within, SameEntry
<1>4. CASE \/ UNCHANGED vars \/ Crash
           \/ \E a \in Attempts : Connect(a) \/ BeginImmediate(a) \/ BusyTimeout(a) \/ ConnectFails(a)
  BY <1>2, <1>4 DEF vars, Crash, Connect, BeginImmediate, BusyTimeout, ConnectFails
<1>5. CASE \E a \in Attempts : \/ Lookup(a) \/ CheckContext(a) \/ Operate(a) \/ Insert(a)
                               \/ StatementFails(a) \/ ReturnResult(a) \/ Rollback(a)
  BY <1>2, <1>5 DEF Lookup, CheckContext, Operate, Insert, StatementFails, ReturnResult, Rollback
<1>6. ASSUME NEW a \in Attempts, Commit(a), added = {}
      PROVE  file' = file
  BY <1>6 DEF Commit
<1>7. ASSUME NEW a \in Attempts, Commit(a)
      PROVE  req' = req
  BY <1>7 DEF Commit
<1> QED  BY <1>1, <1>2, <1>3, <1>4, <1>5, <1>6, <1>7 DEF Next, Thread, Finished


-----------------------------------------------------------------------------
(* The answers                                                             *)

\* What a step does to others leaves an attempt's answer justified.
LEMMA AnswerStays ==
  ASSUME NEW a \in Attempts, AnswerOf(a), Within(file, file'), req' = req,
         pc'[a] = pc[a], result'[a] = result[a], answer'[a] = answer[a],
         pc[a] = "commit" => added' = added
  PROVE  AnswerOf(a)'
BY AnswersStayJust DEF AnswerOf, Just

\* Every action keeps the answers justified.
LEMMA AnswerStep ==
  ASSUME LedgerInv, [Next]_vars
  PROVE  AnswerInv'
<1> USE DEF LedgerInv, TypeOK
<1>1. Within(file, file') /\ req' = req
  BY FileStep
<1>2. ASSUME NEW a \in Attempts, AnswerOf(a)',
             \A b \in Attempts \ {a} :
               /\ pc'[b] = pc[b] /\ result'[b] = result[b] /\ answer'[b] = answer[b]
               /\ pc[b] = "commit" => added' = added
      PROVE  AnswerInv'
  BY <1>1, <1>2, AnswerStays DEF AnswerInv
<1>3. ASSUME NEW a \in Attempts,
             Connect(a) \/ BeginImmediate(a) \/ BusyTimeout(a) \/ ConnectFails(a)
      PROVE  AnswerInv'
  <2>1. AnswerOf(a)'
    BY <1>3 DEF Connect, BeginImmediate, BusyTimeout, ConnectFails, End, Goto, AnswerInv, AnswerOf,
                Just, JustRefused
  <2> QED  BY <1>2, <1>3, <2>1 DEF Connect, BeginImmediate, BusyTimeout, ConnectFails, End, Goto
<1>4. ASSUME NEW a \in Attempts, Lookup(a)
      PROVE  AnswerInv'
  <2>1. ASSUME NEW row \in file, row.key = req[a].key, SameBinding(row, req[a]), Intact(row),
               Return(a, SaysEvent("replay", row.event))
        PROVE  AnswerOf(a)'
    <3>1. JustReplayed(file, req[a], SaysEvent("replay", row.event))
      BY <2>1 DEF JustReplayed, Holds, Intact
    <3> QED  BY <1>4, <2>1, <3>1 DEF Lookup, Return, Goto, WriterInv, AnswerInv, AnswerOf
  <2>2. ASSUME NEW row \in file, row.key = req[a].key, ~SameBinding(row, req[a]),
               Raise(a, Says("conflict"))
        PROVE  AnswerOf(a)'
    <3>1. JustRefused(file, req[a], Says("conflict"))
      BY <2>2 DEF JustRefused, Holds, Overlaps
    <3> QED  BY <1>4, <2>2, <3>1 DEF Lookup, Raise, Goto, AnswerInv, AnswerOf
  <2>3. ASSUME Raise(a, Says("error"))
        PROVE  AnswerOf(a)'
    BY <1>4, <2>3 DEF Lookup, Raise, Goto, AnswerInv, AnswerOf, JustRefused
  <2>4. ASSUME Goto(a, "context")
        PROVE  AnswerOf(a)'
    BY <1>4, <2>4 DEF Lookup, Goto, AnswerInv, AnswerOf
  <2>5. AnswerOf(a)'
    BY <1>4, <2>1, <2>2, <2>3, <2>4 DEF Lookup
  <2> QED  BY <1>2, <1>4, <2>5 DEF Lookup, Raise, Return, Goto
<1>5. ASSUME NEW a \in Attempts, CheckContext(a)
      PROVE  AnswerInv'
  <2>1. CASE \E row \in file : row.context = req[a].context
    <3>1. \A row \in file : row.key # req[a].key
      BY <1>5 DEF CheckContext, WriterInv
    <3>2. JustRefused(file, req[a], Says("conflict"))
      BY <2>1, <3>1 DEF JustRefused, Overlaps, Holds
    <3> QED  BY <1>2, <1>5, <2>1, <3>2 DEF CheckContext, Raise, Goto, AnswerInv, AnswerOf
  <2>2. CASE ~\E row \in file : row.context = req[a].context
    BY <1>2, <1>5, <2>2 DEF CheckContext, Goto, AnswerInv, AnswerOf
  <2> QED  BY <2>1, <2>2
<1>6. ASSUME NEW a \in Attempts, Operate(a)
      PROVE  AnswerInv'
  <2>1. AnswerOf(a)'
    BY <1>6 DEF Operate, Raise, Goto, AnswerInv, AnswerOf, JustRefused
  <2> QED  BY <1>2, <1>6, <2>1 DEF Operate, Raise, Goto
<1>7. ASSUME NEW a \in Attempts, Insert(a)
      PROVE  AnswerInv'
  <2>1. AnswerOf(a)'
    BY <1>7 DEF Insert, Raise, Return, Goto, AnswerInv, AnswerOf, JustRefused
  <2>2. \A b \in Attempts \ {a} : pc[b] # "commit"
    BY <1>7 DEF Insert, WriterInv
  <2> QED  BY <1>2, <1>7, <2>1, <2>2 DEF Insert, Raise, Return, Goto
<1>8. ASSUME NEW a \in Attempts, StatementFails(a)
      PROVE  AnswerInv'
  <2>1. AnswerOf(a)'
    BY <1>8 DEF StatementFails, Raise, Goto, AnswerInv, AnswerOf, JustRefused
  <2> QED  BY <1>2, <1>8, <2>1 DEF StatementFails, Raise, Goto
<1>9. ASSUME NEW a \in Attempts, Commit(a)
      PROVE  AnswerInv'
  <2>1. ASSUME added = {RowOf(req[a])}, result[a] = SaysEvent("fresh", EventOf(req[a]))
        PROVE  JustFresh(file', req[a], result[a])
    <3>1. RowOf(req[a]) \in file'
      BY <1>9, <2>1 DEF Commit
    <3> QED  BY <2>1, <3>1 DEF JustFresh, Holds, SameBinding, RowOf
  <2>2. JustReplayed(file, req[a], result[a]) => JustReplayed(file', req[a], result[a])
    BY <1>1, AnswersStayJust
  <2>3. AnswerOf(a)'
    BY <1>9, <2>1, <2>2 DEF Commit, Goto, AnswerInv, AnswerOf
  <2>4. \A b \in Attempts \ {a} : pc[b] # "commit"
    BY <1>9 DEF Commit, WriterInv
  <2> QED  BY <1>2, <1>9, <2>3, <2>4 DEF Commit, Goto
<1>10. ASSUME NEW a \in Attempts, ReturnResult(a)
       PROVE  AnswerInv'
  <2>1. AnswerOf(a)'
    BY <1>10 DEF ReturnResult, End, Goto, AnswerInv, AnswerOf, Just
  <2> QED  BY <1>2, <1>10, <2>1 DEF ReturnResult, End, Goto
<1>11. ASSUME NEW a \in Attempts, Rollback(a)
       PROVE  AnswerInv'
  <2>1. AnswerOf(a)'
    BY <1>11 DEF Rollback, End, Goto, AnswerInv, AnswerOf, Just, JustRefused
  <2>2. \A b \in Attempts \ {a} : pc[b] # "commit"
    BY <1>11 DEF Rollback, WriterInv
  <2> QED  BY <1>2, <1>11, <2>1, <2>2 DEF Rollback, End, Goto
<1>12. CASE Crash
  <2> SUFFICES ASSUME NEW a \in Attempts PROVE AnswerOf(a)'
    BY DEF AnswerInv
  <2>1. CASE Running(a)
    BY <1>12, <2>1 DEF Crash, Running, AnswerInv, AnswerOf
  <2>2. CASE ~Running(a)
    BY <1>12, <2>2 DEF Crash, Running, AnswerInv, AnswerOf
  <2> QED  BY <2>1, <2>2
<1>13. ASSUME NEW row \in file, Tamper(row)
       PROVE  AnswerInv'
  BY <1>1, <1>13, AnswerStays DEF Tamper, AnswerInv
<1>14. CASE UNCHANGED vars
  BY <1>1, <1>14, AnswerStays DEF vars, AnswerInv
<1> QED  BY <1>3, <1>4, <1>5, <1>6, <1>7, <1>8, <1>9, <1>10, <1>11, <1>12, <1>13, <1>14
         DEF Next, Thread, Finished

-----------------------------------------------------------------------------
(* Claims to a fresh entry                                                 *)

\* A claim rests on a durable row of its request.
LEMMA ClaimHasRow ==
  ASSUME LedgerInv, NEW a \in Attempts, Claims(a)
  PROVE  \E row \in file : Holds(row, req[a])
<1>1. ASSUME NEW ans, Just(file, req[a], ans), ans.kind = "fresh"
      PROVE  JustFresh(file, req[a], ans)
  BY <1>1 DEF Just, JustRefused, JustReplayed, Says, SaysEvent
<1>2. CASE pc[a] = "return" /\ result[a].kind = "fresh"
  BY <1>1, <1>2 DEF LedgerInv, AnswerInv, AnswerOf, Just, JustFresh
<1>3. CASE pc[a] = "done" /\ answer[a].kind = "fresh"
  BY <1>1, <1>3 DEF LedgerInv, AnswerInv, AnswerOf, JustFresh
<1> QED  BY <1>2, <1>3 DEF Claims

\* A claim is made by a commit of one's own row, and by nothing else.
LEMMA ClaimStep ==
  ASSUME LedgerInv, [Next]_vars, NEW a \in Attempts, Claims(a)'
  PROVE  Claims(a) \/ (Commit(a) /\ \A row \in file : ~Overlaps(row, req[a]))
<1> USE DEF LedgerInv, TypeOK
<1>1. CASE \E b \in Attempts : \/ Connect(b) \/ BeginImmediate(b) \/ BusyTimeout(b) \/ ConnectFails(b)
                               \/ CheckContext(b) \/ Operate(b) \/ StatementFails(b)
  BY <1>1 DEF Connect, BeginImmediate, BusyTimeout, ConnectFails, CheckContext, Operate, StatementFails,
              End, Raise, Goto, Claims, Says
<1>2. CASE \E b \in Attempts : Lookup(b) \/ Insert(b)
  BY <1>2 DEF Lookup, Insert, Raise, Return, Goto, Claims, Says
<1>3. ASSUME NEW b \in Attempts, Commit(b)
      PROVE  Claims(a) \/ (Commit(a) /\ \A row \in file : ~Overlaps(row, req[a]))
  <2>1. CASE b # a
    BY <1>3, <2>1 DEF Commit, Goto, Claims
  <2>2. CASE b = a
    <3>1. result[a].kind = "fresh"
      BY <1>3, <2>2 DEF Commit, Goto, Claims
    <3>2. added # {}
      BY <1>3, <2>2, <3>1 DEF Commit, AnswerInv, AnswerOf, JustReplayed, SaysEvent
    <3> QED  BY <1>3, <2>2, <3>2 DEF Commit, WriterInv
  <2> QED  BY <2>1, <2>2
<1>4. ASSUME NEW b \in Attempts, ReturnResult(b)
      PROVE  Claims(a)
  BY <1>4 DEF ReturnResult, End, Goto, Claims
<1>5. ASSUME NEW b \in Attempts, Rollback(b)
      PROVE  Claims(a)
  <2>1. result[b].kind # "fresh"
    BY <1>5 DEF Rollback, AnswerInv, AnswerOf, JustRefused, Says
  <2> QED  BY <1>5, <2>1 DEF Rollback, End, Goto, Claims, Says
<1>6. CASE Crash
  BY <1>6 DEF Crash, Running, Claims
<1>7. CASE (\E row \in file : Tamper(row)) \/ UNCHANGED vars
  BY <1>7 DEF Tamper, vars, Claims
<1> QED  BY <1>1, <1>2, <1>3, <1>4, <1>5, <1>6, <1>7 DEF Next, Thread, Finished

\* Every action keeps claims to a key apart.
LEMMA FreshStep ==
  ASSUME LedgerInv, [Next]_vars
  PROVE  FreshInv'
<1> SUFFICES ASSUME NEW a \in Attempts, NEW b \in Attempts, Claims(a)', Claims(b)',
                    req'[a].key = req'[b].key
             PROVE  a = b
  BY DEF FreshInv
<1>1. req' = req
  BY FileStep
<1>2. ASSUME NEW c \in Attempts, NEW d \in Attempts, Commit(c), Claims(d),
             \A row \in file : ~Overlaps(row, req[c]), req[c].key = req[d].key
      PROVE  FALSE
  BY <1>2, ClaimHasRow DEF Holds, Overlaps
<1>3. ASSUME Commit(a), Commit(b)
      PROVE  a = b
  BY <1>3 DEF LedgerInv, WriterInv, Commit
<1>4. CASE Claims(a) /\ Claims(b)
  BY <1>1, <1>4 DEF LedgerInv, FreshInv
<1> QED  BY <1>1, <1>2, <1>3, <1>4, ClaimStep

-----------------------------------------------------------------------------
(* What holds of every behaviour                                           *)

\* Types, the writer, the rows, the answers and the claims hold of every behaviour.
THEOREM LedgerInvariant == Spec => []LedgerInv
<1>1. LedgerInv /\ [Next]_vars => LedgerInv'
  <2> SUFFICES ASSUME LedgerInv, [Next]_vars PROVE LedgerInv'
    OBVIOUS
  <2> QED  BY TypeStep, WriterStep, FileStep, AnswerStep, FreshStep DEF LedgerInv
<1> QED  BY <1>1, InitLedger, PTL DEF Spec

\* The ledger's variables keep their types whatever fails.
THEOREM TypeCorrect == Spec => []TypeOK
<1>1. LedgerInv => TypeOK
  BY DEF LedgerInv
<1> QED  BY <1>1, LedgerInvariant, PTL

\* BEGIN IMMEDIATE keeps the look-ups true until the row is written.
THEOREM SingleWriter == Spec => []OneWriter
<1>1. LedgerInv => OneWriter
  BY DEF LedgerInv, WriterInv, OneWriter, Overlaps
<1> QED  BY <1>1, LedgerInvariant, PTL

\* The answers to one request agree, across crashes and failed commits.
THEOREM SameAnswers == Spec => []RetriesAgree
<1>1. ASSUME LedgerInv  PROVE RetriesAgree
  <2> SUFFICES ASSUME NEW a \in Attempts, NEW b \in Attempts, req[a] = req[b],
                      answer[a].kind \in EventAnswers
               PROVE  /\ answer[b].kind # "conflict"
                      /\ answer[b].kind \in EventAnswers => answer[b].event = answer[a].event
    BY DEF RetriesAgree
  <2>1. pc[a] = "done" /\ Just(file, req[a], answer[a])
    BY <1>1 DEF LedgerInv, AnswerInv, AnswerOf, Says, EventAnswers
  <2>2. CASE pc[b] = "done"
    BY <1>1, <2>1, <2>2, JustAgree DEF LedgerInv, AnswerInv, AnswerOf, RowsApart, Overlaps
  <2>3. CASE pc[b] # "done"
    BY <1>1, <2>3 DEF LedgerInv, AnswerInv, AnswerOf, Says, EventAnswers
  <2> QED  BY <2>2, <2>3
<1> QED  BY <1>1, LedgerInvariant, PTL

-----------------------------------------------------------------------------
(* The promise                                                             *)

\* A justified answer is one of the promise's.
LEMMA JustIsPromised ==
  ASSUME LedgerInv, NEW a \in Attempts, answer[a] = Says("pending"), UNCHANGED <<req, file>>,
         NEW ans, answer' = [answer EXCEPT ![a] = ans],
         \/ JustRefused(file, req[a], ans)
         \/ JustReplayed(file, req[a], ans)
         \/ /\ JustFresh(file, req[a], ans)
            /\ \A b \in Attempts : req[b].key = req[a].key => answer[b].kind # "fresh"
  PROVE  Promise!Next
<1>1. Promise!Tell(a, ans)
  BY DEF Promise!Tell, Promise!Says, Promise!NoEvent, Says, NoEvent
<1>2. CASE ans = Says("error")
  BY <1>1, <1>2 DEF Promise!Next, Promise!AnswerError, Promise!Says, Promise!NoEvent, Says, NoEvent
<1>3. CASE ans = Says("rejected") /\ Verdict[req[a]] = "reject"
  BY <1>1, <1>3
  DEF Promise!Next, Promise!AnswerRejected, Promise!Says, Promise!NoEvent, Says, NoEvent
<1>4. ASSUME ans = Says("conflict"), NEW row \in file, Overlaps(row, req[a]), ~Holds(row, req[a])
      PROVE  Promise!Next
  <2>1. PICK e \in Durable(file) : /\ e.key = row.key /\ e.context = row.context
                                   /\ e.package = row.package /\ e.event = row.sha
    BY DurableHas
  <2>2. Promise!Overlaps(e, req[a]) /\ ~(e.key = req[a].key /\ Promise!SameBinding(e, req[a]))
    BY <1>4, <2>1 DEF Promise!Overlaps, Promise!SameBinding, Overlaps, Holds, SameBinding
  <2>3. Promise!AnswerConflict(a)
    BY <1>1, <1>4, <2>2
    DEF Promise!AnswerConflict, Durable, Promise!Says, Promise!NoEvent, Says, NoEvent
  <2> QED  BY <2>3 DEF Promise!Next
<1>5. ASSUME NEW row \in file, Holds(row, req[a]), ans = SaysEvent("replay", row.sha)
      PROVE  Promise!Next
  <2>1. PICK e \in Durable(file) : /\ e.key = row.key /\ e.context = row.context
                                   /\ e.package = row.package /\ e.event = row.sha
    BY DurableHas
  <2>2. /\ e.key = req[a].key /\ Promise!SameBinding(e, req[a])
        /\ Promise!Tell(a, Promise!SaysEvent("replay", e.event))
    BY <1>1, <1>5, <2>1 DEF Promise!SameBinding, Holds, SameBinding, Promise!SaysEvent, SaysEvent
  <2>3. Promise!AnswerReplay(a)
    BY <2>2 DEF Promise!AnswerReplay, Durable
  <2> QED  BY <2>3 DEF Promise!Next
<1>6. ASSUME NEW row \in file, Holds(row, req[a]), row.sha = EventOf(req[a]),
             ans = SaysEvent("fresh", EventOf(req[a])),
             \A b \in Attempts : req[b].key = req[a].key => answer[b].kind # "fresh"
      PROVE  Promise!Next
  <2>1. Promise!EventOf(req[a]) = EventOf(req[a])
    BY DEF Promise!EventOf, EventOf
  <2>2. Promise!EntryOf(req[a]) = [key |-> row.key, context |-> row.context,
                                   package |-> row.package, event |-> row.sha]
    BY <1>6, <2>1 DEF Promise!EntryOf, Holds, SameBinding
  <2>3. Promise!EntryOf(req[a]) \in Durable(file)
    BY <2>2 DEF Durable
  <2>4. Promise!Tell(a, Promise!SaysEvent("fresh", Promise!EventOf(req[a])))
    BY <1>1, <1>6, <2>1 DEF Promise!SaysEvent, SaysEvent
  <2>5. Promise!AnswerFresh(a)
    BY <1>6, <2>3, <2>4 DEF Promise!AnswerFresh, Durable
  <2> QED  BY <2>5 DEF Promise!Next
<1> QED  BY <1>2, <1>3, <1>4, <1>5, <1>6 DEF JustRefused, JustReplayed, JustFresh

\* The commit of a new row records its entry.
LEMMA CommitIsRecord ==
  ASSUME LedgerInv, NEW a \in Attempts, Commit(a), file' = file \cup {RowOf(req[a])},
         \A row \in file : ~Overlaps(row, req[a]), Verdict[req[a]] # "reject"
  PROVE  Promise!Next
<1>1. Durable(file') = Durable(file) \cup {Promise!EntryOf(req[a])}
  <2> DEFINE new == RowOf(req[a])
  <2>1. [key |-> new.key, context |-> new.context, package |-> new.package, event |-> new.sha]
          = Promise!EntryOf(req[a])
    BY DEF RowOf, Promise!EntryOf, Promise!EventOf, EventOf
  <2>2. file' = file \cup {new}
    OBVIOUS
  <2> HIDE DEF new
  <2> QED  BY <2>1, <2>2 DEF Durable
<1>2. \A e \in Durable(file) : ~Promise!Overlaps(e, req[a])
  BY DEF Durable, Promise!Overlaps, Overlaps
<1>3. Promise!Record(a)
  BY <1>1, <1>2 DEF Promise!Record, Durable, Commit
<1> QED  BY <1>3 DEF Promise!Next

\* Every step is a step of the promise or changes nothing of it.
LEMMA PromiseStep ==
  ASSUME LedgerInv, [Next]_vars
  PROVE  [Promise!Next]_(Promise!vars)
<1> USE DEF LedgerInv
<1>1. ASSUME UNCHANGED <<req, answer, file>>
      PROVE  UNCHANGED Promise!vars
  BY <1>1 DEF Promise!vars
<1>2. CASE \E a \in Attempts : \/ Connect(a) \/ BeginImmediate(a) \/ Lookup(a) \/ CheckContext(a)
                               \/ Operate(a) \/ Insert(a) \/ StatementFails(a)
  BY <1>1, <1>2 DEF Connect, BeginImmediate, Lookup, CheckContext, Operate, Insert, StatementFails
<1>3. ASSUME NEW a \in Attempts, BusyTimeout(a) \/ ConnectFails(a)
      PROVE  Promise!Next
  <2>1. JustRefused(file, req[a], Says("error"))
    BY DEF JustRefused
  <2>2. answer[a] = Says("pending")
    BY <1>3 DEF BusyTimeout, ConnectFails, AnswerInv, AnswerOf
  <2> QED  BY <1>3, <2>1, <2>2, JustIsPromised DEF BusyTimeout, ConnectFails, End
<1>4. ASSUME NEW a \in Attempts, ReturnResult(a)
      PROVE  Promise!Next
  <2>1. /\ answer[a] = Says("pending")
        /\ JustReplayed(file, req[a], result[a]) \/ JustFresh(file, req[a], result[a])
    BY <1>4 DEF ReturnResult, AnswerInv, AnswerOf
  <2>2. JustFresh(file, req[a], result[a]) =>
          \A b \in Attempts : req[b].key = req[a].key => answer[b].kind # "fresh"
    <3> SUFFICES ASSUME JustFresh(file, req[a], result[a]), NEW b \in Attempts,
                        req[b].key = req[a].key, answer[b].kind = "fresh"
                 PROVE  FALSE
      OBVIOUS
    <3>1. Claims(a)
      BY <1>4 DEF ReturnResult, Claims, JustFresh, SaysEvent
    <3>2. Claims(b)
      BY DEF AnswerInv, AnswerOf, Says, Claims
    <3>3. a = b
      BY <3>1, <3>2 DEF FreshInv
    <3> QED  BY <2>1, <3>3 DEF Says
  <2> QED  BY <1>4, <2>1, <2>2, JustIsPromised DEF ReturnResult, End
<1>5. ASSUME NEW a \in Attempts, Rollback(a)
      PROVE  Promise!Next
  <2>1. /\ answer[a] = Says("pending") /\ UNCHANGED <<req, file>>
        /\ JustRefused(file, req[a], result[a])
    BY <1>5 DEF Rollback, AnswerInv, AnswerOf
  <2>2. JustRefused(file, req[a], Says("error"))
    BY DEF JustRefused
  <2>3. \/ answer' = [answer EXCEPT ![a] = result[a]]
        \/ answer' = [answer EXCEPT ![a] = Says("error")]
    BY <1>5 DEF Rollback, End
  <2> QED  BY <2>1, <2>2, <2>3, JustIsPromised
<1>6. ASSUME NEW a \in Attempts, Commit(a)
      PROVE  Promise!Next \/ UNCHANGED Promise!vars
  <2>1. CASE added = {}
    BY <1>1, <1>6, <2>1 DEF Commit
  <2>2. CASE added # {}
    <3>1. /\ file' = file \cup {RowOf(req[a])}
          /\ \A row \in file : ~Overlaps(row, req[a])
          /\ Verdict[req[a]] # "reject"
      BY <1>6, <2>2 DEF Commit, WriterInv
    <3> QED  BY <1>6, <3>1, CommitIsRecord
  <2> QED  BY <2>1, <2>2
<1>7. ASSUME NEW row \in file, Tamper(row)
      PROVE  UNCHANGED Promise!vars
  <2> DEFINE new == [row EXCEPT !.event = Tampered]
  <2>1. SameEntry(row, new) /\ file' = (file \ {row}) \cup {new}
    BY <1>7, TamperedRows DEF Tamper
  <2>2. Durable(file') = Durable(file)
    <3> HIDE DEF new
    <3> QED  BY <2>1 DEF Durable, SameEntry
  <2> QED  BY <1>7, <2>2 DEF Tamper, Promise!vars, Durable
<1>8. CASE Crash \/ UNCHANGED vars
  BY <1>1, <1>8 DEF Crash, vars
<1> QED  BY <1>2, <1>3, <1>4, <1>5, <1>6, <1>7, <1>8 DEF Next, Thread, Finished

\* The SQLite ledger keeps what a ledger promises.
THEOREM KeepsPromise == Spec => ImplementsPromise
<1>1. Init => Promise!Init
  <2> SUFFICES ASSUME Init PROVE Promise!Init
    OBVIOUS
  <2>1. Durable({}) = {}
    BY DEF Durable
  <2> QED  BY <2>1 DEF Init, Promise!Init, Durable, Promise!Says, Promise!NoEvent, Says, NoEvent
<1>2. LedgerInv /\ [Next]_vars => [Promise!Next]_(Promise!vars)
  BY PromiseStep
<1> QED  BY <1>1, <1>2, LedgerInvariant, PTL DEF Spec, ImplementsPromise, Promise!Spec
=============================================================================
