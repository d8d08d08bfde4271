---------------------------- MODULE RequestLemmas ----------------------------
(***************************************************************************)
(* What requests, rows and answers are made of, and which answers durable  *)
(* rows justify, for both ledgers.                                         *)
(***************************************************************************)
EXTENDS AdmissionRequests, TLAPS

\* What a request of this instance is made of.
LEMMA RequestParts ==
  ASSUME NEW r \in Requests
  PROVE  /\ r.key \in Keys /\ r.context \in Contexts /\ r.package \in Packages
         /\ r.anchors \in Anchors
         /\ Verdict[r] \in Verdicts
BY RequestAssumption DEF Request

\* A request that is not rejected has an event, and a row to record it.
LEMMA RowIsTyped ==
  ASSUME NEW r \in Requests, Verdict[r] # "reject"
  PROVE  EventOf(r) \in Event /\ RowOf(r) \in Row
<1>1. EventOf(r) \in Event
  BY RequestParts DEF EventOf, Event, Verdicts
<1>2. RowOf(r) \in Row
  BY <1>1, RequestParts DEF RowOf, Row
<1> QED BY <1>1, <1>2

\* The answers execute can give.
LEMMA AnswerIsTyped ==
  /\ \A k \in AnswerKinds : Says(k) \in Answer
  /\ \A k \in AnswerKinds, e \in Event : SaysEvent(k, e) \in Answer
BY DEF Says, SaysEvent, Answer

\* What answers say.
LEMMA AnswerFields ==
  /\ \A kind : Says(kind).kind = kind
  /\ \A kind, e : SaysEvent(kind, e).kind = kind /\ SaysEvent(kind, e).event = e
BY DEF Says, SaysEvent

-----------------------------------------------------------------------------
(* What durable rows justify telling                                       *)

\* The durable row of a request.
Holds(row, r) == row.key = r.key /\ SameBinding(row, r)

\* What rows justify telling who asks r: nothing of an event, the stored event, or that
\* the event is new.
JustRefused(durable, r, ans) ==
  \/ ans = Says("error")
  \/ ans = Says("rejected") /\ Verdict[r] = "reject"
  \/ ans = Says("conflict") /\ \E row \in durable : Overlaps(row, r) /\ ~Holds(row, r)

JustReplayed(durable, r, ans) ==
  \E row \in durable : Holds(row, r) /\ ans = SaysEvent("replay", row.sha)

JustFresh(durable, r, ans) ==
  /\ ans = SaysEvent("fresh", EventOf(r))
  /\ \E row \in durable : Holds(row, r) /\ row.sha = EventOf(r)

Just(durable, r, ans) ==
  JustRefused(durable, r, ans) \/ JustReplayed(durable, r, ans) \/ JustFresh(durable, r, ans)

\* A row changes its event at most, which its digest gives away.
SameEntry(r, s) ==
  r.key = s.key /\ r.context = s.context /\ r.package = s.package /\ r.sha = s.sha

Within(durable, more) == \A row \in durable : \E s \in more : SameEntry(row, s)

\* What is kept of rows that are kept is kept.
LEMMA WithinTrans ==
  ASSUME NEW few, NEW some, NEW more, Within(few, some), Within(some, more)
  PROVE  Within(few, more)
<1> SUFFICES ASSUME NEW row \in few PROVE \E s \in more : SameEntry(row, s)
  BY DEF Within
<1>1. PICK r \in some : SameEntry(row, r)
  BY DEF Within
<1>2. PICK s \in more : SameEntry(r, s)
  BY DEF Within
<1> QED  BY <1>1, <1>2 DEF SameEntry

\* What justified an answer goes on to justify it.
LEMMA AnswersStayJust ==
  ASSUME NEW durable, NEW more, Within(durable, more), NEW r, NEW ans
  PROVE  /\ JustRefused(durable, r, ans) => JustRefused(more, r, ans)
         /\ JustReplayed(durable, r, ans) => JustReplayed(more, r, ans)
         /\ JustFresh(durable, r, ans) => JustFresh(more, r, ans)
<1>1. ASSUME NEW row \in durable
      PROVE  \E s \in more : /\ SameEntry(row, s)
                             /\ Overlaps(row, r) <=> Overlaps(s, r)
                             /\ Holds(row, r) <=> Holds(s, r)
  BY <1>1 DEF Within, SameEntry, Overlaps, Holds, SameBinding
<1>2. JustRefused(durable, r, ans) => JustRefused(more, r, ans)
  BY <1>1 DEF JustRefused
<1>3. JustReplayed(durable, r, ans) => JustReplayed(more, r, ans)
  BY <1>1 DEF JustReplayed, SameEntry
<1>4. JustFresh(durable, r, ans) => JustFresh(more, r, ans)
  BY <1>1 DEF JustFresh, SameEntry
<1> QED  BY <1>2, <1>3, <1>4

\* What is justified tells by its kind how.
LEMMA JustKinds ==
  ASSUME NEW durable, NEW r, NEW ans
  PROVE  /\ JustRefused(durable, r, ans) => ans.kind \in {"error", "rejected", "conflict"}
         /\ JustReplayed(durable, r, ans) => ans.kind = "replay"
         /\ JustFresh(durable, r, ans) => ans.kind = "fresh"
<1>1. JustRefused(durable, r, ans) => ans.kind \in {"error", "rejected", "conflict"}
  BY AnswerFields DEF JustRefused
<1>2. JustReplayed(durable, r, ans) => ans.kind = "replay"
  <2> SUFFICES ASSUME NEW row \in durable, ans = SaysEvent("replay", row.sha)
               PROVE  ans.kind = "replay"
    BY DEF JustReplayed
  <2> QED  BY AnswerFields
<1>3. JustFresh(durable, r, ans) => ans.kind = "fresh"
  BY AnswerFields DEF JustFresh
<1> QED  BY <1>1, <1>2, <1>3

\* Who was told nothing has no event.
LEMMA PendingKind == Says("pending").kind = "pending"
BY AnswerFields

\* An event that is told is durable.
LEMMA ToldIsDurable ==
  ASSUME NEW durable, NEW r, NEW ans, Just(durable, r, ans), ans.kind \in EventAnswers
  PROVE  \E row \in durable : Holds(row, r) /\ row.sha = ans.event
<1>1. ~JustRefused(durable, r, ans)
  BY AnswerFields DEF JustRefused, EventAnswers
<1>2. CASE JustReplayed(durable, r, ans)
  BY <1>2, AnswerFields DEF JustReplayed
<1>3. CASE JustFresh(durable, r, ans)
  BY <1>3, AnswerFields DEF JustFresh
<1> QED  BY <1>1, <1>2, <1>3 DEF Just

\* Answers to one request agree, if rows share no key and no context.
LEMMA JustAgree ==
  ASSUME NEW durable, \A x, y \in durable : Overlaps(x, y) => x = y,
         NEW r, NEW ans, NEW other, Just(durable, r, ans), Just(durable, r, other),
         ans.kind \in EventAnswers
  PROVE  /\ other.kind # "conflict"
         /\ other.kind \in EventAnswers => other.event = ans.event
<1>1. PICK row \in durable : Holds(row, r) /\ row.sha = ans.event
  BY ToldIsDurable
<1>2. \A s \in durable : Overlaps(s, r) => s = row
  BY <1>1 DEF Overlaps, Holds, SameBinding
<1>3. other.kind # "conflict"
  <2> SUFFICES ASSUME other.kind = "conflict" PROVE FALSE
    OBVIOUS
  <2>1. \E s \in durable : Overlaps(s, r) /\ ~Holds(s, r)
    BY AnswerFields DEF Just, JustRefused, JustReplayed, JustFresh
  <2> QED  BY <1>1, <1>2, <2>1
<1>4. ASSUME other.kind \in EventAnswers
      PROVE  other.event = ans.event
  <2>1. PICK s \in durable : Holds(s, r) /\ s.sha = other.event
    BY <1>4, ToldIsDurable
  <2> QED  BY <1>1, <1>2, <2>1 DEF Holds, Overlaps
<1> QED  BY <1>3, <1>4

-----------------------------------------------------------------------------
(* The ledger that rows stand for                                          *)

\* The entries that rows stand for.
Durable(durable) == {[key |-> row.key, context |-> row.context,
                   package |-> row.package, event |-> row.sha] : row \in durable}

\* A row has an entry.
LEMMA DurableHas ==
  ASSUME NEW durable, NEW row \in durable
  PROVE  \E e \in Durable(durable) : /\ e.key = row.key /\ e.context = row.context
                                  /\ e.package = row.package /\ e.event = row.sha
<1> DEFINE e == [key |-> row.key, context |-> row.context,
                 package |-> row.package, event |-> row.sha]
<1>1. e \in Durable(durable)
  BY DEF Durable
<1> QED  BY <1>1
=============================================================================
