--------------------------- MODULE AdmissionLedger ---------------------------
(***************************************************************************)
(* What an admission ledger promises, with no word on how: entries appear  *)
(* one at a time and never change, at most one for a key and one for a     *)
(* context, and every answer is justified by the entries that are durable  *)
(* when it is given.                                                       *)
(***************************************************************************)
EXTENDS AdmissionRequests

VARIABLES
  req,      \* the request each attempt carries
  ledger,   \* the durable entries
  answer    \* what each attempt was told

vars == <<req, ledger, answer>>

Entry == [key : Keys, context : Contexts, package : Packages, event : Event]

EntryOf(r) == [key |-> r.key, context |-> r.context, package |-> r.package,
               event |-> EventOf(r)]

Init ==
  /\ req \in [Attempts -> Requests]
  /\ ledger = {}
  /\ answer = [a \in Attempts |-> Says("pending")]

-----------------------------------------------------------------------------
\* An authentic request whose key and context are both unused becomes durable.
Record(a) ==
  /\ Verdict[req[a]] # "reject"
  /\ \A e \in ledger : ~Overlaps(e, req[a])
  /\ ledger' = ledger \cup {EntryOf(req[a])}
  /\ UNCHANGED <<req, answer>>

Tell(a, ans) ==
  /\ answer[a] = Says("pending")
  /\ answer' = [answer EXCEPT ![a] = ans]
  /\ UNCHANGED <<req, ledger>>

\* One attempt at most is told that its own operation made the entry.
AnswerFresh(a) ==
  /\ EntryOf(req[a]) \in ledger
  /\ \A b \in Attempts :
        req[b].key = req[a].key => answer[b].kind # "fresh"
  /\ Tell(a, SaysEvent("fresh", EventOf(req[a])))

\* A retry is told the stored event, whatever its own anchors are.
AnswerReplay(a) ==
  \E e \in ledger :
    /\ e.key = req[a].key
    /\ SameBinding(e, req[a])
    /\ Tell(a, SaysEvent("replay", e.event))

AnswerConflict(a) ==
  /\ \E e \in ledger :
       /\ Overlaps(e, req[a])
       /\ ~(e.key = req[a].key /\ SameBinding(e, req[a]))
  /\ Tell(a, Says("conflict"))

AnswerRejected(a) ==
  /\ Verdict[req[a]] = "reject"
  /\ Tell(a, Says("rejected"))

\* A failure says nothing about whether the entry was made.
AnswerError(a) == Tell(a, Says("error"))

Next ==
  \E a \in Attempts :
    \/ Record(a)
    \/ AnswerFresh(a)
    \/ AnswerReplay(a)
    \/ AnswerConflict(a)
    \/ AnswerRejected(a)
    \/ AnswerError(a)

Spec == Init /\ [][Next]_vars
=============================================================================
