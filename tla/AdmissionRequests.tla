-------------------------- MODULE AdmissionRequests --------------------------
(***************************************************************************)
(* The vocabulary the admission ledgers share: what an admission request   *)
(* carries into Ledger.execute, what the operation it passes along returns *)
(* and what a caller of execute can be told.                               *)
(*                                                                         *)
(* An attempt is one call of Ledger.execute, made by one request-handler   *)
(* thread of some gateway process.  A client that retries makes another    *)
(* attempt with the same request.                                          *)
(***************************************************************************)

CONSTANTS
  Attempts,   \* the calls of Ledger.execute
  Keys,       \* Idempotency-Key header values
  Contexts,   \* (X-PgExtAssure-Request-ID, X-PgExtAssure-Target) pairs
  Packages,   \* package digests, equal to the digest of the received body
  Anchors,    \* every header the ledger does not store: key digest, policy
              \* digest, evaluated-on and verified-on
  Requests,   \* the requests clients send in this instance
  Verdict     \* what enforce_pilot_package says of each of them

Request == [key : Keys, context : Contexts, package : Packages, anchors : Anchors]

Verdicts == {"allow", "deny", "reject"}

ASSUME RequestAssumption ==
  /\ Requests \subseteq Request
  /\ Verdict \in [Requests -> Verdicts]

-----------------------------------------------------------------------------
\* The Admission Event names the context, the package and the anchors it was
\* recomputed against, never the idempotency key.  "reject" raises
\* AdmissionEnforcementError and there is no event.
Event == [context : Contexts, package : Packages, anchors : Anchors,
          outcome : {"allow", "deny"}]

EventOf(r) == [context |-> r.context, package |-> r.package,
               anchors |-> r.anchors, outcome |-> Verdict[r]]

NoEvent == [outcome |-> "none"]

\* LedgerResult, or the exception execute raises: GatewayConflict,
\* AdmissionEnforcementError ("rejected") or a ledger, database or operating
\* system error ("error").  "pending" until execute ends.
EventAnswers == {"fresh", "replay"}

AnswerKinds == EventAnswers \cup {"pending", "conflict", "rejected", "error"}

Answer == [kind : AnswerKinds, event : Event \cup {NoEvent}]

Says(kind) == [kind |-> kind, event |-> NoEvent]

SaysEvent(kind, e) == [kind |-> kind, event |-> e]

\* The two bindings the ledger keeps: a key to one (context, package), and a
\* context to one key.
SameBinding(row, r) == row.context = r.context /\ row.package = r.package

Overlaps(row, r) == row.key = r.key \/ row.context = r.context

-----------------------------------------------------------------------------
\* A row.  "sha" stands for event_sha256: it is the event whose digest is
\* stored, so the integrity check compares it with the event.  "Tampered" is
\* any other content of event_json.
Tampered == [outcome |-> "tampered"]

Row == [key : Keys, context : Contexts, package : Packages,
        event : Event \cup {Tampered}, sha : Event]

RowOf(r) == [key |-> r.key, context |-> r.context, package |-> r.package,
             event |-> EventOf(r), sha |-> EventOf(r)]

\* Mutant: the stored digest is not compared.
UncheckedIntact(row) == TRUE

Intact(row) == row.event = row.sha
=============================================================================
