---------------------------- MODULE TrustReceipts ----------------------------
(***************************************************************************)
(* Enterprise trust: a signed Evidence Bundle is evaluated on one day      *)
(* against the trust policy file, the Admission Receipt that comes out is  *)
(* kept, and a verifier recomputes it on a later day from the files it is  *)
(* then given.  Policy and bundle may have been replaced in between, and   *)
(* the receipt edited.                                                     *)
(*                                                                         *)
(* Dates are the days 0 .. LastDay, LastDay being date.max.  An absent     *)
(* expires_on or signer valid_until is LastDay and an absent revoked_on is *)
(* LastDay + 1: no date is beyond the first or reaches the second.         *)
(***************************************************************************)
EXTENDS Integers, FiniteSetsExt

CONSTANTS
  LastDay,    \* date.max
  Values,     \* what a bundle may state and a closed list may allow
  Context,    \* the pairs of a request ID and a target
  Policies,   \* the trust policies that load_trust_policy accepts
  Bundles     \* the signed bundles whose signature verifies

Days == 0 .. LastDay

\* One reason for each closed list of the policy's requirements.
ListReasons == {"gate-not-allowed", "tool-version-not-allowed",
                "ruleset-version-not-allowed", "evidence-schema-not-allowed",
                "evidence-policy-not-allowed"}

DateReasons == {"trust-policy-not-effective", "trust-policy-expired",
                "evidence-from-future", "evidence-too-old",
                "signature-before-evidence", "signature-from-future",
                "signature-too-old"}

SignerReasons == {"untrusted-signer", "signer-not-yet-valid", "signer-expired",
                  "signer-revoked"}

AllReasons == ListReasons \cup DateReasons \cup SignerReasons

\* The signer entries with the ID and the key of the signature: the others are
\* no candidates.
Signer == [from : Days, until : Days, revoked : 0 .. LastDay + 1]

Policy == [effective : Days, expires : Days, allowed : [ListReasons -> SUBSET Values],
           evidenceAge : Nat, signatureAge : Nat, receiptDays : Nat,
           signers : SUBSET Signer]

\* What load_trust_policy refuses: inverted intervals, and two entries of a
\* key that begin on the same day.
WellFormed(p) ==
  /\ p.effective <= p.expires
  /\ \A s \in p.signers : s.from <= s.until
  /\ \A s, t \in p.signers : s.from = t.from => s = t

\* created_on of the bundle and of the signature, and what the lists look at.
Bundle == [created : Days, signed : Days, facts : [ListReasons -> Values]]

ASSUME TrustAssumption ==
  /\ LastDay \in Nat
  /\ Policies \subseteq {p \in Policy : WellFormed(p)}
  /\ Bundles \subseteq Bundle

-----------------------------------------------------------------------------
(* _matching_signer and _evaluate_with_policy                              *)

\* Mutant: the revocation date itself still admits.
UsableOnRevocation(s, b, day) ==
  /\ b.signed >= s.from
  /\ b.signed <= s.until /\ day <= s.until
  /\ day <= s.revoked

\* The entry is active for a signature of b evaluated on that day.
Usable(s, b, day) ==
  /\ b.signed >= s.from
  /\ b.signed <= s.until /\ day <= s.until
  /\ day < s.revoked

ActiveSigners(p, b, day) == {s \in p.signers : Usable(s, b, day)}

\* sorted(active, key, reverse=True)[0]
Before(s, t) == s.from < t.from \/ (s.from = t.from /\ s.until < t.until)

MatchedSigner(active) == CHOOSE s \in active : \A t \in active : ~Before(s, t)

When(condition, reason) == IF condition THEN {reason} ELSE {}

SignerReason(p, b, day) ==
  IF p.signers = {} THEN {"untrusted-signer"}
  ELSE IF ActiveSigners(p, b, day) # {} THEN {}
  ELSE IF \A s \in p.signers : b.signed < s.from THEN {"signer-not-yet-valid"}
  ELSE IF \A s \in p.signers : day >= s.revoked THEN {"signer-revoked"}
  ELSE {"signer-expired"}

AgeReasons(p, b, day) ==
  UNION {When(day < p.effective, "trust-policy-not-effective"),
         When(day > p.expires, "trust-policy-expired"),
         When(b.created > day, "evidence-from-future"),
         When(day - b.created > p.evidenceAge, "evidence-too-old"),
         When(b.signed < b.created, "signature-before-evidence"),
         When(b.signed > day, "signature-from-future"),
         When(day - b.signed > p.signatureAge, "signature-too-old")}

Reasons(p, b, day) ==
  UNION {{r \in ListReasons : b.facts[r] \notin p.allowed[r]},
         AgeReasons(p, b, day),
         SignerReason(p, b, day)}

Admits(p, b, day) == Reasons(p, b, day) = {}

\* Mutant: the limits of the matched signer entry are left out.
LimitsWithoutSigner(p, b, day) ==
  {day + p.receiptDays, b.created + p.evidenceAge, b.signed + p.signatureAge, p.expires}

\* The dates valid_until is the earliest of.
Limits(p, b, day) ==
  LET s == MatchedSigner(ActiveSigners(p, b, day))
  IN  {day + p.receiptDays, b.created + p.evidenceAge, b.signed + p.signatureAge,
       p.expires, s.until, s.revoked - 1}

\* date + timedelta raises OverflowError beyond date.max, on admission only.
Overflows(p, b, day) ==
  /\ Admits(p, b, day)
  /\ \/ day + p.receiptDays > LastDay
     \/ b.created + p.evidenceAge > LastDay
     \/ b.signed + p.signatureAge > LastDay

\* Mutant: a denial is given a validity as well.
DenialLasts(p, b, context, day) ==
  [policy |-> p, bundle |-> b, context |-> context, evaluated |-> day,
   reasons |-> Reasons(p, b, day),
   result |-> IF Admits(p, b, day) THEN "admit" ELSE "deny",
   until |-> IF Admits(p, b, day) THEN Min(Limits(p, b, day)) ELSE day + p.receiptDays]

\* The document.  It names policy and bundle by their digests.
Receipt(p, b, context, day) ==
  [policy |-> p, bundle |-> b, context |-> context, evaluated |-> day,
   reasons |-> Reasons(p, b, day),
   result |-> IF Admits(p, b, day) THEN "admit" ELSE "deny",
   until |-> IF Admits(p, b, day) THEN Min(Limits(p, b, day)) ELSE day]

-----------------------------------------------------------------------------
VARIABLES
  policy,   \* the trust policy file
  bundle,   \* the bundle, statement and signature files
  receipt,  \* the receipt file
  verdict   \* what the last verification said of the files as they are

vars == <<policy, bundle, receipt, verdict>>

NoReceipt == [result |-> "none"]

\* A refused receipt has no day: the verifier raised.
Concluded(outcome) == [outcome |-> outcome, on |-> 0]

NoVerdict == Concluded("none")

Init ==
  /\ policy \in Policies
  /\ bundle \in Bundles
  /\ receipt = NoReceipt
  /\ verdict = NoVerdict

\* evaluate_admission: the receipt of an admission or a denial is kept.
Evaluate(context, day) ==
  /\ ~Overflows(policy, bundle, day)
  /\ receipt' = Receipt(policy, bundle, context, day)
  /\ verdict' = NoVerdict
  /\ UNCHANGED <<policy, bundle>>

\* Keys are rotated and revoked, evidence is made anew.
ReplacePolicy(p) ==
  /\ policy' = p
  /\ verdict' = NoVerdict
  /\ UNCHANGED <<bundle, receipt>>

ReplaceBundle(b) ==
  /\ bundle' = b
  /\ verdict' = NoVerdict
  /\ UNCHANGED <<policy, receipt>>

\* The receipt file is altered to admit until another day.
EditReceipt(day) ==
  /\ receipt # NoReceipt
  /\ receipt' = [receipt EXCEPT !.result = "admit", !.reasons = {}, !.until = day]
  /\ verdict' = NoVerdict
  /\ UNCHANGED <<policy, bundle>>

Expected(context, evaluated) == receipt.context = context /\ receipt.evaluated = evaluated

\* The receipt is, byte for byte, the one these files give.
Recomputed(context) ==
  receipt = Receipt(policy, bundle, context, receipt.evaluated)

Active(day) ==
  receipt.result = "admit" /\ receipt.evaluated <= day /\ day <= receipt.until

\* verify_admission_receipt: the context differs, the pinned digest of the
\* trust policy does, or the recomputation does.
VerifyMismatch(context, evaluated, pin) ==
  /\ receipt # NoReceipt
  /\ \/ ~Expected(context, evaluated)
     \/ pin # policy
     \/ ~Overflows(policy, bundle, evaluated) /\ ~Recomputed(context)
  /\ verdict' = Concluded("mismatch")
  /\ UNCHANGED <<policy, bundle, receipt>>

\* The recomputation raises OverflowError.
VerifyOverflows(context, evaluated, pin) ==
  /\ receipt # NoReceipt
  /\ Expected(context, evaluated) /\ pin = policy
  /\ Overflows(policy, bundle, evaluated)
  /\ verdict' = Concluded("overflow")
  /\ UNCHANGED <<policy, bundle, receipt>>

Verify(context, evaluated, on, pin) ==
  /\ receipt # NoReceipt
  /\ Expected(context, evaluated) /\ pin = policy
  /\ ~Overflows(policy, bundle, evaluated)
  /\ Recomputed(context)
  /\ verdict' = [outcome |-> IF Active(on) THEN "active" ELSE "inactive", on |-> on]
  /\ UNCHANGED <<policy, bundle, receipt>>

Next ==
  \/ \E context \in Context, day \in Days : Evaluate(context, day)
  \/ \E p \in Policies : ReplacePolicy(p)
  \/ \E b \in Bundles : ReplaceBundle(b)
  \/ \E day \in Days : EditReceipt(day)
  \/ \E context \in Context, evaluated \in Days, pin \in Policies :
       \/ VerifyMismatch(context, evaluated, pin)
       \/ VerifyOverflows(context, evaluated, pin)
       \/ \E on \in Days : Verify(context, evaluated, on, pin)

Spec == Init /\ [][Next]_vars

-----------------------------------------------------------------------------
ReceiptDocument ==
  [policy : Policies, bundle : Bundles, context : Context, evaluated : Days,
   reasons : SUBSET AllReasons, result : {"admit", "deny"}, until : Days]

Verdict == [outcome : {"none", "mismatch", "overflow", "active", "inactive"}, on : Days]

\* Every variable holds what the comment beside its declaration says; above
\* all, valid_until is a date.
TypeOK ==
  /\ policy \in Policies
  /\ bundle \in Bundles
  /\ receipt \in ReceiptDocument \cup {NoReceipt}
  /\ verdict \in Verdict

\* A receipt is reported active on a day only if an evaluation on that very
\* day, of the same bundle against the same policy, would admit: no policy
\* expiry, evidence or signature age, signer end or revocation lies between.
ActiveMeansReadmitted ==
  verdict.outcome = "active" => Admits(policy, bundle, verdict.on)

\* A receipt that admits is active on the day it was evaluated on: none of the
\* limits cuts its validity to nothing.
AdmittedIsActiveAtOnce ==
  verdict.outcome = "inactive" /\ verdict.on = receipt.evaluated =>
    receipt.result = "deny"
=============================================================================
