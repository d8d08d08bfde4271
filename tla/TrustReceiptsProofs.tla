-------------------------- MODULE TrustReceiptsProofs --------------------------
(***************************************************************************)
(* Theorems of TrustReceipts for any calendar, any trust policies and any  *)
(* bundles.                                                                *)
(***************************************************************************)
EXTENDS TrustReceipts, WellFoundedInduction, NaturalsInduction, TLAPS

-----------------------------------------------------------------------------
(* Earliest and latest days.                                               *)

\* A non-empty set of days from some day on has an earliest one.
LEMMA EarliestDay ==
  ASSUME NEW T, T \subseteq Nat, T # {}
  PROVE  \E x \in T : \A y \in T : x <= y
<1>1. PICK x \in T : \A y \in T : ~(<<y, x>> \in OpToRel(<, Nat))
  BY NatLessThanWellFounded, WFMin
<1>2. \A y \in T : ~(y < x)
  BY <1>1 DEF OpToRel
<1> QED BY <1>2

\* A non-empty set of days up to some day has a latest one: of the entries of a
\* key that are active, one began last.
LEMMA LatestDay ==
  ASSUME NEW bound \in Int, NEW S, S \subseteq Int, S # {}, \A x \in S : x <= bound
  PROVE  \E x \in S : \A y \in S : y <= x
<1> DEFINE T == {bound - x : x \in S}
<1>1. T \subseteq Nat /\ T # {}
  <2>1. \A x \in S : bound - x \in Nat
    OBVIOUS
  <2> QED BY <2>1
<1> HIDE DEF T
<1>2. PICK t \in T : \A y \in T : t <= y
  BY <1>1, EarliestDay
<1>3. PICK x \in S : t = bound - x
  BY <1>2 DEF T
<1>4. \A y \in S : bound - x <= bound - y
  BY <1>2, <1>3 DEF T
<1>5. \A y \in S : y <= x
  <2> SUFFICES ASSUME NEW y \in S PROVE y <= x
    OBVIOUS
  <2>1. bound - x <= bound - y /\ x \in Int /\ y \in Int
    BY <1>4
  <2> QED BY <2>1
<1> QED BY <1>5

-----------------------------------------------------------------------------
(* What an evaluation returns.                                             *)

\* Some entry is matched when some are active, and it is one of them: entries
\* of a key begin on different days, so there is a latest one.
LEMMA MatchedIsActive ==
  ASSUME NEW p \in Policies, NEW active \in SUBSET p.signers, active # {}
  PROVE  MatchedSigner(active) \in active
<1>1. p \in Policy /\ WellFormed(p)
  BY TrustAssumption
<1>2. active \subseteq Signer
  BY <1>1 DEF Policy
<1> DEFINE Starts == {s.from : s \in active}
<1>3. Starts \subseteq Int /\ Starts # {} /\ \A x \in Starts : x <= LastDay
  BY <1>2, TrustAssumption DEF Signer, Days
<1>4. LastDay \in Int
  BY TrustAssumption
<1>5. PICK x \in Starts : \A y \in Starts : y <= x
  <2> HIDE DEF Starts
  <2> QED BY <1>3, <1>4, LatestDay
<1>6. PICK s \in active : s.from = x
  OBVIOUS
<1>7. \A t \in active : ~Before(s, t)
  <2> SUFFICES ASSUME NEW t \in active, Before(s, t) PROVE FALSE
    OBVIOUS
  <2>1. t.from <= s.from /\ t.from \in Int /\ s.from \in Int
    BY <1>2, <1>5, <1>6 DEF Signer, Days
  <2>2. t.from = s.from
    BY <2>1 DEF Before
  <2>3. t = s
    BY <1>1, <2>2 DEF WellFormed
  <2>4. s.until \in Int
    BY <1>2 DEF Signer, Days
  <2> QED BY <2>1, <2>3, <2>4 DEF Before
<1> QED BY <1>6, <1>7 DEF MatchedSigner

\* An admission has an active signer entry.
LEMMA AdmittedHasSigner ==
  ASSUME NEW p \in Policies, NEW b \in Bundles, NEW day \in Days, Admits(p, b, day)
  PROVE  /\ p.signers # {}
         /\ ActiveSigners(p, b, day) # {}
         /\ MatchedSigner(ActiveSigners(p, b, day)) \in ActiveSigners(p, b, day)
<1>1. SignerReason(p, b, day) = {}
  BY DEF Admits, Reasons
<1>2. p.signers # {} /\ ActiveSigners(p, b, day) # {}
  BY <1>1 DEF SignerReason
<1>3. ActiveSigners(p, b, day) \in SUBSET p.signers
  BY DEF ActiveSigners
<1> QED BY <1>2, <1>3, MatchedIsActive

\* What an admission says of the dates, one line for each reason that could
\* have been given.
DatesAllow(p, b, day) ==
  /\ p.effective <= day /\ day <= p.expires
  /\ b.created <= day /\ day - b.created <= p.evidenceAge
  /\ b.created <= b.signed
  /\ b.signed <= day /\ day - b.signed <= p.signatureAge

ListsAllow(p, b) == \A r \in ListReasons : b.facts[r] \in p.allowed[r]

\* The reasons to deny, turned into the conditions under which there is none.
LEMMA AdmitsUnfolded ==
  ASSUME NEW p \in Policies, NEW b \in Bundles, NEW day \in Days
  PROVE  Admits(p, b, day) <=> /\ DatesAllow(p, b, day)
                               /\ ListsAllow(p, b)
                               /\ p.signers # {}
                               /\ ActiveSigners(p, b, day) # {}
<1>1. /\ p.effective \in Int /\ p.expires \in Int /\ b.created \in Int /\ b.signed \in Int
      /\ p.evidenceAge \in Int /\ p.signatureAge \in Int /\ day \in Int
  BY TrustAssumption DEF Policy, Bundle, Days
<1>2. AgeReasons(p, b, day) = {} <=> DatesAllow(p, b, day)
  BY <1>1 DEF AgeReasons, DatesAllow, When
<1>3. {r \in ListReasons : b.facts[r] \notin p.allowed[r]} = {} <=> ListsAllow(p, b)
  BY DEF ListsAllow
<1>4. SignerReason(p, b, day) = {} <=> p.signers # {} /\ ActiveSigners(p, b, day) # {}
  BY DEF SignerReason
<1>5. Admits(p, b, day) <=> /\ {r \in ListReasons : b.facts[r] \notin p.allowed[r]} = {}
                            /\ AgeReasons(p, b, day) = {}
                            /\ SignerReason(p, b, day) = {}
  BY DEF Admits, Reasons
<1> QED BY <1>2, <1>3, <1>4, <1>5

\* valid_until is a date, not before the evaluation and not after any limit.
LEMMA ValidUntil ==
  ASSUME NEW p \in Policies, NEW b \in Bundles, NEW day \in Days,
         Admits(p, b, day), ~Overflows(p, b, day)
  PROVE  LET s == MatchedSigner(ActiveSigners(p, b, day))
             until == Min(Limits(p, b, day))
         IN  /\ s \in p.signers /\ Usable(s, b, day)
             /\ until \in Days /\ day <= until
             /\ until <= p.expires
             /\ until <= b.created + p.evidenceAge
             /\ until <= b.signed + p.signatureAge
             /\ until <= s.until /\ until < s.revoked
<1> DEFINE s == MatchedSigner(ActiveSigners(p, b, day))
           until == Min(Limits(p, b, day))
<1>1. s \in p.signers /\ Usable(s, b, day)
  BY AdmittedHasSigner DEF ActiveSigners
<1>2. DatesAllow(p, b, day)
  BY AdmitsUnfolded
<1>3. /\ p.expires \in Days /\ b.created \in Int /\ b.signed \in Int
      /\ p.evidenceAge \in Nat /\ p.signatureAge \in Nat /\ p.receiptDays \in Nat
      /\ s.until \in Days /\ s.revoked \in 0 .. LastDay + 1
  <2>1. p \in Policy /\ b \in Bundle
    BY TrustAssumption
  <2>2. s \in Signer
    BY <1>1, <2>1 DEF Policy
  <2> HIDE DEF s
  <2> QED BY <2>1, <2>2 DEF Policy, Bundle, Signer, Days
<1> HIDE DEF s
<1>4. /\ day + p.receiptDays \in Int /\ b.created + p.evidenceAge \in Int
      /\ b.signed + p.signatureAge \in Int /\ p.expires \in Int /\ s.until \in Int
      /\ s.revoked - 1 \in Int
  BY <1>3 DEF Days
<1>5. Limits(p, b, day) = {day + p.receiptDays, b.created + p.evidenceAge,
                           b.signed + p.signatureAge, p.expires, s.until, s.revoked - 1}
  BY DEF Limits, s
<1>6. until \in Limits(p, b, day) /\ \A x \in Limits(p, b, day) : until <= x
  <2>1. \E m \in Limits(p, b, day) : \A x \in Limits(p, b, day) : m <= x
    BY <1>4, <1>5
  <2> QED BY <2>1 DEF Min
<1> HIDE DEF until
<1>7. \A x \in Limits(p, b, day) : day <= x
  BY <1>1, <1>2, <1>3, <1>5 DEF DatesAllow, Usable, Days
<1>8. until \in Int /\ day <= until /\ until <= p.expires
  BY <1>4, <1>5, <1>6, <1>7
<1>9. until \in Days
  BY <1>3, <1>8, TrustAssumption DEF Days
<1>10. until <= s.until /\ until < s.revoked
  BY <1>3, <1>5, <1>6, <1>8 DEF Days
<1>11. until <= b.created + p.evidenceAge /\ until <= b.signed + p.signatureAge
  BY <1>5, <1>6
<1> QED BY <1>1, <1>8, <1>9, <1>10, <1>11 DEF s, until

\* Any day from the evaluation to valid_until would have been admitted as well.
LEMMA AdmittedThroughout ==
  ASSUME NEW p \in Policies, NEW b \in Bundles, NEW day \in Days,
         Admits(p, b, day), ~Overflows(p, b, day),
         NEW later \in Days, day <= later, later <= Min(Limits(p, b, day))
  PROVE  Admits(p, b, later)
<1> DEFINE s == MatchedSigner(ActiveSigners(p, b, day))
           until == Min(Limits(p, b, day))
<1>1. /\ s \in p.signers /\ Usable(s, b, day) /\ until \in Days
      /\ until <= p.expires
      /\ until <= b.created + p.evidenceAge /\ until <= b.signed + p.signatureAge
      /\ until <= s.until /\ until < s.revoked
  BY ValidUntil
<1>2. /\ p \in Policy /\ b \in Bundle
  BY TrustAssumption
<1>3. s \in Signer
  BY <1>1, <1>2 DEF Policy
<1> HIDE DEF s, until
<1>4. later <= until /\ later \in Int /\ until \in Int /\ day \in Int
  BY <1>1 DEF until, Days
<1>5. Usable(s, b, later)
  BY <1>1, <1>2, <1>3, <1>4 DEF Usable, Signer, Bundle, Days
<1>6. DatesAllow(p, b, day) /\ ListsAllow(p, b)
  BY AdmitsUnfolded
<1>7. DatesAllow(p, b, later)
  BY <1>1, <1>2, <1>4, <1>6 DEF DatesAllow, Policy, Bundle, Days
<1>8. s \in ActiveSigners(p, b, later)
  BY <1>1, <1>5 DEF ActiveSigners
<1> QED BY <1>1, <1>6, <1>7, <1>8, AdmitsUnfolded

-----------------------------------------------------------------------------
(* Type correctness.                                                       *)

\* What the verifier is told stays a receipt as long as no date overflows.
LEMMA ReceiptIsTyped ==
  ASSUME NEW p \in Policies, NEW b \in Bundles, NEW context \in Context,
         NEW day \in Days, ~Overflows(p, b, day)
  PROVE  Receipt(p, b, context, day) \in ReceiptDocument
<1>1. Reasons(p, b, day) \in SUBSET AllReasons
  <2>1. AgeReasons(p, b, day) \subseteq DateReasons
    BY DEF AgeReasons, When, DateReasons
  <2>2. SignerReason(p, b, day) \subseteq SignerReasons
    BY DEF SignerReason, SignerReasons
  <2> QED BY <2>1, <2>2 DEF Reasons, AllReasons
<1>2. Admits(p, b, day) => Min(Limits(p, b, day)) \in Days
  BY ValidUntil
<1> QED BY <1>1, <1>2 DEF Receipt, ReceiptDocument

\* Every variable keeps its type, valid_until above all, which is always a date.
THEOREM TypeCorrect == Spec => []TypeOK
<1>1. Init => TypeOK
  BY TrustAssumption DEF Init, TypeOK, NoVerdict, Concluded, Verdict, Days
<1>2. TypeOK /\ [Next]_vars => TypeOK'
  <2> SUFFICES ASSUME TypeOK, [Next]_vars PROVE TypeOK'
    OBVIOUS
  <2>0. \A outcome \in {"none", "mismatch", "overflow"} : Concluded(outcome) \in Verdict
    BY TrustAssumption DEF Concluded, Verdict, Days
  <2>1. ASSUME NEW context \in Context, NEW day \in Days, Evaluate(context, day)
        PROVE TypeOK'
    BY <2>0, <2>1, ReceiptIsTyped DEF Evaluate, TypeOK, NoVerdict
  <2>2. ASSUME NEW p \in Policies, ReplacePolicy(p) PROVE TypeOK'
    BY <2>0, <2>2 DEF ReplacePolicy, TypeOK, NoVerdict
  <2>3. ASSUME NEW b \in Bundles, ReplaceBundle(b) PROVE TypeOK'
    BY <2>0, <2>3 DEF ReplaceBundle, TypeOK, NoVerdict
  <2>4. ASSUME NEW day \in Days, EditReceipt(day) PROVE TypeOK'
    BY <2>0, <2>4 DEF EditReceipt, TypeOK, NoVerdict, ReceiptDocument
  <2>5. ASSUME NEW context \in Context, NEW evaluated \in Days, NEW pin \in Policies,
               VerifyMismatch(context, evaluated, pin)
        PROVE TypeOK'
    BY <2>0, <2>5 DEF VerifyMismatch, TypeOK
  <2>6. ASSUME NEW context \in Context, NEW evaluated \in Days, NEW pin \in Policies,
               VerifyOverflows(context, evaluated, pin)
        PROVE TypeOK'
    BY <2>0, <2>6 DEF VerifyOverflows, TypeOK
  <2>7. ASSUME NEW context \in Context, NEW evaluated \in Days, NEW pin \in Policies,
               NEW on \in Days, Verify(context, evaluated, on, pin)
        PROVE TypeOK'
    BY <2>7 DEF Verify, TypeOK, Verdict
  <2>8. CASE UNCHANGED vars
    BY <2>8 DEF vars, TypeOK
  <2> QED BY <2>1, <2>2, <2>3, <2>4, <2>5, <2>6, <2>7, <2>8 DEF Next
<1> QED BY <1>1, <1>2, PTL DEF Spec

-----------------------------------------------------------------------------
(* Active receipts.                                                        *)

\* The strengthening: while the files stay as they were, what was verified is
\* what they give, and the verdict is what its validity says.
VerdictInv ==
  verdict.outcome \in {"active", "inactive"} =>
    /\ receipt # NoReceipt
    /\ ~Overflows(policy, bundle, receipt.evaluated)
    /\ \E context \in Context : Recomputed(context)
    /\ verdict.outcome = "active" <=> Active(verdict.on)

\* The verdict stays one about the files, whatever is evaluated, replaced or edited.
LEMMA VerdictHolds == Spec => []VerdictInv
<1>1. Init => VerdictInv
  BY DEF Init, VerdictInv, NoVerdict, Concluded
<1>2. TypeOK /\ VerdictInv /\ [Next]_vars => VerdictInv'
  <2> SUFFICES ASSUME TypeOK, VerdictInv, [Next]_vars PROVE VerdictInv'
    OBVIOUS
  <2>1. CASE verdict' = NoVerdict \/ verdict' = Concluded("mismatch")
               \/ verdict' = Concluded("overflow")
    BY <2>1 DEF VerdictInv, NoVerdict, Concluded
  <2>2. ASSUME NEW context \in Context, NEW evaluated \in Days, NEW pin \in Policies,
               NEW on \in Days, Verify(context, evaluated, on, pin)
        PROVE VerdictInv'
    <3>1. verdict'.on = on /\ verdict'.outcome = IF Active(on) THEN "active" ELSE "inactive"
      BY <2>2 DEF Verify
    <3>2. Active(on)' <=> Active(on)
      BY <2>2 DEF Verify, Active
    <3>3. Recomputed(context)'
      BY <2>2 DEF Verify, Recomputed
    <3>4. receipt' # NoReceipt /\ ~Overflows(policy', bundle', receipt'.evaluated)
      BY <2>2 DEF Verify, Expected
    <3>5. Active(verdict.on)' <=> Active(on)
      BY <2>2, <3>1 DEF Verify, Active
    <3> QED BY <3>1, <3>3, <3>4, <3>5 DEF VerdictInv
  <2>3. CASE UNCHANGED vars
    BY <2>3 DEF vars, VerdictInv, Recomputed, Active
  <2> QED BY <2>1, <2>2, <2>3 DEF Next, Evaluate, ReplacePolicy, ReplaceBundle,
        EditReceipt, VerifyMismatch, VerifyOverflows
<1> QED BY <1>1, <1>2, TypeCorrect, PTL DEF Spec

\* A receipt that verifies on a day stands for an admission on that very day,
\* under every policy that load_trust_policy accepts.
THEOREM ActiveIsReadmitted == Spec => []ActiveMeansReadmitted
<1>1. TypeOK /\ VerdictInv => ActiveMeansReadmitted
  <2> SUFFICES ASSUME TypeOK, VerdictInv, verdict.outcome = "active"
               PROVE  Admits(policy, bundle, verdict.on)
    BY DEF ActiveMeansReadmitted
  <2>1. PICK context \in Context : Recomputed(context)
    BY DEF VerdictInv
  <2>2. ~Overflows(policy, bundle, receipt.evaluated) /\ Active(verdict.on)
    BY DEF VerdictInv
  <2>3. receipt.evaluated \in Days /\ verdict.on \in Days
    BY DEF TypeOK, VerdictInv, ReceiptDocument, Verdict
  <2>4. Admits(policy, bundle, receipt.evaluated)
    BY <2>1, <2>2 DEF Recomputed, Receipt, Active
  <2>5. receipt.until = Min(Limits(policy, bundle, receipt.evaluated))
    BY <2>1, <2>4 DEF Recomputed, Receipt
  <2> QED BY <2>2, <2>3, <2>4, <2>5, AdmittedThroughout DEF Active, TypeOK
<1> QED BY <1>1, TypeCorrect, VerdictHolds, PTL

\* An admission is never cut to nothing: it is active on its own day.
THEOREM AdmittedIsActive == Spec => []AdmittedIsActiveAtOnce
<1>1. TypeOK /\ VerdictInv => AdmittedIsActiveAtOnce
  <2> SUFFICES ASSUME TypeOK, VerdictInv, verdict.outcome = "inactive",
                      verdict.on = receipt.evaluated, receipt.result # "deny"
               PROVE  FALSE
    BY DEF AdmittedIsActiveAtOnce
  <2>1. PICK context \in Context : Recomputed(context)
    BY DEF VerdictInv
  <2>2. ~Overflows(policy, bundle, receipt.evaluated) /\ ~Active(receipt.evaluated)
    BY DEF VerdictInv
  <2>3. receipt.evaluated \in Days
    BY DEF TypeOK, VerdictInv, ReceiptDocument
  <2>4. Admits(policy, bundle, receipt.evaluated) /\ receipt.result = "admit"
    BY <2>1 DEF Recomputed, Receipt
  <2>5. receipt.until = Min(Limits(policy, bundle, receipt.evaluated))
    BY <2>1, <2>4 DEF Recomputed, Receipt
  <2>6. receipt.evaluated <= receipt.until
    BY <2>2, <2>3, <2>4, <2>5, ValidUntil DEF TypeOK
  <2> QED BY <2>2, <2>3, <2>4, <2>6 DEF Active, Days
<1> QED BY <1>1, TypeCorrect, VerdictHolds, PTL
=============================================================================
