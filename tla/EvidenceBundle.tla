---------------------------- MODULE EvidenceBundle ----------------------------
(***************************************************************************)
(* What a scan report, an Evidence Bundle and a corporate signature hold,  *)
(* and when their verifiers accept them.  A digest is the thing it is the  *)
(* digest of.  A source tree stands for its manifest, the findings in it   *)
(* and their counts alike, so that a field taken from another scan shows;  *)
(* one control file, the organization policy, stands for the five a report *)
(* can retain.                                                             *)
(***************************************************************************)
CONSTANTS
  Sources,         \* contents of the scanned tree
  Policies,        \* contents of the policy file
  NoPolicy,        \* no policy: the gate is a severity threshold
  BlockedBy,       \* BlockedBy[s] is what blocks source s: policies, NoPolicy
  OtherScans,      \* the scans <<s, c>> whose entries get into a bundle
  Missing          \* no such file

Controls == Policies \cup {NoPolicy}

ASSUME BundleAssumption ==
  /\ NoPolicy \notin Policies
  /\ BlockedBy \in [Sources -> SUBSET Controls]
  /\ OtherScans \subseteq Sources \X Controls

Exists(content) == content # Missing

Gates == {"pass", "blocked"}

\* The gate a scan of this source under this control comes to.
GateOf(source, control) == IF control \in BlockedBy[source] THEN "blocked" ELSE "pass"

-----------------------------------------------------------------------------
(* Making a bundle                                                         *)

\* scan_path, apply_admission and apply_policy
ReportOf(source, control) ==
  [files |-> source, digest |-> source, findings |-> source, summary |-> source,
   policy |-> control, blocked |-> control \in BlockedBy[source]]

\* Mutant: the bytes bundled as the policy are not compared with the report.
MaterialUnchecked(report, raw) == TRUE

\* A control file has to hold, when it is read for the bundle, what the report
\* was decided with.
MaterialMatches(report, raw) == raw = report.policy

\* The analyzed files and nothing else.
InventoryOf(report) == report.files

IndexOf(report, input, inventory) ==
  [report |-> report, input |-> input, inventory |-> inventory]

BundleOf(report, raw) ==
  [subject |-> report.digest,
   gate |-> IF report.blocked THEN "blocked" ELSE "pass",
   policy |-> report.policy,
   index |-> IndexOf(report, raw, InventoryOf(report)),
   report |-> report, input |-> raw, inventory |-> InventoryOf(report)]

-----------------------------------------------------------------------------
(* verify_evidence_bundle                                                  *)

\* Every entry is indexed, and by its digest.
IndexHolds(b) == b.index = IndexOf(b.report, b.input, b.inventory)

ManifestHolds(b) == b.report.digest = b.report.files /\ b.subject = b.report.digest

SummaryHolds(b) == b.report.summary = b.report.findings

\* What the report retained of a policy is believed; a threshold is recomputed.
\* With a policy the report's result is believed, else the gate is recomputed.  One
\* threshold stands for the fail_on of the bundle, and findings stand for the
\* admission decisions of a scan with a baseline or suppressions.
ExpectedGate(report) ==
  IF report.policy = NoPolicy THEN GateOf(report.findings, NoPolicy)
  ELSE IF report.blocked THEN "blocked" ELSE "pass"

GateHolds(b) == b.policy = b.report.policy /\ b.gate = ExpectedGate(b.report)

InputsHold(b) == b.input = b.report.policy

InventoryHolds(b) == b.inventory = b.report.files

BundleVerifies(b) ==
  /\ Exists(b)
  /\ IndexHolds(b) /\ ManifestHolds(b) /\ SummaryHolds(b)
  /\ GateHolds(b) /\ InputsHold(b) /\ InventoryHolds(b)

\* A bundle with an entry of another scan, or another gate, in it; its index is
\* brought up to date or not.
Reindexed(b) == [b EXCEPT !.index = IndexOf(b.report, b.input, b.inventory)]

Mixtures(b) ==
  LET others == {BundleOf(ReportOf(scan[1], scan[2]), scan[2]) : scan \in OtherScans}
      mixed == {[b EXCEPT !.report = o.report] : o \in others}
               \cup {[b EXCEPT !.input = o.input] : o \in others}
               \cup {[b EXCEPT !.inventory = o.inventory] : o \in others}
               \cup {[b EXCEPT !.gate = g] : g \in Gates}
  IN  (mixed \cup {Reindexed(m) : m \in mixed}) \ {b}

\* A bundle whose report is given another result of its policy, consistently.
OtherVerdict(b) ==
  LET report == [b.report EXCEPT !.blocked = ~@]
  IN  Reindexed([b EXCEPT !.report = report,
                          !.gate = IF report.blocked THEN "blocked" ELSE "pass"])

-----------------------------------------------------------------------------
(* Signatures: signing.py                                                  *)

StatementOf(b, key) == [subject |-> b, gate |-> b.gate, key |-> key]

SignatureOf(statement, key) == [of |-> statement, by |-> key]

\* Mutant: the statement is not compared with the bundle.
StatementOfKey(b, statement, key) == Exists(statement) /\ statement.key = key

\* _parse_statement: the statement is about this bundle, its gate and this key.
StatementHolds(b, statement, key) ==
  Exists(statement) /\ statement.key = key /\ statement.subject = b /\ statement.gate = b.gate

\* verify_evidence_signature without an expected key
SignatureVerifies(b, statement, signature, key) ==
  /\ BundleVerifies(b)
  /\ Exists(signature) /\ Exists(key)
  /\ StatementHolds(b, statement, key)
  /\ signature = SignatureOf(statement, key)
=============================================================================
