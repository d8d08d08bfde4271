---------------------------- MODULE AdmissionGate ----------------------------
(***************************************************************************)
(* The gate of a scan: findings are grouped by root cause, a baseline and  *)
(* a suppressions file accept some of them, and --fail-on or an            *)
(* organization policy decides about the rest.  Between two scans the      *)
(* source, the two files and the scanner's ruleset may all change.         *)
(*                                                                         *)
(* Severities are their ranks 1 .. 4.  Dates are numbers.  A path is its   *)
(* directories and a file name that was split at "--" and at its suffix.   *)
(***************************************************************************)
EXTENDS Integers, FiniteSetsExt, SequencesExt

CONSTANTS
  Findings,          \* what rules can report
  Sources,           \* the sets of findings that a version of the source has
  Rulesets,          \* the ruleset versions of the scanner
  SuppressionFiles,  \* the sets of entries that owners write
  Gates,             \* --fail-on thresholds, policies that load_policy accepts
  Dates,             \* what --evaluated-on may say
  SkipCounts,        \* the numbers of files a scan may have skipped
  Absent, Malformed  \* no such file was given; the loader refuses it

Severities == 1 .. 4

ASSUME GateAssumption ==
  /\ \A f \in Findings : f.severity \in Severities
  /\ \A s \in Sources : s \subseteq Findings
  /\ \A gate \in Gates : gate.minimum \in Int
  /\ Dates \subseteq Int
  /\ 0 \in SkipCounts
  /\ \A file \in SuppressionFiles : \A e \in file.entries : e.expires \in Int

-----------------------------------------------------------------------------
(* Root causes: grouping.py                                                *)

GenericDirectories ==
  {"migration", "migrations", "sql", "update", "updates", "upgrade", "upgrades"}

SemanticRules ==
  {"sql.security-definer-public-execute", "sql.security-definer-event-trigger",
   "sql.security-definer-search-path", "sql.security-definer-search-path-review"}

\* dirs without the generic directories it ends with.
FamilyDirectory(dirs) ==
  SubSeq(dirs, 1, Max({0} \cup {i \in DOMAIN dirs : dirs[i] \notin GenericDirectories}))

\* The artifact family of an SQL file does not depend on its version.
ArtifactScope(path) ==
  IF path.sql THEN Append(FamilyDirectory(path.dirs), path.extension) ELSE path.dirs

\* evidence.startswith("routine = ") is that it names a routine.
Semantic(f) == f.rule \in SemanticRules /\ f.evidence.routine

\* Mutant: the capability does not tell root causes apart.
RootCauseWithoutCapability(f) ==
  IF Semantic(f)
  THEN [kind |-> "semantic", rule |-> f.rule, severity |-> f.severity,
        scope |-> ArtifactScope(f.path), evidence |-> f.evidence]
  ELSE [kind |-> "location", rule |-> f.rule, severity |-> f.severity,
        path |-> f.path, line |-> f.line, message |-> f.message, evidence |-> f.evidence]

\* _group_discriminator, of which root_cause_id is the digest.
RootCause(f) ==
  IF Semantic(f)
  THEN [kind |-> "semantic", rule |-> f.rule, severity |-> f.severity,
        capability |-> f.capability, scope |-> ArtifactScope(f.path), evidence |-> f.evidence]
  ELSE [kind |-> "location", rule |-> f.rule, severity |-> f.severity,
        capability |-> f.capability, path |-> f.path, line |-> f.line,
        message |-> f.message, evidence |-> f.evidence]

RootCauses(findings) == {RootCause(f) : f \in findings}

\* The first occurrence in the order of the findings speaks for its group.
Representative(findings, id) ==
  CHOOSE f \in findings :
    /\ RootCause(f) = id
    /\ \A g \in findings : RootCause(g) = id => g.severity <= f.severity

-----------------------------------------------------------------------------
(* Baselines and suppressions: admission.py                                *)

Entry(findings, id) ==
  LET f == Representative(findings, id)
  IN  [id |-> id, rule |-> f.rule, severity |-> f.severity]

\* Mutant: entries are identified by what was found instead of by root cause.
BaselineByEvidence(findings, ruleset) ==
  [ruleset |-> ruleset,
   entries |-> {[id |-> f.evidence, rule |-> f.rule, severity |-> f.severity] : f \in findings}]

\* create_baseline_document
BaselineOf(findings, ruleset) ==
  [ruleset |-> ruleset, entries |-> {Entry(findings, id) : id \in RootCauses(findings)}]

Entries(file) == IF file = Absent THEN {} ELSE file.entries

Ids(file) == {e.id : e \in Entries(file)}

EntryFor(file, id) == CHOOSE e \in Entries(file) : e.id = id

\* _read_json_file, load_baseline and load_suppressions
Loadable(file) ==
  /\ file # Malformed
  /\ \A d, e \in Entries(file) : d.id = e.id => d = e

\* Mutant: a root cause may be in both files.
AdmissibleOverlap(findings, ruleset, base, supp) ==
  /\ \A file \in {base, supp} : file # Absent => file.ruleset = ruleset
  /\ \A id \in RootCauses(findings), file \in {base, supp} :
       id \in Ids(file) =>
         LET f == Representative(findings, id)
         IN  EntryFor(file, id).rule = f.rule /\ EntryFor(file, id).severity = f.severity

\* What apply_admission and _verify_entry do not raise an AdmissionError for.
Admissible(findings, ruleset, base, supp) ==
  /\ \A file \in {base, supp} : file # Absent => file.ruleset = ruleset
  /\ Ids(base) \cap Ids(supp) = {}
  /\ \A id \in RootCauses(findings), file \in {base, supp} :
       id \in Ids(file) =>
         LET f == Representative(findings, id)
         IN  EntryFor(file, id).rule = f.rule /\ EntryFor(file, id).severity = f.severity

\* Mutant: an expired suppression starts to hold instead of ending.
StatusReversed(id, base, supp, date) ==
  IF id \in Ids(base) THEN "baselined"
  ELSE IF id \notin Ids(supp) THEN "active"
  ELSE IF EntryFor(supp, id).expires < date THEN "suppressed" ELSE "expired"

\* The status of a decision.
Status(id, base, supp, date) ==
  IF id \in Ids(base) THEN "baselined"
  ELSE IF id \notin Ids(supp) THEN "active"
  ELSE IF EntryFor(supp, id).expires < date THEN "expired" ELSE "suppressed"

\* report.admission: the decisions, or none.
Decisions(findings, base, supp, date) ==
  IF base = Absent /\ supp = Absent THEN <<>>
  ELSE [id \in RootCauses(findings) |-> Status(id, base, supp, date)]

-----------------------------------------------------------------------------
(* The two gates.  A gate is a --fail-on threshold or a policy: the        *)
(* command refuses both together, and a date without a suppressions file.  *)

Open == {"active", "expired"}

\* 5 is the threshold "none".
FailOn(minimum) == [kind |-> "fail-on", minimum |-> minimum]

\* Mutant: --fail-on looks at the findings although they have been decided.
ThresholdOfFindings(findings, decisions, minimum) == \E f \in findings : f.severity >= minimum

\* _threshold_reached and gate_root_causes
ThresholdReached(findings, decisions, minimum) ==
  IF decisions = <<>>
  THEN \E f \in findings : f.severity >= minimum
  ELSE \E id \in DOMAIN decisions :
         /\ decisions[id] \in Open
         /\ Representative(findings, id).severity >= minimum

\* apply_policy
PolicyBlocks(findings, decisions, skipped, policy) ==
  \/ \E id \in RootCauses(findings) :
       LET f == Representative(findings, id)
       IN  /\ id \in DOMAIN decisions => decisions[id] \in Open
           /\ \/ f.severity >= policy.minimum
              \/ f.capability \in policy.capabilities
              \/ f.rule \in policy.rules
  \/ skipped > policy.skips

\* What apply_policy does not raise a PolicyError for.
PolicyAllows(policy, ruleset, base, supp) ==
  /\ policy.ruleset = ruleset
  /\ base # Absent => policy.allowBaseline
  /\ supp # Absent => /\ policy.allowSuppressions
                      /\ policy.requireTicket => \A e \in supp.entries : e.ticket

\* _controlled_scan and _report_is_blocked: the exit status of a scan.
Verdict(findings, skipped, ruleset, base, supp, gate, date) ==
  IF \/ ~Loadable(base) \/ ~Loadable(supp)
     \/ ~Admissible(findings, ruleset, base, supp)
     \/ gate.kind = "policy" /\ ~PolicyAllows(gate, ruleset, base, supp)
  THEN "refused"
  ELSE LET decisions == Decisions(findings, base, supp, date)
           blocked == IF gate.kind = "policy"
                      THEN PolicyBlocks(findings, decisions, skipped, gate)
                      ELSE ThresholdReached(findings, decisions, gate.minimum)
       IN  IF blocked THEN "blocked" ELSE "passed"
-----------------------------------------------------------------------------
VARIABLES
  source,        \* the findings the current source gives
  skips,         \* how many of its files are skipped
  ruleset,       \* the scanner's ruleset version
  baseline,      \* the baseline file
  suppressions,  \* the suppressions file
  reviewed,      \* history: the root causes this baseline was created from, and
                 \* the ruleset that reported them
  scan           \* the gate, date and verdict of the last scan of these inputs

vars == <<source, skips, ruleset, baseline, suppressions, reviewed, scan>>

NoScan == [gate |-> FailOn(5), date |-> 0, verdict |-> "none"]

TypeOK ==
  /\ source \in Sources
  /\ skips \in SkipCounts
  /\ ruleset \in Rulesets
  /\ baseline \in {Absent, Malformed} \/
       /\ baseline.ruleset \in Rulesets
       /\ Ids(baseline) \subseteq RootCauses(Findings)
  /\ suppressions \in {Absent, Malformed} \cup SuppressionFiles
  /\ reviewed \subseteq RootCauses(Findings) \X Rulesets
  /\ scan.verdict \in {"none", "refused", "blocked", "passed"}

Init ==
  /\ source \in Sources
  /\ skips = 0
  /\ ruleset \in Rulesets
  /\ baseline = Absent
  /\ suppressions = Absent
  /\ reviewed = {}
  /\ scan = NoScan

\* A commit to the scanned repository.
EditSource ==
  /\ source' \in Sources
  /\ skips' \in SkipCounts
  /\ scan' = NoScan
  /\ UNCHANGED <<ruleset, baseline, suppressions, reviewed>>

\* Another release of the scanner.
Upgrade ==
  /\ ruleset' \in Rulesets \ {ruleset}
  /\ scan' = NoScan
  /\ UNCHANGED <<source, skips, baseline, suppressions, reviewed>>

\* The baseline command, whose output is reviewed and put to use.
CreateBaseline ==
  /\ baseline' = BaselineOf(source, ruleset)
  /\ reviewed' = RootCauses(source) \X {ruleset}
  /\ scan' = NoScan
  /\ UNCHANGED <<source, skips, ruleset, suppressions>>

\* The baseline is damaged, removed, or an entry is taken out of it.
EditBaseline ==
  /\ baseline \notin {Absent, Malformed}
  /\ \/ baseline' \in {Absent, Malformed} /\ reviewed' = {}
     \/ /\ \E e \in baseline.entries : baseline' = [baseline EXCEPT !.entries = @ \ {e}]
        /\ UNCHANGED reviewed
  /\ scan' = NoScan
  /\ UNCHANGED <<source, skips, ruleset, suppressions>>

EditSuppressions ==
  /\ suppressions' \in {Absent, Malformed} \cup SuppressionFiles
  /\ scan' = NoScan
  /\ UNCHANGED <<source, skips, ruleset, baseline, reviewed>>

Scan(gate, date) ==
  /\ scan' = [gate |-> gate, date |-> date,
              verdict |-> Verdict(source, skips, ruleset, baseline, suppressions, gate, date)]
  /\ UNCHANGED <<source, skips, ruleset, baseline, suppressions, reviewed>>

Next ==
  \/ EditSource \/ Upgrade \/ CreateBaseline \/ EditBaseline \/ EditSuppressions
  \/ \E gate \in Gates, date \in Dates : Scan(gate, date)

Spec == Init /\ [][Next]_vars
-----------------------------------------------------------------------------
(* Properties                                                              *)

\* What a gate objects to in one finding, on its own.
Objects(gate, f) ==
  \/ f.severity >= gate.minimum
  \/ gate.kind = "policy" /\ (f.capability \in gate.capabilities \/ f.rule \in gate.rules)

\* A scan that passes hides no finding the gate objects to, unless its root
\* cause was in the source from which the baseline was created under this very
\* ruleset, or an owner's suppression of it has not expired on the date of the
\* scan (admission.py, policy.py: grouping must not let one finding answer for
\* a worse one).
PassHidesNothing ==
  scan.verdict = "passed" =>
    \A f \in source : Objects(scan.gate, f) =>
      \/ <<RootCause(f), ruleset>> \in reviewed /\ RootCause(f) \in Ids(baseline)
      \/ /\ suppressions # Absent /\ suppressions.ruleset = ruleset
         /\ \E e \in suppressions.entries : e.id = RootCause(f) /\ e.expires >= scan.date

\* A suppression that has expired blocks again, whatever else accepts its root
\* cause: a later baseline, or another entry of the file (admission.py 530-535).
ExpiredBlocks ==
  scan.verdict = "passed" =>
    \A f \in source, e \in Entries(suppressions) :
      Objects(scan.gate, f) /\ e.id = RootCause(f) => e.expires >= scan.date

\* Nothing but an edit can make a blocked source pass: waiting does not
\* (admission.py 571-575).
TimeOnlyTightens ==
  scan.verdict = "blocked" =>
    \A date \in Dates : date >= scan.date =>
      Verdict(source, skips, ruleset, baseline, suppressions, scan.gate, date) = "blocked"

\* What somebody accepted does not block: a scan is blocked by a finding that
\* neither the baseline nor a suppression in force covers, or by its skipped
\* files (cli.py 771-784, policy.py 291-316).
BlocksOnlyOpen ==
  scan.verdict = "blocked" =>
    \/ \E f \in source :
         /\ Objects(scan.gate, f)
         /\ RootCause(f) \notin Ids(baseline)
         /\ \A e \in Entries(suppressions) : e.id = RootCause(f) => e.expires < scan.date
    \/ scan.gate.kind = "policy" /\ skips > scan.gate.skips
=============================================================================
