------------------------- MODULE AdmissionGateProofs -------------------------
(***************************************************************************)
(* What a verdict of the admission gate means, for any findings, sources,  *)
(* files and gates.                                                        *)
(***************************************************************************)
EXTENDS AdmissionGate, TLAPS

\* A root cause determines what a gate asks of a finding.
LEMMA CauseDecides ==
  ASSUME NEW f, NEW g, RootCause(f) = RootCause(g)
  PROVE  f.severity = g.severity /\ f.capability = g.capability /\ f.rule = g.rule
<1>1. CASE Semantic(f) /\ Semantic(g)
  <2> DEFINE cause(h) == [kind |-> "semantic", rule |-> h.rule, severity |-> h.severity,
                          capability |-> h.capability, scope |-> ArtifactScope(h.path),
                          evidence |-> h.evidence]
  <2>1. cause(f) = cause(g)
    BY <1>1 DEF RootCause
  <2>2. /\ cause(f).severity = cause(g).severity /\ cause(f).capability = cause(g).capability
        /\ cause(f).rule = cause(g).rule
    BY <2>1
  <2> QED  BY <2>2
<1>2. CASE ~Semantic(f) /\ ~Semantic(g)
  <2> DEFINE cause(h) == [kind |-> "location", rule |-> h.rule, severity |-> h.severity,
                          capability |-> h.capability, path |-> h.path, line |-> h.line,
                          message |-> h.message, evidence |-> h.evidence]
  <2>1. cause(f) = cause(g)
    BY <1>2 DEF RootCause
  <2>2. /\ cause(f).severity = cause(g).severity /\ cause(f).capability = cause(g).capability
        /\ cause(f).rule = cause(g).rule
    BY <2>1
  <2> QED  BY <2>2
<1>3. ASSUME NEW h, Semantic(h)  PROVE RootCause(h).kind = "semantic"
  BY <1>3 DEF RootCause
<1>4. ASSUME NEW h, ~Semantic(h)  PROVE RootCause(h).kind = "location"
  BY <1>4 DEF RootCause
<1> QED  BY <1>1, <1>2, <1>3, <1>4

\* The representative of a group is one of its findings.
LEMMA RepresentativeExists ==
  ASSUME NEW findings \in SUBSET Findings, NEW id \in RootCauses(findings)
  PROVE  /\ Representative(findings, id) \in findings
         /\ RootCause(Representative(findings, id)) = id
<1>1. PICK f \in findings : RootCause(f) = id
  BY DEF RootCauses
<1>2. \A g \in findings : RootCause(g) = id => g.severity <= f.severity
  <2> SUFFICES ASSUME NEW g \in findings, RootCause(g) = id
               PROVE  g.severity <= f.severity
    OBVIOUS
  <2>1. g.severity = f.severity
    BY <1>1, CauseDecides
  <2>2. f.severity \in Int
    BY GateAssumption DEF Severities
  <2> QED  BY <2>1, <2>2
<1> QED  BY <1>1, <1>2 DEF Representative

-----------------------------------------------------------------------------
(* Decisions and the two gates                                             *)

\* There is a decision on every root cause, or on none.
LEMMA DecisionsExist ==
  ASSUME NEW findings, NEW base, NEW supp, NEW date, NEW id \in RootCauses(findings)
  PROVE  LET decisions == Decisions(findings, base, supp, date)
         IN  IF base = Absent /\ supp = Absent
             THEN decisions = <<>> /\ id \notin DOMAIN decisions
             ELSE /\ decisions # <<>> /\ id \in DOMAIN decisions
                  /\ decisions[id] = Status(id, base, supp, date)
<1>1. DOMAIN <<>> = {}
  OBVIOUS
<1> QED  BY <1>1 DEF Decisions

\* A scan that passes has decided not to object to a finding it objects to.
LEMMA PassedIsDecided ==
  ASSUME NEW findings \in SUBSET Findings, NEW f \in findings, NEW gate \in Gates, NEW date,
         NEW skipped, NEW version, NEW base, NEW supp,
         Objects(gate, f),
         Verdict(findings, skipped, version, base, supp, gate, date) = "passed"
  PROVE  /\ Loadable(base) /\ Loadable(supp)
         /\ Admissible(findings, version, base, supp)
         /\ Status(RootCause(f), base, supp, date) \notin Open
         /\ ~(base = Absent /\ supp = Absent)
<1> DEFINE id == RootCause(f)
           r == Representative(findings, id)
           decisions == Decisions(findings, base, supp, date)
<1>1. id \in RootCauses(findings)
  BY DEF RootCauses
<1>2. r \in findings /\ RootCause(r) = id
  BY <1>1, RepresentativeExists
<1>3. r.severity = f.severity /\ r.capability = f.capability /\ r.rule = f.rule
  BY <1>2, CauseDecides
<1>4. /\ Loadable(base) /\ Loadable(supp)
      /\ Admissible(findings, version, base, supp)
      /\ gate.kind = "policy" => ~PolicyBlocks(findings, decisions, skipped, gate)
      /\ gate.kind # "policy" => ~ThresholdReached(findings, decisions, gate.minimum)
  BY DEF Verdict
<1>5. CASE gate.kind = "policy"
  <2>1. r.severity >= gate.minimum \/ r.capability \in gate.capabilities \/ r.rule \in gate.rules
    BY <1>3, <1>5 DEF Objects
  <2>2. id \in DOMAIN decisions /\ decisions[id] \notin Open
    BY <1>1, <1>4, <1>5, <2>1 DEF PolicyBlocks
  <2> QED  BY <1>1, <1>4, <2>2, DecisionsExist
<1>6. CASE gate.kind # "policy"
  <2>1. f.severity >= gate.minimum
    BY <1>6 DEF Objects
  <2>2. decisions # <<>>
    BY <1>4, <1>6, <2>1 DEF ThresholdReached
  <2>3. id \in DOMAIN decisions /\ decisions[id] = Status(id, base, supp, date)
        /\ ~(base = Absent /\ supp = Absent)
    BY <1>1, <2>2, DecisionsExist
  <2>4. decisions[id] \notin Open
    BY <1>3, <1>4, <1>6, <2>1, <2>2, <2>3 DEF ThresholdReached
  <2> QED  BY <1>4, <2>3, <2>4
<1> QED  BY <1>5, <1>6

\* What accepts a root cause that is not open.
LEMMA AcceptedBy ==
  ASSUME NEW id, NEW base, NEW supp, NEW date, Status(id, base, supp, date) \notin Open
  PROVE  \/ id \in Ids(base)
         \/ id \in Ids(supp) /\ ~(EntryFor(supp, id).expires < date)
BY DEF Status, Open

\* The entry of a loaded file is the only one of its root cause.
LEMMA EntryUnique ==
  ASSUME NEW file, Loadable(file), NEW e \in Entries(file)
  PROVE  EntryFor(file, e.id) = e
BY DEF EntryFor, Loadable

\* A root cause of a file has an entry there.
LEMMA IdHasEntry ==
  ASSUME NEW file, NEW id \in Ids(file)
  PROVE  EntryFor(file, id) \in Entries(file) /\ EntryFor(file, id).id = id
BY DEF EntryFor, Ids

\* What is open is in the baseline never, and in the suppressions no longer.
LEMMA OpenIsUncovered ==
  ASSUME NEW findings, NEW base, NEW supp, NEW date, NEW id \in RootCauses(findings),
         Loadable(supp),
         id \in DOMAIN Decisions(findings, base, supp, date)
           => Decisions(findings, base, supp, date)[id] \in Open
  PROVE  /\ id \notin Ids(base)
         /\ \A e \in Entries(supp) : e.id = id => e.expires < date
<1>1. CASE base = Absent /\ supp = Absent
  BY <1>1 DEF Ids, Entries
<1>2. CASE ~(base = Absent /\ supp = Absent)
  <2>1. Status(id, base, supp, date) \in Open
    BY <1>2, DecisionsExist
  <2>2. id \notin Ids(base)
    BY <2>1 DEF Status, Open
  <2>3. ASSUME NEW e \in Entries(supp), e.id = id
        PROVE  e.expires < date
    <3>1. id \in Ids(supp) /\ EntryFor(supp, id) = e
      BY <2>3, EntryUnique DEF Ids
    <3> QED  BY <2>1, <2>2, <3>1 DEF Status, Open
  <2> QED  BY <2>2, <2>3
<1> QED  BY <1>1, <1>2

\* What is open on a day is open on every later day.
LEMMA OpenStaysOpen ==
  ASSUME NEW id, NEW base, NEW supp \in {Absent} \cup SuppressionFiles,
         NEW date \in Int, NEW later \in Int, date <= later,
         Status(id, base, supp, date) \in Open
  PROVE  Status(id, base, supp, later) \in Open
<1>1. CASE id \notin Ids(supp)
  BY <1>1 DEF Status, Open
<1>2. CASE id \in Ids(supp)
  <2>1. EntryFor(supp, id) \in Entries(supp)
    BY <1>2, IdHasEntry
  <2>2. EntryFor(supp, id).expires \in Int
    BY <2>1, GateAssumption DEF Entries
  <2>3. id \notin Ids(base) /\ EntryFor(supp, id).expires < date
    BY <1>2 DEF Status, Open
  <2>4. EntryFor(supp, id).expires < later
    BY <2>2, <2>3
  <2> QED  BY <1>2, <2>3, <2>4 DEF Status, Open
<1> QED  BY <1>1, <1>2

-----------------------------------------------------------------------------
(* The invariant                                                           *)

\* Every entry of a baseline was reviewed under the ruleset the baseline names.
FilesInv ==
  baseline \notin {Absent, Malformed} =>
    /\ baseline = [ruleset |-> baseline.ruleset, entries |-> baseline.entries]
    /\ \A e \in baseline.entries : <<e.id, baseline.ruleset>> \in reviewed

\* The last verdict is that of the inputs as they are.
ScanInv ==
  scan.verdict # "none" =>
    /\ scan.gate \in Gates
    /\ scan.date \in Dates
    /\ scan.verdict = Verdict(source, skips, ruleset, baseline, suppressions,
                              scan.gate, scan.date)

GateInv == TypeOK /\ FilesInv /\ ScanInv

\* The entries of a baseline describe the root causes it was created from.
LEMMA BaselineDescribes ==
  ASSUME NEW findings \in SUBSET Findings, NEW version, NEW e \in BaselineOf(findings, version).entries
  PROVE  e.id \in RootCauses(findings)
BY DEF BaselineOf, Entry

\* At first there is neither a baseline nor a verdict.
LEMMA InitGate ==
  ASSUME Init
  PROVE  GateInv
BY GateAssumption DEF Init, GateInv, TypeOK, FilesInv, ScanInv, NoScan

\* An edit drops the verdict, a new baseline is reviewed, a scan judges what is there.
LEMMA NextGate ==
  ASSUME GateInv, [Next]_vars
  PROVE  GateInv'
<1> USE DEF GateInv
<1>1. CASE EditSource
  BY <1>1 DEF EditSource, TypeOK, FilesInv, ScanInv, NoScan, Ids, Entries
<1>2. CASE Upgrade
  BY <1>2 DEF Upgrade, TypeOK, FilesInv, ScanInv, NoScan, Ids, Entries
<1>3. CASE CreateBaseline
  <2>1. source \in SUBSET Findings
    BY GateAssumption DEF TypeOK
  <2>2. /\ baseline' = [ruleset |-> baseline'.ruleset, entries |-> baseline'.entries]
        /\ baseline'.ruleset = ruleset
    BY <1>3 DEF CreateBaseline, BaselineOf
  <2>3. \A e \in baseline'.entries : e.id \in RootCauses(source)
    BY <1>3, <2>1, BaselineDescribes DEF CreateBaseline
  <2>4. RootCauses(source) \subseteq RootCauses(Findings)
    BY <2>1 DEF RootCauses
  <2>5. Ids(baseline)' \subseteq RootCauses(Findings)
    BY <2>3, <2>4 DEF Ids, Entries
  <2>6. TypeOK'
    BY <1>3, <2>2, <2>4, <2>5 DEF CreateBaseline, TypeOK, NoScan
  <2>7. FilesInv'
    BY <1>3, <2>2, <2>3 DEF CreateBaseline, FilesInv
  <2>8. ScanInv'
    BY <1>3 DEF CreateBaseline, ScanInv, NoScan
  <2> QED  BY <2>6, <2>7, <2>8
<1>4. CASE EditBaseline
  <2>1. CASE baseline' \in {Absent, Malformed} /\ reviewed' = {}
    BY <1>4, <2>1 DEF EditBaseline, TypeOK, FilesInv, ScanInv, NoScan, Ids, Entries
  <2>2. CASE /\ \E e \in baseline.entries : baseline' = [baseline EXCEPT !.entries = @ \ {e}]
             /\ UNCHANGED reviewed
    <3>1. /\ baseline \notin {Absent, Malformed}
          /\ baseline = [ruleset |-> baseline.ruleset, entries |-> baseline.entries]
          /\ \A e \in baseline.entries : <<e.id, baseline.ruleset>> \in reviewed
      BY <1>4 DEF EditBaseline, FilesInv
    <3>2. PICK e \in baseline.entries : baseline' = [baseline EXCEPT !.entries = @ \ {e}]
      BY <2>2
    <3>3. baseline' = [ruleset |-> baseline.ruleset, entries |-> baseline.entries \ {e}]
      BY <3>1, <3>2
    <3>4. /\ baseline'.ruleset = baseline.ruleset
          /\ baseline'.entries = baseline.entries \ {e}
          /\ baseline' = [ruleset |-> baseline'.ruleset, entries |-> baseline'.entries]
      BY <3>3
    <3>5. Ids(baseline)' \subseteq Ids(baseline)
      BY <3>1, <3>4 DEF Ids, Entries
    <3>6. TypeOK'
      BY <1>4, <3>1, <3>4, <3>5 DEF EditBaseline, TypeOK, NoScan
    <3>7. FilesInv'
      BY <2>2, <3>1, <3>4 DEF FilesInv
    <3>8. ScanInv'
      BY <1>4 DEF EditBaseline, ScanInv, NoScan
    <3> QED  BY <3>6, <3>7, <3>8
  <2> QED  BY <1>4, <2>1, <2>2 DEF EditBaseline
<1>5. CASE EditSuppressions
  BY <1>5 DEF EditSuppressions, TypeOK, FilesInv, ScanInv, NoScan, Ids, Entries
<1>6. ASSUME NEW gate \in Gates, NEW date \in Dates, Scan(gate, date)
      PROVE  GateInv'
  <2>1. /\ scan'.gate = gate /\ scan'.date = date
        /\ scan'.verdict = Verdict(source, skips, ruleset, baseline, suppressions, gate, date)
    BY <1>6 DEF Scan
  <2>2. UNCHANGED <<source, skips, ruleset, baseline, suppressions, reviewed>>
    BY <1>6 DEF Scan
  <2>3. scan'.verdict \in {"none", "refused", "blocked", "passed"}
    BY <2>1 DEF Verdict
  <2>4. TypeOK'
    BY <2>2, <2>3 DEF TypeOK, Ids, Entries
  <2>5. FilesInv'
    BY <2>2 DEF FilesInv
  <2>6. ScanInv'
    BY <2>1, <2>2 DEF ScanInv
  <2> QED  BY <2>4, <2>5, <2>6
<1>7. CASE UNCHANGED vars
  BY <1>7 DEF vars, TypeOK, FilesInv, ScanInv, Ids, Entries
<1> QED  BY <1>1, <1>2, <1>3, <1>4, <1>5, <1>6, <1>7 DEF Next

\* The files, the history and the last scan keep their types.
THEOREM TypeCorrect == Spec => []TypeOK
<1>1. GateInv => TypeOK
  BY DEF GateInv
<1> QED  BY <1>1, InitGate, NextGate, PTL DEF Spec

\* The gate's invariant, from which the properties of its verdicts follow.
THEOREM GateInvariant == Spec => []GateInv
BY InitGate, NextGate, PTL DEF Spec

-----------------------------------------------------------------------------
(* What the verdicts mean                                                  *)

\* The inputs of a scan are of the kinds the lemmas ask for.
LEMMA ScanInputs ==
  ASSUME GateInv, scan.verdict # "none"
  PROVE  /\ source \in SUBSET Findings
         /\ scan.gate \in Gates
         /\ scan.date \in Dates /\ scan.date \in Int
         /\ scan.verdict = Verdict(source, skips, ruleset, baseline, suppressions,
                                   scan.gate, scan.date)
BY GateAssumption DEF GateInv, TypeOK, ScanInv

\* When an entry of the suppressions expires is a number.
LEMMA ExpiresIsDate ==
  ASSUME GateInv, suppressions # Malformed, NEW e \in Entries(suppressions)
  PROVE  e.expires \in Int
BY GateAssumption DEF GateInv, TypeOK, Entries

\* A scan that passes hides no finding that its gate objects to and that nobody
\* reviewed under this ruleset or suppresses on its date.
THEOREM PassIsAccounted == Spec => []PassHidesNothing
<1>1. ASSUME GateInv  PROVE PassHidesNothing
  <2> SUFFICES ASSUME scan.verdict = "passed", NEW f \in source, Objects(scan.gate, f)
               PROVE  \/ <<RootCause(f), ruleset>> \in reviewed /\ RootCause(f) \in Ids(baseline)
                      \/ /\ suppressions # Absent /\ suppressions.ruleset = ruleset
                         /\ \E e \in suppressions.entries :
                              e.id = RootCause(f) /\ e.expires >= scan.date
    BY DEF PassHidesNothing
  <2> DEFINE id == RootCause(f)
  <2>1. /\ source \in SUBSET Findings /\ scan.gate \in Gates /\ scan.date \in Int
        /\ Verdict(source, skips, ruleset, baseline, suppressions, scan.gate, scan.date)
             = "passed"
    BY <1>1, ScanInputs
  <2>2. /\ Loadable(baseline) /\ Loadable(suppressions)
        /\ Admissible(source, ruleset, baseline, suppressions)
        /\ Status(id, baseline, suppressions, scan.date) \notin Open
    BY <2>1, PassedIsDecided
  <2>3. CASE id \in Ids(baseline)
    <3>1. EntryFor(baseline, id) \in Entries(baseline) /\ EntryFor(baseline, id).id = id
      BY <2>3, IdHasEntry
    <3>2. baseline \notin {Absent, Malformed} /\ EntryFor(baseline, id) \in baseline.entries
      BY <2>2, <3>1 DEF Entries, Loadable
    <3>3. <<id, baseline.ruleset>> \in reviewed
      BY <1>1, <3>1, <3>2 DEF GateInv, FilesInv
    <3>4. baseline.ruleset = ruleset
      BY <2>2, <3>2 DEF Admissible
    <3> QED  BY <2>3, <3>3, <3>4
  <2>4. CASE id \notin Ids(baseline)
    <3> DEFINE e == EntryFor(suppressions, id)
    <3>1. id \in Ids(suppressions) /\ ~(e.expires < scan.date)
      BY <2>2, <2>4, AcceptedBy
    <3>2. e \in Entries(suppressions) /\ e.id = id
      BY <3>1, IdHasEntry
    <3>3. suppressions # Absent /\ suppressions # Malformed /\ e \in suppressions.entries
      BY <2>2, <3>2 DEF Entries, Loadable
    <3>4. suppressions.ruleset = ruleset
      BY <2>2, <3>3 DEF Admissible
    <3>5. e.expires >= scan.date
      <4>1. e.expires \in Int
        BY <1>1, <3>2, <3>3, ExpiresIsDate
      <4> QED  BY <2>1, <3>1, <4>1
    <3> QED  BY <3>2, <3>3, <3>4, <3>5
  <2> QED  BY <2>3, <2>4
<1> QED  BY <1>1, GateInvariant, PTL

\* An expired suppression blocks, whatever else accepts its root cause.
THEOREM ExpiryBlocks == Spec => []ExpiredBlocks
<1>1. ASSUME GateInv  PROVE ExpiredBlocks
  <2> SUFFICES ASSUME scan.verdict = "passed", NEW f \in source, NEW e \in Entries(suppressions),
                      Objects(scan.gate, f), e.id = RootCause(f)
               PROVE  e.expires >= scan.date
    BY DEF ExpiredBlocks
  <2>1. /\ source \in SUBSET Findings /\ scan.gate \in Gates /\ scan.date \in Int
        /\ Verdict(source, skips, ruleset, baseline, suppressions, scan.gate, scan.date)
             = "passed"
    BY <1>1, ScanInputs
  <2>2. /\ Loadable(suppressions)
        /\ Admissible(source, ruleset, baseline, suppressions)
        /\ Status(e.id, baseline, suppressions, scan.date) \notin Open
    BY <2>1, PassedIsDecided
  <2>3. e.id \notin Ids(baseline)
    <3>1. e.id \in Ids(suppressions)
      BY DEF Ids
    <3> QED  BY <2>2, <3>1 DEF Admissible
  <2>4. ~(e.expires < scan.date)
    BY <2>2, <2>3, AcceptedBy, EntryUnique
  <2>5. e.expires \in Int
    BY <1>1, <2>2, ExpiresIsDate DEF Loadable
  <2> QED  BY <2>1, <2>4, <2>5
<1> QED  BY <1>1, GateInvariant, PTL

\* A scan is blocked by a finding that nothing accepts on its date, or by its
\* skipped files.
THEOREM BlockIsAccounted == Spec => []BlocksOnlyOpen
<1>1. ASSUME GateInv  PROVE BlocksOnlyOpen
  <2> SUFFICES ASSUME scan.verdict = "blocked"
               PROVE  \/ \E f \in source :
                           /\ Objects(scan.gate, f)
                           /\ RootCause(f) \notin Ids(baseline)
                           /\ \A e \in Entries(suppressions) :
                                e.id = RootCause(f) => e.expires < scan.date
                      \/ scan.gate.kind = "policy" /\ skips > scan.gate.skips
    BY DEF BlocksOnlyOpen
  <2> DEFINE decisions == Decisions(source, baseline, suppressions, scan.date)
  <2>1. /\ source \in SUBSET Findings
        /\ Verdict(source, skips, ruleset, baseline, suppressions, scan.gate, scan.date)
             = "blocked"
    BY <1>1, ScanInputs
  <2>2. /\ Loadable(suppressions)
        /\ scan.gate.kind = "policy" => PolicyBlocks(source, decisions, skips, scan.gate)
        /\ scan.gate.kind # "policy" =>
             ThresholdReached(source, decisions, scan.gate.minimum)
    BY <2>1 DEF Verdict
  <2>3. ASSUME NEW id \in RootCauses(source),
               id \in DOMAIN decisions => decisions[id] \in Open,
               Objects(scan.gate, Representative(source, id))
        PROVE  \E f \in source :
                 /\ Objects(scan.gate, f)
                 /\ RootCause(f) \notin Ids(baseline)
                 /\ \A e \in Entries(suppressions) :
                      e.id = RootCause(f) => e.expires < scan.date
    <3>1. /\ Representative(source, id) \in source
          /\ RootCause(Representative(source, id)) = id
      BY <2>1, RepresentativeExists
    <3>2. /\ id \notin Ids(baseline)
          /\ \A e \in Entries(suppressions) : e.id = id => e.expires < scan.date
      BY <2>2, <2>3, OpenIsUncovered
    <3> QED  BY <2>3, <3>1, <3>2
  <2>4. CASE scan.gate.kind = "policy"
    <3>1. CASE skips > scan.gate.skips
      BY <2>4, <3>1
    <3>2. CASE ~(skips > scan.gate.skips)
      <4>1. PICK id \in RootCauses(source) :
              /\ id \in DOMAIN decisions => decisions[id] \in Open
              /\ Objects(scan.gate, Representative(source, id))
        BY <2>2, <2>4, <3>2 DEF PolicyBlocks, Objects
      <4> QED  BY <2>3, <4>1
    <3> QED  BY <3>1, <3>2
  <2>5. CASE scan.gate.kind # "policy"
    <3>1. CASE decisions = <<>>
      <4>1. PICK f \in source : f.severity >= scan.gate.minimum
        BY <2>2, <2>5, <3>1 DEF ThresholdReached
      <4>2. RootCause(f) \in RootCauses(source)
        BY DEF RootCauses
      <4>3. baseline = Absent /\ suppressions = Absent
        BY <3>1, <4>2, DecisionsExist
      <4> QED  BY <4>1, <4>3 DEF Objects, Ids, Entries
    <3>2. CASE decisions # <<>>
      <4>1. PICK id \in DOMAIN decisions :
              /\ decisions[id] \in Open
              /\ Representative(source, id).severity >= scan.gate.minimum
        BY <2>2, <2>5, <3>2 DEF ThresholdReached
      <4>2. id \in RootCauses(source)
        BY <3>2, <4>1 DEF Decisions
      <4> QED  BY <2>3, <4>1, <4>2 DEF Objects
    <3> QED  BY <3>1, <3>2
  <2> QED  BY <2>4, <2>5
<1> QED  BY <1>1, GateInvariant, PTL

\* Time alone lets no blocked source pass.
THEOREM WaitingDoesNotHelp == Spec => []TimeOnlyTightens
<1>1. ASSUME GateInv  PROVE TimeOnlyTightens
  <2> SUFFICES ASSUME scan.verdict = "blocked", NEW date \in Dates, date >= scan.date
               PROVE  Verdict(source, skips, ruleset, baseline, suppressions, scan.gate, date)
                        = "blocked"
    BY DEF TimeOnlyTightens
  <2> DEFINE before == Decisions(source, baseline, suppressions, scan.date)
             after  == Decisions(source, baseline, suppressions, date)
  <2>1. /\ scan.date \in Int
        /\ Verdict(source, skips, ruleset, baseline, suppressions, scan.gate, scan.date)
             = "blocked"
    BY <1>1, ScanInputs
  <2>2. /\ Loadable(baseline) /\ Loadable(suppressions)
        /\ Admissible(source, ruleset, baseline, suppressions)
        /\ scan.gate.kind = "policy" => PolicyAllows(scan.gate, ruleset, baseline, suppressions)
        /\ scan.gate.kind = "policy" => PolicyBlocks(source, before, skips, scan.gate)
        /\ scan.gate.kind # "policy" => ThresholdReached(source, before, scan.gate.minimum)
    BY <2>1 DEF Verdict
  <2>3. date \in Int /\ scan.date <= date
    BY <2>1, GateAssumption
  <2>4. suppressions \in {Absent} \cup SuppressionFiles
    BY <1>1, <2>2 DEF GateInv, TypeOK, Loadable
  <2>5. ASSUME NEW id
        PROVE  /\ id \in DOMAIN before <=> id \in DOMAIN after
               /\ id \in DOMAIN before /\ before[id] \in Open => after[id] \in Open
    <3>1. CASE baseline = Absent /\ suppressions = Absent
      BY <3>1 DEF Decisions
    <3>2. CASE ~(baseline = Absent /\ suppressions = Absent)
      <4>1. DOMAIN before = RootCauses(source) /\ DOMAIN after = RootCauses(source)
        BY <3>2 DEF Decisions
      <4>2. ASSUME id \in RootCauses(source), before[id] \in Open
            PROVE  after[id] \in Open
        <5>1. /\ before[id] = Status(id, baseline, suppressions, scan.date)
              /\ after[id] = Status(id, baseline, suppressions, date)
          BY <3>2, <4>2 DEF Decisions
        <5> QED  BY <2>1, <2>3, <2>4, <4>2, <5>1, OpenStaysOpen
      <4> QED  BY <4>1, <4>2
    <3> QED  BY <3>1, <3>2
  <2>6. CASE scan.gate.kind = "policy"
    <3>1. PolicyBlocks(source, after, skips, scan.gate)
      BY <2>2, <2>5, <2>6 DEF PolicyBlocks
    <3> QED  BY <2>2, <2>6, <3>1 DEF Verdict
  <2>7. CASE scan.gate.kind # "policy"
    <3>1. ThresholdReached(source, after, scan.gate.minimum)
      <4>1. CASE baseline = Absent /\ suppressions = Absent
        BY <2>2, <2>7, <4>1 DEF Decisions
      <4>2. CASE ~(baseline = Absent /\ suppressions = Absent)
        <5>1. PICK f \in source : TRUE
          BY <2>2, <2>7, <4>2 DEF ThresholdReached, Decisions, RootCauses
        <5>2. RootCause(f) \in RootCauses(source)
          BY DEF RootCauses
        <5>3. before # <<>> /\ after # <<>>
          BY <4>2, <5>2, DecisionsExist
        <5> QED  BY <2>2, <2>5, <2>7, <5>3 DEF ThresholdReached
      <4> QED  BY <4>1, <4>2
    <3> QED  BY <2>2, <2>7, <3>1 DEF Verdict
  <2> QED  BY <2>6, <2>7
<1> QED  BY <1>1, GateInvariant, PTL
=============================================================================
