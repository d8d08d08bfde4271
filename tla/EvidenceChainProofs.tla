-------------------------- MODULE EvidenceChainProofs --------------------------
(***************************************************************************)
(* Theorems of EvidenceChain for any sources, policies, keys, campaigns,   *)
(* numbers of jobs and edits: whatever mixture of old, new and edited      *)
(* files the commands read, an event speaks of a bundle that was signed,   *)
(* and an active one of a scan that the expected trust policy admits.      *)
(***************************************************************************)
EXTENDS EvidenceChain, TLAPS

-----------------------------------------------------------------------------
(* What a file may hold.  The history of signatures is a parameter, S.     *)

Reports == [files : Sources, digest : Sources, findings : Sources, summary : Sources,
            policy : Controls, blocked : BOOLEAN]

Indexes == [report : Reports, input : Controls, inventory : Sources]

Bundles == [subject : Sources, gate : Gates, policy : Controls, index : Indexes,
            report : Reports, input : Controls, inventory : Sources]

Statements == [subject : Bundles, gate : Gates, key : Keys]

Signatures == [of : Statements, by : Keys]

Verdicts == {"admit", "deny"}

Receipts == [policy : TrustPolicies, subject : Bundles, key : Keys, result : Verdicts]

Packages == [trustPolicy : TrustPolicies, receipt : Receipts, bundle : Bundles,
             publicKey : Keys, signature : Signatures, statement : Statements]

Events == [package : Packages, result : Verdicts, active : BOOLEAN,
           id : Packages \X Verdicts \X BOOLEAN]

\* A report is that of one scan, unless edits may change its policy's result.
OfOneScan(b) == VerdictEdits \/ b.report = ReportOf(b.report.files, b.report.policy)

\* Every signature was made by signing.
Made(signature, S) == <<signature.of.subject, signature.by>> \in S

\* An event's package was enforceable, and its id is still that of the event it was.
Enforced(event, S) ==
  LET p == event.package
  IN  /\ <<p.bundle, ExpectedKey>> \in S
      /\ OfOneScan(p.bundle) /\ BundleVerifies(p.bundle)
      /\ p.receipt = ReceiptOf(ExpectedPolicy, p.bundle, ExpectedKey)
      /\ event.id = EventId(EventOf(p))

Good(f, x, S) ==
  CASE f = "source" -> x \in Sources
    [] f = "policy" -> x \in Controls
    [] f \in {"privateKey", "publicKey"} -> x \in Keys
    [] f = "trustPolicy" -> x \in TrustPolicies
    [] f = "bundle" -> x \in Bundles /\ OfOneScan(x)
    [] f = "statement" -> x \in Statements
    [] f = "signature" -> x \in Signatures /\ Made(x, S)
    [] f = "receipt" -> x \in Receipts
    [] f = "package" -> x # Missing =>
         x \in Packages /\ Made(x.signature, S) /\ OfOneScan(x.bundle)
    [] f = "event" -> x # Missing => x \in Events /\ Enforced(x, S)
    [] f = "payload" -> x # Missing => x = EventOf(x.package)
    [] OTHER -> TRUE

-----------------------------------------------------------------------------
(* The data                                                                *)

\* A scan's report, and the bundle made of it, have their types.
LEMMA MadeOfAScan ==
  ASSUME NEW s \in Sources, NEW c \in Controls
  PROVE  /\ ReportOf(s, c) \in Reports
         /\ BundleOf(ReportOf(s, c), c) \in Bundles
         /\ OfOneScan(BundleOf(ReportOf(s, c), c))
<1>1. ReportOf(s, c) \in Reports
  BY BundleAssumption DEF ReportOf, Reports
<1>2. BundleOf(ReportOf(s, c), c) \in Bundles
  BY <1>1 DEF BundleOf, Bundles, IndexOf, Indexes, InventoryOf, ReportOf, Gates
<1>3. OfOneScan(BundleOf(ReportOf(s, c), c))
  BY DEF OfOneScan, BundleOf, ReportOf
<1> QED  BY <1>1, <1>2, <1>3

\* A statement about a bundle, its signature and a receipt have their types.
LEMMA MadeOfABundle ==
  ASSUME NEW b \in Bundles, NEW k \in Keys, NEW t \in TrustPolicies
  PROVE  /\ StatementOf(b, k) \in Statements
         /\ SignatureOf(StatementOf(b, k), k) \in Signatures
         /\ SignatureOf(StatementOf(b, k), k).of.subject = b
         /\ SignatureOf(StatementOf(b, k), k).by = k
         /\ ReceiptOf(t, b, k) \in Receipts
<1>1. b.gate \in Gates
  BY DEF Bundles
<1>2. StatementOf(b, k) \in Statements
  BY <1>1 DEF StatementOf, Statements
<1>3. SignatureOf(StatementOf(b, k), k) \in Signatures
  BY <1>2 DEF SignatureOf, Signatures
<1>4. ReceiptOf(t, b, k) \in Receipts
  BY DEF ReceiptOf, Receipts, Verdicts
<1> QED  BY <1>2, <1>3, <1>4 DEF SignatureOf, StatementOf

\* What an edit makes of a bundle has the type of one, and the report of one scan.
LEMMA MixturesTyped ==
  ASSUME NEW b \in Bundles, OfOneScan(b), NEW m \in Mixtures(b)
  PROVE  m \in Bundles /\ OfOneScan(m)
<1> DEFINE Others == {BundleOf(ReportOf(scan[1], scan[2]), scan[2]) : scan \in OtherScans}
           Mixed == {[b EXCEPT !.report = o.report] : o \in Others}
                    \cup {[b EXCEPT !.input = o.input] : o \in Others}
                    \cup {[b EXCEPT !.inventory = o.inventory] : o \in Others}
                    \cup {[b EXCEPT !.gate = g] : g \in Gates}
<1>1. ASSUME NEW o \in Others
      PROVE  o \in Bundles /\ OfOneScan(o)
  BY BundleAssumption, MadeOfAScan
<1>2. ASSUME NEW n \in Mixed
      PROVE  n \in Bundles /\ OfOneScan(n)
  <2> HIDE DEF Others
  <2>1. CASE \E o \in Others : n = [b EXCEPT !.report = o.report]
    BY <1>1, <2>1 DEF Bundles, OfOneScan
  <2>2. CASE \E o \in Others : n = [b EXCEPT !.input = o.input]
    BY <1>1, <2>2 DEF Bundles, OfOneScan
  <2>3. CASE \E o \in Others : n = [b EXCEPT !.inventory = o.inventory]
    BY <1>1, <2>3 DEF Bundles, OfOneScan
  <2>4. CASE \E g \in Gates : n = [b EXCEPT !.gate = g]
    BY <2>4 DEF Bundles, OfOneScan
  <2> QED  BY <2>1, <2>2, <2>3, <2>4
<1>3. ASSUME NEW n \in Bundles, OfOneScan(n)
      PROVE  Reindexed(n) \in Bundles /\ OfOneScan(Reindexed(n))
  BY <1>3 DEF Reindexed, IndexOf, Bundles, Indexes, OfOneScan
<1>4. m \in Mixed \/ \E n \in Mixed : m = Reindexed(n)
  BY DEF Mixtures
<1> HIDE DEF Mixed
<1> QED  BY <1>2, <1>3, <1>4

\* So has a bundle whose policy result is edited, where edits do that.
LEMMA OtherVerdictTyped ==
  ASSUME NEW b \in Bundles, VerdictEdits
  PROVE  OtherVerdict(b) \in Bundles /\ OfOneScan(OtherVerdict(b))
<1> DEFINE report == [b.report EXCEPT !.blocked = ~@]
           n == [b EXCEPT !.report = report,
                          !.gate = IF report.blocked THEN "blocked" ELSE "pass"]
<1>1. report \in Reports
  BY DEF Bundles, Reports
<1>2. n \in Bundles
  BY <1>1 DEF Bundles, Gates
<1>3. Reindexed(n) \in Bundles
  <2> HIDE DEF n
  <2> QED  BY <1>2 DEF Reindexed, IndexOf, Bundles, Indexes
<1> QED  BY <1>3 DEF OtherVerdict, OfOneScan

-----------------------------------------------------------------------------
(* The commands                                                            *)

ASequence(s) == Len(s) \in Nat /\ DOMAIN s = 1 .. Len(s)

AllGood(names, s, S) == \A i \in 1 .. Len(s) : Good(names[i], s[i], S)

\* The outputs of a command: as many as it has, each good for its file.
Makes(command, out, S) ==
  /\ out # Refused /\ ASequence(out) /\ Len(out) = Len(Writes[command])
  /\ AllGood(Writes[command], out, S)

\* More signatures spoil nothing.
LEMMA GoodStays ==
  ASSUME NEW S, NEW T, S \subseteq T, NEW f, NEW x, Good(f, x, S)
  PROVE  Good(f, x, T)
BY DEF Good, Made, Enforced

\* The bundle that evidence create makes is of one scan and one policy.
OneScan(b) == b.input = b.report.policy /\ b.gate = GateOf(b.report.files, b.input)

\* evidence create makes one good bundle.
LEMMA CreateMakes ==
  ASSUME NEW S, NEW seen, AllGood(Reads["create"], seen, S), Len(seen) = 3,
         Create(seen) # Refused
  PROVE  Makes("create", Create(seen), S) /\ OneScan(Create(seen)[1])
<1>1. seen[1] \in Sources /\ seen[2] \in Controls
  BY DEF AllGood, Reads, Good
<1>2. Create(seen) = <<BundleOf(ReportOf(seen[1], seen[2]), seen[2])>>
  BY DEF Create, MaterialMatches, ReportOf
<1>3. OneScan(BundleOf(ReportOf(seen[1], seen[2]), seen[2]))
  BY DEF OneScan, BundleOf, ReportOf, GateOf
<1>4. Good("bundle", BundleOf(ReportOf(seen[1], seen[2]), seen[2]), S)
  BY <1>1, MadeOfAScan DEF Good
<1> QED  BY <1>2, <1>3, <1>4 DEF Makes, AllGood, ASequence, Writes, Refused

\* evidence sign makes a signature that goes into the history.
LEMMA SignMakes ==
  ASSUME NEW S, NEW seen, AllGood(Reads["sign"], seen, S), Len(seen) = 2,
         Sign(seen) # Refused, <<seen[1], seen[2]>> \in S
  PROVE  Makes("sign", Sign(seen), S)
<1> DEFINE b == seen[1]
           k == seen[2]
           statement == StatementOf(b, k)
           signature == SignatureOf(statement, k)
<1>1. b \in Bundles /\ k \in Keys
  BY DEF AllGood, Reads, Good
<1>2. Sign(seen) = <<statement, signature, k>>
  BY DEF Sign
<1>3. statement \in Statements /\ signature \in Signatures /\ Made(signature, S)
  BY <1>1, MadeOfABundle, ChainAssumption DEF Made
<1>4. Good("statement", statement, S) /\ Good("signature", signature, S)
      /\ Good("publicKey", k, S)
  BY <1>1, <1>3 DEF Good
<1> HIDE DEF statement, signature
<1> QED  BY <1>2, <1>4 DEF Makes, AllGood, ASequence, Writes, Refused

\* trust evaluate makes a receipt.
LEMMA EvaluateMakes ==
  ASSUME NEW S, NEW seen, AllGood(Reads["evaluate"], seen, S), Len(seen) = 5,
         Evaluate(seen) # Refused
  PROVE  Makes("evaluate", Evaluate(seen), S)
<1>1. seen[1] \in TrustPolicies /\ seen[2] \in Bundles /\ seen[5] \in Keys
  BY DEF AllGood, Reads, Good
<1>2. Evaluate(seen) = <<ReceiptOf(seen[1], seen[2], seen[5])>>
  BY DEF Evaluate
<1>3. Good("receipt", ReceiptOf(seen[1], seen[2], seen[5]), S)
  BY <1>1, MadeOfABundle DEF Good
<1> QED  BY <1>2, <1>3 DEF Makes, AllGood, ASequence, Writes, Refused

\* pilot package keeps the signature it read.
LEMMA PackageMakes ==
  ASSUME NEW S, NEW seen, AllGood(Reads["package"], seen, S), Len(seen) = 6,
         Package(seen) # Refused
  PROVE  Makes("package", Package(seen), S)
<1>1. /\ seen[1] \in TrustPolicies /\ seen[2] \in Receipts
      /\ seen[3] \in Bundles /\ OfOneScan(seen[3])
      /\ seen[4] \in Keys
      /\ seen[5] \in Signatures /\ Made(seen[5], S)
      /\ seen[6] \in Statements
  BY DEF AllGood, Reads, Payloads, Good
<1>2. Package(seen) = <<PackageOf(seen)>>
  BY DEF Package
<1>3. Good("package", PackageOf(seen), S)
  BY <1>1 DEF Good, PackageOf, Packages
<1> QED  BY <1>2, <1>3 DEF Makes, AllGood, ASequence, Writes, Refused

\* pilot enforce makes an event of a package whose bundle the expected key signed.
LEMMA EnforceMakes ==
  ASSUME NEW S, NEW announced, NEW seen, AllGood(Reads["enforce"], seen, S), Len(seen) = 1,
         Enforce(seen, announced) # Refused
  PROVE  Makes("enforce", Enforce(seen, announced), S)
<1> DEFINE p == seen[1]
<1>1. Enforceable(p, announced) /\ Enforce(seen, announced) = <<EventOf(p)>>
  BY DEF Enforce
<1>2. p \in Packages /\ Made(p.signature, S) /\ OfOneScan(p.bundle)
  <2>1. p # Missing
    BY <1>1 DEF Enforceable, PackageVerifies, Exists
  <2> QED  BY <2>1 DEF AllGood, Reads, Good
<1>3. <<p.bundle, ExpectedKey>> \in S
  <2>1. p.signature = SignatureOf(p.statement, ExpectedKey) /\ p.statement.subject = p.bundle
    BY <1>1 DEF Enforceable, SignatureVerifies, StatementHolds
  <2> QED  BY <1>2, <2>1 DEF Made, SignatureOf
<1>4. p.receipt = ReceiptOf(ExpectedPolicy, p.bundle, ExpectedKey) /\ BundleVerifies(p.bundle)
  BY <1>1 DEF Enforceable, ReceiptVerifies, SignatureVerifies
<1>5. EventOf(p) \in Events /\ EventOf(p).package = p
  <2>1. p.receipt.result \in Verdicts
    BY <1>2 DEF Packages, Receipts
  <2> QED  BY <1>2, <2>1 DEF EventOf, EventId, Events
<1>6. EventOf(p).id = EventId(EventOf(p))
  BY DEF EventOf, EventId
<1>7. Good("event", EventOf(p), S)
  BY <1>2, <1>3, <1>4, <1>5, <1>6 DEF Good, Enforced
<1> HIDE DEF p
<1> QED  BY <1>1, <1>7 DEF Makes, AllGood, ASequence, Writes, Refused

\* An event that verifies is the one its package was enforced with.
LEMMA VerifiedIsEnforced ==
  ASSUME NEW S, NEW e, Good("event", e, S), EventVerifies(e)
  PROVE  /\ e = EventOf(e.package)
         /\ Enforced(e, S)
<1>1. e \in Events /\ Enforced(e, S)
  BY DEF Good, EventVerifies, Exists
<1>2. EventId(e) = EventId(EventOf(e.package))
  BY <1>1 DEF EventVerifies, Enforced
<1>3. e.result = EventOf(e.package).result /\ e.active = EventOf(e.package).active
  BY <1>2 DEF EventId
<1>4. EventOf(e.package) = [package |-> e.package, result |-> e.result,
                           active |-> e.active, id |-> e.id]
  BY <1>1, <1>3 DEF EventOf, EventId, Enforced
<1>5. e = [package |-> e.package, result |-> e.result, active |-> e.active, id |-> e.id]
  BY <1>1 DEF Events
<1> QED  BY <1>1, <1>4, <1>5

\* integration export sends the event of an enforcement.
LEMMA ExportMakes ==
  ASSUME NEW S, NEW seen, AllGood(Reads["export"], seen, S), Len(seen) = 1,
         Export(seen) # Refused
  PROVE  Makes("export", Export(seen), S)
<1>1. EventVerifies(seen[1]) /\ Export(seen) = <<seen[1], [of |-> seen[1]]>>
  BY DEF Export
<1>2. Good("event", seen[1], S)
  BY DEF AllGood, Reads
<1>3. Good("payload", seen[1], S) /\ Good("manifest", [of |-> seen[1]], S)
  BY <1>1, <1>2, VerifiedIsEnforced DEF Good
<1> QED  BY <1>1, <1>3 DEF Makes, AllGood, ASequence, Writes, Refused

\* evidence verify writes what no other command reads.
LEMMA VerifyMakes ==
  ASSUME NEW S, NEW seen, Verify(seen) # Refused
  PROVE  Makes("verify", Verify(seen), S)
<1>1. Verify(seen) = <<[of |-> seen[1]], seen[1].inventory>>
  BY DEF Verify
<1>2. \A x : Good("predicate", x, S) /\ Good("inventory", x, S)
  BY DEF Good
<1> QED  BY <1>1, <1>2 DEF Makes, AllGood, ASequence, Writes, Refused

\* A command that has read good inputs and does not refuse makes good outputs.
LEMMA OutputsGood ==
  ASSUME NEW S, NEW T, S \subseteq T, NEW announced, NEW command \in Commands,
         NEW seen, Len(seen) = Len(Reads[command]), AllGood(Reads[command], seen, S),
         Outputs(command, seen, announced) # Refused,
         command = "sign" => <<seen[1], seen[2]>> \in T
  PROVE  /\ Makes(command, Outputs(command, seen, announced), T)
         /\ command = "create" => OneScan(Outputs(command, seen, announced)[1])
<1>1. AllGood(Reads[command], seen, T)
  BY GoodStays DEF AllGood
<1>2. CASE command = "create"
  BY <1>1, <1>2, CreateMakes DEF Outputs, Reads
<1>3. CASE command = "sign"
  BY <1>1, <1>3, SignMakes DEF Outputs, Reads
<1>4. CASE command = "evaluate"
  BY <1>1, <1>4, EvaluateMakes DEF Outputs, Reads
<1>5. CASE command = "package"
  BY <1>1, <1>5, PackageMakes DEF Outputs, Reads, Payloads
<1>6. CASE command = "enforce"
  BY <1>1, <1>6, EnforceMakes DEF Outputs, Reads
<1>7. CASE command = "export"
  BY <1>1, <1>7, ExportMakes DEF Outputs, Reads
<1>8. CASE command = "verify"
  BY <1>8, VerifyMakes DEF Outputs
<1> QED  BY <1>2, <1>3, <1>4, <1>5, <1>6, <1>7, <1>8 DEF Commands

-----------------------------------------------------------------------------
(* The invariant                                                           *)

Working == {"writing", "replacing", "checking"}

\* A job holds what it has read while it reads, what it has made while it writes,
\* and nothing once it has ended; it has an exit status then and only then.
JobGood(i, S) ==
  /\ DOMAIN i = {"command", "seen", "out", "state", "written", "piped", "exit"}
  /\ i.state \in Working \cup {"reading", "ended"}
  /\ i.exit \in {"none", "ok", "findings", "usage", "error", "killed"}
  /\ i.written \in Nat /\ i.piped \in BOOLEAN
  /\ i.state # "ended" =>
       i.exit = "none" /\ i.command \in Commands /\ i.written <= Len(Writes[i.command])
  /\ i.state = "reading" =>
       /\ i.written = 0 /\ i.out = Refused
       /\ ASequence(i.seen) /\ Len(i.seen) <= Len(Reads[i.command])
       /\ AllGood(Reads[i.command], i.seen, S)
  /\ i.state \in Working => i.seen = <<>> /\ Makes(i.command, i.out, S)
  /\ i.state = "replacing" => i.written < Len(Writes[i.command])
  /\ i.state = "ended" => i.out = Refused
  /\ i.command = "create" /\ i.out # Refused => OneScan(i.out[1])
  /\ i.exit \in {"ok", "findings"} =>
       \/ i.written = Len(Writes[i.command])
       \/ i.command = "export" /\ (i.written = 1 \/ i.piped)

JobsInv == DOMAIN job = Jobs /\ \A j \in Jobs : JobGood(job[j], signed)

FilesInv ==
  /\ DOMAIN file = Inputs \cup Results
  /\ \A f \in Inputs \cup Results : Good(f, file[f], signed)

ChainInv ==
  /\ JobsInv /\ FilesInv /\ TemporariesOwned
  /\ temps \subseteq Jobs /\ edits \in 0 .. MaxEdits

\* The invariant holds at first, when one handoff was made by the commands.
LEMMA InitChain ==
  ASSUME Init
  PROVE  ChainInv
<1>1. PICK campaign \in Campaigns :
        LET b == BundleOf(ReportOf(campaign.source, campaign.control), campaign.control)
            st == StatementOf(b, ExpectedKey)
        IN  /\ file = [f \in Inputs \cup Results |->
                        CASE f = "source" -> campaign.source
                          [] f = "policy" -> campaign.control
                          [] f \in {"privateKey", "publicKey"} -> ExpectedKey
                          [] f = "trustPolicy" -> ExpectedPolicy
                          [] f = "bundle" -> b
                          [] f = "statement" -> st
                          [] f = "signature" -> SignatureOf(st, ExpectedKey)
                          [] f = "receipt" -> ReceiptOf(ExpectedPolicy, b, ExpectedKey)
                          [] OTHER -> Missing]
            /\ signed = {<<b, ExpectedKey>>}
  BY DEF Init
<1> DEFINE b == BundleOf(ReportOf(campaign.source, campaign.control), campaign.control)
           st == StatementOf(b, ExpectedKey)
           signature == SignatureOf(st, ExpectedKey)
           receipt == ReceiptOf(ExpectedPolicy, b, ExpectedKey)
<1>2. campaign.source \in Sources /\ campaign.control \in Controls
      /\ ExpectedKey \in Keys /\ ExpectedPolicy \in TrustPolicies /\ MaxEdits \in Nat
  BY ChainAssumption
<1>3. b \in Bundles /\ OfOneScan(b)
  BY <1>2, MadeOfAScan
<1>4. st \in Statements /\ signature \in Signatures /\ receipt \in Receipts
      /\ signature.of.subject = b /\ signature.by = ExpectedKey
  <2> HIDE DEF b
  <2> QED  BY <1>2, <1>3, MadeOfABundle
<1>5. FilesInv
  <2>1. \A f \in Inputs \cup Results :
          file[f] = CASE f = "source" -> campaign.source
                      [] f = "policy" -> campaign.control
                      [] f \in {"privateKey", "publicKey"} -> ExpectedKey
                      [] f = "trustPolicy" -> ExpectedPolicy
                      [] f = "bundle" -> b
                      [] f = "statement" -> st
                      [] f = "signature" -> signature
                      [] f = "receipt" -> receipt
                      [] OTHER -> Missing
    BY <1>1
  <2>2. signed = {<<b, ExpectedKey>>} /\ DOMAIN file = Inputs \cup Results
    BY <1>1
  <2> HIDE DEF b, st, signature, receipt
  <2>3. Made(signature, signed)
    BY <1>4, <2>2 DEF Made
  <2> QED  BY <1>2, <1>3, <1>4, <2>1, <2>2, <2>3 DEF FilesInv, Inputs, Results, Good
<1>6. JobsInv
  <2>1. JobGood(NoJob, signed)
    BY DEF JobGood, NoJob, Working, Refused
  <2> QED  BY <2>1 DEF Init, JobsInv
<1> QED  BY <1>2, <1>5, <1>6 DEF Init, ChainInv, TemporariesOwned

-----------------------------------------------------------------------------
(* The steps                                                               *)

\* A job and a file stay good when more is signed.
LEMMA JobStays ==
  ASSUME NEW S, NEW T, S \subseteq T, NEW i, JobGood(i, S)
  PROVE  JobGood(i, T)
<1>1. \A names, s : AllGood(names, s, S) => AllGood(names, s, T)
  BY GoodStays DEF AllGood
<1>2. \A command, out : Makes(command, out, S) => Makes(command, out, T)
  BY <1>1 DEF Makes
<1> QED  BY <1>1, <1>2 DEF JobGood

\* A step that leaves the files alone keeps them good.
LEMMA FilesStay ==
  ASSUME FilesInv, file' = file, signed \subseteq signed'
  PROVE  FilesInv'
BY GoodStays DEF FilesInv

\* A step of one job.
LEMMA OneJob ==
  ASSUME ChainInv, NEW j \in Jobs, NEW i, job' = [job EXCEPT ![j] = i],
         signed \subseteq signed', JobGood(i, signed'), FilesInv', edits' = edits,
         temps' \subseteq temps \cup {j},
         j \in temps' => i.state = "replacing" \/ i.exit = "killed"
  PROVE  ChainInv'
<1>1. job'[j] = i /\ DOMAIN job' = Jobs /\ \A k \in Jobs \ {j} : job'[k] = job[k]
  BY DEF ChainInv, JobsInv
<1>2. JobsInv'
  BY <1>1, JobStays DEF ChainInv, JobsInv
<1>3. TemporariesOwned'
  BY <1>1 DEF ChainInv, TemporariesOwned
<1> QED  BY <1>2, <1>3 DEF ChainInv

\* A job that is not at replacing its output has no temporary file.
LEMMA NoTemporary ==
  ASSUME ChainInv, NEW j \in Jobs, job[j].state \in {"reading", "writing", "checking"}
  PROVE  j \notin temps
BY DEF ChainInv, JobsInv, JobGood, TemporariesOwned

\* What commands read and write are files.
LEMMA FilesOfCommands ==
  ASSUME NEW command \in Commands
  PROVE  /\ Len(Reads[command]) \in Nat /\ Len(Writes[command]) \in Nat \ {0}
         /\ \A k \in 1 .. Len(Reads[command]) : Reads[command][k] \in Inputs \cup Results
         /\ \A k \in 1 .. Len(Writes[command]) : Writes[command][k] \in Results
<1> USE DEF Reads, Writes, Payloads, Inputs, Results
<1>1. CASE command = "create"
  BY <1>1
<1>2. CASE command = "evaluate"
  BY <1>2
<1>3. CASE command = "package"
  BY <1>3
<1>4. CASE command = "enforce"
  BY <1>4
<1>5. CASE command = "export"
  BY <1>5
<1>6. CASE command = "verify"
  BY <1>6
<1>7. CASE command = "sign"
  BY <1>7
<1> QED  BY <1>1, <1>2, <1>3, <1>4, <1>5, <1>6, <1>7 DEF Commands

\* A job starts.
LEMMA StartStep ==
  ASSUME ChainInv, NEW j \in Jobs, NEW command \in Commands, Start(j, command)
  PROVE  ChainInv'
<1>1. PICK piped \in BOOLEAN :
        job' = [job EXCEPT ![j] = [NoJob EXCEPT !.command = command,
                                                !.state = "reading", !.piped = piped]]
  BY DEF Start
<1> DEFINE i == [NoJob EXCEPT !.command = command, !.state = "reading", !.piped = piped]
<1>2. /\ DOMAIN i = {"command", "seen", "out", "state", "written", "piped", "exit"}
      /\ i.command = command /\ i.seen = <<>> /\ i.out = <<>> /\ i.state = "reading"
      /\ i.written = 0 /\ i.piped = piped /\ i.exit = "none"
  BY DEF NoJob
<1>3. JobGood(i, signed)
  <2> HIDE DEF i
  <2> QED  BY <1>2, FilesOfCommands DEF JobGood, Working, Refused, ASequence, AllGood
<1>4. FilesInv' /\ UNCHANGED <<signed, edits>> /\ temps' = temps \ {j}
  BY FilesStay DEF ChainInv, Start
<1> HIDE DEF i
<1> QED  BY <1>1, <1>3, <1>4, OneJob DEF i

\* A job reads one more file.
LEMMA ReadStep ==
  ASSUME ChainInv, NEW j \in Jobs, Read(j)
  PROVE  ChainInv'
<1> DEFINE command == job[j].command
           n == Len(job[j].seen)
           x == file[Reads[command][n + 1]]
           i == [job[j] EXCEPT !.seen = Append(@, x)]
<1>1. /\ JobGood(job[j], signed) /\ job[j].state = "reading"
      /\ n \in Nat /\ n < Len(Reads[command]) /\ command \in Commands
  BY DEF Read, ChainInv, JobsInv, JobGood, ASequence
<1>2. Len(Reads[command]) \in Nat /\ Reads[command][n + 1] \in Inputs \cup Results
  <2> HIDE DEF n, command
  <2>1. n + 1 \in 1 .. Len(Reads[command]) /\ Len(Reads[command]) \in Nat
    BY <1>1, FilesOfCommands
  <2> QED  BY <1>1, <2>1, FilesOfCommands
<1>3. Good(Reads[command][n + 1], x, signed)
  BY <1>2 DEF ChainInv, FilesInv
<1>4. /\ ASequence(Append(job[j].seen, x)) /\ Len(Append(job[j].seen, x)) = n + 1
      /\ AllGood(Reads[command], Append(job[j].seen, x), signed)
  <2>1. ASequence(job[j].seen) /\ AllGood(Reads[command], job[j].seen, signed)
    BY <1>1 DEF JobGood
  <2> DEFINE seen == job[j].seen
  <2>2. ASequence(Append(seen, x)) /\ Len(Append(seen, x)) = n + 1
        /\ Append(seen, x)[n + 1] = x /\ \A k \in 1 .. n : Append(seen, x)[k] = seen[k]
    <3> HIDE DEF x
    <3> QED  BY <2>1 DEF ASequence
  <2> HIDE DEF x, command
  <2>3. \A k \in 1 .. n + 1 : Good(Reads[command][k], Append(seen, x)[k], signed)
    <3> SUFFICES ASSUME NEW k \in 1 .. n + 1
                 PROVE  Good(Reads[command][k], Append(seen, x)[k], signed)
      OBVIOUS
    <3>1. CASE k = n + 1
      BY <1>3, <2>2, <3>1
    <3>2. CASE k \in 1 .. n
      BY <2>1, <2>2, <3>2 DEF AllGood
    <3> QED  BY <1>1, <3>1, <3>2
  <2> QED  BY <2>2, <2>3 DEF AllGood
<1>5. JobGood(i, signed)
  <2> DEFINE seen == Append(job[j].seen, x)
  <2>1. /\ DOMAIN i = DOMAIN job[j] /\ i.seen = seen
        /\ \A f \in DOMAIN job[j] \ {"seen"} : i[f] = job[j][f]
    BY <1>1 DEF JobGood
  <2>2. ASequence(seen) /\ Len(seen) <= Len(Reads[command])
        /\ AllGood(Reads[command], seen, signed)
    BY <1>1, <1>2, <1>4
  <2> HIDE DEF seen, i
  <2> QED  BY <1>1, <2>1, <2>2 DEF JobGood, Working
<1>6. job' = [job EXCEPT ![j] = i] /\ UNCHANGED <<file, temps, signed, edits>>
  BY DEF Read
<1>7. FilesInv' /\ j \notin temps
  BY <1>1, <1>6, FilesStay, NoTemporary DEF ChainInv
<1> HIDE DEF i
<1> QED  BY <1>5, <1>6, <1>7, OneJob

\* A job makes its outputs, or refuses to.
LEMMA ComputeStep ==
  ASSUME ChainInv, NEW j \in Jobs, Compute(j)
  PROVE  ChainInv'
<1> DEFINE command == job[j].command
           seen == job[j].seen
           out == Outputs(command, seen, anchor)
           refusing == [job[j] EXCEPT !.state = "ended", !.seen = <<>>, !.exit = Rejection(command)]
           making == [job[j] EXCEPT !.state = "writing", !.seen = <<>>, !.out = out]
<1>1. /\ JobGood(job[j], signed) /\ job[j].state = "reading" /\ command \in Commands
      /\ Len(seen) = Len(Reads[command]) /\ AllGood(Reads[command], seen, signed)
  BY DEF Compute, ChainInv, JobsInv, JobGood
<1>2. signed \subseteq signed' /\ UNCHANGED <<file, temps, edits>>
  BY DEF Compute
<1>3. FilesInv' /\ j \notin temps
  BY <1>1, <1>2, FilesStay, NoTemporary DEF ChainInv
<1>4. CASE out = Refused
  <2>1. job' = [job EXCEPT ![j] = refusing]
    BY <1>4 DEF Compute
  <2>2. /\ DOMAIN refusing = DOMAIN job[j]
        /\ refusing.state = "ended" /\ refusing.seen = <<>> /\ refusing.exit = Rejection(command)
        /\ \A f \in DOMAIN job[j] \ {"state", "seen", "exit"} : refusing[f] = job[j][f]
    BY <1>1 DEF JobGood
  <2>3. JobGood(refusing, signed')
    <3> HIDE DEF refusing
    <3> QED  BY <1>1, <2>2 DEF JobGood, Working, Rejection
  <2> HIDE DEF refusing
  <2> QED  BY <1>2, <1>3, <2>1, <2>3, OneJob
<1>5. CASE out # Refused
  <2>1. job' = [job EXCEPT ![j] = making]
    BY <1>5 DEF Compute
  <2>2. /\ DOMAIN making = DOMAIN job[j]
        /\ making.state = "writing" /\ making.seen = <<>> /\ making.out = out
        /\ \A f \in DOMAIN job[j] \ {"state", "seen", "out"} : making[f] = job[j][f]
    BY <1>1 DEF JobGood
  <2>3. Makes(command, out, signed') /\ (command = "create" => OneScan(out[1]))
    <3>1. command = "sign" => <<seen[1], seen[2]>> \in signed'
      BY <1>5 DEF Compute
    <3> HIDE DEF command, seen
    <3> QED  BY <1>1, <1>2, <1>5, <3>1, OutputsGood
  <2>4. JobGood(making, signed')
    <3> HIDE DEF making, out
    <3> QED  BY <1>1, <2>2, <2>3 DEF JobGood, Working
  <2> HIDE DEF making
  <2> QED  BY <1>2, <1>3, <2>1, <2>4, OneJob
<1> QED  BY <1>4, <1>5

\* A job that works has what it writes.
LEMMA WorkingJob ==
  ASSUME ChainInv, NEW j \in Jobs, job[j].state \in Working
  PROVE  /\ JobGood(job[j], signed) /\ job[j].command \in Commands
         /\ Makes(job[j].command, job[j].out, signed)
         /\ Len(Writes[job[j].command]) \in Nat \ {0}
         /\ job[j].written \in 0 .. Len(Writes[job[j].command])
<1>1. JobGood(job[j], signed)
  BY DEF ChainInv, JobsInv
<1>2. job[j].command \in Commands /\ Makes(job[j].command, job[j].out, signed)
      /\ job[j].written \in Nat /\ job[j].written <= Len(Writes[job[j].command])
  BY <1>1 DEF JobGood, Working
<1> QED  BY <1>1, <1>2, FilesOfCommands

\* A job moves on without an output.
LEMMA Moves ==
  ASSUME ChainInv, NEW j \in Jobs, job[j].state \in Working,
         NEW s \in Working, NEW n \in 0 .. Len(Writes[job[j].command]),
         job' = [job EXCEPT ![j] = [@ EXCEPT !.state = s, !.written = n]],
         s = "replacing" => n < Len(Writes[job[j].command]),
         FilesInv', UNCHANGED <<signed, edits>>, temps' \subseteq temps \cup {j},
         j \in temps' => s = "replacing"
  PROVE  ChainInv'
<1> DEFINE i == [job[j] EXCEPT !.state = s, !.written = n]
<1>1. JobGood(job[j], signed) /\ n \in Nat /\ n <= Len(Writes[job[j].command])
  BY WorkingJob
<1>2. /\ DOMAIN i = DOMAIN job[j] /\ i.state = s /\ i.written = n
      /\ \A f \in DOMAIN job[j] \ {"state", "written"} : i[f] = job[j][f]
  BY <1>1 DEF JobGood
<1>3. job' = [job EXCEPT ![j] = i]
  OBVIOUS
<1> HIDE DEF i
<1>4. JobGood(i, signed)
  BY <1>1, <1>2 DEF JobGood, Working
<1> QED  BY <1>2, <1>3, <1>4, OneJob

\* A job ends, and says that all is written only where it is.
LEMMA Ends ==
  ASSUME ChainInv, NEW j \in Jobs, job[j].state \in Working,
         NEW exit \in {"ok", "findings", "usage", "killed"},
         job' = [job EXCEPT ![j] = [@ EXCEPT !.state = "ended", !.exit = exit,
                                             !.seen = <<>>, !.out = <<>>]],
         exit \in {"ok", "findings"} =>
           \/ job[j].written = Len(Writes[job[j].command])
           \/ job[j].command = "export" /\ (job[j].written = 1 \/ job[j].piped),
         UNCHANGED <<file, signed, edits>>, temps' \subseteq temps,
         j \in temps' => exit = "killed"
  PROVE  ChainInv'
<1> DEFINE i == [job[j] EXCEPT !.state = "ended", !.exit = exit, !.seen = <<>>, !.out = <<>>]
<1>1. JobGood(job[j], signed)
  BY WorkingJob
<1>2. /\ DOMAIN i = DOMAIN job[j] /\ i.state = "ended" /\ i.exit = exit
      /\ i.seen = <<>> /\ i.out = <<>>
      /\ \A f \in DOMAIN job[j] \ {"state", "exit", "seen", "out"} : i[f] = job[j][f]
  BY <1>1 DEF JobGood
<1>3. job' = [job EXCEPT ![j] = i]
  OBVIOUS
<1>4. FilesInv'
  BY FilesStay DEF ChainInv
<1> HIDE DEF i
<1>5. JobGood(i, signed)
  BY <1>1, <1>2 DEF JobGood, Working, Refused
<1> QED  BY <1>2, <1>3, <1>4, <1>5, OneJob

\* The same in the words of the model.
LEMMA EndStep ==
  ASSUME ChainInv, NEW j \in Jobs, job[j].state \in Working,
         NEW exit, End(j, exit)
  PROVE  job' = [job EXCEPT ![j] = [@ EXCEPT !.state = "ended", !.exit = exit,
                                             !.seen = <<>>, !.out = <<>>]]
<1>1. job[j].seen = <<>> /\ DOMAIN job = Jobs
      /\ DOMAIN job[j] = {"command", "seen", "out", "state", "written", "piped", "exit"}
  BY WorkingJob DEF JobGood, ChainInv, JobsInv
<1>2. [job[j] EXCEPT !.state = "ended", !.exit = exit, !.out = <<>>]
      = [job[j] EXCEPT !.state = "ended", !.exit = exit, !.seen = <<>>, !.out = <<>>]
  BY <1>1
<1> QED  BY <1>2 DEF End

\* Writing an output, or failing to, keeps the invariant.
LEMMA WriteStep ==
  ASSUME ChainInv, NEW j \in Jobs, WriteTemporary(j) \/ Replace(j) \/ WriteFails(j)
  PROVE  ChainInv'
<1>1. job[j].state \in Working
  BY DEF WriteTemporary, ToWrite, Replace, WriteFails, Working
<1>2. CASE WriteTemporary(j)
  <2>1. /\ job[j].written < Len(Writes[job[j].command])
        /\ job' = [job EXCEPT ![j].state = "replacing"]
        /\ UNCHANGED <<file, signed, edits>> /\ temps' = temps \cup {j}
    BY <1>2 DEF WriteTemporary, ToWrite
  <2>2. [job[j] EXCEPT !.state = "replacing"]
        = [job[j] EXCEPT !.state = "replacing", !.written = job[j].written]
    BY <1>1, WorkingJob DEF JobGood
  <2>3. FilesInv'
    BY <2>1, FilesStay DEF ChainInv
  <2> QED  BY <1>1, <2>1, <2>2, <2>3, WorkingJob, Moves DEF Working
<1>3. CASE Replace(j)
  <2> DEFINE n == job[j].written + 1
             f == Writes[job[j].command][n]
             s == IF job[j].command = "create" THEN "checking" ELSE "writing"
  <2>1. /\ job' = [job EXCEPT ![j] = [@ EXCEPT !.state = s, !.written = n]]
        /\ file' = [file EXCEPT ![f] = job[j].out[n]]
        /\ temps' = temps \ {j} /\ UNCHANGED <<signed, edits>>
    BY <1>3 DEF Replace, NextOutput
  <2>2. n \in 1 .. Len(Writes[job[j].command])
    BY <1>1, <1>3, WorkingJob DEF Replace, JobGood
  <2>3. f \in Results /\ Good(f, job[j].out[n], signed)
    BY <1>1, <2>2, WorkingJob, FilesOfCommands DEF Makes, AllGood
  <2>4. FilesInv'
    <3> HIDE DEF f, n
    <3> QED  BY <2>1, <2>3 DEF ChainInv, FilesInv
  <2>5. s \in Working /\ s # "replacing"
    BY DEF Working
  <2>6. n \in 0 .. Len(Writes[job[j].command]) /\ temps' \subseteq temps \cup {j} /\ j \notin temps'
    BY <2>1, <2>2
  <2> HIDE DEF s, n
  <2> QED  BY <1>1, <2>1, <2>4, <2>5, <2>6, Moves
<1>4. CASE WriteFails(j)
  BY <1>1, <1>4, EndStep, Ends DEF WriteFails
<1> QED  BY <1>2, <1>3, <1>4

\* So does what happens to a job beside writing its outputs.
LEMMA FinishStep ==
  ASSUME ChainInv, NEW j \in Jobs,
         PipePayload(j) \/ BreakPipe(j) \/ ReadBack(j) \/ Finish(j) \/ Kill(j)
  PROVE  ChainInv'
<1>1. job[j].state \in Working
  BY DEF PipePayload, BreakPipe, ToWrite, ReadBack, Finish, Kill, Working, ChainInv, JobsInv, JobGood
<1>2. CASE PipePayload(j)
  <2>1. /\ job[j].state = "writing"
        /\ job' = [job EXCEPT ![j].written = 1]
        /\ UNCHANGED <<file, temps, signed, edits>>
    BY <1>2 DEF PipePayload, ToWrite
  <2>2. [job[j] EXCEPT !.written = 1] = [job[j] EXCEPT !.state = "writing", !.written = 1]
    BY <1>1, <2>1, WorkingJob DEF JobGood
  <2>3. FilesInv' /\ j \notin temps /\ 1 \in 0 .. Len(Writes[job[j].command])
    BY <1>1, <2>1, FilesStay, NoTemporary, WorkingJob DEF ChainInv
  <2> QED  BY <1>1, <2>1, <2>2, <2>3, Moves DEF Working
<1>3. CASE BreakPipe(j)
  <2>1. j \notin temps
    BY <1>3, NoTemporary DEF BreakPipe, ToWrite
  <2> QED  BY <1>1, <1>3, <2>1, EndStep, Ends DEF BreakPipe, Piping
<1>4. CASE ReadBack(j)
  <2>1. j \notin temps
    BY <1>4, NoTemporary DEF ReadBack
  <2>2. CASE BundleVerifies(file["bundle"])
    <3>1. /\ job' = [job EXCEPT ![j].state = "writing"]
          /\ UNCHANGED <<file, temps, signed, edits>>
      BY <1>4, <2>2 DEF ReadBack
    <3>2. [job[j] EXCEPT !.state = "writing"]
          = [job[j] EXCEPT !.state = "writing", !.written = job[j].written]
      BY <1>1, WorkingJob DEF JobGood
    <3>3. FilesInv'
      BY <3>1, FilesStay DEF ChainInv
    <3> QED  BY <1>1, <2>1, <3>1, <3>2, <3>3, WorkingJob, Moves DEF Working
  <2>3. CASE ~BundleVerifies(file["bundle"])
    BY <1>1, <1>4, <2>1, <2>3, EndStep, Ends DEF ReadBack
  <2> QED  BY <2>2, <2>3
<1>5. CASE Finish(j)
  <2>1. j \notin temps
    BY <1>5, NoTemporary DEF Finish
  <2> DEFINE exit == Success(job[j])
  <2>2. exit \in {"ok", "findings"}
    BY DEF Success
  <2>3. /\ End(j, exit) /\ job[j].written = Len(Writes[job[j].command])
        /\ UNCHANGED <<file, temps, signed, edits>>
    BY <1>5 DEF Finish
  <2> HIDE DEF exit
  <2>4. job' = [job EXCEPT ![j] = [@ EXCEPT !.state = "ended", !.exit = exit,
                                            !.seen = <<>>, !.out = <<>>]]
    BY <1>1, <2>3, EndStep
  <2> QED  BY <1>1, <2>1, <2>2, <2>3, <2>4, Ends
<1>6. CASE Kill(j)
  BY <1>1, <1>6, Ends DEF Kill
<1> QED  BY <1>2, <1>3, <1>4, <1>5, <1>6

\* Edits of inputs and of results keep the files good.
LEMMA EditStep ==
  ASSUME ChainInv, EditInput \/ EditResult
  PROVE  ChainInv'
<1>1. UNCHANGED <<job, temps, signed>> /\ edits' \in 0 .. MaxEdits
  BY ChainAssumption DEF EditInput, EditResult, ChainInv
<1>2. ASSUME NEW f \in Inputs \cup Results, NEW x, file' = [file EXCEPT ![f] = x],
             Good(f, x, signed)
      PROVE  FilesInv'
  BY <1>1, <1>2 DEF ChainInv, FilesInv
<1>3. ASSUME EditInput
      PROVE  FilesInv'
  <2>1. ASSUME NEW s \in Sources, file' = [file EXCEPT !["source"] = s]
        PROVE  FilesInv'
    BY <1>2, <2>1 DEF Good, Inputs
  <2>2. ASSUME NEW c \in Policies, file' = [file EXCEPT !["policy"] = c]
        PROVE  FilesInv'
    BY <1>2, <2>2 DEF Good, Inputs, Controls
  <2>3. ASSUME NEW k \in Keys, file' = [file EXCEPT !["privateKey"] = k]
        PROVE  FilesInv'
    BY <1>2, <2>3 DEF Good, Inputs
  <2>4. ASSUME NEW t \in TrustPolicies, file' = [file EXCEPT !["trustPolicy"] = t]
        PROVE  FilesInv'
    BY <1>2, <2>4 DEF Good, Inputs
  <2> QED  BY <1>3, <2>1, <2>2, <2>3, <2>4 DEF EditInput
<1>4. ASSUME EditResult
      PROVE  FilesInv'
  <2>1. ASSUME NEW b \in Mixtures(file["bundle"])
                         \cup (IF VerdictEdits THEN {OtherVerdict(file["bundle"])} ELSE {}),
               file' = [file EXCEPT !["bundle"] = b]
        PROVE  FilesInv'
    <3>1. file["bundle"] \in Bundles /\ OfOneScan(file["bundle"])
      BY DEF ChainInv, FilesInv, Good, Results
    <3>2. b \in Bundles /\ OfOneScan(b)
      BY <2>1, <3>1, MixturesTyped, OtherVerdictTyped
    <3> QED  BY <1>2, <2>1, <3>2 DEF Good, Results
  <2>2. ASSUME NEW r \in {"admit", "deny"}, file' = [file EXCEPT !["receipt"].result = r]
        PROVE  FilesInv'
    <3>1. file["receipt"] \in Receipts
      BY DEF ChainInv, FilesInv, Good, Results
    <3>2. [file["receipt"] EXCEPT !.result = r] \in Receipts
      BY <3>1 DEF Receipts, Verdicts
    <3>3. file' = [file EXCEPT !["receipt"] = [file["receipt"] EXCEPT !.result = r]]
      BY <2>2
    <3> QED  BY <1>2, <3>2, <3>3 DEF Good, Results
  <2> DEFINE e == file["event"]
  <2>3. ASSUME NEW x, file' = [file EXCEPT !["event"] = x], e # Missing,
               \/ x = [e EXCEPT !.active = ~@]
               \/ \E r \in {"admit", "deny"} : x = [e EXCEPT !.result = r]
        PROVE  FilesInv'
    <3>1. e \in Events /\ Enforced(e, signed)
      BY <2>3 DEF ChainInv, FilesInv, Good, Results
    <3>2. x \in Events /\ x.package = e.package /\ x.id = e.id
      BY <2>3, <3>1 DEF Events, Verdicts
    <3>3. Enforced(x, signed)
      BY <3>1, <3>2 DEF Enforced
    <3>4. Good("event", x, signed)
      BY <3>2, <3>3 DEF Good
    <3> QED  BY <1>2, <2>3, <3>4 DEF Results
  <2>4. ASSUME Exists(e), file' = [file EXCEPT !["event"].active = ~@]
        PROVE  FilesInv'
    <3> DEFINE x == [e EXCEPT !.active = ~@]
    <3>1. file' = [file EXCEPT !["event"] = x] /\ e # Missing
      BY <2>4 DEF Exists
    <3>2. x = [e EXCEPT !.active = ~@]
      OBVIOUS
    <3> HIDE DEF x, e
    <3> QED  BY <2>3, <3>1, <3>2
  <2>5. ASSUME Exists(e), NEW r \in {"admit", "deny"}, file' = [file EXCEPT !["event"].result = r]
        PROVE  FilesInv'
    <3> DEFINE x == [e EXCEPT !.result = r]
    <3>1. file' = [file EXCEPT !["event"] = x] /\ e # Missing
      BY <2>5 DEF Exists
    <3>2. \E v \in {"admit", "deny"} : x = [e EXCEPT !.result = v]
      OBVIOUS
    <3> HIDE DEF x, e
    <3> QED  BY <2>3, <3>1, <3>2
  <2> QED  BY <1>4, <2>1, <2>2, <2>4, <2>5 DEF EditResult
<1>5. FilesInv'
  BY <1>3, <1>4
<1> QED  BY <1>1, <1>5 DEF ChainInv, JobsInv, TemporariesOwned

\* Files and jobs stay good in every behaviour.
THEOREM ChainInvariant == Spec => []ChainInv
<1>1. ASSUME ChainInv, [Next]_vars
      PROVE  ChainInv'
  <2>1. ASSUME NEW j \in Jobs, NEW command \in Commands, Start(j, command)
        PROVE  ChainInv'
    BY <1>1, <2>1, StartStep
  <2>2. ASSUME NEW j \in Jobs, Read(j) \/ Compute(j)
        PROVE  ChainInv'
    BY <1>1, <2>2, ReadStep, ComputeStep
  <2>3. ASSUME NEW j \in Jobs, WriteTemporary(j) \/ Replace(j) \/ WriteFails(j)
        PROVE  ChainInv'
    BY <1>1, <2>3, WriteStep
  <2>4. ASSUME NEW j \in Jobs,
               PipePayload(j) \/ BreakPipe(j) \/ ReadBack(j) \/ Finish(j) \/ Kill(j)
        PROVE  ChainInv'
    BY <1>1, <2>4, FinishStep
  <2>5. CASE Announce \/ UNCHANGED vars
    BY <1>1, <2>5 DEF Announce, vars, ChainInv, JobsInv, FilesInv, TemporariesOwned
  <2> QED  BY <1>1, <2>1, <2>2, <2>3, <2>4, <2>5, EditStep DEF Next
<1> QED  BY <1>1, InitChain, PTL DEF Spec

-----------------------------------------------------------------------------
(* The properties                                                          *)

\* Files and jobs keep their types.
THEOREM TypeCorrect == Spec => []TypeOK
<1>1. ChainInv => TypeOK
  <2> SUFFICES ASSUME ChainInv PROVE TypeOK
    OBVIOUS
  <2>1. /\ DOMAIN file = Inputs \cup Results
        /\ file["source"] \in Sources /\ file["policy"] \in Controls
        /\ file["privateKey"] \in Keys /\ file["trustPolicy"] \in TrustPolicies
    BY DEF ChainInv, FilesInv, Good, Inputs
  <2>2. ASSUME NEW j \in Jobs
        PROVE  /\ job[j].exit \in {"none", "ok", "findings", "usage", "error", "killed"}
               /\ job[j].state \in {"reading", "writing", "replacing", "checking", "ended"}
               /\ job[j].state \in {"reading", "writing", "replacing", "checking"} =>
                    /\ job[j].command \in Commands
                    /\ Len(job[j].seen) <= Len(Reads[job[j].command])
                    /\ job[j].written <= Len(Writes[job[j].command])
               /\ job[j].state \in {"writing", "replacing", "checking"} =>
                    Len(job[j].out) = Len(Writes[job[j].command])
    <3>1. JobGood(job[j], signed)
      BY DEF ChainInv, JobsInv
    <3>2. job[j].state \in Working => Len(job[j].seen) <= Len(Reads[job[j].command])
      BY <3>1, FilesOfCommands DEF JobGood, Working
    <3> QED  BY <3>1, <3>2 DEF JobGood, Working, Makes
  <2> QED  BY <2>1, <2>2 DEF ChainInv, TypeOK
<1> QED  BY <1>1, ChainInvariant, PTL

\* Whatever was packaged, an event speaks of a bundle the expected key has signed.
THEOREM EventsSigned == Spec => []EventsAreSigned
<1>1. ChainInv => EventsAreSigned
  BY DEF ChainInv, FilesInv, Results, Good, Enforced, EventsAreSigned
<1> QED  BY <1>1, ChainInvariant, PTL

\* What is sent to another system is what an enforcement said.
THEOREM ExportsEnforced == Spec => []ExportIsEnforced
<1>1. ChainInv => ExportIsEnforced
  BY DEF ChainInv, FilesInv, Results, Good, ExportIsEnforced
<1> QED  BY <1>1, ChainInvariant, PTL

\* evidence create bundles the policy its gate was decided with.
THEOREM BundlesOfOneScan == Spec => []BundleIsOneScan
<1>1. ChainInv => BundleIsOneScan
  BY DEF ChainInv, JobsInv, JobGood, OneScan, Refused, BundleIsOneScan
<1> QED  BY <1>1, ChainInvariant, PTL

\* A temporary file has an owner that writes it, or that was killed.
THEOREM TemporariesKept == Spec => []TemporariesOwned
<1>1. ChainInv => TemporariesOwned
  BY DEF ChainInv
<1> QED  BY <1>1, ChainInvariant, PTL

\* Exit status 0 or 1 is said of outputs that were all written.
THEOREM ExitsMeanWritten == Spec => []ExitMeansWritten
<1>1. ChainInv => ExitMeansWritten
  BY DEF ChainInv, JobsInv, JobGood, ExitMeansWritten
<1> QED  BY <1>1, ChainInvariant, PTL

\* Where edits leave the policy result of a report alone, an active event that
\* verifies goes back to a scan that the expected trust policy admits.
THEOREM ActiveDeserved ==
  ASSUME ~VerdictEdits
  PROVE  Spec => []ActiveIsDeserved
<1>1. ChainInv => ActiveIsDeserved
  <2> SUFFICES ASSUME ChainInv, EventVerifies(file["event"]), file["event"].active
               PROVE  GateOf(file["event"].package.bundle.report.findings,
                             file["event"].package.bundle.input) \in ExpectedPolicy.gates
    BY DEF ActiveIsDeserved
  <2> DEFINE e == file["event"]
             b == e.package.bundle
  <2>1. e = EventOf(e.package) /\ Enforced(e, signed)
    BY VerifiedIsEnforced DEF ChainInv, FilesInv, Results
  <2>2. b.gate \in ExpectedPolicy.gates
    <3>1. e.package.receipt.result = "admit"
      <4>1. e.active
        OBVIOUS
      <4>2. \A p : EventOf(p).active => p.receipt.result = "admit"
        BY DEF EventOf
      <4> HIDE DEF e
      <4>3. EventOf(e.package).active
        BY <2>1, <4>1, Zenon
      <4> QED  BY <4>2, <4>3, Zenon
    <3> QED  BY <2>1, <3>1 DEF Enforced, ReceiptOf
  <2>3. BundleVerifies(b) /\ b.report = ReportOf(b.report.files, b.report.policy)
    BY <2>1 DEF Enforced, OfOneScan
  <2>4. b.gate = GateOf(b.report.findings, b.input)
    <3> HIDE DEF b
    <3>1. b.gate = ExpectedGate(b.report) /\ b.input = b.report.policy
      BY <2>3 DEF BundleVerifies, GateHolds, InputsHold
    <3>2. b.report.blocked = (b.report.policy \in BlockedBy[b.report.files])
          /\ b.report.findings = b.report.files
      BY <2>3 DEF ReportOf
    <3> QED  BY <3>1, <3>2 DEF ExpectedGate, GateOf
  <2> QED  BY <2>2, <2>4
<1> QED  BY <1>1, ChainInvariant, PTL
=============================================================================
