---------------------------- MODULE EvidenceChain ----------------------------
(***************************************************************************)
(* The chain of commands from a scan to an exported Admission Event, and   *)
(* the files they hand to one another.  A command reads its inputs one     *)
(* after another, computes, and replaces its outputs one after another;    *)
(* commands run side by side, fail between two outputs, and are killed,    *)
(* and the inputs change meanwhile.                                        *)
(*                                                                         *)
(* Dates, reasons and signers are left to TrustReceipts.                   *)
(***************************************************************************)
EXTENDS EvidenceBundle, Integers, Sequences, FiniteSets

CONSTANTS
  Jobs,            \* invocations of the command line, reused
  Keys,            \* signing keys
  TrustPolicies,   \* contents of the trust policy file: [key, gates]
  ExpectedKey,     \* the anchors of pilot enforce that do not change
  ExpectedPolicy,
  Campaigns,       \* [source, control, commands]: what was handed off first,
                   \* and the commands of which each is then started once
  MaxEdits,        \* how many times an input is changed or a file edited
  VerdictEdits     \* whether an edit gives a report another policy result

ASSUME ChainAssumption ==
  /\ \A campaign \in Campaigns :
       campaign.source \in Sources /\ campaign.control \in Controls
  /\ ExpectedKey \in Keys
  /\ ExpectedPolicy \in TrustPolicies
  /\ MaxEdits \in Nat
  /\ VerdictEdits \in BOOLEAN

-----------------------------------------------------------------------------
(* Receipts, packages and events: trust.py, pilot.py, enterprise.py        *)

ReceiptOf(policy, b, key) ==
  [policy |-> policy, subject |-> b, key |-> key,
   result |-> IF b.gate \in policy.gates /\ key = policy.key THEN "admit" ELSE "deny"]

\* _REQUIRED_FILES that another command has made, in the order of their names.
Payloads == <<"trustPolicy", "receipt", "bundle", "publicKey", "signature", "statement">>

PackageOf(seen) ==
  [trustPolicy |-> seen[1], receipt |-> seen[2], bundle |-> seen[3],
   publicKey |-> seen[4], signature |-> seen[5], statement |-> seen[6]]

\* verify_pilot_package: every payload is there, and is what the manifest says.
PackageVerifies(p) == Exists(p) /\ \A i \in DOMAIN Payloads : Exists(p[Payloads[i]])

\* verify_admission_receipt: the receipt is what its inputs come to again.
ReceiptVerifies(p) == p.receipt = ReceiptOf(p.trustPolicy, p.bundle, p.publicKey)

\* Mutant: the receipt is believed instead of recomputed.
EnforceableOnTrust(p, announced) ==
  /\ PackageVerifies(p) /\ p = announced
  /\ p.publicKey = ExpectedKey /\ p.trustPolicy = ExpectedPolicy
  /\ SignatureVerifies(p.bundle, p.statement, p.signature, p.publicKey)

\* enforce_pilot_package
Enforceable(p, announced) ==
  /\ PackageVerifies(p) /\ p = announced
  /\ p.publicKey = ExpectedKey /\ p.trustPolicy = ExpectedPolicy
  /\ SignatureVerifies(p.bundle, p.statement, p.signature, p.publicKey)
  /\ ReceiptVerifies(p)

\* _event_id: the digest of everything else in the event.
EventId(event) == <<event.package, event.result, event.active>>

EventOf(p) ==
  LET core == [package |-> p, result |-> p.receipt.result, active |-> p.receipt.result = "admit"]
  IN  [package |-> core.package, result |-> core.result, active |-> core.active,
       id |-> EventId(core)]

\* Mutant: the event's id is not recomputed.
EventVerifiesWithoutId(event) == Exists(event) /\ (event.active => event.result = "admit")

\* load_admission_event
EventVerifies(event) ==
  /\ Exists(event)
  /\ event.active => event.result = "admit"
  /\ event.id = EventId(event)

-----------------------------------------------------------------------------
(* The commands: cli.py.  Each makes its outputs of what it has seen, or    *)
(* makes none.                                                              *)

Refused == <<>>

\* evidence create: the scan reads the tree and the policy, and the policy is
\* read again for the bundle, if there is one.
Create(seen) ==
  LET report == ReportOf(seen[1], seen[2])
  IN  IF seen[2] = NoPolicy \/ MaterialMatches(report, seen[3])
      THEN <<BundleOf(report, IF seen[2] = NoPolicy THEN NoPolicy ELSE seen[3])>>
      ELSE Refused

\* evidence sign
Sign(seen) ==
  LET statement == StatementOf(seen[1], seen[2])
  IN  IF BundleVerifies(seen[1])
      THEN <<statement, SignatureOf(statement, seen[2]), seen[2]>>
      ELSE Refused

\* trust evaluate
Evaluate(seen) ==
  IF SignatureVerifies(seen[2], seen[3], seen[4], seen[5])
  THEN <<ReceiptOf(seen[1], seen[2], seen[5])>>
  ELSE Refused

\* pilot package looks at names, sizes and release checksums only.
Package(seen) ==
  IF \A i \in 1 .. Len(Payloads) : seen[i] # Missing THEN <<PackageOf(seen)>> ELSE Refused

\* pilot enforce
Enforce(seen, announced) ==
  IF Enforceable(seen[1], announced) THEN <<EventOf(seen[1])>> ELSE Refused

\* integration export: the manifest names the payload's digest.
Export(seen) == IF EventVerifies(seen[1]) THEN <<seen[1], [of |-> seen[1]]>> ELSE Refused

\* evidence verify
Verify(seen) ==
  IF BundleVerifies(seen[1]) THEN <<[of |-> seen[1]], seen[1].inventory>> ELSE Refused

Commands == {"create", "sign", "evaluate", "package", "enforce", "export", "verify"}

Outputs(command, seen, announced) ==
  CASE command = "create"   -> Create(seen)
    [] command = "sign"     -> Sign(seen)
    [] command = "evaluate" -> Evaluate(seen)
    [] command = "package"  -> Package(seen)
    [] command = "enforce"  -> Enforce(seen, announced)
    [] command = "export"   -> Export(seen)
    [] command = "verify"   -> Verify(seen)

\* The files a command reads, in that order, every time it reads them.
Reads == [create   |-> <<"source", "policy", "policy">>,
          sign     |-> <<"bundle", "privateKey">>,
          evaluate |-> <<"trustPolicy", "bundle", "statement", "signature", "publicKey">>,
          package  |-> Payloads,
          enforce  |-> <<"package">>,
          export   |-> <<"event">>,
          verify   |-> <<"bundle">>]

\* The files a command replaces, in that order.
Writes == [create   |-> <<"bundle">>,
           sign     |-> <<"statement", "signature", "publicKey">>,
           evaluate |-> <<"receipt">>,
           package  |-> <<"package">>,
           enforce  |-> <<"event">>,
           export   |-> <<"payload", "manifest">>,
           verify   |-> <<"predicate", "inventory">>]

Inputs == {"source", "policy", "privateKey", "trustPolicy"}

Results == {"bundle", "statement", "signature", "publicKey", "receipt", "package",
            "event", "payload", "manifest", "predicate", "inventory"}

\* EXIT_USAGE or EXIT_SCAN_ERROR
Rejection(command) ==
  IF command \in {"evaluate", "enforce", "export", "verify"} THEN "error" ELSE "usage"

\* EXIT_FINDINGS is said of what was written although it does not admit.
Negative(command, output) ==
  \/ command = "create" /\ output.gate = "blocked"
  \/ command = "evaluate" /\ output.result = "deny"
  \/ command = "enforce" /\ ~output.active

Success(job) == IF Negative(job.command, job.out[1]) THEN "findings" ELSE "ok"

-----------------------------------------------------------------------------
VARIABLES
  file,     \* the content of every file
  job,      \* the invocations
  temps,    \* the jobs whose temporary output file is on the disk
  anchor,   \* the package whose digest was announced for enforcement
  signed,   \* history: the bundles and keys sign_evidence_bundle has signed
  left,     \* the commands still to be started
  edits

vars == <<file, job, temps, anchor, signed, left, edits>>

\* piped: the payload of an export goes to stdout
NoJob == [command |-> "none", seen |-> <<>>, out |-> <<>>, state |-> "ended",
          written |-> 0, piped |-> FALSE, exit |-> "none"]

TypeOK ==
  /\ DOMAIN file = Inputs \cup Results
  /\ file["source"] \in Sources /\ file["policy"] \in Controls
  /\ file["privateKey"] \in Keys /\ file["trustPolicy"] \in TrustPolicies
  /\ \A j \in Jobs :
       /\ job[j].exit \in {"none", "ok", "findings", "usage", "error", "killed"}
       /\ job[j].state \in {"reading", "writing", "replacing", "checking", "ended"}
       /\ job[j].state \in {"reading", "writing", "replacing", "checking"} =>
            /\ job[j].command \in Commands
            /\ Len(job[j].seen) <= Len(Reads[job[j].command])
            /\ job[j].written <= Len(Writes[job[j].command])
       /\ job[j].state \in {"writing", "replacing", "checking"} =>
            Len(job[j].out) = Len(Writes[job[j].command])
  /\ temps \subseteq Jobs
  /\ edits \in 0 .. MaxEdits

\* A first handoff has been made, up to its receipt.
Init ==
  \E campaign \in Campaigns :
    LET s == campaign.source
        c == campaign.control
        b == BundleOf(ReportOf(s, c), c)
        st == StatementOf(b, ExpectedKey)
    IN  /\ file = [f \in Inputs \cup Results |->
             CASE f = "source" -> s
               [] f = "policy" -> c
               [] f \in {"privateKey", "publicKey"} -> ExpectedKey
               [] f = "trustPolicy" -> ExpectedPolicy
               [] f = "bundle" -> b
               [] f = "statement" -> st
               [] f = "signature" -> SignatureOf(st, ExpectedKey)
               [] f = "receipt" -> ReceiptOf(ExpectedPolicy, b, ExpectedKey)
               [] OTHER -> Missing]
        /\ signed = {<<b, ExpectedKey>>}
        /\ left = campaign.commands
        /\ job = [j \in Jobs |-> NoJob]
        /\ temps = {}
        /\ anchor = Missing
        /\ edits = 0

Start(j, command) ==
  /\ job[j].state = "ended"
  /\ command \in left
  /\ left' = left \ {command}
  /\ \E piped \in BOOLEAN :
       /\ piped => command = "export"
       /\ job' = [job EXCEPT ![j] = [NoJob EXCEPT !.command = command,
                                                  !.state = "reading", !.piped = piped]]
  /\ temps' = temps \ {j}
  /\ UNCHANGED <<file, anchor, signed, edits>>

\* _read_regular: a file is opened and read while others replace it.
Read(j) ==
  LET command == job[j].command
      n == Len(job[j].seen)
  IN  /\ job[j].state = "reading" /\ n < Len(Reads[command])
      /\ job' = [job EXCEPT ![j].seen = Append(@, file[Reads[command][n + 1]])]
      /\ UNCHANGED <<file, temps, anchor, signed, left, edits>>

End(j, exit) ==
  job' = [job EXCEPT ![j].state = "ended", ![j].exit = exit, ![j].out = <<>>]

\* Mutant: a refusal does not end the command.
ComputeRegardless(j) ==
  LET seen == job[j].seen
      out == Outputs(job[j].command, seen, anchor)
  IN  /\ job[j].state = "reading" /\ Len(seen) = Len(Reads[job[j].command])
      /\ job' = [job EXCEPT ![j].state = "writing", ![j].seen = <<>>, ![j].out = out]
      /\ signed' = IF job[j].command = "sign" /\ out # Refused
                   THEN signed \cup {<<seen[1], seen[2]>>} ELSE signed
      /\ UNCHANGED <<file, temps, anchor, left, edits>>

\* What was computed stays in memory; what was read is given up.
Compute(j) ==
  LET command == job[j].command
      seen == job[j].seen
      out == Outputs(command, seen, anchor)
  IN  /\ job[j].state = "reading" /\ Len(seen) = Len(Reads[command])
      /\ job' = IF out = Refused
                THEN [job EXCEPT ![j].state = "ended", ![j].seen = <<>>,
                                 ![j].exit = Rejection(command)]
                ELSE [job EXCEPT ![j].state = "writing", ![j].seen = <<>>, ![j].out = out]
      /\ signed' = IF command = "sign" /\ out # Refused
                   THEN signed \cup {<<seen[1], seen[2]>>} ELSE signed
      /\ UNCHANGED <<file, temps, anchor, left, edits>>

\* The next output of a job; a piped export has none for its payload.
NextOutput(j) == Writes[job[j].command][job[j].written + 1]

ToWrite(j) == job[j].state = "writing" /\ job[j].written < Len(Writes[job[j].command])

Piping(j) == job[j].piped /\ job[j].written = 0

\* _write_binary_output up to os.replace
WriteTemporary(j) ==
  /\ ToWrite(j) /\ ~Piping(j)
  /\ job' = [job EXCEPT ![j].state = "replacing"]
  /\ temps' = temps \cup {j}
  /\ UNCHANGED <<file, anchor, signed, left, edits>>

Replace(j) ==
  LET n == job[j].written + 1
  IN  /\ job[j].state = "replacing"
      /\ file' = [file EXCEPT ![NextOutput(j)] = job[j].out[n]]
      /\ temps' = temps \ {j}
      /\ job' = [job EXCEPT ![j].written = n,
                   ![j].state = IF job[j].command = "create" THEN "checking" ELSE "writing"]
      /\ UNCHANGED <<anchor, signed, left, edits>>

\* Mutant: the temporary file is not removed when writing it fails.
WriteFailsMessily(j) ==
  /\ job[j].state = "replacing"
  /\ End(j, "usage")
  /\ UNCHANGED <<file, temps, anchor, signed, left, edits>>

\* The disk is full, or the output cannot be replaced.
WriteFails(j) ==
  /\ job[j].state = "replacing"
  /\ End(j, "usage")
  /\ temps' = temps \ {j}
  /\ UNCHANGED <<file, anchor, signed, left, edits>>

PipePayload(j) ==
  /\ ToWrite(j) /\ Piping(j)
  /\ job' = [job EXCEPT ![j].written = 1]
  /\ UNCHANGED <<file, temps, anchor, signed, left, edits>>

\* An export prints before it writes the manifest; where nobody reads stdout and
\* the print is not buffered the command ends there, with exit status 0.
BreakPipe(j) ==
  /\ ToWrite(j) /\ job[j].command = "export" /\ (Piping(j) \/ job[j].written = 1)
  /\ End(j, "ok")
  /\ UNCHANGED <<file, temps, anchor, signed, left, edits>>

\* evidence create verifies what is then in the output file.
ReadBack(j) ==
  /\ job[j].state = "checking"
  /\ IF BundleVerifies(file["bundle"])
     THEN job' = [job EXCEPT ![j].state = "writing"]
     ELSE End(j, "usage")
  /\ UNCHANGED <<file, temps, anchor, signed, left, edits>>

\* Mutant: the command says so after its first output.
FinishEarly(j) ==
  /\ job[j].state = "writing" /\ job[j].written > 0
  /\ End(j, Success(job[j]))
  /\ UNCHANGED <<file, temps, anchor, signed, left, edits>>

\* Everything is written; that stdout is closed does not change the exit status.
Finish(j) ==
  /\ job[j].state = "writing" /\ job[j].written = Len(Writes[job[j].command])
  /\ End(j, Success(job[j]))
  /\ UNCHANGED <<file, temps, anchor, signed, left, edits>>

\* The process is killed; the temporary file of its output stays.  A job killed
\* while it reads is one that never starts: the temporary directories of
\* signing.py 191, 246 and 329, which would stay too, are not modelled.
Kill(j) ==
  /\ job[j].state \notin {"reading", "ended"}
  /\ job' = [job EXCEPT ![j] = [@ EXCEPT !.state = "ended", !.exit = "killed",
                                         !.seen = <<>>, !.out = <<>>]]
  /\ UNCHANGED <<file, temps, anchor, signed, left, edits>>

\* A commit, a new policy, another key, another trust policy.
EditInput ==
  /\ edits < MaxEdits /\ edits' = edits + 1
  /\ \/ \E s \in Sources : file' = [file EXCEPT !["source"] = s]
     \/ \E c \in Policies : file["policy"] # NoPolicy /\ file' = [file EXCEPT !["policy"] = c]
     \/ \E k \in Keys : file' = [file EXCEPT !["privateKey"] = k]
     \/ \E t \in TrustPolicies : file' = [file EXCEPT !["trustPolicy"] = t]
  /\ file' # file
  /\ UNCHANGED <<job, temps, anchor, signed, left>>

\* A bundle, a receipt or an event is edited on its way to the next command; who
\* edits an event does not compute its id again.
EditResult ==
  /\ edits < MaxEdits /\ edits' = edits + 1
  /\ \/ \E b \in Mixtures(file["bundle"])
                 \cup (IF VerdictEdits THEN {OtherVerdict(file["bundle"])} ELSE {}) :
          file' = [file EXCEPT !["bundle"] = b]
     \/ \E r \in {"admit", "deny"} : file' = [file EXCEPT !["receipt"].result = r]
     \/ /\ Exists(file["event"])
        /\ \/ file' = [file EXCEPT !["event"].active = ~@]
           \/ \E r \in {"admit", "deny"} : file' = [file EXCEPT !["event"].result = r]
  /\ file' # file
  /\ UNCHANGED <<job, temps, anchor, signed, left>>

\* The digest of a package is handed to those who enforce it.
Announce ==
  /\ file["package"] # Missing
  /\ anchor' = file["package"]
  /\ UNCHANGED <<file, job, temps, signed, left, edits>>

Next ==
  \/ \E j \in Jobs :
       \/ \E command \in Commands : Start(j, command)
       \/ Read(j) \/ Compute(j) \/ WriteTemporary(j) \/ Replace(j) \/ WriteFails(j)
       \/ PipePayload(j) \/ BreakPipe(j) \/ ReadBack(j) \/ Finish(j) \/ Kill(j)
  \/ EditInput \/ EditResult \/ Announce

Spec == Init /\ [][Next]_vars
-----------------------------------------------------------------------------
(* Properties                                                              *)

\* An Admission Event speaks of a bundle that the expected key's holder has
\* signed, whatever mixture of old and new files was packaged (signing.py
\* 541-560, enterprise.py 103-146).
EventsAreSigned ==
  file["event"] # Missing => <<file["event"].package.bundle, ExpectedKey>> \in signed

\* An active event that verifies goes back to a scan whose gate, under the policy that is in
\* the bundle, is one that the expected trust policy admits.  Between the two
\* lie five files that may have been replaced or edited.
ActiveIsDeserved ==
  LET event == file["event"]
  IN  EventVerifies(event) /\ event.active =>
        LET b == event.package.bundle
        IN  GateOf(b.report.findings, b.input) \in ExpectedPolicy.gates

\* What is sent to another system is what an enforcement said, whatever was done to
\* the event in between (integrations.py 253-265, 443-503).
ExportIsEnforced ==
  file["payload"] # Missing => file["payload"] = EventOf(file["payload"].package)

\* evidence create writes one scan: the policy it bundles is the one the gate
\* was decided with, although the file is read twice (cli.py 912-934, evidence.py
\* 252-306).
BundleIsOneScan ==
  \A j \in Jobs :
    job[j].command = "create" /\ job[j].out # <<>> =>
      LET b == job[j].out[1]
      IN  b.input = b.report.policy /\ b.gate = GateOf(b.report.files, b.input)

\* Only a process that is writing, or that was killed, has a temporary file.
TemporariesOwned ==
  \A j \in temps : job[j].state = "replacing" \/ job[j].exit = "killed"

\* Exit status 0 and 1 are said only when every output was written, of which the
\* first is what the others are about; an export alone may lack its manifest, or
\* a payload that went to stdout (cli.py 1238-1275, 1786-1810, 1861-1917).
ExitMeansWritten ==
  \A j \in Jobs :
    job[j].exit \in {"ok", "findings"} =>
      \/ job[j].written = Len(Writes[job[j].command])
      \/ job[j].command = "export" /\ (job[j].written = 1 \/ job[j].piped)

\* What is signed has the gate that its findings and its policy come to:
\* docs/evidence-bundles.md 38 says that the verifier recomputes the gate outcome.
GateIsRecomputed ==
  \A handoff \in signed :
    LET b == handoff[1] IN b.gate = GateOf(b.report.findings, b.input)
=============================================================================
