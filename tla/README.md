# PgExtAssure: a verification project

TLA+ modules that model PgExtAssure, the TLC runs that check them on small
instances, and theorems that TLAPS proves for every instance. Paths without a
directory are under `src/pgextassure/`.

    tlc -config PostgresReadCommitted.cfg MCPostgresLedger.tla
    tlapm PostgresLedgerProofs.tla

## The system

PgExtAssure scans the source of a PostgreSQL extension without executing it,
gates the findings, bundles the evidence, has the bundle signed, evaluates it
against an enterprise's trust policy and, in a gateway, admits a package to a
deployment target once. Most of it is a chain of short-lived commands that hand
files to one another; the gateway is a multi-threaded server with a database.

    scan ──> gate ──> evidence bundle ──> signature ──> trust receipt ──> pilot package
                                                                              │
                   acceptance command ──HTTP──> gateway ──enforce──> receipt verified again
                                                   └──> ledger (SQLite file | PostgreSQL)

### Inventory

| Component | State | Operations | What is hard | What makes it correct |
| --- | --- | --- | --- | --- |
| PostgreSQL ledger (`gateway.py` 435–704) | table `pgextassure_admissions`; per session a transaction, its advisory locks, its uncommitted row | `execute`: lock twice, look up twice, run the operation, insert, commit; `_initialize`, `_validate_schema`, `ready` | replicas interleave; the answer of COMMIT is lost; processes and sessions die; isolation level is not the program's; lock names collide | a key has one request, a request ID and target one key; retries get the same event; no deadlock |
| SQLite ledger (`gateway.py` 278–428) | the file, its write lock | `execute` in one BEGIN IMMEDIATE transaction | busy timeout against long verification; ROLLBACK that fails; restart in the middle | the same promise; the file never stays locked |
| Gateway server (`gateway.py` 706–971) | capacity semaphore, threads, keep-alive streams, temporary package files | `process_request`, `process_request_thread`, `do_GET`, `do_POST`, `_admit`, `_respond` | permits acquired and released in different threads; timeouts; unread bodies; failures while answering; a full disk; a restart | permits and files accounted for on every way out; answers in step with requests; no stuck thread |
| Gateway configuration (`gateway.py` 106–275) | none | path, mode and limit checks at start-up | file system races | a refused configuration never serves |
| Trust (`trust.py`) | policy, bundle and receipt files | `evaluate_admission`, `verify_admission_receipt` | files replaced or edited between the two; several entries for one key; dates at their boundaries | active on a day means that an evaluation on that day would admit |
| Enforcement (`enterprise.py`) | a temporary directory | `enforce_pilot_package`: signature, receipt, event | order of the checks, all against out-of-band anchors | an event only for a package that verifies |
| Evidence, signing, pilot packages (`evidence.py`, `signing.py`, `pilot.py`) | archives and statements | create, verify; sign, verify; build, verify | every digest has to be compared with what was read, once | what verifies is what was created |
| Pilot acceptance (`acceptance.py`) | the ledger of the gateway it tests | six ordered probes: health, TLS, mTLS, first admission, replay | an outage looks like a refusal; a key that was used before | a pass means the six claims hold |
| Admission gate (`admission.py`, `policy.py`, `grouping.py`) | baseline and suppression files | group, match, expire, gate | overlap, expiry on the last day, stale entries, changed severity | nothing active or expired at the threshold passes |
| Update graph (`graph.py`) | none | reachability and cycles of update scripts | cycles, several roots | what PostgreSQL would reach |
| Scanner, scope, generation (`scanner.py`, `scope.py`, `generation.py`) | limits, digests, skipped files | walk, read, declare exclusions, materialize | files that change while they are read; limits reached half way | everything declared is read or reported |
| Lexers, rules, adapters (`source.py`, `rules.py`, `adapters.py`) | none | mask comments and strings, match, normalize | unterminated literals, offsets | offsets preserved; fail closed |
| Review packs, integrations, reports (`review.py`, `integrations.py`, `reporting.py`, `models.py`) | none | projections | layout | deterministic |
| Command line (`cli.py`) | output files | parse, dispatch, write outputs | several files written one after another | an output is old or new, never half |
| Tools, build backend, deployment (`tools/`, `_build_backend.py`, `deploy/`, `docker/`) | outside the program | | | |

`PROJECT.json` lists the hazards line by line, each with the properties that
would catch it going wrong or with the reason why none does yet.

## What is modelled

| Module | Code | State and actions |
| --- | --- | --- |
| `AdmissionRequests` | arguments and results of `Ledger.execute`, the table's columns | `Request`, `Event`, `Answer`, `Row`; `Verdict` is what `enforce_pilot_package` would say of a request |
| `AdmissionLedger` | what both ledgers promise | durable entries and answers: `Record`, `AnswerFresh`, `AnswerReplay`, `AnswerConflict`, `AnswerRejected`, `AnswerError` |
| `PostgresLedger` | `PostgreSQLAdmissionLedger.execute` | `pc`, `result`, `answer` are the handler thread; `tx`, `held`, `pending`, `snapshot` its server session; `rows` the table. One action per statement, and apart from them `Commit`, `Abort`, `StatementRefused`, `SessionFails`, `Crash`, `Tamper` |
| `SQLiteLedger` | `SQLiteAdmissionLedger.execute` | `writers`, `added`, `file`; one action per statement, `ConnectFails`, `BusyTimeout`, `StatementFails`, `Crash` |
| `GatewayServer` | `_GatewayServer`, `_GatewayHandler` and the parts of `http.server` they rely on | `permits`, `state` of every connection, package files `temp` and `stale`, stream condition `unread` and `broken`, what the `client` has seen, `slipped`, `reply` |
| `TrustReceipts` | `_evaluate_with_policy`, `_matching_signer`, `verify_admission_receipt` | the three files and the last verdict; `Evaluate`, `ReplacePolicy`, `ReplaceBundle`, `EditReceipt`, `Verify` with its two ways to fail |
| `AdmissionGate` | `grouping.py`, `admission.py`, `apply_policy`, `_controlled_scan`, `_report_is_blocked` | pure operators from a root cause to a verdict, and the history they are used in: `EditSource`, `Upgrade`, `CreateBaseline`, `EditBaseline`, `EditSuppressions`, `Scan` |
| `EvidenceBundle` | `evidence.py`, `signing.py` | what a report, a bundle and a signature hold and when they verify, one operator per part of `_verify_evidence_bundle` |
| `EvidenceChain` | the commands of `cli.py` from `evidence create` to `integration export`, with `pilot.py`, `enterprise.py`, `integrations.py`, `_write_binary_output` | `file` by name, `job` by invocation: `Read` one input, `Compute`, `WriteTemporary`, `Replace` one output, `ReadBack`, `Finish`; `WriteFails`, `BreakPipe`, `Kill`, `EditInput`, `EditResult` |
| `UpdateGraph` | `graph.py` | scopes, graphs and searches as operators and recursive functions |
| `ControlFiles` | `scan_control` and `_boolean` of `rules.py`, the control files of `scanner.py` | which primary a secondary control file belongs to, and what is reported of the two |
| `SourceScan` | `scanner.py`, `scope.py`, `generation.py` | `tree`, which `Edit` changes at any time; the walk (`Start`, `OpenRoot`, `ListDirectory`, `Inspect`, `EndWalk`), the reads (`ReadFile`, `EndReads`), the generation plan (`VerifyInput`, `EndGeneration`), `Analyse` |
| `MC…` | | instances for TLC |
| `RequestLemmas`, `…Proofs` | | lemmas and theorems |

A definition whose comment starts with `Mutant:` is not part of the model: it is
the form the definition below it would have if the code had a certain bug, and
the property that notices is named in `PROJECT.json`.

How the modules meet: `PostgresLedger` and `SQLiteLedger` each implement
`AdmissionLedger` through `Promise == INSTANCE AdmissionLedger WITH ledger <- …`,
where the ledger is the committed rows with the event their stored digest
belongs to. `GatewayServer` sees `execute` as the status it leads to, `Executed`;
`execute` sees the handler thread as an attempt. `TrustReceipts` is what runs
inside `Operate`: its verdict is `Verdict` of a request. `SourceScan` ends in the
findings `AdmissionGate` starts from; `EvidenceChain` takes a report with its gate
as one value and follows it through files, and leaves dates, signers and reasons
to `TrustReceipts`, which follows one receipt through time.

### The PostgreSQL ledger

A thread and its session fail independently, so they have separate state. A
session that lost its client is `orphan`: it keeps its locks until its backend
gives up (`Abort`). If it lost the client after COMMIT was sent it is in `doubt`
and may still commit (`Commit`) while the thread is told an error. `Begin` fixes
the snapshot of a repeatable-read transaction: PostgreSQL takes it with the
first statement, which is the one that waits for the lock. `Insert` waits for
the uncommitted row of another session and fails on a committed one, as a unique
index does. The 64-bit lock keys are a constant function that may collide.

### The gateway server

A permit belongs to a connection from `Accept` to `Release`. A request that is answered
before its body is read may leave that body in the stream (`Leave`), and from then on what
the thread reads as a request line may be the client's or the body's (`Ask`): if the
leftover parses, it is answered or executed although nobody asked, and if not, it is a
501 or a closed connection like any other. A read that times out breaks the stream for
good (`BodyTimesOut`), and so the next one only ends the connection. `SendFails` answers
again with 500 where `_respond` is called inside the `try` of `_admit`, after whatever
part of the first answer got through.

`client` is what the other end has seen: an answer to each request, none to the last
one, a part of one, or an answer too many. `slipped` collects the connections on which
the code itself has left a body or answered after a broken answer. On these, answers do
get out of step; `AnswersInStep` says that on no other connection they do.

### Trust receipts

Optional dates that are absent are represented by a day that no comparison
reaches (`LastDay`, `LastDay + 1`); with that, one comparison stands for
"absent or not passed". Only the signer entries with the signature's ID and key
are in a policy, the others being no candidates.

### The admission gate

A finding is what `_group_discriminator` tells findings apart by. `reviewed` is a
history: the root causes the baseline in use was created from, with the ruleset
that reported them. The two gates differ on purpose as in the code: a threshold
looks at the findings if there are no decisions and at the decisions if there are,
a policy looks at root causes and takes a missing decision for `active`.

### The evidence chain

A digest is the thing it is the digest of, a signature the pair of statement and
key. A job reads the files of `Reads` one after another, so another job or an edit
may replace one in between, computes in one step, and replaces the files of
`Writes` one after another. `evidence create` reads its policy twice, once for the
gate and once for the bundle (`MaterialMatches` compares the two), and at the end
verifies what its output path then holds (`ReadBack`). An edited bundle has one
part of another scan (`Mixtures`), re-indexed or not. Whoever edits an event does
not compute its id again: events are not signed, so one with a new id is a new
event. `integration export` prints before it writes its manifest; where that print
is not buffered and nobody reads, it ends with exit status 0 (`BreakPipe`).

### The scan

A path is a sequence of names and `tree` maps every path to its entry; only the
root is never edited. The listing of a directory and the inspection of each of its
entries are steps of their own, as are the reads, so an entry may turn into a link,
go, or change between any two. One entry is inspected in one step. A link to a
directory leads to an empty one outside the tree. A path that is too deep or too long
(`WithinPathLimits`) ends the scan wherever it is inspected, one that is not UTF-8 where
it is read. Include directives are found in control files as such, and an extension that
a control file requires counts with the privileges it asks for. What rules find in a content,
what a control file sets and what a template renders to are constants.
`UpdateGraph` keeps the searches of `graph.py`; the properties compare its findings
with `Faults`, a definition without a search: a version leads to those that are in
every set that has it and is closed under updates.

## Runs

| Run | Question |
| --- | --- |
| `postgres_read_committed` | Three attempts of `First`, the same context under another key, the same key with other bytes, and an unrelated request whose lock keys collide crosswise; every fault. Do look-ups stay true, is there no deadlock, is what is told durable, do retries agree, does it implement the promise? |
| `postgres_repeatable_read` | Two attempts of all five requests under repeatable read, every fault. Do the constraints keep the bindings, are the answers still justified, does every attempt end? |
| `sqlite_ledger` | Three attempts of four requests, every fault. One writer, promise implemented, file never left locked? |
| `gateway_server` | Three connections for two permits and a disk for one package, every fault. Are permits and files accounted for, do only an unread body and a broken-off answer put answers out of step, are threads never stuck? |
| `gateway_permit_leak`, `gateway_cache_control` | Two statements of the documentation, see Findings. |
| `trust_receipts` | Six days, six policies, three bundles, two contexts. Does active mean readmitted, is an admission active at once? |
| `admission_gate` | Source versions, two rulesets, baselines, suppressions and both kinds of gate over three dates. What does a pass hide, what does a block rest on, what does waiting do? |
| `evidence_chain` | Four handoffs, two commands at a time, one change or edit, failures and kills. Is an event about a signed bundle, is an active one deserved, is an export what was enforced, is a bundle one scan, do exit statuses tell the truth? |
| `evidence_gate` | A statement of the documentation, see Findings. |
| `source_scan` | Every plan over a small tree with up to two changes, every graph of three versions, every placement of two control files, a version's control file and a script in four directories. Is anything left out in silence, is what was analysed accounted for, are privileges reported, are graph findings exactly the faults? |

**Bounds.** The properties of the ledgers relate two attempts, and a third makes
the difference where one holds a lock, one waits and one retries; two keys and
two contexts give every overlap of a pair of requests. Two attempts are enough
for the repeatable-read run: a stale snapshot needs one that commits and one that
waited. Three connections for two permits give a full and a free server, and one
disk unit makes two packages too many. Six days let an age limit, an expiry and a
revocation lie between evaluation and verification and let a sum pass the last
day. In the admission gate five findings, two of one root cause, one of another
capability, one of another severity and one told apart by its location only, give
every way of grouping that the properties tell apart, and three dates lie before, on
and after an expiry. In the evidence chain two jobs give every
interleaving of two outputs, and one edit (`MaxEdits`) a file that is not what it
was when it was read; `Campaigns` says which commands a handoff has left, since all
commands beside each other would only repeat them. In the scan two edits undo or
compound each other, three versions give cycles, dead ends and detours, one name is too
long for the limit on paths and one is not UTF-8, and the limits are a few bytes and
entries so that each is met. Nothing in the modules is unbounded except time, which is not modelled: a
timeout is an action that may happen whenever its wait is possible.

**Symmetry** is used only where no temporal property needs its order: attempts in
`postgres_read_committed`, contexts in `trust_receipts`, jobs in `evidence_chain`.

**Deadlock** is not checked in `evidence_chain` and `source_scan`: a campaign runs
out of commands and a scan ends.

**Fairness.** `FairSpec` of the ledgers: a thread that can take its next step
does, and the database ends sessions whose client is gone. Nothing has to fail,
nothing is fair to a client, and no fairness is asked of the lock queue beyond
that of the thread, because lock requests are finite in number. `FairSpec` of the
server: the process runs its accept loop and its threads, and every `recv` ends
with data or with the timeout `setup` sets. The timeout is one of `recv`, not of
a request: a client that sends one byte in time, again and again, is outside the
model.

**Faults.** `session`: a connection, backend or server goes away. `statement`: a PostgreSQL
statement or COMMIT raises on a session that lives. `crash`: the
gateway process dies. `operation`: verification raises something other than a
rejection. `tamper`: a stored event is overwritten. `io`: connecting to SQLite, a statement,
BEGIN, COMMIT or ROLLBACK raises. `thread`: `Thread.start` raises. `send`: an answer cannot be
sent. `exception`: an exception that `_admit` does not catch. In `EvidenceChain` an output cannot be
written, stdout is closed, a process is killed between any two steps that leave
something behind; in `SourceScan` the tree changes.

## Findings

1. `gateway_permit_leak`. If `Thread.start` raises, the permit `process_request`
   acquired is never released; each time the gateway accepts one request fewer
   than `docs/gateway-deployment.md:122` says.
2. `gateway_cache_control`. Answers made by `BaseHTTPRequestHandler.send_error`, to an
   unsupported method or to what does not parse as a request, have no `Cache-Control`; `docs/admission-gateway.md:146` says every response has.
3. `evidence_gate`. The verifier takes the gate of a policy-controlled bundle from
   `policy.result.blocked` of the report in it and never applies the bundled policy to
   the findings; a consistent bundle with another result verifies and can be signed.
   `docs/evidence-bundles.md:38` says that the gate outcome is recomputed. (Without a
   policy it is, from the findings or the decisions.)

## What is proved

Every safety property of the passing runs, for every value of the constants. Assumptions are the named ASSUMEs of the modules, which the
runs evaluate: `RequestAssumption`, `LockKeyAssumption`, `SettingsAssumption`,
`FaultsAssumption`, `GatewayAssumption`, `TrustAssumption`, `GateAssumption`,
`BundleAssumption`, `ChainAssumption`, `ScanAssumption`. Connections are finite, as
permits are counted by them, and so are the paths of a tree and what the rules find
in one content; attempts, requests, findings, contents, policies, bundles and jobs may
be infinite sets. `ScanAssumption` asks of a tree that files lie in directories
(`IsTree`), of a plan what `load_scope_plan` and `load_generation_plan` refuse
otherwise (`IsPlan`), of an edit that it is not of the root, and of the other rules
that their ids are not those of `graph.py`.

**`PostgresLedgerProofs`**

- `TypeCorrect`: `Spec => []TypeOK`.
- `UniqueBindings`: `Spec => []OneRowPerBinding`, under both isolation levels. The
  invariant `BindInv` adds that an uncommitted row is the one its own request asks
  for, that no other row overlaps it, and where its thread is. `OneRowPerBinding`
  alone is not inductive: without them COMMIT could add anything.
- `NeverDeadlocked`: `Spec => []NoDeadlock`, for every hash of lock names. `LockInv`
  says that a session holds the least of its keys first (`TakenInOrder`). If every
  session of a set waited in the set, take the one that waits for the greatest lock:
  its holder waits for a greater one. A session that waits for a row instead holds
  all its locks, and so does the row's owner, and two such sessions share no key.
- `ExclusiveAdmission`: under read committed, `Spec => []AdmissionExclusive`. `FreeInv`
  says that past its look-ups a session with all its locks sees no overlapping row;
  nobody can commit one, because the committer would hold the same lock.
- `ToldAreDurable`, `SameAnswers`: `Spec => []AnswersDurable`, `Spec => []RetriesAgree`,
  under both isolation levels. `StableInv` adds to the above that the rows of a snapshot
  stay in the table (`SnapInv`), that what a thread is told or about to be told follows
  from durable rows or its own uncommitted one (`AnswerInv`), and that a key has one claimant of a fresh event (`FreshInv`).
- `KeepsPromise`: `Spec => ImplementsPromise`, that is `Promise!Spec`. The unique index
  makes `Commit` a `Record`; a COMMIT in doubt is one as well, after its thread
  was told an error.

**`SQLiteLedgerProofs`**, with `RequestLemmas` on rows and answers, which both ledgers use

- `TypeCorrect`, `SingleWriter`, `SameAnswers`: types, `OneWriter`, `RetriesAgree`. The
  invariant `LedgerInv` joins `WriterInv` (an open transaction is in the one writer, and
  nothing durable overlaps its row), `RowsApart`, `AnswerInv` and `FreshInv`.
- `KeepsPromise`: `Spec => ImplementsPromise`, through crashes, failed COMMITs and
  ROLLBACKs.

**`GatewayServerProofs`**

- `TypeCorrect`, `PermitsKept`, `TempFilesKept`, `AnswersKeptInStep`. `ServerInv` counts
  permits against their holders (`PermitInv`), including threads that were never
  started. `WireInv` is about the connections that have not slipped: nothing is left of a
  body that can still be read, and what the client has seen follows from where the thread
  is. It is needed because a readable leftover would make the next `Ask` a request that
  nobody made; `BodyTimesOut` leaves one, but in a stream that is not read again.

**`AdmissionGateProofs`**

- `TypeCorrect`, `PassIsAccounted`, `ExpiryBlocks`, `BlockIsAccounted`,
  `WaitingDoesNotHelp`. `GateInv` ties a baseline to what was reviewed and the last
  verdict to the files as they are. `CauseDecides` is where grouping matters: findings
  of one root cause agree in rule, capability and severity.

**`EvidenceChainProofs`**

- `TypeCorrect`, `EventsSigned`, `ExportsEnforced`, `BundlesOfOneScan`, `TemporariesKept`,
  `ExitsMeanWritten`. Files are read and replaced one by one, so no invariant relates two
  files. `ChainInv` says of each file alone what it can hold (`Good`), and the same of
  what a job has read or made (`JobGood`): a signature was made by signing; an event
  that kept its id is the one that was enforced. As more is signed this stays true.
- `ActiveDeserved`: `Spec => []ActiveIsDeserved` without `VerdictEdits`. Then every report
  is that of a scan; with such edits finding 3 is the counterexample.

**`TrustReceiptsProofs`**

- `TypeCorrect`: `Spec => []TypeOK`; `valid_until` is always a date. It rests on
  `ValidUntil`: the limits are dates not before the evaluation, and a least one exists.
- `ActiveIsReadmitted`: `Spec => []ActiveMeansReadmitted`, and `AdmittedIsActive`. The
  invariant `VerdictInv` ties the verdict to the files; `AdmittedThroughout` shows
  that no day up to `valid_until` gives a reason to deny, the matched entry being
  active throughout. That there is a matched entry (`MatchedIsActive`) uses what
  `load_trust_policy` refuses: two entries of a key with one start.

**`SourceScanProofs`**, about `SourceScan` with `ControlFiles` and `UpdateGraph`

- `InvHolds`: `Spec => []Inv`, the invariant all others rest on. Anybody edits the tree
  between any two steps, so it speaks of what was left alone (`touched` grows with
  everything below an edit, which is why it can be said). Its parts:
  `TreeInv` (the tree stays one), `PhaseInv`, `ReadInv` (found and read files together
  are within the limits), `GenerationInv` (the inputs of the current artifact that were
  verified are in the cache as pinned, and what is rendered is rendered from such),
  `NotedInv` (what was noted of an entry still holds), `DueInv`, `ReportInv`.
- `EntriesAccounted`: `Spec => []EveryEntryAccounted`. The property speaks of the report
  only; `DueInv` says what is true on the way: every entry a report owes an account of
  (`Due`) is read, skipped, found, or `Ahead`, that is below a root, below a directory
  that is to be listed, or in or below an entry that is to be inspected. A listing keeps it because
  the place between a directory and an entry below it is a directory nobody touched, and
  is listed (`OnTheWay`, `ListingHasAll`); an entry that is skipped or found has
  nothing due below it.
- `AnalysedAccounted`: `Spec => []AnalysedIsAccounted`, from `GenerationInv`.
- `PrivilegesReported`: `Spec => []PrivilegeIsReported`. `PrivilegeHasFinding` holds for
  whatever `Primaries` guesses: a setting the version makes does not depend on the
  primary, and one it does not make is the primary's own.
- `GraphFindingsTrue`, `NothingCut`: `Spec => []GraphFindingsReal`,
  `Spec => []NoFindingIsCut`. `GraphFindingsAreFaults` equates what `graph.py` finds with
  `Faults`, the definition without a search: `ReachableIsClosure` (a search returns the
  least set that is closed under updates), `CycleIsFound` (what is left once leaves are peeled
  off is empty exactly if nothing is cyclic), `ScopeIsNearest` (the length of the shared
  path decides). `SearchIsComplete` is why the search is given one finding more than
  fits: one that returns fewer has found everything.
- `TypeCorrect`: `Spec => []TypeOK`, with the limits on bytes, files and findings.

The folds (`TotalSize`, `InSomeOrder`) and the searches are recursive functions over finite
sets. The induction theorems of the library take an operator, which the provers cannot
instantiate; here a claim that failed somewhere would fail on a set with no smaller
failing set inside it (`SmallestSet`, from the well-foundedness of strict inclusion),
and that set is refuted. That a fold is well-defined at all is `FoldExists`.

**Only model-checked.** The liveness properties (`EveryAttemptEnds`, `FileUnlocked`,
`NoThreadStuck`): the prover has neither liveness under fairness nor ENABLED. That a
scan ends is not stated.

## Not modelled

Header syntax, JSON and ZIP syntax, digests and signatures as computations, OpenSSL,
TLS, the wording of messages, report and event layouts. By component:

- *Gateway configuration, `ready`*: checks of the file system and queries that change
  nothing.
- *Ledger schema*: `_initialize` of PostgreSQL creates the tables in one transaction under
  a transaction-level advisory lock (`gateway.py` 502–548), so replicas that start together
  create them one after another. The ledgers are modelled with the table in place.
- *Pilot acceptance* (`acceptance.py`): a fixed list of probes of a gateway that
  `GatewayServer` and the ledgers model.
- *Lexers and the catalogue of rules* (`source.py`, most of `rules.py`): their meaning is
  the text they match, character by character; the scan takes it as a constant.
- *Adapters, review packs, reporters, vendor layouts*: pure conversions without state.
- *Build backend, tools, deployment*: outside the program.

Left out of modules that exist:

- `EvidenceBundle`: the four control files of a report besides the policy. Without a
  policy the verifier recomputes the gate from the `fail_on` of the bundle and, with a
  baseline or suppressions, from the decisions in the report (`evidence.py` 936–952);
  `GateOf` has one threshold and findings only.
- `EvidenceChain`: dates; edited events with a new id (they are not signed); the temporary
  directories in which signing keeps key and bundle for OpenSSL (`signing.py` 191, 246,
  329) and which a kill leaves behind.
- `AdmissionGate`: the command line's refusals of `--policy` with `--fail-on` and of
  `--evaluated-on` without `--suppressions`, which end a scan before it begins.
- `SourceScan`: renames of the scanned root; the limits on plans and on parsing. A link to a
  directory leads to an empty one, so what a directory swapped for a link between listing
  and read could bring in from outside the tree is not seen: `O_NOFOLLOW` guards only the
  last part of a path. The limit on findings is met by counting them once, while the code
  counts before it removes duplicates. `IsPlan` is wider than the loader of scope plans,
  which also refuses roots that overlap and exclusions outside them.
- `GatewayServer`: how long a read takes, and so a client that sends a byte in time again
  and again.

## Plan

1. `ReviewPack`: tasks derived from a report and merged back.
2. `PilotAcceptance` composed with the gateway's promise.
3. Creation and validation of the ledgers' schema, and `ready`.
