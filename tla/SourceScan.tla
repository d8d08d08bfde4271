----------------------------- MODULE SourceScan -----------------------------
(***************************************************************************)
(* One scan of a source tree that somebody may change meanwhile: the walk  *)
(* under an optional scope plan, the reads, the inputs of an optional      *)
(* generation plan (which are read a second time), the analysis and its    *)
(* report (scanner.py, scope.py, generation.py).                           *)
(*                                                                         *)
(* A path is a sequence of names; the tree maps every path to the entry it *)
(* holds, [kind, content].  Of a file name only what the scan reads in it  *)
(* is kept (Named), of a content its size, what the rules find in it and   *)
(* what it sets as a control file.  The content of a link is its target;   *)
(* a link to a directory leads to an empty one outside the tree.           *)
(***************************************************************************)
EXTENDS UpdateGraph, ControlFiles

CONSTANTS
  Paths,         \* the places of the tree
  Named,         \* what the scan reads in a file name
  Contents,
  SizeOf,        \* the bytes of a content
  Unreadable,    \* contents with a NUL or that are not UTF-8
  RulesIn,       \* what the rules find in a content
  ControlOf,     \* [values, default]: what a content sets as a control file
  Renders,       \* the content a template is rendered to, or NoContent
  NoContent,
  Limits,        \* MAX_FILES and the other limits, by name
  Scenarios,     \* [tree, plan, edits]: the trees, plans and numbers of edits tried
  Changes        \* <<path, entry>>: what an edit may put where

VARIABLES
  tree,        \* Paths -> entry
  touched,     \* paths that were edited since the scan started, a history
  edits,       \* edits that may yet happen
  plan,        \* what the scan was asked for
  phase,       \* "start", "walk", "read", "generate", "analyse", "done"
  roots,       \* roots not yet walked
  dirs,        \* [path, root]: directories to be listed
  todo,        \* [path, dir]: entries of a listed directory to be inspected
  found,       \* supported files, in the order they are read in
  skipped,     \* path -> [kind, reason]
  seen,        \* [entries, directories] counted so far
  read,        \* path -> content: the manifest
  cache,       \* path -> content: inputs of the generation plan
  step,        \* <<artifact, input>> of the generation plan to be verified
  rendered,    \* path -> content
  outcome,     \* "none", "report", "input" (ScanInputError), "error" (ScanError)
  findings     \* of the report

walk == <<roots, dirs, todo, found, skipped, seen>>
generation == <<cache, step, rendered>>
vars == <<tree, touched, edits, plan, phase, walk, read, generation, outcome, findings>>

Entry == [kind: {"none", "regular", "symlink", "dirlink", "directory", "other"},
          content: Contents \cup {NoContent}]

Absent == [kind |-> "none", content |-> NoContent]

Links == {"symlink", "dirlink"}

\* The root is a directory; a file has a content, and lies in directories only.
IsTree(entries) ==
  /\ entries \in [Paths -> Entry] /\ entries[<<>>].kind = "directory"
  /\ \A p \in Paths :
       /\ entries[p].kind = "regular" => entries[p].content \in Contents
       /\ entries[p].kind # "none" =>
            \A n \in 0 .. Len(p) - 1 : entries[SubSeq(p, 1, n)].kind = "directory"

GenerationInput == [path: Paths, content: Contents]

\* load_scope_plan, load_generation_plan: exclusions come with a scope plan, an
\* artifact has inputs, and its template, if it has one, is an input of its own.
IsPlan(asked) ==
  /\ asked.requested \in Paths /\ asked.roots \in Seq(Paths)
  /\ DOMAIN asked.exclusions \subseteq Paths
  /\ ~asked.scoped => DOMAIN asked.exclusions = {}
  /\ asked.artifacts \in
       Seq([path: Paths \ {<<>>}, inputs: Seq(GenerationInput) \ {<<>>}, template: Paths])
  /\ \A a \in Range(asked.artifacts) :
       a.template # <<>> => \E i \in Range(a.inputs) : i.path = a.template

GraphRules == {"update.cycle", "update.install-script-missing",
               "update.missing-path", "update.ambiguous-scope"}

\* Every place of the tree lies in one, except for the root, which stays.
ASSUME ScanAssumption ==
  /\ IsFiniteSet(Paths) /\ Paths \subseteq Seq(DOMAIN Named) /\ <<>> \in Paths
  /\ \A p \in Paths : \A n \in 0 .. Len(p) : SubSeq(p, 1, n) \in Paths
  /\ NoContent \notin Contents
  /\ SizeOf \in [Contents -> Nat]
  /\ \A c \in Contents : /\ Renders[c] \in Contents \cup {NoContent}
                         /\ IsFiniteSet(RulesIn[c]) /\ RulesIn[c] \cap GraphRules = {}
  /\ Limits.files \in Nat \ {0} /\ Limits.total \in Nat /\ Limits.findings \in Nat
  /\ \A s \in Scenarios : IsTree(s.tree) /\ IsPlan(s.plan)
  /\ \A change \in Changes :
       /\ change[1] \in Paths \ {<<>>} /\ change[2] \in Entry
       /\ change[2].kind = "regular" => change[2].content \in Contents

NameOf(path) == Named[Last(path)]

Supported(path) == NameOf(path).type # "other"

\* is_file, when it is asked; a link may lead to a file.
IsFile(path) == tree[path].kind \in {"regular", "symlink"}

Below(path) == {p \in Paths : IsStrictPrefix(path, p)}

PathBytes(path) == FoldFunction(+, Len(path) - 1, [i \in DOMAIN path |-> Named[path[i]].bytes])

\* _validate_relative_path: what the walk goes over or notes is not too deep or long.
WithinPathLimits(path) == Len(path) <= Limits.depth /\ PathBytes(path) <= Limits.path

IsUtf8(path) == \A name \in Range(path) : Named[name].utf8

\* f, and value for x if f is not defined there.
Adding(f, x, value) == Over(f, [y \in {x} |-> value])

TotalSize(read_) == FoldFunction(+, 0, [p \in DOMAIN read_ |-> SizeOf[read_[p]]])

-----------------------------------------------------------------------------
Init ==
  /\ \E s \in Scenarios : tree = s.tree /\ plan = s.plan /\ edits = s.edits
  /\ touched = {} /\ phase = "start"
  /\ roots = <<>> /\ dirs = <<>> /\ todo = <<>> /\ found = <<>>
  /\ skipped = <<>> /\ seen = [entries |-> 0, directories |-> 0]
  /\ read = <<>> /\ cache = <<>> /\ step = <<1, 1>> /\ rendered = <<>>
  /\ outcome = "none" /\ findings = {}

\* Anybody: put something else in a place.  What was below it is gone.
Edit ==
  /\ edits > 0 /\ phase # "done"
  /\ \E change \in Changes :
       LET path == change[1]
       IN  /\ tree[Parent(path)].kind = "directory" /\ tree[path] # change[2]
           /\ tree' = [p \in Paths |-> IF p = path THEN change[2]
                                       ELSE IF p \in Below(path) THEN Absent ELSE tree[p]]
           /\ touched' = touched \cup {path} \cup Below(path)
  /\ edits' = edits - 1
  /\ UNCHANGED <<plan, phase, walk, read, generation, outcome, findings>>

\* The scan ends without a report.
End(result) ==
  /\ phase' = "done" /\ outcome' = result
  /\ UNCHANGED <<walk, read, generation, findings>>

-----------------------------------------------------------------------------
(* The walk                                                                *)

\* The path that was asked for is looked at.
Start ==
  /\ phase = "start"
  /\ LET kind == tree[plan.requested].kind
     IN  \/ /\ kind = "directory"
            /\ phase' = "walk" /\ roots' = plan.roots
            /\ UNCHANGED <<dirs, todo, found, skipped, seen, read, generation, outcome, findings>>
         \/ /\ kind = "regular" /\ ~plan.scoped /\ Supported(plan.requested)
            /\ phase' = "read" /\ found' = <<plan.requested>>
            /\ UNCHANGED <<roots, dirs, todo, skipped, seen, read, generation, outcome, findings>>
         \/ /\ \/ kind \notin {"directory", "regular"}
               \/ kind = "regular" /\ (plan.scoped \/ ~Supported(plan.requested))
            /\ End("input")
  /\ UNCHANGED <<tree, touched, edits, plan>>

\* _scope_root: every component of a declared root is a directory and no link.
OpenRoot ==
  /\ phase = "walk" /\ dirs = <<>> /\ todo = <<>> /\ roots # <<>>
  /\ LET root == Head(roots)
     IN  IF \E p \in Paths : IsPrefix(p, root) /\ tree[p].kind # "directory"
         THEN End("input")
         ELSE /\ dirs' = <<[path |-> root, root |-> TRUE]>> /\ roots' = Tail(roots)
              /\ seen' = [seen EXCEPT !.directories = @ + 1]
              /\ UNCHANGED <<phase, todo, found, skipped, read, generation, outcome, findings>>
  /\ UNCHANGED <<tree, touched, edits, plan>>

InSomeOrder(S) == FoldSet(LAMBDA x, list : Append(list, x), <<>>, S)

\* The entries that os.walk lists, those that are or lead to directories first.
Listing(dir) ==
  LET children == {p \in Below(dir) : Parent(p) = dir /\ tree[p].kind # "none"}
      lead == {p \in children : tree[p].kind \in {"directory", "dirlink"}}
  IN  InSomeOrder({[path |-> p, dir |-> TRUE] : p \in lead})
      \o InSomeOrder({[path |-> p, dir |-> FALSE] : p \in children \ lead})

\* os.walk does not enter what has become a link since it was inspected, and
\* says nothing of it.
ListDirectory ==
  /\ phase = "walk" /\ todo = <<>> /\ dirs # <<>>
  /\ LET dir == Head(dirs).path
         kind == tree[dir].kind
         items == IF kind = "directory" THEN Listing(dir) ELSE <<>>
         count == [entries |-> seen.entries + Len(items),
                   directories |-> seen.directories
                                   + Cardinality({i \in DOMAIN items : items[i].dir})]
     IN  IF \/ kind \in {"none", "regular", "other"}
            \/ kind = "symlink" /\ Head(dirs).root
         THEN End("error")
         ELSE IF count.entries > Limits.entries \/ count.directories > Limits.directories
         THEN End("input")
         ELSE /\ dirs' = Tail(dirs) /\ todo' = items /\ seen' = count
              /\ UNCHANGED <<phase, roots, found, skipped, read, generation, outcome, findings>>
  /\ UNCHANGED <<tree, touched, edits, plan>>

Skip(path, kind, reason) ==
  /\ skipped' = Adding(skipped, path, [kind |-> kind, reason |-> reason])
  /\ todo' = Tail(todo)
  /\ UNCHANGED <<phase, roots, dirs, found, seen, read, generation, outcome, findings>>

KindOf(entry) == IF entry.kind \in Links THEN "symlink"
                 ELSE IF entry.kind = "regular" THEN "regular" ELSE "other"

Consumed == {p \in DOMAIN skipped : skipped[p].reason = "scope_excluded"}

\* Bytes of the excluded files that were verified, a directory's links aside.
ExcludedBytes(paths) ==
  TotalSize([p \in {q \in paths : plan.exclusions[q].kind = "regular"} |->
               plan.exclusions[p].content])

\* _consume_exclusion: the entry is the pinned one and within the limits.
IsPinned(path, entry) ==
  LET pinned == plan.exclusions[path]
  IN  /\ KindOf(entry) = pinned.kind /\ entry.content = pinned.content
      /\ pinned.kind = "regular" =>
           /\ SizeOf[entry.content] <= Limits.excludedFile
           /\ ExcludedBytes(Consumed \cup {path}) <= Limits.excluded

\* An entry that the scope plan excludes.
InspectExcluded(item, entry) ==
  IF \/ item.dir /\ plan.exclusions[item.path].kind # "symlink"
     \/ ~IsPinned(item.path, entry)
  THEN End("input") ELSE Skip(item.path, KindOf(entry), "scope_excluded")

\* Mutant: the directories that were still to be listed are forgotten.
DescendOnly(path) == <<[path |-> path, root |-> FALSE]>>

\* os.walk goes down before it goes on.
Descend(path) == <<[path |-> path, root |-> FALSE]>> \o dirs

\* What os.walk took for a directory: anything but a link is to be entered.
InspectDirectory(item, entry) ==
  IF entry.kind = "none" THEN End("error")
  ELSE IF entry.kind \in Links THEN End("input")
  ELSE /\ dirs' = Descend(item.path) /\ todo' = Tail(todo)
       /\ UNCHANGED <<phase, roots, found, skipped, seen, read, generation, outcome, findings>>

InspectFile(item, entry) ==
  IF entry.kind = "none" THEN End("error")
  ELSE IF ~Supported(item.path) THEN Skip(item.path, KindOf(entry), "unsupported")
  ELSE IF entry.kind # "regular" \/ Len(found) = Limits.files THEN End("input")
  ELSE /\ found' = Append(found, item.path) /\ todo' = Tail(todo)
       /\ UNCHANGED <<phase, roots, dirs, skipped, seen, read, generation, outcome, findings>>

\* One name of a listed directory.
Inspect ==
  /\ phase = "walk" /\ todo # <<>>
  /\ LET item == Head(todo)
         entry == tree[item.path]
     IN  IF ~WithinPathLimits(item.path) THEN End("input")
         ELSE IF item.path \in DOMAIN plan.exclusions THEN InspectExcluded(item, entry)
         ELSE IF item.dir THEN InspectDirectory(item, entry)
         ELSE InspectFile(item, entry)
  /\ UNCHANGED <<tree, touched, edits, plan>>

\* Every exclusion was met, and there is something to read.
EndWalk ==
  /\ phase = "walk" /\ roots = <<>> /\ dirs = <<>> /\ todo = <<>>
  /\ IF DOMAIN plan.exclusions # Consumed \/ found = <<>>
     THEN End("input")
     ELSE phase' = "read" /\ UNCHANGED <<walk, read, generation, outcome, findings>>
  /\ UNCHANGED <<tree, touched, edits, plan>>

-----------------------------------------------------------------------------
(* The reads                                                               *)

\* Mutant: every file by itself is within the limits.
FitsAlone(content) == SizeOf[content] <= Limits.file

Fits(content) == SizeOf[content] <= Limits.file /\ TotalSize(read) + SizeOf[content] <= Limits.total

\* _read_source, and what scan_path asks of the path and the bytes.  A link is not followed;
\* opening something else may or may not fail.
ReadFile ==
  /\ phase = "read" /\ found # <<>>
  /\ LET path == Head(found)
         entry == tree[path]
     IN  \/ ~IsUtf8(path) /\ End("input")
         \/ /\ IsUtf8(path)
            /\ \/ entry.kind \in Links \cup {"none", "other"} /\ End("error")
               \/ entry.kind \in {"directory", "other"} /\ End("input")
         \/ /\ IsUtf8(path) /\ entry.kind = "regular"
            /\ IF ~Fits(entry.content) \/ entry.content \in Unreadable
               THEN End("input")
               ELSE /\ read' = Adding(read, path, entry.content) /\ found' = Tail(found)
                    /\ UNCHANGED <<phase, roots, dirs, todo, skipped, seen, generation, outcome, findings>>
  /\ UNCHANGED <<tree, touched, edits, plan>>

\* A generation plan goes with the scan of one whole directory.
EndReads ==
  /\ phase = "read" /\ found = <<>>
  /\ IF plan.artifacts = <<>>
     THEN phase' = "analyse" /\ UNCHANGED <<walk, read, generation, outcome, findings>>
     ELSE IF IsFile(plan.requested) \/ plan.roots # << <<>> >>
     THEN End("input")
     ELSE phase' = "generate" /\ UNCHANGED <<walk, read, generation, outcome, findings>>
  /\ UNCHANGED <<tree, touched, edits, plan>>

-----------------------------------------------------------------------------
(* The generation plan                                                     *)

Artifact == plan.artifacts[step[1]]

Input == Artifact.inputs[step[2]]

\* Mutant: only what is read for this input is compared with its digest.
DigestMatchesOnRead(content) == Input.path \in DOMAIN cache \/ content = Input.content

DigestMatches(content) == content = Input.content

\* An input that was read for an earlier one is not read again.
ReadInput ==
  LET entry == tree[Input.path]
  IN  IF Input.path \in DOMAIN cache THEN {cache[Input.path]}
      ELSE IF entry.kind # "regular" THEN {}
      ELSE IF SizeOf[entry.content] > Limits.input
              \/ TotalSize(cache) + SizeOf[entry.content] > Limits.inputs THEN {}
      ELSE {entry.content}

\* _render_template, and the limit on all that is rendered.
Renderable(template) ==
  /\ Renders[template] # NoContent
  /\ TotalSize(rendered) + SizeOf[Renders[template]] <= Limits.rendered

\* One input is verified; with the last one of an artifact its template is
\* rendered, if it has one.
VerifyInput ==
  /\ phase = "generate" /\ step[1] \in DOMAIN plan.artifacts
  /\ \/ /\ \/ step[2] = 1 /\ Artifact.path \in DOMAIN read
           \/ ~\E content \in ReadInput : DigestMatches(content)
        /\ End("input")
     \/ /\ ~(step[2] = 1 /\ Artifact.path \in DOMAIN read)
        /\ \E content \in ReadInput :
             LET cached == Adding(cache, Input.path, content)
             IN  /\ DigestMatches(content)
                 /\ IF step[2] < Len(Artifact.inputs)
                    THEN /\ cache' = cached /\ step' = <<step[1], step[2] + 1>>
                         /\ UNCHANGED <<phase, walk, read, rendered, outcome, findings>>
                    ELSE IF Artifact.template = <<>>
                    THEN /\ cache' = cached /\ step' = <<step[1] + 1, 1>>
                         /\ UNCHANGED <<phase, walk, read, rendered, outcome, findings>>
                    ELSE IF ~Renderable(cached[Artifact.template])
                    THEN End("input")
                    ELSE /\ cache' = cached /\ step' = <<step[1] + 1, 1>>
                         /\ rendered' = Adding(rendered, Artifact.path,
                                               Renders[cached[Artifact.template]])
                         /\ UNCHANGED <<phase, walk, read, outcome, findings>>
  /\ UNCHANGED <<tree, touched, edits, plan>>

EndGeneration ==
  /\ phase = "generate" /\ step[1] \notin DOMAIN plan.artifacts
  /\ phase' = "analyse"
  /\ UNCHANGED <<tree, touched, edits, plan, walk, read, generation, outcome, findings>>

-----------------------------------------------------------------------------
(* The analysis                                                            *)

\* Templates that were rendered are not analysed themselves.
Replaced == {a.template : a \in Range(plan.artifacts)} \ {<<>>}

Analysed == LET all == Over(rendered, read) IN Restrict(all, DOMAIN all \ Replaced)

\* parse_control
Document(path) ==
  LET name == NameOf(path)
      set == ControlOf[Analysed[path]]
  IN  [path |-> path, extension |-> name.extension, values |-> set.values,
       default |-> set.default, template |-> name.template /\ set.default = Placeholder]

Documents(secondary) ==
  {Document(p) : p \in {q \in DOMAIN Analysed : NameOf(q).type = "control"
                                                /\ NameOf(q).secondary = secondary}}

\* _is_extension_sql: any SQL where there is no control file; else what is named
\* for an extension, its plain script only as a template or beside the control.
IsExtensionSql(path, controls) ==
  \/ controls = {} \/ IsFile(plan.requested)
  \/ \E c \in controls :
       /\ c.extension = NameOf(path).extension
       /\ NameOf(path).kind = "plain" =>
            NameOf(path).template \/ Parent(c.path) = Parent(path)

\* SQL that exists only as the name of an artifact which is not rendered.
DeclaredSql == {a.path : a \in {b \in Range(plan.artifacts) : NameOf(b.path).type = "sql"}}

ExtensionSql(controls) ==
  {p \in DOMAIN Analysed : /\ NameOf(p).type = "sql"
                           /\ p \in DeclaredSql \/ IsExtensionSql(p, controls)}

Script(path) ==
  LET name == NameOf(path)
  IN  [path |-> path, extension |-> name.extension, kind |-> name.kind,
       from |-> name.from, to |-> name.to]

\* What the graph is built from.
Scripts(controls) ==
  {Script(p) : p \in ExtensionSql(controls) \cup (DeclaredSql \ DOMAIN Over(rendered, read))}

\* What the rules find, file by file; in a control file, the directives that
\* include another.
FileFindings(controls) ==
  LET scanned == ExtensionSql(controls)
                 \cup {p \in DOMAIN Analysed : NameOf(p).type \in {"source", "control"}}
  IN  UNION {{Found(rule, p, NoVersion) : rule \in RulesIn[Analysed[p]]} : p \in scanned}

\* Mutant: the graph search may not go over the limit.
RoomForGraph(count) == Limits.findings - count

\* One more than a report may hold, so that too many are noticed.
GraphLimit(count) == Limits.findings - count + 1

\* Everything after the reads: no file is looked at any more.
Analyse ==
  /\ phase = "analyse"
  /\ LET controls == Documents(FALSE)
         before == FileFindings(controls) \cup ControlSettings(controls, Documents(TRUE))
         count == Cardinality(before)
         graph == GraphFindings(Scripts(controls), controls, GraphLimit(count))
     IN  IF count > Limits.findings \/ count + Cardinality(graph) > Limits.findings
         THEN End("input")
         ELSE /\ findings' = before \cup graph /\ outcome' = "report" /\ phase' = "done"
              /\ UNCHANGED <<walk, read, generation>>
  /\ UNCHANGED <<tree, touched, edits, plan>>

Scan ==
  \/ Start \/ OpenRoot \/ ListDirectory \/ Inspect \/ EndWalk
  \/ ReadFile \/ EndReads \/ VerifyInput \/ EndGeneration \/ Analyse

Next == Scan \/ Edit

Spec == Init /\ [][Next]_vars

-----------------------------------------------------------------------------
(* Properties                                                              *)

Reported == outcome = "report"

\* The scan's variables have their types, and what it has read stays within the
\* limits at every step: each counts what came before it (scanner.py:590-631).
TypeOK ==
  /\ tree \in [Paths -> Entry] /\ touched \subseteq Paths
  /\ phase \in {"start", "walk", "read", "generate", "analyse", "done"}
  /\ outcome \in {"none", "report", "input", "error"}
  /\ (phase = "done") = (outcome # "none")
  /\ DOMAIN read \subseteq Paths /\ Range(read) \subseteq Contents \ Unreadable
  /\ TotalSize(read) <= Limits.total /\ Len(found) + Cardinality(DOMAIN read) <= Limits.files
  /\ Range(cache) \cup Range(rendered) \subseteq Contents
  /\ Cardinality(findings) <= Limits.findings

\* A report leaves nothing out in silence: what lay still below a root since the
\* scan started is in the manifest with what it contains, or among the skipped
\* files, as pinned if a plan excluded it, and no link to a directory was there
\* (docs/report-schemas.md; scanner.py:197-280, 428-546, 651-689).
EveryEntryAccounted ==
  Reported /\ plan.requested = <<>> =>
    \A p \in Paths \ touched :
      (tree[p].kind \notin {"none", "directory"} /\ \E r \in Range(plan.roots) : IsStrictPrefix(r, p)) =>
        \/ /\ p \in DOMAIN read \ DOMAIN skipped
           /\ tree[p].kind = "regular" /\ read[p] = tree[p].content /\ Supported(p)
        \/ /\ p \in DOMAIN skipped \ DOMAIN read
           /\ skipped[p].kind = KindOf(tree[p])
           /\ IF p \in DOMAIN plan.exclusions
              THEN plan.exclusions[p].content = tree[p].content
              ELSE tree[p].kind # "dirlink" /\ ~Supported(p)

\* Whatever is analysed is either a file as the manifest has it, or is rendered
\* from the very content that the generation plan pins for its template, however
\* the tree changes between the first and the second read of it
\* (generation.py:324-374, 440-480; scanner.py:691-715).
AnalysedIsAccounted ==
  Reported =>
    \A p \in DOMAIN Analysed :
      \/ p \in DOMAIN read /\ Analysed[p] = read[p]
      \/ \E a \in Range(plan.artifacts) : \E i \in Range(a.inputs) :
           /\ a.path = p /\ a.template = i.path
           /\ Analysed[p] = Renders[i.content]

\* Whatever may be left on or off by a version's own control file, and to
\* whichever control file of the extension it belongs, a privilege that holds when
\* the version is installed, a risky requirement included, is reported on the one or
\* the other: a setting that is not asked about in the version's file is one that
\* the primary's finding covers
\* (scanner.py:742-763; rules.py:205-287).
PrivilegeIsReported ==
  Reported =>
    \A own \in Documents(TRUE) : \A primary \in Documents(FALSE) : \A privilege \in Privileges :
      primary.extension = own.extension /\ Holds(privilege, Over(own.values, primary.values)) =>
        \E path \in {own.path, primary.path} : Found(privilege, path, NoVersion) \in findings

-----------------------------------------------------------------------------
(* What the graph findings mean, without a search: a version leads to those *)
(* that every set has which contains it and what its updates lead to.       *)

Leads(edges, from, to) ==
  \A S \in SUBSET ({from, to} \cup UNION {{e[1], e[2]} : e \in edges}) :
    from \in S /\ (\A e \in edges : e[1] \in S => e[2] \in S) => to \in S

\* Every version of some set can be updated to another of it.
Cyclic(edges) ==
  \E S \in (SUBSET {e[1] : e \in edges}) \ {{}} : \A n \in S : \E m \in S : <<n, m>> \in edges

\* A control file is the nearest to a script if every other one branches off
\* from the script's directory higher up, or is below it where this one is not.
Shared(path, control) ==
  CHOOSE n \in 0 .. Len(Parent(path)) :
    /\ IsPrefix(SubSeq(Parent(path), 1, n), Parent(control.path))
    /\ \A m \in n + 1 .. Len(Parent(path)) :
         ~IsPrefix(SubSeq(Parent(path), 1, m), Parent(control.path))

IsNearest(control, script, controls) ==
  /\ control \in Candidates(script, controls)
  /\ \A other \in Candidates(script, controls) \ {control} :
       \/ Shared(script.path, other) < Shared(script.path, control)
       \/ /\ Shared(script.path, other) = Shared(script.path, control)
          /\ Len(Parent(control.path)) = Shared(script.path, control)
          /\ Len(Parent(other.path)) > Shared(script.path, control)

\* What is wrong with the scripts that are nearest to a control file.
Faults(control, scripts, controls) ==
  LET own == {s \in scripts : IsNearest(control, s, controls)}
      edges == Edges(own)
      install == Bases(own)
      starts == install \cup {e[1] : e \in {f \in edges : \A g \in edges : g[2] # f[1]}}
      asked == control.default # NoVersion /\ ~control.template
  IN  (IF Cyclic(edges) THEN {Found("update.cycle", control.path, NoVersion)} ELSE {})
      \cup (IF /\ asked /\ ~\E s \in own : s.kind = "plain"
               /\ ~\E v \in install : Leads(edges, v, control.default)
            THEN {Found("update.install-script-missing", control.path, control.default)} ELSE {})
      \cup {Found("update.missing-path", control.path, v) :
              v \in {n \in Nodes(own) : /\ asked /\ \E start \in starts : Leads(edges, start, n)
                                        /\ ~Leads(edges, n, control.default)}}

AllFaults ==
  LET controls == Documents(FALSE)
      scripts == Scripts(controls)
  IN  {Found("update.ambiguous-scope", s.path, NoVersion) :
         s \in {t \in scripts : /\ Cardinality(Candidates(t, controls)) > 1
                                /\ \A c \in controls : ~IsNearest(c, t, controls)}}
      \cup UNION {Faults(c, scripts, controls) : c \in controls}

\* No finding about the versions is wrong: a version that is said to be stuck, an
\* install that is said to be missing, a cycle or an ambiguity is there
\* (graph.py:28-341).
GraphFindingsReal ==
  Reported => {f \in findings : f.rule \in GraphRules} \subseteq AllFaults

\* And none is left out, also of a report that has as many as it may: a search
\* that is cut short ends the scan instead (scanner.py:722-728, 791-797).
NoFindingIsCut == Reported => AllFaults \subseteq findings
=============================================================================
