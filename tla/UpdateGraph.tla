----------------------------- MODULE UpdateGraph -----------------------------
(***************************************************************************)
(* The install and update scripts of extensions as graphs of versions, one *)
(* graph for every control file, and what graph.py finds in them.          *)
(*                                                                         *)
(* A path is a sequence of names.  A control is [path, extension, default, *)
(* template], a script [path, extension, kind, from, to]; a base script    *)
(* installs version "from", an update script leads from "from" to "to".    *)
(* An operator that may find nothing returns a set of at most one element. *)
(***************************************************************************)
EXTENDS Naturals, FiniteSets, SequencesExt

\* The control file names no version.
NoVersion == ""

\* A version that is filled in when the extension is built.
Placeholder == "@VERSION@"

Parent(path) == Front(path)

OnlyOne(S) == IF Cardinality(S) = 1 THEN S ELSE {}

-----------------------------------------------------------------------------
(* Which control file a script belongs to                                  *)

\* _scoped_control: the control file beside the script, else the nearest one
\* above it, else the one below the nearest directory above it that has any.
ScopedControl(path, candidates) ==
  LET dir == Parent(path)
      Below(depth) == {c \in candidates : IsPrefix(SubSeq(dir, 1, depth), Parent(c.path))}
      depth == CHOOSE d \in 0 .. Len(dir) :
                 /\ Below(d) # {}
                 /\ \A e \in d + 1 .. Len(dir) : Below(e) = {}
      matches == Below(depth)
      beside == {c \in matches : Parent(c.path) = dir}
      above == {c \in matches : IsPrefix(Parent(c.path), dir)}
      nearest == {c \in above : \A d \in above : Len(d.path) <= Len(c.path)}
  IN  IF Cardinality(candidates) < 2 THEN candidates
      ELSE IF beside # {} THEN OnlyOne(beside)
      ELSE IF above # {} THEN OnlyOne(nearest)
      ELSE OnlyOne(matches)

Candidates(script, controls) == {c \in controls : c.extension = script.extension}

ScopeOf(script, controls) == ScopedControl(script.path, Candidates(script, controls))

\* Scripts for which record_ambiguity is called and does something.
Ambiguous(scripts, controls) ==
  {s \in scripts : ScopeOf(s, controls) = {} /\ Cardinality(Candidates(s, controls)) > 1}

-----------------------------------------------------------------------------
(* The graph of one control file                                           *)

ScriptsOf(control, scripts, controls) ==
  {s \in scripts : ScopeOf(s, controls) = {control}}

Bases(own) == {s.from : s \in {t \in own : t.kind = "base"}}

Edges(own) == {<<s.from, s.to>> : s \in {t \in own : t.kind = "update"}}

Nodes(own) == Bases(own) \cup UNION {{e[1], e[2]} : e \in Edges(own)}

Reversed(edges) == {<<e[2], e[1]>> : e \in edges}

\* _reachable_many
ReachableMany(starts, edges) ==
  LET nodes == starts \cup UNION {{e[1], e[2]} : e \in edges}
      reach[seen \in SUBSET nodes] ==
        LET targets == {e[2] : e \in {f \in edges : f[1] \in seen}}
        IN  IF targets \subseteq seen THEN seen ELSE reach[seen \cup targets]
  IN  reach[starts]

\* _has_cycle: versions that no remaining update leads to are taken away.
HasCycle(nodes, edges) ==
  LET peel[rest \in SUBSET nodes] ==
        LET free == {n \in rest : \A e \in edges : e[2] = n => e[1] \notin rest}
        IN  IF free = {} THEN rest ELSE peel[rest \ free]
  IN  peel[nodes] # {}

\* The versions a database can be at: those installed, and those from which
\* updates start that none leads to, and what is updated from them.
EntryVersions(own) ==
  LET incoming == {e[2] : e \in Edges(own)}
  IN  ReachableMany((Nodes(own) \ incoming) \cup Bases(own), Edges(own))

HasPlainInstall(own) == \E s \in own : s.kind = "plain"

Unresolved(control) == control.default = NoVersion \/ control.template

-----------------------------------------------------------------------------
(* The findings of scan_update_graph.  Where the code names the script that  *)
(* a version comes from, its control file stands for it here.              *)

Found(rule, path, version) == [rule |-> rule, path |-> path, version |-> version]

CycleFindings(control, own) ==
  IF HasCycle(Nodes(own), Edges(own))
  THEN {Found("update.cycle", control.path, NoVersion)} ELSE {}

\* Mutant: only a script of the very version installs it.
InstallFindingsDirect(control, own) ==
  IF Unresolved(control) \/ HasPlainInstall(own) \/ control.default \in Bases(own)
  THEN {} ELSE {Found("update.install-script-missing", control.path, control.default)}

InstallFindings(control, own) ==
  IF \/ Unresolved(control) \/ HasPlainInstall(own)
     \/ control.default \in ReachableMany(Bases(own), Edges(own))
  THEN {} ELSE {Found("update.install-script-missing", control.path, control.default)}

PathFindings(control, own) ==
  IF Unresolved(control) THEN {}
  ELSE LET canReach == ReachableMany({control.default}, Reversed(Edges(own)))
       IN  {Found("update.missing-path", control.path, v) : v \in EntryVersions(own) \ canReach}

ControlFindings(control, scripts, controls) ==
  LET own == ScriptsOf(control, scripts, controls)
  IN  CycleFindings(control, own) \cup InstallFindings(control, own)
      \cup PathFindings(control, own)

AllGraphFindings(scripts, controls) ==
  {Found("update.ambiguous-scope", s.path, NoVersion) : s \in Ambiguous(scripts, controls)}
  \cup UNION {ControlFindings(c, scripts, controls) : c \in controls}

\* The search ends as soon as there are "most" findings.
GraphFindings(scripts, controls, most) ==
  LET all == AllGraphFindings(scripts, controls)
  IN  IF Cardinality(all) < most THEN all
      ELSE CHOOSE some \in SUBSET all : Cardinality(some) = most
=============================================================================
