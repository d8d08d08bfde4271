---------------------------- MODULE ControlFiles ----------------------------
(***************************************************************************)
(* Control files and the settings that decide who may install an           *)
(* extension.  A version-specific ("secondary") control file overrides     *)
(* single settings of the primary one; which primary it belongs to has to  *)
(* be guessed from where the two lie (scanner.py, rules.py).               *)
(*                                                                         *)
(* A control file is [path, extension, secondary, values], where values is *)
(* a function from the settings that it makes.                             *)
(***************************************************************************)
EXTENDS Naturals, FiniteSets, SequencesExt, Functions

Settings == {"directory", "superuser", "trusted", "relocatable", "requires"}

\* The settings that scan_control asks about.  Of "requires", "on" is that it
\* names an extension that is known to be risky.
Privileges == {"superuser", "trusted", "relocatable", "requires"}

\* What PostgreSQL takes to be on where a setting is not made or not a Boolean.
OnByDefault == {"superuser"}

\* _control_script_roots: beside the control file, and in its "directory" below
\* it or below the directory above it.
ScriptRoots(control) ==
  LET parent == Front(control.path)
      base == IF parent = <<>> THEN parent ELSE Front(parent)
  IN  {parent} \cup (IF "directory" \notin DOMAIN control.values THEN {}
                     ELSE {parent \o control.values["directory"],
                           base \o control.values["directory"]})

\* _secondary_control_candidates: the primary whose root is the secondary's
\* directory, else the ones with the longest root above it.
Primaries(secondary, controls) ==
  LET parent == Front(secondary.path)
      alike == {c \in controls : c.extension = secondary.extension}
      Above(c) == {r \in ScriptRoots(c) : IsPrefix(r, parent)}
      exact == {c \in alike : parent \in ScriptRoots(c)}
      Depth(c) == Len(CHOOSE r \in Above(c) : \A s \in Above(c) : Len(s) <= Len(r))
      related == {c \in alike : Above(c) # {}}
  IN  IF exact # {} THEN exact
      ELSE {c \in related : \A d \in related : Depth(d) <= Depth(c)}

\* f, and g where f is not defined.
Over(f, g) == [x \in DOMAIN f \cup DOMAIN g |-> IF x \in DOMAIN f THEN f[x] ELSE g[x]]

\* Mutant: the primary's settings override the secondary's.
EffectiveReversed(primary, secondary) == Over(primary.values, secondary.values)

\* What holds when the secondary's version is installed.
Effective(primary, secondary) == Over(secondary.values, primary.values)

\* _boolean: "on", "off", "@placeholder@" of a build template, or odd.
Holds(privilege, values) ==
  LET value == IF privilege \in DOMAIN values THEN values[privilege] ELSE "odd"
  IN  value = "on" \/ (value = "odd" /\ privilege \in OnByDefault)

\* scan_control: what is said of a file, of the settings that are asked about.
ControlRules(path, values, asked) ==
  {[rule |-> p, path |-> path, version |-> ""] :
     p \in {q \in Privileges \cap asked : Holds(q, values)}}

\* The findings in the control files of a tree.
ControlSettings(primaries, secondaries) ==
  UNION ({ControlRules(c.path, c.values, Settings) : c \in primaries}
         \cup {LET found == Primaries(s, primaries)
               IN  IF Cardinality(found) = 1
                   THEN ControlRules(s.path, Effective(CHOOSE c \in found : TRUE, s),
                                     DOMAIN s.values)
                   ELSE ControlRules(s.path, s.values, Settings) : s \in secondaries})
=============================================================================
