--------------------------- MODULE MCAdmissionGate ---------------------------
(***************************************************************************)
(* A small instance of AdmissionGate.  The same routine is reported in two *)
(* versions of a script, with another capability, with a lower severity;   *)
(* one finding has no semantic identity.                                   *)
(***************************************************************************)
EXTENDS AdmissionGate

Script(dirs, sql) == [dirs |-> dirs, extension |-> "ext", sql |-> sql]

Definer(dirs, severity, capability) ==
  [rule |-> "sql.security-definer-search-path", severity |-> severity,
   capability |-> capability, path |-> Script(dirs, TRUE), line |-> Len(dirs),
   message |-> "definer", evidence |-> [routine |-> TRUE, name |-> "f"]]

Loader ==
  [rule |-> "native.load", severity |-> 2, capability |-> "native",
   path |-> Script(<<"src">>, FALSE), line |-> 7, message |-> "loads",
   evidence |-> [routine |-> FALSE, name |-> "dlopen"]]

Install == Definer(<<"sql">>, 3, "privilege")
Update  == Definer(<<"sql", "updates">>, 3, "privilege")
Widened == Definer(<<"updates">>, 3, "network")
Lower   == Definer(<<>>, 1, "privilege")

SomeFindings == {Install, Update, Widened, Lower, Loader}

SomeSources == {{Install}, {Install, Update}, {Update, Widened}, {Lower, Loader}, {Install, Loader}}

Suppress(f, expires, ticket) ==
  [id |-> RootCause(f), rule |-> f.rule, severity |-> f.severity,
   expires |-> expires, ticket |-> ticket]

File(version, entries) == [ruleset |-> version, entries |-> entries]

\* With and without a ticket, for two rulesets, repeated, and misdescribed.
SomeSuppressions ==
  {File("r1", {Suppress(Install, 1, TRUE)}),
   File("r1", {Suppress(Install, 1, FALSE), Suppress(Loader, 2, TRUE)}),
   File("r2", {Suppress(Widened, 2, TRUE)}),
   File("r1", {Suppress(Install, 1, TRUE), Suppress(Install, 3, TRUE)}),
   File("r1", {[Suppress(Loader, 2, TRUE) EXCEPT !.severity = 1]})}

PolicyWith(version, minimum, capabilities, rules, skipped, allow, ticket) ==
  [kind |-> "policy", ruleset |-> version, minimum |-> minimum,
   capabilities |-> capabilities, rules |-> rules, skips |-> skipped,
   allowBaseline |-> allow, allowSuppressions |-> allow, requireTicket |-> ticket]

SomeGates ==
  {FailOn(1), FailOn(3),
   PolicyWith("r1", 3, {"network"}, {}, 0, TRUE, TRUE),
   PolicyWith("r1", 5, {"network"}, {"native.load"}, 9, TRUE, FALSE),
   PolicyWith("r2", 2, {}, {}, 9, FALSE, FALSE)}
=============================================================================
