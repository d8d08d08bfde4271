--------------------------- MODULE MCEvidenceChain ---------------------------
(***************************************************************************)
(* A small instance of EvidenceChain: of two sources one is blocked, by    *)
(* one of two policies and by the threshold that holds without a policy;   *)
(* of two trust policies one admits what is blocked.                       *)
(***************************************************************************)
EXTENDS EvidenceChain, TLC

CONSTANTS s1, s2, p1, p2, k1, k2

TwoSources == {s1, s2}
TwoPolicies == {p1, p2}
TwoKeys == {k1, k2}

SomeBlocked == (s1 :> {}) @@ (s2 :> {p1, NoPolicy})

Strict == [key |-> k1, gates |-> {"pass"}]
Lenient == [key |-> k1, gates |-> {"pass", "blocked"}]

SomeTrustPolicies == {Strict, Lenient}

TheBlockedScan == {<<s2, p1>>}

JobsAlike == Permutations(Jobs)

\* A second handoff beside the first; what was blocked handed on; the commands
\* that only look.
SomeCampaigns ==
  {[source |-> s1, control |-> p1,
    commands |-> {"create", "sign", "evaluate", "package", "enforce"}],
   [source |-> s2, control |-> p1,
    commands |-> {"sign", "evaluate", "package", "enforce"}],
   [source |-> s2, control |-> NoPolicy, commands |-> {"create", "verify"}],
   [source |-> s1, control |-> NoPolicy, commands |-> {"package", "enforce", "export"}]}
=============================================================================
