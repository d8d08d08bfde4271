---------------------------- MODULE MCSQLiteLedger ----------------------------
(***************************************************************************)
(* A small instance of SQLiteLedger: First, its context under another key, *)
(* its key for another context, and First again with other anchors.        *)
(***************************************************************************)
EXTENDS SQLiteLedger

CONSTANTS k1, k2, c1, c2, p1, today, later

MCRequest(k, c, d) == [key |-> k, context |-> c, package |-> p1, anchors |-> d]

First        == MCRequest(k1, c1, today)
OtherKey     == MCRequest(k2, c1, today)
OtherContext == MCRequest(k1, c2, today)
LaterUse     == MCRequest(k1, c1, later)

MCRequests == {First, OtherKey, OtherContext, LaterUse}

\* LaterUse does not verify: it can only be replayed.
MCVerdict == [r \in MCRequests |->
                CASE r = LaterUse -> "reject"
                  [] r = OtherContext -> "deny"
                  [] OTHER -> "allow"]
=============================================================================
