--------------------------- MODULE MCPostgresLedger ---------------------------
(***************************************************************************)
(* Small instances of PostgresLedger: two keys, two contexts and five      *)
(* requests that meet each other in every way the ledger distinguishes.    *)
(***************************************************************************)
EXTENDS PostgresLedger, TLC

CONSTANTS k1, k2, c1, c2, p1, p2, today, later

MCRequest(k, c, p, d) == [key |-> k, context |-> c, package |-> p, anchors |-> d]

First      == MCRequest(k1, c1, p1, today)
\* The context of First under another key.
OtherKey   == MCRequest(k2, c1, p1, today)
\* First again, to be used on a later day: inactive by then.
LaterUse   == MCRequest(k1, c1, p1, later)
\* The key of First with other bytes, which do not verify.
OtherBytes == MCRequest(k1, c1, p2, today)
\* Shares nothing with First but, below, its lock keys.
Unrelated  == MCRequest(k2, c2, p1, today)

VerdictOf(r) == CASE r = LaterUse -> "deny"
                  [] r = OtherBytes -> "reject"
                  [] OTHER -> "allow"

Rivals == {First, OtherKey, OtherBytes, Unrelated}
RivalsVerdict == [r \in Rivals |-> VerdictOf(r)]

Everything == {First, OtherKey, LaterUse, OtherBytes, Unrelated}
EverythingVerdict == [r \in Everything |-> VerdictOf(r)]

\* Hash collisions across the two classes: First and Unrelated want the same
\* two keys, each as the other one's class.
CollidingLockKey == [n \in LockNames |->
  IF n \in {<<"idempotency", k1>>, <<"context", c2>>} THEN -7 ELSE 7]

AttemptSymmetry == Permutations(Attempts)
=============================================================================
