--------------------------- MODULE MCTrustReceipts ---------------------------
(***************************************************************************)
(* Small instances of TrustReceipts: policies that expire, that revoke the *)
(* key, that renew it with a second entry, and one that allows nothing.    *)
(***************************************************************************)
EXTENDS TrustReceipts, TLC

Allowing(values) == [r \in ListReasons |-> values]

Entry(from, until, revoked) == [from |-> from, until |-> until, revoked |-> revoked]

PolicyWith(signers, expires, ages, days) ==
  [effective |-> 1, expires |-> expires, allowed |-> Allowing({"good"}),
   evidenceAge |-> ages, signatureAge |-> ages, receiptDays |-> days,
   signers |-> signers]

Open == LastDay + 1

ContextsAlike == Permutations(Context)

\* Entries that end, are revoked, or follow one another.
SomePolicies ==
  {PolicyWith({Entry(0, LastDay, Open)}, LastDay, 3, 2),
   PolicyWith({Entry(0, LastDay, Open)}, 3, 3, 1),
   PolicyWith({Entry(0, LastDay, 3)}, LastDay, 3, 2),
   PolicyWith({Entry(0, 3, Open), Entry(1, LastDay, 2)}, LastDay, 3, 2),
   PolicyWith({Entry(2, LastDay, 3)}, LastDay, 3, 2),
   PolicyWith({}, LastDay, 3, 2)}

SomeBundles ==
  {[created |-> 1, signed |-> 2, facts |-> Allowing("good")],
   [created |-> 1, signed |-> 1, facts |-> [Allowing("good") EXCEPT !["gate-not-allowed"] = "bad"]],
   [created |-> 2, signed |-> 1, facts |-> Allowing("good")]}
=============================================================================
