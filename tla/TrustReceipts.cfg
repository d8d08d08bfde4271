SPECIFICATION Spec
CONSTANTS
  LastDay = 5
  Values = {"good", "bad"}
  Context = {q1, q2}
  Policies <- SomePolicies
  Bundles <- SomeBundles
SYMMETRY ContextsAlike
INVARIANTS
  TypeOK
  ActiveMeansReadmitted
  AdmittedIsActiveAtOnce
