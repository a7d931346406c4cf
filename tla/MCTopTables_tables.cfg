\* Bounds: three keys, four batches and two checkpoints; culling starts
\* above top_n rows and removes what is below half of the N-th best.
SPECIFICATION Spec
CONSTANTS
  Keys = {k1, k2, k3}
  Kinds <- AllKinds
  Lines <- MCLines
  TopNs <- MCTopNs
  CullFactor = 1
  CullFraction = 2
  LastMonth = 2
  MaxBatches = 4
  MaxCulls = 2
SYMMETRY KeySymmetry
INVARIANTS
  TypeOK
  ErrorBounded
  EveryColumnHasItsTop
PROPERTIES
  CullSparesTop
\* Months and lines are bounded.
CHECK_DEADLOCK FALSE
