\* One request after the other, while two ingests replace the library under it.
SPECIFICATION AllSpec
CONSTANTS
  Jobs = {j1, j2}
  Manifests = {m1, m2, m3}
  None = None
  m1 = m1
  m2 = m2
  m3 = m3
  t1 = t1
  t2 = t2
  e1 = e1
  e2 = e2
  e3 = e3
  ua = ua
  ub = ub
  ux = ux
  d1 = d1
  d2 = d2
  NoProduct = NoProduct
  Targets <- MCTargets
  Questions <- MCQuestions
  Alias <- MCAlias
  Canonical <- MCCanonical
  Facts <- MCFacts
INVARIANTS OneSnapshot  RunsStandTogether
PROPERTIES EveryIngestEnds
