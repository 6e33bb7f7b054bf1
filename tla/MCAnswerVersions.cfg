\* Two requests that share the caches while two dataset versions are activated
\* and curated, in any order with their steps.
SPECIFICATION Spec
CONSTANTS
  Requests = {r1, r2}
  Questions = {"filter", "rule"}
  Blank = {}
  Ruled = {"rule"}
  Parse <- MCParse
  Versions = {1, 2}
  Curated <- MCCurated
  ua = ua
  ub = ub
  ux = ux
  Uids = {ua, ub, ux}
  LowQuality = {ux}
  m1 = m1
  m2 = m2
  d1 = d1
  d2 = d2
  d3 = d3
  Docs = {d1, d2, d3}
  Manifests = {}
  NoManifest = NoManifest
  Links <- MCLinks
  NoProduct = NoProduct
  Capacity = 1
  PoolSize = 2
  None = None
SYMMETRY Interchangeable
INVARIANTS AnswerMeansEvidence OneDatasetPerAnswer CachedRunsMatchKeys
