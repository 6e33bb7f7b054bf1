\* Two relation questions while two external manifests are ingested and deployed,
\* in any order with their steps.
SPECIFICATION Spec
CONSTANTS
  Requests = {r1, r2}
  Questions = {"holds", "firms"}
  Blank = {}
  Ruled = {}
  Parse <- MCParse
  Versions = {1}
  Curated <- MCCurated
  ua = ua
  ub = ub
  ux = ux
  Uids = {ua, ux}
  LowQuality = {}
  m1 = m1
  m2 = m2
  d1 = d1
  d2 = d2
  d3 = d3
  Docs = {d1, d2, d3}
  Manifests = {m1, m2}
  NoManifest = NoManifest
  Links <- MCLinks
  NoProduct = NoProduct
  Capacity = 1
  PoolSize = 2
  None = None
SYMMETRY Interchangeable
INVARIANT HoldingAnswersAreDocumented
PROPERTIES ImplementsContract
