\* An AGGREGATE question, answered with the preliminary state.
SPECIFICATION Spec
CONSTANTS
  Requests = {r1}
  Questions = {"average"}
  Blank = {}
  Ruled = {}
  Parse <- MCParse
  Versions = {1}
  Curated <- MCCurated
  ua = ua
  ub = ub
  ux = ux
  Uids = {ua, ux}
  LowQuality = {ux}
  m1 = m1
  m2 = m2
  d1 = d1
  d2 = d2
  d3 = d3
  Docs = {d1, d2, d3}
  Manifests = {}
  NoManifest = NoManifest
  Links <- MCLinks
  NoProduct = NoProduct
  Capacity = 1
  PoolSize = 1
  None = None

INVARIANTS FinalStatesOnly
