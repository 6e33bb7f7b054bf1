\* Two requests and one connection: whoever comes second finds the pool empty.
SPECIFICATION FairSpec
CONSTANTS
  Requests = {r1, r2}
  Questions = {"filter", "rule"}
  Blank = {}
  Ruled = {"rule"}
  Parse <- MCParse
  Versions = {1}
  Curated <- MCCurated
  ua = ua
  ub = ub
  ux = ux
  Uids = {ua, ux}
  LowQuality = {ux}
  m1 = m1
  m2 = m2
  d1 = d1
  d2 = d2
  d3 = d3
  Docs = {d1, d2, d3}
  Manifests = {}
  NoManifest = NoManifest
  Links <- MCLinks
  NoProduct = NoProduct
  Capacity = 1
  PoolSize = 1
  None = None

PROPERTIES EveryRequestEnds
