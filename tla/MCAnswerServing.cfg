\* Two requests of any kind over one dataset and one manifest: the HCX dialogue,
\* the output guard, every failure, the deadline and the audit log.
SPECIFICATION Spec
CONSTANTS
  Requests = {r1, r2}
  Questions = {"filter", "rule", "vague", "blank", "firms", "term", "average", "mixed", "owners"}
  Blank = {"blank"}
  Ruled = {"rule"}
  Parse <- MCParse
  Versions = {1}
  Curated <- MCCurated
  ua = ua
  ub = ub
  ux = ux
  Uids = {ua, ux}
  LowQuality = {ux}
  m1 = m1
  m2 = m2
  d1 = d1
  d2 = d2
  d3 = d3
  Docs = {d1, d2, d3}
  Manifests = {m1}
  NoManifest = NoManifest
  Links <- MCLinks
  NoProduct = NoProduct
  Capacity = 1
  PoolSize = 2
  None = None
SYMMETRY Interchangeable
INVARIANTS DeliveredTextPassesGuard ProviderCallBudget AuditMatchesAnswers
