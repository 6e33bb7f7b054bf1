\* Two jobs that nobody keeps apart.
SPECIFICATION FairSpec
CONSTANTS
  Jobs = {j1, j2}
  Labels = {l1, l2, l3}
  Manifests = {m1, m2, m2x, m3}
  LabelOf <- MCLabelOf
  m1 = m1
  m2 = m2
  m2x = m2x
  m3 = m3
  l1 = l1
  l2 = l2
  l3 = l3
  None = None
INVARIANTS OneActive
PROPERTIES ImplementsCatalog NeverDark LabelsAreFinal CuratedStays EveryJobEnds
