------------------------- MODULE MCDatasetLifecycle -------------------------
(***************************************************************************)
(* DatasetLifecycle with two manifests of one label, so that a label comes *)
(* back with other content.                                                *)
(***************************************************************************)
EXTENDS DatasetLifecycle

CONSTANTS m1, m2, m2x, m3, l1, l2, l3

MCLabelOf == [m \in Manifests |->
  CASE m = m1 -> l1 [] m = m3 -> l3 [] OTHER -> l2]
=============================================================================
