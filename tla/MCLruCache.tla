----------------------------- MODULE MCLruCache -----------------------------
(***************************************************************************)
(* LruCache with more keys than room, so that every run of a few calls     *)
(* evicts, refreshes and reinserts.                                        *)
(***************************************************************************)
EXTENDS LruCache
=============================================================================
