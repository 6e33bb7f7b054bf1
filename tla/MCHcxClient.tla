---------------------------- MODULE MCHcxClient ----------------------------
(***************************************************************************)
(* HcxClient with delays on both sides of what is left of the deadline,    *)
(* and probes beside it in a process of any settings.                      *)
(***************************************************************************)
EXTENDS ServiceProbes

MCBackoff == [n \in 0 .. MaxRetries |-> 2 * 2 ^ n]

MCSettings == {s \in [evaluation : BOOLEAN, key : BOOLEAN, credit : BOOLEAN] :
                 s.evaluation = (s.key /\ s.credit)}
=============================================================================
