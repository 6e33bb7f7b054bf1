---------------------------- MODULE ProviderCall ----------------------------
(***************************************************************************)
(* One call of the provider as AnswerService uses it, retries hidden: it   *)
(* is refused once the deadline has passed and is waited for otherwise;    *)
(* the wait ends with a reply, with a failure or, after the deadline, with *)
(* the cancellation of the request.                                        *)
(***************************************************************************)
VARIABLES phase,   \* idle, waiting, or how the call ended
          late     \* whether the deadline of the request has passed

Ends == {"replied", "failed", "cancelled"}

Init == phase = "idle" /\ late \in BOOLEAN

Expire == ~late /\ late' = TRUE /\ UNCHANGED phase

Start == /\ phase = "idle"
         /\ phase' \in IF late THEN {"failed"} ELSE {"waiting", "failed"}
         /\ UNCHANGED late

Finish(how) == /\ phase = "waiting"
               /\ how = "cancelled" => late
               /\ phase' = how
               /\ UNCHANGED late

Next == Expire \/ Start \/ \E how \in Ends : Finish(how)

Spec == Init /\ [][Next]_<<phase, late>>
=============================================================================
