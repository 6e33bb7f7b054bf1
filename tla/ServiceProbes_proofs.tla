------------------------ MODULE ServiceProbes_proofs ------------------------
(***************************************************************************)
(* Proofs about HcxClient and ServiceProbes, for any deadline, timeouts,   *)
(* retries, backoff, margin and lag of the event loop, any settings that   *)
(* the validator accepts and any cache time.                               *)
(***************************************************************************)
EXTENDS ServiceProbes, TLAPS

\* One post per attempt so far; and a retry that is slept for is still allowed,
\* and is due before the deadline.
AttemptInv ==
  /\ pc = "idle" => posts = 0
  /\ pc \in {"posting", "sleeping"} => posts = attempt + 1
  /\ pc = "sleeping" => attempt < MaxRetries
  /\ pc = "done" => posts <= attempt + 1
  /\ pc = "sleeping" => timer + Margin < Deadline /\ now <= timer + Lag

LEMMA ConstantsTyped ==
  /\ Deadline \in Nat /\ ReadTimeout \in Nat /\ MaxRetries \in Nat
  /\ MaxDelay \in Nat /\ Margin \in Nat /\ Lag \in Nat
  BY TimeAssumption

LEMMA DelaysTyped ==
  ASSUME TypeOK
  PROVE  Delays \subseteq Nat /\ Backoff[attempt] \in Nat
  BY TimeAssumption, ConstantsTyped DEF TypeOK, Delays

\* Ending, posting and pausing, wherever the loop does it.
LEMMA FinishInv ==
  ASSUME TypeOK, AttemptInv, pc # "done", NEW code \in Outcomes, Finish(code)
  PROVE  TypeOK' /\ AttemptInv'
  BY ConstantsTyped DEF TypeOK, AttemptInv, Finish

LEMMA StartAttemptInv ==
  ASSUME TypeOK, AttemptInv, pc # "done", NEW n \in 0 .. MaxRetries, posts = n,
         StartAttempt(n)
  PROVE  TypeOK' /\ AttemptInv'
<1>1. CASE Finish("TIMEOUT")
  BY <1>1, FinishInv DEF Outcomes
<1>2. CASE now < Deadline /\ Post(n, IF ReadTimeout < Deadline - now
                                       THEN ReadTimeout ELSE Deadline - now)
  BY <1>2, ConstantsTyped DEF TypeOK, AttemptInv, Post
<1>3. now \in Nat
  BY ConstantsTyped DEF TypeOK
<1> QED
  BY <1>1, <1>2, <1>3, ConstantsTyped DEF StartAttempt

LEMMA RetryOrStopInv ==
  ASSUME TypeOK, AttemptInv, pc = "posting", NEW delay \in Nat,
         NEW code \in Outcomes, RetryOrStop(delay, code)
  PROVE  TypeOK' /\ AttemptInv'
<1>1. CASE Finish(code)
  BY <1>1, FinishInv
<1>2. CASE /\ attempt < MaxRetries /\ now + delay + Margin < Deadline
           /\ pc' = "sleeping" /\ timer' = now + delay
           /\ UNCHANGED <<now, attempt, patience, posts, outcome>>
  BY <1>2, ConstantsTyped DEF TypeOK, AttemptInv
<1> QED
  BY <1>1, <1>2, ConstantsTyped DEF RetryOrStop, TypeOK

LEMMA AttemptStep ==
  ASSUME TypeOK, AttemptInv, [Next]_vars
  PROVE  TypeOK' /\ AttemptInv'
<1>1. CASE Call
  BY <1>1, StartAttemptInv, FinishInv, ConstantsTyped DEF Call, AttemptInv, Outcomes
<1>2. CASE Respond
  BY <1>2, FinishInv, RetryOrStopInv, DelaysTyped DEF Respond, Outcomes
<1>3. CASE Trickle
  BY <1>3, ConstantsTyped DEF Trickle, TypeOK, AttemptInv
<1>4. CASE GiveUp
  BY <1>4, RetryOrStopInv, DelaysTyped DEF GiveUp, Outcomes
<1>5. CASE Wake
  <2>1. attempt + 1 \in 0 .. MaxRetries /\ posts = attempt + 1
    BY <1>5, ConstantsTyped DEF Wake, TypeOK, AttemptInv
  <2> QED
    BY <1>5, <2>1, StartAttemptInv DEF Wake
<1>6. CASE Cancel
  BY <1>6, FinishInv DEF Cancel, Outcomes
<1>7. CASE Tick
  BY <1>7, ConstantsTyped DEF Tick, TypeOK, AttemptInv
<1>8. CASE UNCHANGED vars
  BY <1>8 DEF vars, TypeOK, AttemptInv
<1> QED
  BY <1>1, <1>2, <1>3, <1>4, <1>5, <1>6, <1>7, <1>8 DEF Next

LEMMA CallInvariant == Spec => [](TypeOK /\ AttemptInv)
<1>1. Init => TypeOK /\ AttemptInv
  BY ConstantsTyped DEF Init, TypeOK, AttemptInv
<1> QED
  BY <1>1, AttemptStep, PTL DEF Spec

\* The clock never runs past the deadline by more than the lag of the event loop,
\* and no timer is set further than a read timeout beyond that.
THEOREM TypeCorrect == Spec => []TypeOK
  BY CallInvariant, PTL

\* Whatever HCX answers and however late, a call sends one post and at most
\* MaxRetries retries.
THEOREM PostsStayWithinBudget == Spec => []PostBudget
<1>1. TypeOK /\ AttemptInv => PostBudget
  BY ConstantsTyped DEF TypeOK, AttemptInv, PostBudget
<1> QED
  BY <1>1, CallInvariant, PTL

-----------------------------------------------------------------------------
\* A call that ends ends its wait; a call that goes on is waited for.
LEMMA FinishRefines ==
  ASSUME pc \in {"posting", "sleeping"}, NEW code \in Outcomes, Finish(code),
         code = "CANCELLED" => now >= Deadline
  PROVE  AsCall!Next
<1>1. PhaseOf = "waiting" /\ PhaseOf' \in {"replied", "failed", "cancelled"}
      /\ (PhaseOf' = "cancelled" => now >= Deadline) /\ now' = now
  BY DEF Finish, PhaseOf
<1>2. AsCall!Finish(PhaseOf')
  BY <1>1 DEF AsCall!Finish
<1> QED
  BY <1>1, <1>2 DEF AsCall!Next, AsCall!Ends

LEMMA StepRefines ==
  ASSUME TypeOK, [Next]_vars
  PROVE  [AsCall!Next]_<<PhaseOf, now >= Deadline>>
<1>1. CASE Call
  <2>1. PhaseOf = "idle" /\ now' = now
    BY <1>1 DEF Call, PhaseOf, StartAttempt, Finish, Post
  <2>2. PhaseOf' \in IF now >= Deadline THEN {"failed"} ELSE {"waiting", "failed"}
    BY <1>1, ConstantsTyped DEF Call, PhaseOf, StartAttempt, Finish, Post, TypeOK
  <2> QED
    BY <2>1, <2>2 DEF AsCall!Next, AsCall!Start
<1>2. ASSUME pc \in {"posting", "sleeping"}, pc' \in {"posting", "sleeping"}, now' = now
      PROVE  UNCHANGED <<PhaseOf, now >= Deadline>>
  BY <1>2 DEF PhaseOf
<1>3. ASSUME pc \in {"posting", "sleeping"}, NEW code \in Outcomes, Finish(code),
             code = "CANCELLED" => now >= Deadline
      PROVE  AsCall!Next
  BY <1>3, FinishRefines
<1>4. CASE Respond \/ GiveUp
  BY <1>2, <1>3, <1>4 DEF Respond, GiveUp, RetryOrStop, Outcomes
<1>5. CASE Trickle
  BY <1>2, <1>5 DEF Trickle
<1>6. CASE Wake
  BY <1>2, <1>3, <1>6 DEF Wake, StartAttempt, Post, Outcomes
<1>7. CASE Cancel
  BY <1>3, <1>7 DEF Cancel, Outcomes
<1>8. CASE Tick
  <2>1. PhaseOf' = PhaseOf /\ (now >= Deadline => now' >= Deadline)
    BY <1>8, ConstantsTyped DEF Tick, PhaseOf, TypeOK
  <2> QED
    BY <2>1 DEF AsCall!Next, AsCall!Expire
<1>9. CASE UNCHANGED vars
  BY <1>9 DEF vars, PhaseOf
<1> QED
  BY <1>1, <1>4, <1>5, <1>6, <1>7, <1>8, <1>9 DEF Next

\* Posts, pauses and retries are hidden from the service: it sees one wait, which
\* is refused after the deadline and cancelled only after it.
THEOREM ClientImplementsProviderCall == Spec => ImplementsProviderCall
<1>1. Init => AsCall!Init
  BY DEF Init, AsCall!Init, PhaseOf
<1> QED
  BY <1>1, StepRefines, CallInvariant, PTL DEF Spec, ImplementsProviderCall, AsCall!Spec

-----------------------------------------------------------------------------
\* What the loop does with a call that sleeps, given that it is due in time.
LEMMA DelayPays ==
  ASSUME TypeOK, AttemptInv, [Next]_vars, Lag <= Margin, pc = "sleeping"
  PROVE  posts' = posts + 1 \/ pc' = "sleeping"
<1>1. now < Deadline
  BY ConstantsTyped DEF TypeOK, AttemptInv
<1>2. CASE Wake
  BY <1>1, <1>2, ConstantsTyped DEF Wake, StartAttempt, Post, TypeOK
<1>3. CASE Cancel
  BY <1>1, <1>3, ConstantsTyped DEF Cancel, TypeOK
<1>4. CASE Tick
  BY <1>4 DEF Tick
<1>5. CASE UNCHANGED vars
  BY <1>5 DEF vars
<1> QED
  BY <1>2, <1>3, <1>4, <1>5 DEF Next, Call, Respond, Trickle, GiveUp

\* A retry that _retry_or_stop of app/llm/client.py sleeps for is sent: the delay it
\* accepts ends so long before the deadline that neither the deadline nor a lag
\* within the margin can take the post away.
THEOREM DelaysAreNotWasted == Spec => NoWastedDelay
<1>1. (TypeOK /\ AttemptInv) /\ [Next]_vars =>
        [Lag <= Margin /\ pc = "sleeping" => posts' = posts + 1 \/ pc' = "sleeping"]_vars
  BY DelayPays
<1> QED
  BY <1>1, CallInvariant, PTL DEF Spec, NoWastedDelay

-----------------------------------------------------------------------------
\* Probes, jobs and settings are beside the call: with them it is still a call.
LEMMA ProbesRunCalls == ProbesSpec => Spec
<1>1. ProbesInit => Init
  BY DEF ProbesInit
<1>2. [ProbesNext]_probeVars => [Next]_vars
  <2> SUFFICES ASSUME [ProbesNext]_probeVars PROVE [Next]_vars
    OBVIOUS
  <2>1. CASE Request(Call \/ Respond \/ Trickle \/ GiveUp \/ Wake \/ Cancel)
    BY <2>1 DEF Request, Next
  <2>2. CASE Tick
    BY <2>2 DEF Next
  <2>3. CASE UNCHANGED vars
    BY <2>3
  <2> QED
    BY <2>1, <2>2, <2>3 DEF ProbesNext, probeVars, Ask, Check, Query, Remember, Grow, Bootstrap
<1> QED
  BY <1>1, <1>2, PTL DEF ProbesSpec, Spec

\* So what was proved of a call alone holds in the process that the run checks,
\* where a probe keeps the event loop from it for as long as its checks take.
THEOREM CallsBesideProbes ==
  ProbesSpec => []PostBudget /\ NoWastedDelay /\ ImplementsProviderCall
  BY ProbesRunCalls, PostsStayWithinBudget, DelaysAreNotWasted, ClientImplementsProviderCall, PTL

-----------------------------------------------------------------------------
\* What the checks of a probe have established by the time it is at the provider's
\* key stays established: nobody unloads the dataset.
ProbeInv ==
  /\ settings \in Settings
  /\ passed \in BOOLEAN
  /\ (probe = "provider" /\ passed) => database = "loaded"
  /\ snapshot = "ready" => database = "loaded"
  /\ pc = "idle" => outcome = "NONE"
  /\ outcome = "CONFIGURATION" => ~Authorized

LEMMA ProbesInitInv == ProbesInit => ProbeInv
  BY DEF ProbesInit, Init, ProbeInv

\* A call that has begun never ends for want of a key or credit.
LEMMA RequestInv ==
  ASSUME ProbeInv,
         Request(Call \/ Respond \/ Trickle \/ GiveUp \/ Wake \/ Cancel)
  PROVE  ProbeInv'
<1>1. UNCHANGED <<around, probing>> /\ (pc = "idle" => (outcome' = "CONFIGURATION" <=> ~Authorized))
  BY DEF Request
<1>2. pc' # "idle"
  BY DEF Request, Call, Respond, Trickle, GiveUp, Wake, Cancel, StartAttempt, RetryOrStop,
         Finish, Post
<1>3. CASE pc = "idle"
  BY <1>1, <1>2, <1>3 DEF ProbeInv, around, probing, Authorized
<1>4. CASE pc # "idle"
  <2>1. outcome' = outcome \/ outcome' # "CONFIGURATION"
    BY <1>4 DEF Request, Call, Respond, Trickle, GiveUp, Wake, Cancel, StartAttempt,
                RetryOrStop, Finish, Post
  <2> QED
    BY <1>1, <1>2, <2>1 DEF ProbeInv, around, probing, Authorized
<1> QED
  BY <1>3, <1>4

LEMMA QueryInv ==
  ASSUME ProbeInv, NEW ok \in BOOLEAN, Query(ok)
  PROVE  ProbeInv'
<1>1. probe' = "provider" => probe = "dataset"
  <2>1. probe \in {"database", "migration", "dataset"} /\ probe' = NextCheck[probe]
    BY DEF Query, NextCheck
  <2>2. NextCheck["database"] = "migration" /\ NextCheck["migration"] = "dataset"
    BY DEF NextCheck
  <2> QED
    BY <2>1, <2>2
<1>2. (probe = "dataset" /\ ok) => database = "loaded"
  BY DEF Query, Statement, Finds
<1>3. UNCHANGED <<vars, around, snapshot, age>> /\ passed' = (passed /\ ok)
  BY DEF Query
<1> QED
  BY <1>1, <1>2, <1>3 DEF ProbeInv, vars, around, Authorized

LEMMA ProbesStepInv == ProbeInv /\ [ProbesNext]_probeVars => ProbeInv'
<1> SUFFICES ASSUME ProbeInv, [ProbesNext]_probeVars PROVE ProbeInv'
  OBVIOUS
<1>1. CASE Tick /\ UNCHANGED <<around, probing>>
  BY <1>1 DEF Tick, around, probing, ProbeInv, Authorized
<1>2. CASE Ask \/ Check
  BY <1>2 DEF Ask, Check, Fresh, vars, around, ProbeInv, Authorized
<1>3. CASE Remember
  BY <1>3 DEF Remember, HealthCheck, vars, around, ProbeInv, Authorized
<1>4. CASE Grow
  BY <1>4 DEF Grow, vars, around, ProbeInv, Authorized
<1>5. CASE Bootstrap
  BY <1>5 DEF Bootstrap, vars, probing, ProbeInv, Authorized
<1>6. CASE UNCHANGED probeVars
  BY <1>6 DEF probeVars, vars, around, probing, ProbeInv, Authorized
<1> QED
  BY <1>1, <1>2, <1>3, <1>4, <1>5, <1>6, RequestInv, QueryInv DEF ProbesNext

\* A process that says it is ready has its dataset, however old the snapshot and
\* whatever checks of ReadinessService._refresh fell between the bootstrap jobs, and
\* in the evaluation it refuses no question for want of a key or credit.
THEOREM ReadyIsServing == ProbesSpec => []ReadyMeansServing
<1>1. ProbeInv => ReadyMeansServing
  BY SettingsAssumption DEF ProbeInv, ReadyMeansServing, Authorized
<1> QED
  BY <1>1, ProbesInitInv, ProbesStepInv, PTL DEF ProbesSpec
=============================================================================
