----------------------------- MODULE HcxClient -----------------------------
(***************************************************************************)
(* HcxHttpClient.complete of app/llm/client.py under the deadline of       *)
(* app/core/deadline.py: one call, its HTTP posts and the retries between  *)
(* them.  Time is counted in ticks.  The coroutine gives up the event loop *)
(* while it posts and while it sleeps; it runs again when HCX answers, a   *)
(* timer has passed or the deadline cancels it, up to Lag ticks later when *)
(* other requests hold the loop.                                           *)
(***************************************************************************)
EXTENDS Naturals

CONSTANTS
  Deadline,    \* when the request expires; the call may start at any time
  ReadTimeout, \* hcx_read_timeout_seconds
  MaxRetries,  \* hcx_max_retries
  Backoff,     \* Backoff[n]: 0.15 * 2^n seconds, after attempt n
  MaxDelay,    \* bound on the Retry-After that is obeyed, 2 seconds
  Margin,      \* 0.05 seconds
  Lag          \* how late the event loop may run the coroutine

ASSUME TimeAssumption ==
  /\ {Deadline, ReadTimeout, MaxRetries, MaxDelay, Margin, Lag} \subseteq Nat
  /\ Backoff \in [0 .. MaxRetries -> Nat]

VARIABLES
  now,      \* the monotonic clock
  pc,       \* idle, posting, sleeping or done
  attempt,  \* the loop variable of complete
  patience, \* the read timeout of this post
  timer,    \* when httpx gives up the post, or the sleep ends
  posts,    \* HTTP requests sent
  outcome   \* REPLY, or the code of the exception

vars == <<now, pc, attempt, patience, timer, posts, outcome>>

Outcomes == {"REPLY", "CONFIGURATION", "AUTHENTICATION", "RATE_LIMITED",
             "RESPONSE", "TIMEOUT", "UNAVAILABLE", "CANCELLED"}

Init == /\ now \in 0 .. Deadline
        /\ pc = "idle" /\ outcome = "NONE"
        /\ attempt = 0 /\ patience = 0 /\ timer = 0 /\ posts = 0

Finish(code) ==
  /\ pc' = "done" /\ outcome' = code
  /\ UNCHANGED <<now, attempt, patience, timer, posts>>

Post(n, wait) ==
  /\ pc' = "posting" /\ attempt' = n
  /\ patience' = wait /\ timer' = now + wait
  /\ posts' = posts + 1
  /\ UNCHANGED <<now, outcome>>

StartAttempt_IgnoresDeadline(n) == Post(n, ReadTimeout)

\* The head of the loop: what is left of the deadline caps the timeout.
StartAttempt(n) ==
  IF now >= Deadline THEN Finish("TIMEOUT")
  ELSE Post(n, IF ReadTimeout < Deadline - now THEN ReadTimeout ELSE Deadline - now)

\* No key or no confirmed credit: no post at all.
Call == pc = "idle" /\ (StartAttempt(0) \/ Finish("CONFIGURATION"))

RetryOrStop_NoMargin(delay, code) ==
  IF attempt >= MaxRetries \/ Deadline <= now + delay
    THEN Finish(code)
    ELSE /\ pc' = "sleeping" /\ timer' = now + delay
         /\ UNCHANGED <<now, attempt, patience, posts, outcome>>

\* _retry_or_stop: another attempt while some are left, and only when the delay
\* leaves time for it.
RetryOrStop(delay, code) ==
  IF attempt >= MaxRetries \/ Deadline <= now + delay + Margin
    THEN Finish(code)
    ELSE /\ pc' = "sleeping" /\ timer' = now + delay
         /\ UNCHANGED <<now, attempt, patience, posts, outcome>>

\* Retry-After, clamped, or the backoff when it is absent or no number.
Delays == {Backoff[attempt]} \cup 0 .. MaxDelay

\* The status line or an error of the connection: 2xx and 3xx bodies are parsed,
\* 429 and 5xx are retried, 401, 403 and every other 4xx are not.
Respond ==
  /\ pc = "posting"
  /\ \/ \E code \in {"REPLY", "RESPONSE", "AUTHENTICATION"} : Finish(code)
     \/ \E delay \in Delays, code \in {"RATE_LIMITED", "UNAVAILABLE"} :
          RetryOrStop(delay, code)
     \/ RetryOrStop(Backoff[attempt], "UNAVAILABLE")

\* A part of the body arrives, and httpx waits as long for the next one.
Trickle ==
  /\ pc = "posting" /\ timer # now + patience
  /\ timer' = now + patience
  /\ UNCHANGED <<now, pc, attempt, patience, posts, outcome>>

GiveUp ==
  /\ pc = "posting" /\ now >= timer
  /\ RetryOrStop(Backoff[attempt], "TIMEOUT")

Wake_SameAttempt == pc = "sleeping" /\ now >= timer /\ StartAttempt(attempt)

Wake == pc = "sleeping" /\ now >= timer /\ StartAttempt(attempt + 1)

Cancel_OnlyAsleep == pc = "sleeping" /\ now >= Deadline /\ Finish("CANCELLED")

\* asyncio.timeout of run_with_deadline.
Cancel == pc \in {"posting", "sleeping"} /\ now >= Deadline /\ Finish("CANCELLED")

\* The clock moves on, but a coroutine that can run is not kept waiting for more
\* than Lag.
Tick ==
  /\ pc # "done"
  /\ pc = "idle" => now < Deadline
  /\ pc \in {"posting", "sleeping"} => now < timer + Lag /\ now < Deadline + Lag
  /\ now' = now + 1
  /\ UNCHANGED <<pc, attempt, patience, timer, posts, outcome>>

Next == Call \/ Respond \/ Trickle \/ GiveUp \/ Wake \/ Cancel \/ Tick

Spec == Init /\ [][Next]_vars

\* Time passes and the event loop runs its timers.  HCX owes nothing.
Fairness == WF_vars(Tick) /\ WF_vars(GiveUp) /\ WF_vars(Wake) /\ WF_vars(Cancel)

FairSpec == Spec /\ Fairness

-----------------------------------------------------------------------------
TypeOK ==
  /\ now \in 0 .. Deadline + Lag
  /\ pc \in {"idle", "posting", "sleeping", "done"}
  /\ attempt \in 0 .. MaxRetries
  /\ patience \in 0 .. ReadTimeout
  /\ timer \in 0 .. Deadline + Lag + ReadTimeout
  /\ posts \in Nat
  /\ outcome \in Outcomes \cup {"NONE"}

\* A call sends no more than one post and MaxRetries retries, whatever HCX
\* answers and however late: each post may be billed.
PostBudget == posts <= MaxRetries + 1

\* No retry is wasted: after a delay that _retry_or_stop has accepted there is
\* time for the post, provided the loop is not later than the margin.
NoWastedDelay ==
  [][Lag <= Margin /\ pc = "sleeping" => posts' = posts + 1 \/ pc' = "sleeping"]_vars

\* A call ends though HCX sends a byte now and then and never finishes.
EveryCallEnds == (pc = "posting") ~> (pc = "done")

\* A call with all its posts and pauses is one wait of AnswerService.
PhaseOf == IF pc = "idle" THEN "idle"
           ELSE IF pc \in {"posting", "sleeping"} THEN "waiting"
           ELSE IF outcome = "REPLY" THEN "replied"
           ELSE IF outcome = "CANCELLED" THEN "cancelled" ELSE "failed"

AsCall == INSTANCE ProviderCall WITH late <- now >= Deadline, phase <- PhaseOf

ImplementsProviderCall == AsCall!Spec
=============================================================================
