------------------------------ MODULE Attempts -------------------------------
(***************************************************************************)
(* Client configuration: which numbers the two constructors accept, and    *)
(* what the retry loops and timers make of them.  A JavaScript number is   *)
(* NaN, Infinity or, in this module, a number of halves: 3 stands for 1.5. *)
(* MinaClient loops over its request, ItnClient over the auth handshake    *)
(* that precedes a sequenced request.  That request it posts once, and     *)
(* after a 412 once more, behind another handshake.  Its caller may give a *)
(* signal, which may fire at any time.                                     *)
(***************************************************************************)
EXTENDS Integers

CONSTANTS
  NaN, Infinity,
  MaxHalves,    \* bound: the values a caller configures
  TimeoutMax,   \* the longest time of a timer, 2^31 - 1 ms in Node
  Uint32Max,    \* the largest uint32
  MaxCount,     \* bound: the counters stay there, beyond all finite retries
  Horizon       \* bound: the clock stays there

ASSUME NumbersAssumption == NaN \notin Int /\ Infinity \notin Int /\ NaN # Infinity
ASSUME OptionsAssumption == MaxHalves \in Nat
ASSUME TimersAssumption  == TimeoutMax \in Nat \ {0} /\ Uint32Max \in Nat \ {0}
ASSUME BoundAssumption   == MaxCount \in Nat /\ MaxCount > MaxHalves /\ Horizon \in Nat

VARIABLES
  client,   \* which of the two
  config,   \* its retries, retryDelayMs and timeoutMs
  pc,       \* where the constructor and then the call stands
  pass,     \* 2 after a 412
  attempt,  \* the loop's counter
  cause,    \* what lastError holds
  aborted,  \* whether the caller's signal has fired
  posted,   \* history: requests of this pass's loop that went out
  slept,    \* history: pauses between them
  elapsed,  \* history: ms since the call was made
  late      \* history: ms of pauses that began or went on after the signal

counters == <<posted, slept>>
signalVars == <<aborted, late>>
vars == <<client, config, pc, pass, attempt, cause, counters, elapsed, signalVars>>

Options == (-1)..MaxHalves \union {NaN, Infinity}
Clients == {"MinaClient", "ItnClient"}
Configs == [retries : Options, retryDelayMs : Options, timeoutMs : Options]

\* "answered" is any answer that ends the call, an error of the daemon included;
\* "failed" and "queryFailed" are DaemonConnectionErrors, after the loop and
\* after the sequenced request; "sequencing" is the error after the second 412,
\* "raised" the RangeError of a timer, "aborted" the reason of the signal.
Settled == {"refused", "answered", "failed", "queryFailed", "sequencing", "raised", "aborted"}

TypeOK == /\ client \in Clients
          /\ config \in Configs
          /\ pc \in {"new", "loop", "posting", "sleeping", "authenticated", "querying"} \union Settled
          /\ pass \in 1..2
          /\ attempt \in Nat \ {0}
          /\ cause \in {"none", "failure"}
          /\ aborted \in BOOLEAN
          /\ posted \in Nat /\ slept \in Nat /\ elapsed \in Nat /\ late \in Nat

UpTo(bound, n) == IF n > bound THEN bound ELSE n
More(n)  == UpTo(MaxCount, n + 1)
After(ms) == UpTo(Horizon, elapsed + ms)
Later(ms) == UpTo(Horizon, late + ms)

-----------------------------------------------------------------------------
(* JavaScript's numbers and Node's timers.                                 *)

Finite(x) == x \notin {NaN, Infinity}

\* Comparisons with NaN are false.
Below(x, halves)  == Finite(x) /\ x < halves
WithinRetries(n) == config.retries = Infinity \/ (Finite(config.retries) /\ 2 * n <= config.retries)
BelowRetries(n)  == config.retries = Infinity \/ (Finite(config.retries) /\ 2 * n < config.retries)

\* setTimeout drops fractions; a time that it cannot keep becomes 1 ms.
Timer(x) == IF Finite(x) /\ 2 <= x /\ x <= 2 * TimeoutMax THEN x \div 2 ELSE 1

\* AbortSignal.timeout throws for what is no uint32.
Uint32(x) == Finite(x) /\ x % 2 = 0 /\ 0 <= x /\ x <= 2 * Uint32Max

-----------------------------------------------------------------------------
(* The constructors.                                                       *)

Acceptable(c) == ~Below(c.retries, 2) /\ ~Below(c.retryDelayMs, 0) /\ ~Below(c.timeoutMs, 1)

\* ItnClient's timer is made before post's try, so that its error is no
\* failed attempt.
TimerRaises == client = "ItnClient" /\ ~Uint32(config.timeoutMs)

\* A client that can authenticate may have a session from an earlier call.
MayHoldSession == client = "ItnClient" /\ WithinRetries(1) /\ ~TimerRaises

Construct ==
  /\ pc = "new"
  /\ pc' \in IF ~Acceptable(config) THEN {"refused"}
             ELSE {"loop"} \union (IF MayHoldSession THEN {"authenticated"} ELSE {})
  /\ UNCHANGED <<client, config, pass, attempt, cause, counters, elapsed, signalVars>>

-----------------------------------------------------------------------------
(* The loop.                                                               *)

Posts == pc = "loop" /\ WithinRetries(attempt)

\* A plausible slip: the timer is made inside the try of post.
RaiseOrCatch ==
  /\ Posts /\ TimerRaises
  /\ cause' = "failure" /\ attempt' = More(attempt)
  /\ UNCHANGED <<client, config, pc, pass, counters, elapsed, signalVars>>

Raise ==
  /\ Posts /\ TimerRaises
  /\ pc' = "raised"
  /\ UNCHANGED <<client, config, pass, attempt, cause, counters, elapsed, signalVars>>

Post ==
  /\ Posts /\ ~TimerRaises /\ ~aborted
  /\ pc' = "posting" /\ posted' = More(posted)
  /\ UNCHANGED <<client, config, pass, attempt, cause, slept, elapsed, signalVars>>

\* A plausible slip: what fetch throws for the signal is a failed attempt.
AbortedPostFails ==
  /\ Posts /\ ~TimerRaises /\ aborted
  /\ cause' = "failure"
  /\ IF BelowRetries(attempt) THEN pc' = "sleeping" /\ attempt' = attempt
                              ELSE pc' = "loop" /\ attempt' = More(attempt)
  /\ UNCHANGED <<client, config, pass, counters, elapsed, signalVars>>

\* fetch sends nothing once the signal has fired.
PostAborted ==
  /\ Posts /\ ~TimerRaises /\ aborted
  /\ pc' = "aborted"
  /\ UNCHANGED <<client, config, pass, attempt, cause, counters, elapsed, signalVars>>

LoopEnds ==
  /\ pc = "loop" /\ ~WithinRetries(attempt)
  /\ pc' = "failed"
  /\ UNCHANGED <<client, config, pass, attempt, cause, counters, elapsed, signalVars>>

\* A plausible slip: there is a pause after the last attempt too.
FailThenSleep(ms) ==
  /\ pc = "posting" /\ ms <= Timer(config.timeoutMs)
  /\ elapsed' = After(ms) /\ cause' = "failure" /\ pc' = "sleeping"
  /\ UNCHANGED <<client, config, pass, attempt, counters, signalVars>>

\* An attempt fails, at the latest when its timer aborts the request.
Fail(ms) ==
  /\ pc = "posting" /\ ms <= Timer(config.timeoutMs)
  /\ elapsed' = After(ms) /\ cause' = "failure"
  /\ IF BelowRetries(attempt) THEN pc' = "sleeping" /\ attempt' = attempt
                              ELSE pc' = "loop" /\ attempt' = More(attempt)
  /\ UNCHANGED <<client, config, pass, counters, signalVars>>

\* A plausible slip: the counter stands still while the loop sleeps.
SleepAgain ==
  /\ pc = "sleeping" /\ pc' = "loop"
  /\ elapsed' = After(Timer(config.retryDelayMs)) /\ slept' = More(slept)
  /\ late' = IF aborted THEN Later(Timer(config.retryDelayMs)) ELSE late
  /\ UNCHANGED <<client, config, pass, attempt, cause, posted, aborted>>

\* Nobody listens to the signal during the pause, and it may have fired at
\* its beginning.
Sleep ==
  /\ pc = "sleeping" /\ pc' = "loop"
  /\ elapsed' = After(Timer(config.retryDelayMs)) /\ slept' = More(slept)
  /\ late' = IF aborted THEN Later(Timer(config.retryDelayMs)) ELSE late
  /\ attempt' = More(attempt)
  /\ UNCHANGED <<client, config, pass, cause, posted, aborted>>

Answered(ms) ==
  /\ pc = "posting" /\ ms <= Timer(config.timeoutMs)
  /\ pc' \in IF client = "MinaClient" THEN {"answered"} ELSE {"answered", "authenticated"}
  /\ elapsed' = After(ms)
  /\ UNCHANGED <<client, config, pass, attempt, cause, counters, signalVars>>

-----------------------------------------------------------------------------
(* ItnClient's sequenced request.                                          *)

\* The catch around it takes whatever post throws for a failed transport, and
\* reads the cause of that; a timer's error has none.
Query ==
  /\ pc = "authenticated"
  /\ pc' = IF aborted THEN "aborted" ELSE IF TimerRaises THEN "queryFailed" ELSE "querying"
  /\ cause' = IF TimerRaises THEN "none" ELSE cause
  /\ UNCHANGED <<client, config, pass, attempt, counters, elapsed, signalVars>>

QuerySettles(ms, how) ==
  /\ pc = "querying" /\ ms <= Timer(config.timeoutMs)
  /\ pc' = how /\ elapsed' = After(ms)
  /\ cause' = IF how = "queryFailed" THEN "failure" ELSE cause
  /\ UNCHANGED <<client, config, pass, attempt, counters, signalVars>>

\* A 412 drops the session; the next handshake counts its attempts afresh.
QueryStale(ms) ==
  /\ pc = "querying" /\ ms <= Timer(config.timeoutMs)
  /\ elapsed' = After(ms)
  /\ IF pass = 1
       THEN /\ pc' = "loop" /\ pass' = 2 /\ attempt' = 1 /\ cause' = "none"
            /\ posted' = 0 /\ slept' = 0
       ELSE pc' = "sequencing" /\ UNCHANGED <<pass, attempt, cause, counters>>
  /\ UNCHANGED <<client, config, signalVars>>

-----------------------------------------------------------------------------
(* The signal of ItnClient's caller.                                       *)

\* It ends a request that is under way ...
AbortPost(ms) ==
  /\ client = "ItnClient" /\ pc \in {"posting", "querying"} /\ ms <= Timer(config.timeoutMs)
  /\ aborted' = TRUE /\ pc' = "aborted" /\ elapsed' = After(ms)
  /\ UNCHANGED <<client, config, pass, attempt, cause, counters, late>>

\* ... and is noticed by the next one when it fires before or between them.
AbortUnnoticed ==
  /\ client = "ItnClient" /\ ~aborted
  /\ pc \in {"sleeping", "authenticated"} \/ (pc = "loop" /\ attempt = 1)
  /\ aborted' = TRUE
  /\ UNCHANGED <<client, config, pc, pass, attempt, cause, counters, elapsed, late>>

Init == /\ client \in Clients /\ config \in Configs
        /\ pc = "new" /\ pass = 1 /\ attempt = 1 /\ cause = "none"
        /\ aborted = FALSE
        /\ posted = 0 /\ slept = 0 /\ elapsed = 0 /\ late = 0

Next == \/ Construct \/ Raise \/ Post \/ PostAborted \/ LoopEnds \/ Sleep \/ Query
        \/ AbortUnnoticed
        \/ \E ms \in 0..TimeoutMax : \/ Fail(ms) \/ Answered(ms) \/ QueryStale(ms)
                                     \/ AbortPost(ms)
        \/ \E ms \in 0..TimeoutMax, how \in {"answered", "queryFailed"} : QuerySettles(ms, how)

\* Timers fire and the event loop runs what is ready.
Spec == Init /\ [][Next]_vars /\ WF_vars(Next)

-----------------------------------------------------------------------------
(* Properties.                                                             *)

Retries == config.retries \div 2                  \* attempts of a fractional number
Fractional(x) == Finite(x) /\ x % 2 = 1

\* A DaemonConnectionError is reported after the configured attempts, each
\* of which went out, and has their last failure as its cause, with one
\* exception: retries that are NaN pass the constructor, and then nothing is
\* ever sent and the error has no cause.  A signal that fires in the pause
\* after the last of a fractional number of attempts changes nothing.
ConnectionErrorHonest ==
  /\ pc = "failed" => IF config.retries = NaN THEN posted = 0 /\ cause = "none"
                      ELSE Finite(config.retries) /\ posted = Retries /\ cause = "failure"
  /\ pc = "queryFailed" => cause = "failure"

Longest(x) == IF x \div 2 > 1 THEN x \div 2 ELSE 1

\* A call takes no longer than its configuration allows: in each pass every
\* attempt its timeout, the sequenced request one more, every pause but none
\* after the last attempt its delay, whatever Node makes of times too short,
\* too long or fractional.  A fractional number of retries pauses once more,
\* and there is a second pass only after a 412.
InTime ==
  (/\ Finite(config.retries) /\ Finite(config.retryDelayMs) /\ Finite(config.timeoutMs)
   /\ pc \notin {"new", "refused"})
  => elapsed <= pass * ((Retries + (IF client = "ItnClient" THEN 1 ELSE 0)) * Longest(config.timeoutMs)
                          + ((config.retries + 1) \div 2 - 1) * Longest(config.retryDelayMs))

\* A caller whose signal fires waits for one pause at most, and is then told
\* the signal's reason, unless the timer raises or no attempt was left to
\* notice it: when retries are NaN, or the pause was the superfluous one of a
\* fractional number.
AbortHeard ==
  aborted => /\ Finite(config.retryDelayMs) => late <= Longest(config.retryDelayMs)
             /\ pc \in Settled => pc \in {"aborted", "raised", "failed"}
             /\ pc = "failed" => config.retries = NaN \/ Fractional(config.retries)

\* Every call settles that is not configured to go on for ever, and every
\* call whose signal fires.
EveryCallSettles == (config.retries # Infinity \/ aborted) ~> pc \in Settled
=============================================================================
