--------------------------- MODULE AttemptsProofs ----------------------------
(***************************************************************************)
(* Proofs about Attempts, for every configuration, every length of Node's  *)
(* timers and every bound: its types, what a connection error means, how   *)
(* long a call may take, and how soon its caller's signal is heard.        *)
(***************************************************************************)
EXTENDS Attempts, TLAPS

Accepted == pc \notin {"new", "refused"}

\* Without a number of attempts there is none.
NaNInv ==
  config.retries = NaN =>
    attempt = 1 /\ posted = 0 /\ cause = "none" /\ pc \in {"new", "refused", "loop", "failed"}

\* A timer that raises lets nothing out.
RaiseInv == TimerRaises => pc \in {"new", "refused", "loop", "raised", "failed"}

\* Only ItnClient gets to a sequenced request.
QueryInv ==
  /\ pc \in {"authenticated", "querying", "queryFailed", "sequencing"} => client = "ItnClient"
  /\ pc = "queryFailed" => cause = "failure"
  /\ pc \in {"new", "refused"} => pass = 1

\* What has been counted when the loop has an end.
CountInv ==
  Finite(config.retries) =>
    /\ pc = "new" => attempt = 1 /\ posted = 0 /\ slept = 0 /\ cause = "none"
    /\ Accepted => /\ 2 <= config.retries /\ 2 * posted <= config.retries
                   /\ 2 * slept < config.retries
    /\ pc = "loop" => /\ posted = attempt - 1 /\ slept <= posted
                      /\ 2 * posted < config.retries => slept = posted
                      /\ posted > 0 => cause = "failure"
    /\ pc \in {"posting", "sleeping"} => posted = attempt /\ slept = attempt - 1
    /\ pc = "sleeping" => 2 * attempt < config.retries /\ cause = "failure"
    /\ pc = "failed" => posted = Retries /\ cause = "failure"

NeverFailed == pc = "failed" => config.retries # Infinity

T == Timer(config.timeoutMs)
D == Timer(config.retryDelayMs)

Q == IF client = "ItnClient" THEN 1 ELSE 0
Pauses == (config.retries + 1) \div 2 - 1

\* What the first pass may have taken, once there is a second.
Before == IF pass = 1 THEN 0 ELSE (Retries + Q) * T + Pauses * D

\* The time so far is that of the attempts that are over, and of the pauses.
TimeInv ==
  Finite(config.retries) =>
    /\ pc = "new" => elapsed = 0
    /\ pc = "posting" => posted >= 1 /\ elapsed <= Before + (posted - 1) * T + slept * D
    /\ pc \in {"loop", "sleeping", "authenticated", "querying", "failed", "raised"} =>
         elapsed <= Before + posted * T + slept * D
    /\ pc \in {"answered", "queryFailed", "sequencing", "aborted"} =>
         elapsed <= Before + (posted + Q) * T + slept * D

\* A signal that has fired is noticed by the next post.
SignalInv ==
  /\ ~aborted => late = 0
  /\ aborted => /\ pc \in {"sleeping", "authenticated", "loop", "aborted", "raised", "failed"}
                /\ late <= D
                /\ pc = "sleeping" => late = 0
                /\ pc = "loop" /\ Finite(config.retries) => 2 * (attempt - 1) < config.retries
                /\ pc = "failed" => config.retries = NaN \/ Fractional(config.retries)

IInv == TypeOK /\ NaNInv /\ RaiseInv /\ QueryInv /\ CountInv /\ NeverFailed /\ TimeInv /\ SignalInv

-----------------------------------------------------------------------------
\* A timer runs for at least 1 ms.
LEMMA TimerType == ASSUME NEW x \in Options PROVE Timer(x) \in Nat /\ Timer(x) >= 1
BY NumbersAssumption, OptionsAssumption, TimersAssumption DEF Timer, Finite, Options

LEMMA FiniteInt == ASSUME NEW x \in Options, Finite(x) PROVE x \in Int /\ x <= MaxHalves
BY NumbersAssumption, OptionsAssumption DEF Finite, Options

LEMMA TimesMono ==
  ASSUME NEW a \in Nat, NEW b \in Nat, NEW c \in Nat, a <= b PROVE a * c <= b * c
<1>1. b = a + (b - a) /\ b - a \in Nat
  OBVIOUS
<1>2. b * c = a * c + (b - a) * c
  OBVIOUS
<1>3. (b - a) * c \in Nat /\ a * c \in Nat
  BY <1>1
<1> QED BY <1>2, <1>3

LEMMA OneMore == ASSUME NEW a \in Int, NEW c \in Int PROVE (a + 1) * c = a * c + c
OBVIOUS

-----------------------------------------------------------------------------
LEMMA InitInv == Init => IInv
<1> SUFFICES ASSUME Init PROVE IInv
  OBVIOUS
<1>a. aborted \in BOOLEAN
  BY Zenon DEF Init
<1>b. client \in Clients /\ config \in Configs
  BY DEF Init
<1>c. pc = "new" /\ pass \in 1..2 /\ attempt \in Nat \ {0} /\ cause \in {"none", "failure"}
  BY DEF Init
<1>d. posted \in Nat /\ slept \in Nat /\ elapsed \in Nat /\ late \in Nat
  BY DEF Init
<1>1. TypeOK
  BY <1>a, <1>b, <1>c, <1>d DEF TypeOK
<1>2. NaNInv /\ RaiseInv /\ QueryInv /\ NeverFailed
  BY DEF Init, NaNInv, RaiseInv, QueryInv, NeverFailed
<1>3. CountInv /\ TimeInv /\ SignalInv
  BY DEF Init, CountInv, TimeInv, SignalInv, Accepted
<1> QED BY <1>1, <1>2, <1>3 DEF IInv

-----------------------------------------------------------------------------
LEMMA CapType ==
  ASSUME NEW b \in Nat, NEW n \in Nat
  PROVE  UpTo(b, n) \in Nat /\ UpTo(b, n) <= n /\ (n <= b => UpTo(b, n) = n)
BY DEF UpTo

LEMMA TypeNext == TypeOK /\ [Next]_vars => TypeOK'
<1> SUFFICES ASSUME TypeOK, [Next]_vars PROVE TypeOK'
  OBVIOUS
<1> USE DEF TypeOK
<1>t. config.timeoutMs \in Options /\ config.retryDelayMs \in Options
  BY DEF Configs
<1>d. D \in Nat
  BY <1>t, TimerType DEF D
<1>m. \A n \in Nat : More(n) \in Nat /\ More(n) # 0
  BY BoundAssumption, OptionsAssumption DEF More, UpTo
<1>a. \A ms \in Nat : After(ms) \in Nat /\ Later(ms) \in Nat
  BY BoundAssumption DEF After, Later, UpTo
<1>1. CASE Construct
  BY <1>1 DEF Construct, counters, signalVars, Settled
<1>2. CASE Raise
  BY <1>2 DEF Raise, Posts, counters, signalVars, Settled
<1>3. CASE Post
  BY <1>3, <1>m DEF Post, Posts, signalVars
<1>4. CASE PostAborted
  BY <1>4 DEF PostAborted, Posts, counters, signalVars, Settled
<1>5. CASE LoopEnds
  BY <1>5 DEF LoopEnds, counters, signalVars, Settled
<1>6. CASE Sleep
  BY <1>6, <1>m, <1>a, <1>d DEF Sleep, D
<1>7. CASE Query
  BY <1>7 DEF Query, counters, signalVars, Settled
<1>8. CASE AbortUnnoticed
  BY <1>8 DEF AbortUnnoticed, counters
<1>9. ASSUME NEW ms \in 0..TimeoutMax, Fail(ms) PROVE TypeOK'
  BY <1>9, <1>m, <1>a, TimersAssumption DEF Fail, counters, signalVars
<1>10. ASSUME NEW ms \in 0..TimeoutMax, Answered(ms) PROVE TypeOK'
  BY <1>10, <1>a, TimersAssumption DEF Answered, counters, signalVars, Settled
<1>11. ASSUME NEW ms \in 0..TimeoutMax, QueryStale(ms) PROVE TypeOK'
  BY <1>11, <1>a, TimersAssumption DEF QueryStale, counters, signalVars, Settled
<1>12. ASSUME NEW ms \in 0..TimeoutMax, AbortPost(ms) PROVE TypeOK'
  BY <1>12, <1>a, TimersAssumption DEF AbortPost, counters, Settled
<1>13. ASSUME NEW ms \in 0..TimeoutMax, NEW how \in {"answered", "queryFailed"}, QuerySettles(ms, how)
       PROVE TypeOK'
  BY <1>13, <1>a, TimersAssumption DEF QuerySettles, counters, signalVars, Settled
<1>14. CASE UNCHANGED vars
  BY <1>14 DEF vars, counters, signalVars
<1> QED BY <1>1, <1>2, <1>3, <1>4, <1>5, <1>6, <1>7, <1>8, <1>9, <1>10, <1>11, <1>12, <1>13, <1>14
        DEF Next

\* The configuration is fixed.
LEMMA Fixed == [Next]_vars => client' = client /\ config' = config
BY DEF Next, vars, Construct, Raise, Post, PostAborted, LoopEnds, Sleep, Query, AbortUnnoticed, Fail,
       Answered, QueryStale, AbortPost, QuerySettles

-----------------------------------------------------------------------------
(* What concerns the phases alone.                                         *)

PhaseInv == NaNInv /\ RaiseInv /\ QueryInv /\ NeverFailed

LEMMA PhaseNext == TypeOK /\ PhaseInv /\ [Next]_vars => PhaseInv'
<1> SUFFICES ASSUME TypeOK, PhaseInv, [Next]_vars PROVE PhaseInv'
  OBVIOUS
<1> USE NumbersAssumption DEF PhaseInv, NaNInv, RaiseInv, QueryInv, NeverFailed
<1>f. client' = client /\ config' = config /\ (TimerRaises' <=> TimerRaises)
  BY Fixed DEF TimerRaises, Uint32, Finite
<1>n. config.retries = NaN => ~WithinRetries(attempt) /\ ~WithinRetries(1)
  BY DEF WithinRetries, Finite
<1>1. CASE Construct
  BY <1>1, <1>f, <1>n DEF Construct, MayHoldSession, counters
<1>2. CASE Raise
  BY <1>2, <1>f, <1>n DEF Raise, Posts, counters
<1>3. CASE Post
  BY <1>3, <1>f, <1>n DEF Post, Posts
<1>4. CASE PostAborted
  BY <1>4, <1>f, <1>n DEF PostAborted, Posts, counters
<1>5. CASE LoopEnds
  <2>1. config.retries # Infinity
    BY <1>5 DEF LoopEnds, WithinRetries
  <2> QED BY <1>5, <1>f, <2>1 DEF LoopEnds, counters
<1>6. CASE Sleep
  BY <1>6, <1>f DEF Sleep
<1>7. CASE Query
  BY <1>7, <1>f DEF Query, counters
<1>8. CASE AbortUnnoticed
  BY <1>8, <1>f DEF AbortUnnoticed, counters
<1>9. ASSUME NEW ms \in 0..TimeoutMax, Fail(ms) PROVE PhaseInv'
  BY <1>9, <1>f DEF Fail, counters
<1>10. ASSUME NEW ms \in 0..TimeoutMax, Answered(ms) PROVE PhaseInv'
  BY <1>10, <1>f DEF Answered, TypeOK, Clients, counters
<1>11. ASSUME NEW ms \in 0..TimeoutMax, QueryStale(ms) PROVE PhaseInv'
  BY <1>11, <1>f DEF QueryStale, counters
<1>12. ASSUME NEW ms \in 0..TimeoutMax, AbortPost(ms) PROVE PhaseInv'
  BY <1>12, <1>f DEF AbortPost, counters
<1>13. ASSUME NEW ms \in 0..TimeoutMax, NEW how \in {"answered", "queryFailed"}, QuerySettles(ms, how)
       PROVE PhaseInv'
  BY <1>13, <1>f DEF QuerySettles, counters
<1>14. CASE UNCHANGED vars
  BY <1>14, <1>f DEF vars, counters
<1> QED BY <1>1, <1>2, <1>3, <1>4, <1>5, <1>6, <1>7, <1>8, <1>9, <1>10, <1>11, <1>12, <1>13, <1>14
        DEF Next

-----------------------------------------------------------------------------
(* What is counted.                                                        *)

LEMMA CountNext == TypeOK /\ CountInv /\ [Next]_vars => CountInv'
<1> SUFFICES ASSUME TypeOK, CountInv, [Next]_vars, Finite(config.retries) PROVE CountInv'
  BY Fixed DEF CountInv
<1>f. client' = client /\ config' = config
  BY Fixed
<1> DEFINE r == config.retries
<1>r. r \in Int /\ r <= MaxHalves
  BY FiniteInt DEF TypeOK, Configs
<1>w. \A n \in Nat : /\ WithinRetries(n) <=> 2 * n <= r
                     /\ BelowRetries(n) <=> 2 * n < r
  BY NumbersAssumption DEF WithinRetries, BelowRetries, Finite
\* No counter stays at its bound.
<1>m. \A n \in Nat : n <= MaxHalves => More(n) = n + 1
  BY BoundAssumption, OptionsAssumption DEF More, UpTo
<1>t. /\ pc \in {"new", "loop", "posting", "sleeping", "authenticated", "querying"} \union Settled
      /\ attempt \in Nat \ {0} /\ posted \in Nat /\ slept \in Nat
  BY DEF TypeOK
<1> HIDE DEF r
<1>c. /\ pc = "new" => attempt = 1 /\ posted = 0 /\ slept = 0 /\ cause = "none"
      /\ Accepted => 2 <= r /\ 2 * posted <= r /\ 2 * slept < r
      /\ pc = "loop" => /\ posted = attempt - 1 /\ slept <= posted
                        /\ 2 * posted < r => slept = posted
                        /\ posted > 0 => cause = "failure"
      /\ pc \in {"posting", "sleeping"} => posted = attempt /\ slept = attempt - 1
      /\ pc = "sleeping" => 2 * attempt < r /\ cause = "failure"
      /\ pc = "failed" => posted = r \div 2 /\ cause = "failure"
  BY DEF CountInv, Retries, r
<1> SUFFICES
      /\ pc' = "new" => attempt' = 1 /\ posted' = 0 /\ slept' = 0 /\ cause' = "none"
      /\ Accepted' => 2 <= r /\ 2 * posted' <= r /\ 2 * slept' < r
      /\ pc' = "loop" => /\ posted' = attempt' - 1 /\ slept' <= posted'
                         /\ 2 * posted' < r => slept' = posted'
                         /\ posted' > 0 => cause' = "failure"
      /\ pc' \in {"posting", "sleeping"} => posted' = attempt' /\ slept' = attempt' - 1
      /\ pc' = "sleeping" => 2 * attempt' < r /\ cause' = "failure"
      /\ pc' = "failed" => posted' = r \div 2 /\ cause' = "failure"
  BY <1>f DEF CountInv, Retries, r
<1> USE DEF Accepted
<1> USE DEF counters
<1>1. CASE Construct
  <2>1. pc' # "refused" => 2 <= r
    BY <1>1, <1>r DEF Construct, Acceptable, Below, r
  <2> QED BY <1>1, <1>t, <1>c, <2>1, <1>r DEF Construct
<1>2. CASE Raise
  BY <1>2, <1>t, <1>c DEF Raise, Posts
<1>3. CASE Post
  <2>1. 2 * attempt <= r /\ pc = "loop"
    BY <1>3, <1>t, <1>w DEF Post, Posts
  <2>2. posted = attempt - 1 /\ slept = posted
    BY <2>1, <1>t, <1>c, <1>r
  <2>3. More(posted) = posted + 1
    BY <1>t, <1>m, <1>r, <2>1, <2>2, OptionsAssumption
  <2> QED BY <1>3, <1>t, <1>c, <1>r, <2>1, <2>2, <2>3 DEF Post
<1>4. CASE PostAborted
  BY <1>4, <1>t, <1>c DEF PostAborted, Posts
<1>5. CASE LoopEnds
  <2>1. ~(2 * attempt <= r) /\ pc = "loop"
    BY <1>5, <1>t, <1>w DEF LoopEnds
  <2>2. posted = r \div 2 /\ posted > 0
    BY <2>1, <1>t, <1>c, <1>r
  <2> QED BY <1>5, <1>t, <1>c, <1>r, <2>1, <2>2 DEF LoopEnds
<1>6. CASE Sleep
  <2>1. More(attempt) = attempt + 1 /\ More(slept) = slept + 1
    BY <1>6, <1>t, <1>c, <1>r, <1>m, OptionsAssumption DEF Sleep
  <2> QED BY <1>6, <1>t, <1>c, <1>r, <2>1 DEF Sleep
<1>7. CASE Query
  BY <1>7, <1>t, <1>c DEF Query
<1>8. CASE AbortUnnoticed
  BY <1>8, <1>t, <1>c DEF AbortUnnoticed
<1>9. ASSUME NEW ms \in 0..TimeoutMax, Fail(ms) PROVE CountInv'
  <2>1. More(attempt) = attempt + 1
    BY <1>9, <1>t, <1>c, <1>r, <1>m, OptionsAssumption DEF Fail
  <2>2. BelowRetries(attempt) <=> 2 * attempt < r
    BY <1>w, <1>t
  <2> QED BY <1>9, <1>t, <1>c, <1>r, <2>1, <2>2, <1>f DEF Fail, CountInv, Retries, r
<1>10. ASSUME NEW ms \in 0..TimeoutMax, Answered(ms) PROVE CountInv'
  BY <1>10, <1>t, <1>c, <1>f DEF Answered, CountInv, r
<1>11. ASSUME NEW ms \in 0..TimeoutMax, QueryStale(ms) PROVE CountInv'
  BY <1>11, <1>t, <1>c, <1>r, <1>f DEF QueryStale, CountInv, Retries, r
<1>12. ASSUME NEW ms \in 0..TimeoutMax, AbortPost(ms) PROVE CountInv'
  BY <1>12, <1>t, <1>c, <1>f DEF AbortPost, CountInv, r
<1>13. ASSUME NEW ms \in 0..TimeoutMax, NEW how \in {"answered", "queryFailed"}, QuerySettles(ms, how)
       PROVE CountInv'
  BY <1>13, <1>t, <1>c, <1>f DEF QuerySettles, CountInv, r
<1>14. CASE UNCHANGED vars
  BY <1>14, <1>c DEF vars
<1> QED BY <1>1, <1>2, <1>3, <1>4, <1>5, <1>6, <1>7, <1>8, <1>9, <1>10, <1>11, <1>12, <1>13, <1>14, <1>f
        DEF Next, CountInv, Retries, r

-----------------------------------------------------------------------------
(* The time.                                                               *)

LEMMA TimeNext == TypeOK /\ QueryInv /\ CountInv /\ TimeInv /\ [Next]_vars => TimeInv'
<1> SUFFICES ASSUME TypeOK, QueryInv, CountInv, TimeInv, [Next]_vars, Finite(config.retries)
             PROVE  TimeInv'
  BY Fixed DEF TimeInv
<1>f. /\ client' = client /\ config' = config /\ T' = T /\ D' = D /\ Q' = Q
      /\ Retries' = Retries /\ Pauses' = Pauses
  BY Fixed DEF T, D, Timer, Finite, Q, Retries, Pauses
<1>d. T \in Nat /\ D \in Nat /\ Q \in {0, 1}
  BY TimerType DEF T, D, Q, TypeOK, Configs
<1>t. /\ pc \in {"new", "loop", "posting", "sleeping", "authenticated", "querying"} \union Settled
      /\ posted \in Nat /\ slept \in Nat /\ elapsed \in Nat /\ pass \in 1..2
  BY DEF TypeOK
\* The first pass took time only if there is a second.
<1>b. /\ Before \in Int
      /\ pass' = pass => Before' = Before
  <2>1. Retries \in Int /\ Pauses \in Int
    BY FiniteInt DEF TypeOK, Configs, Retries, Pauses
  <2> QED BY <2>1, <1>d, <1>f DEF Before
<1>p. posted * T \in Nat /\ (posted - 1) * T \in Int /\ (posted + Q) * T \in Int /\ slept * D \in Nat
  BY <1>d, <1>t
\* One more attempt, one more pause.
<1>x. /\ posted * T = (posted - 1) * T + T /\ (posted + 1) * T = posted * T + T
      /\ (slept + 1) * D = slept * D + D
  <2>1. posted = (posted - 1) + 1 /\ posted - 1 \in Int
    BY <1>t
  <2> QED BY <1>d, <1>t, <2>1, OneMore
<1>q. posted * T <= (posted + Q) * T
  <2>1. posted + 0 = posted
    BY <1>t
  <2>2. CASE Q = 0
    BY <2>1, <2>2, <1>p
  <2>3. CASE Q = 1
    BY <2>3, <1>p, <1>x, <1>d
  <2> QED BY <2>2, <2>3, <1>d
<1>a. \A ms \in Nat : After(ms) <= elapsed + ms
  BY <1>t, BoundAssumption DEF After, UpTo
<1>m. \A n \in Nat : n <= MaxHalves => More(n) = n + 1
  BY BoundAssumption, OptionsAssumption DEF More, UpTo
<1>s. (posted <= MaxHalves /\ slept <= MaxHalves) \/ ~Accepted
  BY <1>t, FiniteInt, OptionsAssumption DEF CountInv, TypeOK, Configs
<1>e. \A ms \in 0..TimeoutMax : elapsed' = After(ms) /\ ms <= T => elapsed' <= elapsed + T
  BY <1>a, <1>t, <1>d, TypeNext, TimersAssumption DEF TypeOK
<1> USE DEF counters
<1>1. CASE Construct
  <2>1. posted = 0 /\ slept = 0 /\ elapsed = 0 /\ pass = 1 /\ Before = 0
    BY <1>1 DEF Construct, TimeInv, CountInv, QueryInv, Before
  <2>2. Before' = 0 /\ posted' = 0 /\ slept' = 0 /\ elapsed' = 0
    BY <1>1, <1>b, <2>1 DEF Construct
  <2>3. 0 * T = 0 /\ 0 * D = 0
    BY <1>d
  <2>4. pc' \in {"refused", "loop", "authenticated"}
    BY <1>1 DEF Construct
  <2> QED BY <1>f, <2>2, <2>3, <2>4 DEF TimeInv
<1>2. CASE Raise
  BY <1>2, <1>f, <1>b DEF Raise, Posts, TimeInv
<1>3. CASE Post
  <2>1. posted < MaxHalves
    <3>1. config.retries \in Int /\ config.retries <= MaxHalves
      BY FiniteInt DEF TypeOK, Configs
    <3>2. posted = attempt - 1 /\ attempt \in Nat /\ 2 * attempt <= config.retries
      BY <1>3, NumbersAssumption DEF Post, Posts, CountInv, WithinRetries, TypeOK, Finite
    <3> QED BY <3>1, <3>2, <1>t, OptionsAssumption
  <2>2. More(posted) = posted + 1
    BY <2>1, <1>t, <1>m, OptionsAssumption
  <2>3. elapsed <= Before + posted * T + slept * D
    BY <1>3 DEF Post, Posts, TimeInv
  <2>4. (posted + 1) - 1 = posted
    BY <1>t
  <2> QED BY <1>3, <1>f, <1>b, <1>t, <2>2, <2>3, <2>4 DEF Post, TimeInv
<1>4. CASE PostAborted
  <2>1. elapsed <= Before + posted * T + slept * D
    BY <1>4 DEF PostAborted, Posts, TimeInv
  <2>2. elapsed <= Before + (posted + Q) * T + slept * D
    BY <2>1, <1>q, <1>p, <1>b, <1>t
  <2> QED BY <1>4, <1>f, <1>b, <2>2 DEF PostAborted, TimeInv
<1>5. CASE LoopEnds
  BY <1>5, <1>f, <1>b DEF LoopEnds, TimeInv
<1>6. CASE Sleep
  <2>1. More(slept) = slept + 1
    BY <1>6, <1>t, <1>s, <1>m DEF Sleep, Accepted
  <2>2. elapsed' <= elapsed + D /\ elapsed <= Before + posted * T + slept * D
    BY <1>6, <1>a, <1>d DEF Sleep, TimeInv, D
  <2>3. elapsed' \in Nat
    BY TypeNext DEF TypeOK
  <2>4. elapsed' <= Before + posted * T + (slept + 1) * D
    BY <2>2, <2>3, <1>x, <1>p, <1>d, <1>b, <1>t
  <2> QED BY <1>6, <1>f, <1>b, <2>1, <2>4 DEF Sleep, TimeInv
<1>7. CASE Query
  <2>1. elapsed <= Before + posted * T + slept * D
    BY <1>7 DEF Query, TimeInv
  <2>2. elapsed <= Before + (posted + Q) * T + slept * D
    BY <2>1, <1>q, <1>p, <1>b, <1>t
  <2> QED BY <1>7, <1>f, <1>b, <2>1, <2>2 DEF Query, TimeInv
<1>8. CASE AbortUnnoticed
  BY <1>8, <1>f, <1>b DEF AbortUnnoticed, TimeInv
<1>9. ASSUME NEW ms \in 0..TimeoutMax, Fail(ms) PROVE TimeInv'
  <2>1. elapsed' <= elapsed + T /\ elapsed' \in Nat
    BY <1>9, <1>e, TypeNext DEF Fail, T, TypeOK
  <2>2. elapsed <= Before + (posted - 1) * T + slept * D
    BY <1>9 DEF Fail, TimeInv
  <2>3. elapsed' <= Before + posted * T + slept * D
    BY <2>1, <2>2, <1>x, <1>p, <1>d, <1>b, <1>t
  <2> QED BY <1>9, <1>f, <1>b, <2>3 DEF Fail, TimeInv
<1>10. ASSUME NEW ms \in 0..TimeoutMax, Answered(ms) PROVE TimeInv'
  <2>1. elapsed' <= elapsed + T /\ elapsed' \in Nat
    BY <1>10, <1>e, TypeNext DEF Answered, T, TypeOK
  <2>2. elapsed <= Before + (posted - 1) * T + slept * D
    BY <1>10 DEF Answered, TimeInv
  <2>3. elapsed' <= Before + posted * T + slept * D
    BY <2>1, <2>2, <1>x, <1>p, <1>d, <1>b, <1>t
  <2>4. elapsed' <= Before + (posted + Q) * T + slept * D
    BY <2>1, <2>3, <1>q, <1>p, <1>b, <1>t
  <2>5. pc' \in {"answered", "authenticated"}
    BY <1>10 DEF Answered
  <2> QED BY <1>10, <1>f, <1>b, <2>3, <2>4, <2>5 DEF Answered, TimeInv
\* One request more, after those of the loop.
<1>o. pc = "querying" /\ elapsed' <= elapsed + T
        => /\ Q = 1 /\ elapsed' <= Before + (posted + Q) * T + slept * D
  <2> SUFFICES ASSUME pc = "querying", elapsed' <= elapsed + T
               PROVE  /\ Q = 1 /\ elapsed' <= Before + (posted + Q) * T + slept * D
    OBVIOUS
  <2>1. elapsed <= Before + posted * T + slept * D /\ Q = 1 /\ elapsed' \in Nat
    BY TypeNext DEF TimeInv, QueryInv, Q, TypeOK
  <2> QED BY <2>1, <1>x, <1>p, <1>d, <1>b, <1>t
<1>11. ASSUME NEW ms \in 0..TimeoutMax, QueryStale(ms) PROVE TimeInv'
  <2>1. elapsed' <= Before + (posted + Q) * T + slept * D /\ elapsed' \in Nat /\ Q = 1
    BY <1>11, <1>e, <1>o, TypeNext DEF QueryStale, T, TypeOK
  <2>2. CASE pass = 2
    <3>1. /\ pc' = "sequencing" /\ pass' = pass /\ posted' = posted /\ slept' = slept
      BY <1>11, <2>2 DEF QueryStale
    <3> QED BY <3>1, <2>1, <1>f, <1>b DEF TimeInv
  <2>3. CASE pass = 1
    <3>1. pc' = "loop" /\ pass' = 2 /\ posted' = 0 /\ slept' = 0
      BY <1>11, <2>3 DEF QueryStale
    <3>2. /\ Retries \in Int /\ Pauses \in Int /\ posted + Q <= Retries + Q /\ slept <= Pauses
          /\ Retries + Q \in Nat /\ posted + Q \in Nat /\ Pauses \in Nat
      <4>1. config.retries \in Int
        BY FiniteInt DEF TypeOK, Configs
      <4>2. 2 <= config.retries /\ 2 * posted <= config.retries /\ 2 * slept < config.retries
        BY <1>11 DEF CountInv, Accepted, QueryStale
      <4> QED BY <4>1, <4>2, <1>t, <1>d DEF Retries, Pauses
    <3>3. (posted + Q) * T <= (Retries + Q) * T /\ slept * D <= Pauses * D
      BY <3>2, <1>d, <1>t, TimesMono
    <3>4. Before = 0 /\ Before' = (Retries + Q) * T + Pauses * D
      BY <2>3, <3>1, <1>f DEF Before
    <3>5. (Retries + Q) * T \in Int /\ Pauses * D \in Int /\ 0 * T = 0 /\ 0 * D = 0
      BY <3>2, <1>d
    <3>6. elapsed' <= Before' + 0 * T + 0 * D
      BY <2>1, <3>3, <3>4, <3>5, <1>p
    <3> QED BY <3>1, <3>6, <1>f DEF TimeInv
  <2> QED BY <2>2, <2>3, <1>t
<1>12. ASSUME NEW ms \in 0..TimeoutMax, AbortPost(ms) PROVE TimeInv'
  <2>1. elapsed' <= elapsed + T /\ elapsed' \in Nat
    BY <1>12, <1>e, TypeNext DEF AbortPost, T, TypeOK
  <2>2. CASE pc = "posting"
    <3>1. elapsed <= Before + (posted - 1) * T + slept * D
      BY <2>2 DEF TimeInv
    <3>2. elapsed' <= Before + posted * T + slept * D
      BY <2>1, <3>1, <1>x, <1>p, <1>d, <1>b, <1>t
    <3>3. elapsed' <= Before + (posted + Q) * T + slept * D
      BY <2>1, <3>2, <1>q, <1>p, <1>b, <1>t
    <3> QED BY <1>12, <1>f, <1>b, <3>3 DEF AbortPost, TimeInv
  <2>3. CASE pc = "querying"
    BY <1>12, <1>f, <1>b, <1>o, <2>1, <2>3 DEF AbortPost, TimeInv
  <2> QED BY <1>12, <2>2, <2>3 DEF AbortPost
<1>13. ASSUME NEW ms \in 0..TimeoutMax, NEW how \in {"answered", "queryFailed"}, QuerySettles(ms, how)
       PROVE TimeInv'
  <2>1. elapsed' <= Before + (posted + Q) * T + slept * D
    BY <1>13, <1>e, <1>o DEF QuerySettles, T
  <2> QED BY <1>13, <1>f, <1>b, <2>1 DEF QuerySettles, TimeInv
<1>14. CASE UNCHANGED vars
  BY <1>14, <1>f, <1>b DEF vars, TimeInv
<1> QED BY <1>1, <1>2, <1>3, <1>4, <1>5, <1>6, <1>7, <1>8, <1>9, <1>10, <1>11, <1>12, <1>13, <1>14
        DEF Next

-----------------------------------------------------------------------------
(* The signal.                                                             *)

LEMMA SignalNext == TypeOK /\ PhaseInv /\ CountInv /\ SignalInv /\ [Next]_vars => SignalInv'
<1> SUFFICES ASSUME TypeOK, PhaseInv, CountInv, SignalInv, [Next]_vars PROVE SignalInv'
  OBVIOUS
<1>f. config' = config /\ D' = D /\ (Fractional(config.retries)' <=> Fractional(config.retries))
  BY Fixed DEF D, Timer, Finite, Fractional
<1>d. D \in Nat
  BY TimerType DEF D, TypeOK, Configs
<1>r. Finite(config.retries) => config.retries \in Int /\ config.retries <= MaxHalves
  BY FiniteInt DEF TypeOK, Configs
<1>t. attempt \in Nat \ {0} /\ late \in Nat
  BY DEF TypeOK
<1>m. \A n \in Nat : n <= MaxHalves => More(n) = n + 1
  BY BoundAssumption, OptionsAssumption DEF More, UpTo
<1> USE DEF counters, signalVars
<1>1. CASE Construct
  BY <1>1, <1>f DEF Construct, SignalInv
<1>2. CASE Raise
  BY <1>2, <1>f DEF Raise, SignalInv
<1>3. CASE Post
  BY <1>3, <1>f DEF Post, SignalInv
<1>4. CASE PostAborted
  BY <1>4, <1>f DEF PostAborted, SignalInv
<1>5. CASE LoopEnds
  <2>1. CASE ~aborted
    BY <1>5, <2>1, <1>f DEF LoopEnds, SignalInv
  <2>2. CASE aborted
    <3>1. pc = "loop" /\ ~WithinRetries(attempt) /\ config.retries # Infinity
      BY <1>5 DEF LoopEnds, WithinRetries
    <3>2. ASSUME Finite(config.retries) PROVE Fractional(config.retries)
      <4>1. config.retries \in Int /\ ~(2 * attempt <= config.retries)
        BY <3>1, <3>2, <1>r DEF WithinRetries
      <4>2. 2 * (attempt - 1) < config.retries
        BY <3>1, <3>2, <2>2 DEF SignalInv
      <4>3. config.retries = 2 * attempt - 1
        BY <4>1, <4>2, <1>t
      <4> QED BY <4>1, <4>3, <3>2, <1>t DEF Fractional
    <3>3. config.retries = NaN \/ Fractional(config.retries)
      BY <3>1, <3>2 DEF Finite
    <3> QED BY <1>5, <2>2, <3>3, <1>f DEF LoopEnds, SignalInv
  <2> QED BY <2>1, <2>2
<1>6. CASE Sleep
  <2>1. CASE ~aborted
    BY <1>6, <2>1, <1>f DEF Sleep, SignalInv
  <2>2. CASE aborted
    <3>1. late = 0 /\ late' = Later(D)
      BY <1>6, <2>2 DEF Sleep, SignalInv, D
    <3>2. late' <= D
      BY <3>1, <1>d, BoundAssumption DEF Later, UpTo
    <3>3. ASSUME Finite(config.retries) PROVE 2 * (attempt' - 1) < config.retries
      <4>1. 2 * attempt < config.retries
        BY <1>6, <3>3 DEF Sleep, CountInv
      <4>2. attempt' = attempt + 1
        BY <1>6, <4>1, <1>r, <1>t, <1>m, <3>3, OptionsAssumption DEF Sleep
      <4> QED BY <4>1, <4>2, <1>t, <1>r, <3>3
    <3> QED BY <1>6, <2>2, <3>2, <3>3, <1>f DEF Sleep, SignalInv
  <2> QED BY <2>1, <2>2
<1>7. CASE Query
  BY <1>7, <1>f DEF Query, SignalInv
<1>8. CASE AbortUnnoticed
  <2>1. late = 0 /\ late' = late /\ late' <= D
    BY <1>8, <1>d DEF AbortUnnoticed, SignalInv
  <2>2. ASSUME pc = "loop", Finite(config.retries) PROVE 2 * (attempt - 1) < config.retries
    <3>1. attempt = 1 /\ 2 <= config.retries
      BY <1>8, <2>2 DEF AbortUnnoticed, CountInv, Accepted
    <3> QED BY <3>1, <2>2, <1>r
  <2> QED BY <1>8, <2>1, <2>2, <1>f DEF AbortUnnoticed, SignalInv
<1>9. ASSUME NEW ms \in 0..TimeoutMax, Fail(ms) PROVE SignalInv'
  BY <1>9, <1>f DEF Fail, SignalInv
<1>10. ASSUME NEW ms \in 0..TimeoutMax, Answered(ms) PROVE SignalInv'
  BY <1>10, <1>f DEF Answered, SignalInv
<1>11. ASSUME NEW ms \in 0..TimeoutMax, QueryStale(ms) PROVE SignalInv'
  BY <1>11, <1>f DEF QueryStale, SignalInv
<1>12. ASSUME NEW ms \in 0..TimeoutMax, AbortPost(ms) PROVE SignalInv'
  BY <1>12, <1>f, <1>d DEF AbortPost, SignalInv
<1>13. ASSUME NEW ms \in 0..TimeoutMax, NEW how \in {"answered", "queryFailed"}, QuerySettles(ms, how)
       PROVE SignalInv'
  BY <1>13, <1>f DEF QuerySettles, SignalInv
<1>14. CASE UNCHANGED vars
  BY <1>14, <1>f DEF vars, SignalInv
<1> QED BY <1>1, <1>2, <1>3, <1>4, <1>5, <1>6, <1>7, <1>8, <1>9, <1>10, <1>11, <1>12, <1>13, <1>14
        DEF Next

-----------------------------------------------------------------------------
LEMMA Invariance == Spec => []IInv
<1>1. IInv /\ [Next]_vars => IInv'
  BY TypeNext, PhaseNext, CountNext, TimeNext, SignalNext DEF IInv, PhaseInv
<1> QED BY InitInv, <1>1, PTL DEF Spec

\* Every variable keeps its type.
THEOREM TypeCorrect == Spec => []TypeOK
<1>1. IInv => TypeOK
  BY DEF IInv
<1> QED BY Invariance, <1>1, PTL

\* A connection error comes after all configured attempts and names a cause,
\* for every configuration but retries that are NaN.
THEOREM ConnectionErrorsHonest == Spec => []ConnectionErrorHonest
<1>1. IInv => ConnectionErrorHonest
  BY NumbersAssumption
  DEF IInv, ConnectionErrorHonest, NaNInv, QueryInv, CountInv, NeverFailed, Finite
<1> QED BY Invariance, <1>1, PTL

LEMMA TimerAtMost ==
  ASSUME NEW x \in Options, Finite(x) PROVE Longest(x) \in Nat /\ Timer(x) <= Longest(x)
BY FiniteInt, TimersAssumption DEF Timer, Longest

\* No call takes longer than its configuration allows, for every length of
\* Node's timers.
THEOREM CallsInTime == Spec => []InTime
<1>1. ASSUME IInv, Finite(config.retries), Finite(config.retryDelayMs), Finite(config.timeoutMs),
             Accepted
      PROVE  elapsed <= pass * ((Retries + Q) * Longest(config.timeoutMs)
                                  + Pauses * Longest(config.retryDelayMs))
  <2> DEFINE L == Longest(config.timeoutMs)
             M == Longest(config.retryDelayMs)
             X == (Retries + Q) * L + Pauses * M
             Y == (Retries + Q) * T + Pauses * D
  <2>1. /\ T \in Nat /\ D \in Nat /\ L \in Nat /\ M \in Nat /\ T <= L /\ D <= M /\ Q \in {0, 1}
        /\ config.retries \in Int /\ elapsed \in Nat /\ posted \in Nat /\ slept \in Nat /\ pass \in 1..2
    BY <1>1, TimerType, TimerAtMost, FiniteInt DEF IInv, TypeOK, Configs, T, D, Q
  <2>2. 2 <= config.retries /\ 2 * posted <= config.retries /\ 2 * slept < config.retries
    BY <1>1 DEF IInv, CountInv
  <2>3. /\ Retries \in Nat /\ Pauses \in Nat /\ Retries + Q \in Nat /\ posted + Q \in Nat
        /\ posted + Q <= Retries + Q /\ slept <= Pauses
    BY <2>1, <2>2 DEF Retries, Pauses
  <2> HIDE DEF L, M
  <2>b. Before = IF pass = 1 THEN 0 ELSE Y
    BY DEF Before
  <2>4. elapsed <= Before + (posted + Q) * T + slept * D
    <3>1. posted * T \in Nat /\ (posted - 1) * T \in Int /\ slept * D \in Nat
      BY <2>1
    <3>2. posted * T = (posted - 1) * T + T /\ (posted + 1) * T = posted * T + T
      <4>1. posted = (posted - 1) + 1 /\ posted - 1 \in Int
        BY <2>1
      <4> QED BY <4>1, <2>1, OneMore
    <3>3. (posted + Q) * T >= posted * T /\ (posted + Q) * T \in Nat
      <4>1. posted + 0 = posted
        BY <2>1
      <4>2. CASE Q = 0
        BY <4>1, <4>2, <3>1
      <4>3. CASE Q = 1
        BY <4>3, <3>1, <3>2, <2>1
      <4> QED BY <4>2, <4>3, <2>1
    <3>4. Before \in Int
      BY <2>1, <2>3 DEF Before
    <3>5. CASE pc \in {"answered", "queryFailed", "sequencing", "aborted"}
      BY <1>1, <3>5 DEF IInv, TimeInv
    <3>6. CASE pc \notin {"answered", "queryFailed", "sequencing", "aborted"}
      <4>1. elapsed <= Before + posted * T + slept * D
        <5>1. pc # "posting" => elapsed <= Before + posted * T + slept * D
          BY <1>1, <3>6 DEF IInv, TimeInv, TypeOK, Settled, Accepted
        <5>2. pc = "posting" => elapsed <= Before + (posted - 1) * T + slept * D
          BY <1>1 DEF IInv, TimeInv
        <5> QED BY <5>1, <5>2, <3>1, <3>2, <3>4, <2>1
      <4> QED BY <4>1, <3>1, <3>3, <3>4, <2>1
    <3> QED BY <3>5, <3>6
  <2>5. (posted + Q) * T <= (Retries + Q) * T /\ slept * D <= Pauses * D
    BY <2>1, <2>3, TimesMono
  <2>6. (Retries + Q) * T <= (Retries + Q) * L /\ Pauses * D <= Pauses * M
    <3>1. T * (Retries + Q) <= L * (Retries + Q) /\ D * Pauses <= M * Pauses
      BY <2>1, <2>3, TimesMono
    <3>2. /\ T * (Retries + Q) = (Retries + Q) * T /\ L * (Retries + Q) = (Retries + Q) * L
          /\ D * Pauses = Pauses * D /\ M * Pauses = Pauses * M
      BY <2>1, <2>3
    <3> QED BY <3>1, <3>2
  <2>7. /\ (posted + Q) * T \in Int /\ slept * D \in Int
        /\ (Retries + Q) * T \in Int /\ Pauses * D \in Int
        /\ (Retries + Q) * L \in Int /\ Pauses * M \in Int
    BY <2>1, <2>3
  <2>8. elapsed <= Before + Y /\ Y <= X /\ X \in Int /\ Y \in Int
    <3>1. Before \in Int
      BY <2>b, <2>7
    <3> QED BY <3>1, <2>1, <2>4, <2>5, <2>6, <2>7
  <2> HIDE DEF X, Y
  <2>9. elapsed <= pass * X
    BY <2>1, <2>8, <2>b
  <2> QED BY <2>9 DEF X, L, M
<1>2. IInv => InTime
  BY <1>1 DEF InTime, Accepted, Q, Pauses
<1> QED BY Invariance, <1>2, PTL

\* A caller whose signal fires waits for one pause at most, whatever the
\* configuration, and is told the reason while there is an attempt left.
THEOREM AbortsHeard == Spec => []AbortHeard
<1>1. IInv => AbortHeard
  <2> SUFFICES ASSUME IInv, aborted PROVE AbortHeard
    BY DEF AbortHeard
  <2>1. /\ pc \in {"sleeping", "authenticated", "loop", "aborted", "raised", "failed"}
        /\ late <= D /\ late \in Nat
        /\ pc = "failed" => config.retries = NaN \/ Fractional(config.retries)
    BY DEF IInv, SignalInv, TypeOK
  <2>2. ASSUME Finite(config.retryDelayMs) PROVE late <= Longest(config.retryDelayMs)
    <3>1. D \in Nat /\ Longest(config.retryDelayMs) \in Nat /\ D <= Longest(config.retryDelayMs)
      BY <2>2, TimerType, TimerAtMost DEF IInv, TypeOK, Configs, D
    <3> QED BY <3>1, <2>1
  <2>3. pc \in Settled => pc \in {"aborted", "raised", "failed"}
    BY <2>1 DEF Settled
  <2> QED BY <2>1, <2>2, <2>3 DEF AbortHeard
<1> QED BY Invariance, <1>1, PTL
=============================================================================
