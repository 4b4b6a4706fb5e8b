----------------------------- MODULE MinaClient ------------------------------
(***************************************************************************)
(* MinaClient.executeQuery and the mutations sent with it: every call      *)
(* posts its request, and posts it again after a failed attempt, up to the *)
(* configured number.  Calls of one client run concurrently; there is no   *)
(* queue.  A request whose attempt failed may still reach the daemon, at   *)
(* any later time.                                                         *)
(*                                                                         *)
(* A payment names its nonce or leaves it to the daemon, which runs a      *)
(* payment only with the sender's next nonce; a signed zkApp command is a  *)
(* payment that names its nonce.  A setter (of the SNARK worker, or of its *)
(* fee) puts a value in force and returns the one before.  A read changes  *)
(* nothing.                                                                *)
(***************************************************************************)
EXTENDS Integers, Sequences, FiniteSets

CONSTANTS
  N,           \* number of calls
  Retries,     \* config.retries: attempts of one call
  MaxNonce,    \* bound: the sender's nonces
  Settings,    \* the values that the setters set; public keys or fees
  Unset        \* what is in force before

ASSUME NAssumption == N \in Nat \ {0}
ASSUME RetriesAssumption == Retries \in Nat \ {0}
ASSUME MaxNonceAssumption == MaxNonce \in Nat
ASSUME SettingsAssumption == Settings \cap Int = {}

Calls  == 1..N
Nonces == 0..MaxNonce
Open   == -1             \* params.nonce is undefined: the daemon chooses
Read   == -2             \* the call is one of the queries
Wants  == Nonces \union {Open, Read} \union Settings

\* data: a 2xx answer with data; errors: an answer with a GraphQL `errors`
\* array; bad: no JSON, an HTTP error status, or no data.
Answers == {"none", "data", "errors", "bad"}

\* ok, GraphQLError, DaemonConnectionError.
Outcomes == {"none", "ok", "graphqlError", "connection"}

VARIABLES
  pc,         \* idle, posting (awaits the answer), sleeping or settled
  want,       \* what each call asks for; fixed before the first attempt
  attempt,    \* attempts made so far
  answer,     \* what has come back for the attempt under way
  outcome,    \* how each call ended
  net,        \* the requests that the daemon may still receive
  nonce,      \* the sender's next nonce
  log,        \* the payments that the daemon ran, in that order
  changes,    \* the changes of the setting, in that order
  told,       \* told[c]: the setting before, in the answer to setter c
  before      \* history: the calls that had settled when c was made

clientVars == <<pc, want, attempt, outcome, before>>
answerVars == <<answer, told>>
vars == <<clientVars, answerVars, net, nonce, log, changes>>

Requests == [call : Calls, attempt : 1..Retries, want : Wants]
Runs     == [call : Calls, attempt : 1..Retries, nonce : Nonces]
Changes  == [call : Calls, attempt : 1..Retries, value : Settings]

TypeOK == /\ pc \in [Calls -> {"idle", "posting", "sleeping", "settled"}]
          /\ want \in [Calls -> Wants]
          /\ attempt \in [Calls -> 0..Retries]
          /\ answer \in [Calls -> Answers]
          /\ outcome \in [Calls -> Outcomes]
          /\ net \subseteq Requests
          /\ nonce \in 0..(MaxNonce + 1)
          /\ log \in Seq(Runs)
          /\ changes \in Seq(Changes)
          /\ told \in [Calls -> Settings \union {Unset}]
          /\ before \in [Calls -> SUBSET Calls]

Init == /\ pc = [c \in Calls |-> "idle"]
        /\ want \in [Calls -> Wants]
        /\ attempt = [c \in Calls |-> 0]
        /\ answer = [c \in Calls |-> "none"]
        /\ outcome = [c \in Calls |-> "none"]
        /\ net = {}
        /\ nonce = 0
        /\ log = <<>>
        /\ changes = <<>>
        /\ told = [c \in Calls |-> Unset]
        /\ before = [c \in Calls |-> {}]

-----------------------------------------------------------------------------
(* The client.                                                             *)

\* A plausible slip: a repetition lets the daemon choose the nonce.
PostAfresh(c) ==
  /\ pc' = [pc EXCEPT ![c] = "posting"]
  /\ attempt' = [attempt EXCEPT ![c] = @ + 1]
  /\ answer' = [answer EXCEPT ![c] = "none"]
  /\ net' = net \union {[call |-> c, attempt |-> attempt[c] + 1,
                         want |-> IF attempt[c] = 0 THEN want[c] ELSE Open]}

\* One attempt: the body serialized before the loop is posted, with a timeout
\* of its own.
Post(c) ==
  /\ pc' = [pc EXCEPT ![c] = "posting"]
  /\ attempt' = [attempt EXCEPT ![c] = @ + 1]
  /\ answer' = [answer EXCEPT ![c] = "none"]
  /\ net' = net \union {[call |-> c, attempt |-> attempt[c] + 1, want |-> want[c]]}

Call(c) == /\ pc[c] = "idle"
           /\ Post(c)
           /\ before' = [before EXCEPT ![c] = {d \in Calls : pc[d] = "settled"}]
           /\ UNCHANGED <<want, outcome, told, nonce, log, changes>>

Settle(c, how) == /\ pc' = [pc EXCEPT ![c] = "settled"]
                  /\ outcome' = [outcome EXCEPT ![c] = how]
                  /\ answer' = [answer EXCEPT ![c] = "none"]
                  /\ UNCHANGED <<want, attempt, before>>

\* A plausible slip: the HTTP status is not looked at.
SucceedAnyway(c) == /\ pc[c] = "posting"
                    /\ answer[c] \in {"data", "bad"}
                    /\ Settle(c, "ok")
                    /\ UNCHANGED <<told, net, nonce, log, changes>>

\* The answer has data.
Succeed(c) == /\ pc[c] = "posting"
              /\ answer[c] = "data"
              /\ Settle(c, "ok")
              /\ UNCHANGED <<told, net, nonce, log, changes>>

\* A plausible slip: an HTTP error status is reported like a GraphQL error.
FailWithStatus(c) == /\ pc[c] = "posting"
                     /\ answer[c] \in {"errors", "bad"}
                     /\ Settle(c, "graphqlError")
                     /\ UNCHANGED <<told, net, nonce, log, changes>>

\* GraphQL errors are not retried, whatever the HTTP status.
FailWithErrors(c) == /\ pc[c] = "posting"
                     /\ answer[c] = "errors"
                     /\ Settle(c, "graphqlError")
                     /\ UNCHANGED <<told, net, nonce, log, changes>>

\* A plausible slip: one attempt too many.
OnceMore(c) ==
  /\ pc[c] = "posting"
  /\ IF attempt[c] <= Retries
       THEN /\ pc' = [pc EXCEPT ![c] = "sleeping"]
            /\ answer' = [answer EXCEPT ![c] = "none"]
            /\ UNCHANGED <<want, attempt, outcome, before>>
       ELSE Settle(c, "connection")
  /\ UNCHANGED <<told, net, nonce, log, changes>>

\* A plausible slip: the attempts are not counted.
TryForEver(c) == /\ pc[c] = "posting"
                 /\ pc' = [pc EXCEPT ![c] = "sleeping"]
                 /\ answer' = [answer EXCEPT ![c] = "none"]
                 /\ attempt' = [attempt EXCEPT ![c] = 0]
                 /\ UNCHANGED <<want, outcome, before, told, net, nonce, log, changes>>

\* A bad answer, a network error or the timeout: sleep and try again, unless
\* it was the last attempt.
AttemptFails(c) ==
  /\ pc[c] = "posting"
  /\ IF attempt[c] < Retries
       THEN /\ pc' = [pc EXCEPT ![c] = "sleeping"]
            /\ answer' = [answer EXCEPT ![c] = "none"]
            /\ UNCHANGED <<want, attempt, outcome, before>>
       ELSE Settle(c, "connection")
  /\ UNCHANGED <<told, net, nonce, log, changes>>

Retry(c) == /\ pc[c] = "sleeping"
            /\ Post(c)
            /\ UNCHANGED <<want, outcome, before, told, nonce, log, changes>>

-----------------------------------------------------------------------------
(* The daemon and the network.                                             *)

\* What is in force after the first i changes.
Setting(i) == IF i = 0 THEN Unset ELSE changes[i].value
InForce == Setting(Len(changes))

\* A plausible slip: the answer to an attempt given up is taken for the answer
\* to the one under way.
AwaitedAnyhow(m) == /\ pc[m.call] = "posting"
                    /\ answer[m.call] = "none"

\* The client still awaits the answer to this attempt.
Awaited(m) == /\ pc[m.call] = "posting"
              /\ attempt[m.call] = m.attempt
              /\ answer[m.call] = "none"

AnswerIfAwaited(m, what) ==
  answer' = IF Awaited(m) THEN [answer EXCEPT ![m.call] = what] ELSE answer

\* A payment with the sender's next nonce, or one that leaves it open, runs;
\* the answer may get lost behind a proxy's.  Assumption: a daemon that has run a
\* mutation does not answer it with `errors`; the client looks for those first
\* and never sees the data beside them.
Run(m) ==
  /\ m.want \in {nonce, Open}
  /\ nonce <= MaxNonce
  /\ log' = Append(log, [call |-> m.call, attempt |-> m.attempt, nonce |-> nonce])
  /\ nonce' = nonce + 1
  /\ net' = net \ {m}
  /\ \E what \in {"data", "bad"} : AnswerIfAwaited(m, what)
  /\ UNCHANGED <<clientVars, told, changes>>

\* A setter runs, and its answer tells what was in force before; it may get
\* lost behind a proxy's.
Apply(m) ==
  /\ m.want \in Settings
  /\ changes' = Append(changes, [call |-> m.call, attempt |-> m.attempt, value |-> m.want])
  /\ told' = IF Awaited(m) THEN [told EXCEPT ![m.call] = InForce] ELSE told
  /\ net' = net \ {m}
  /\ \E what \in {"data", "bad"} : AnswerIfAwaited(m, what)
  /\ UNCHANGED <<clientVars, nonce, log>>

\* A mutation is rejected with a GraphQL error: a payment with any but the
\* sender's next nonce is, and any other too for want of balance, a signature
\* or a valid value.
Reject(m) == /\ m.want # Read
             /\ net' = net \ {m}
             /\ AnswerIfAwaited(m, "errors")
             /\ UNCHANGED <<clientVars, told, nonce, log, changes>>

AnswerRead(m) == /\ m.want = Read
                 /\ net' = net \ {m}
                 /\ \E what \in {"data", "errors", "bad"} : AnswerIfAwaited(m, what)
                 /\ UNCHANGED <<clientVars, told, nonce, log, changes>>

\* A proxy answers with an error while the request is still on its way.
GatewayError(m) == /\ Awaited(m)
                   /\ AnswerIfAwaited(m, "bad")
                   /\ UNCHANGED <<clientVars, told, net, nonce, log, changes>>

\* A payment of the same sender comes from elsewhere.
OtherWallet == /\ nonce <= MaxNonce
               /\ nonce' = nonce + 1
               /\ UNCHANGED <<clientVars, answerVars, net, log, changes>>

-----------------------------------------------------------------------------
ClientStep(c) == Succeed(c) \/ FailWithErrors(c) \/ AttemptFails(c) \/ Retry(c)

Environment == \/ \E m \in net : Run(m) \/ Apply(m) \/ Reject(m) \/ AnswerRead(m) \/ GatewayError(m)
               \/ OtherWallet

Next == \/ \E c \in Calls : Call(c) \/ ClientStep(c)
        \/ Environment

Spec == Init /\ [][Next]_vars

\* Timers fire and continuations run; nothing is assumed of the network or
\* the daemon.
FairSpec == Spec /\ \A c \in Calls : WF_vars(ClientStep(c))

-----------------------------------------------------------------------------
(* Properties.                                                             *)

RunsOf(c) == {i \in 1..Len(log) : log[i].call = c}
PaidBy(c, a) == \E i \in 1..Len(log) : log[i].call = c /\ log[i].attempt = a
SetBy(c, a) == \E i \in 1..Len(changes) : changes[i].call = c /\ changes[i].attempt = a
RunBy(c, a) == PaidBy(c, a) \/ SetBy(c, a)

\* A payment that names its nonce runs at most once, and with that nonce,
\* however often it is posted and however late its requests arrive.
NamedNonceOnce ==
  \A c \in Calls : want[c] \in Nonces =>
    /\ \A i, j \in RunsOf(c) : i = j
    /\ \A i \in RunsOf(c) : log[i].nonce = want[c]

\* Any payment runs at most once per configured attempt: that is the bound on
\* what a payment that leaves its nonce open may do.
RunsBounded == \A c \in Calls : Cardinality(RunsOf(c)) <= Retries

\* A mutation that returns was run by the attempt that returned.
OkMeansRan ==
  \A c \in Calls : outcome[c] = "ok" /\ want[c] # Read => RunBy(c, attempt[c])

\* A GraphQL error of the first attempt means that the mutation has not run and
\* will not, given that the daemon sends `errors` only in place of a run.
FirstErrorHonest ==
  \A c \in Calls : outcome[c] = "graphqlError" /\ attempt[c] = 1
    => ~RunBy(c, 1) /\ \A m \in net : m.call # c

\* The first attempt of a settled call was answered, so nothing of it is left.
Prompt(c) == attempt[c] = 1 /\ outcome[c] \in {"ok", "graphqlError"}

\* A setter that returns is in force, as long as no other setter was called
\* since and those before it had been answered at once.  Its own repetitions,
\* however late, do not undo it.
SetterInForce ==
  \A c \in Calls :
    /\ want[c] \in Settings /\ outcome[c] = "ok"
    /\ \A d \in Calls \ {c} :
         want[d] \in Settings => pc[d] = "idle" \/ (d \in before[c] /\ Prompt(d))
    => InForce = want[c]

\* The value that a setter returns is the one that its own run replaced, in the
\* attempt that returned.
PreviousHonest ==
  \A c \in Calls : want[c] \in Settings /\ outcome[c] = "ok" =>
    \E i \in 1..Len(changes) : /\ changes[i].call = c /\ changes[i].attempt = attempt[c]
                               /\ told[c] = Setting(i - 1)

\* Every call settles.
EveryCallSettles == \A c \in Calls : pc[c] = "posting" ~> pc[c] = "settled"

\* The comment at the rethrow: GraphQL errors are deterministic, so a payment
\* that names its nonce and ends with one did not run in an earlier attempt.
ErrorsDeterministic ==
  \A c \in Calls : outcome[c] = "graphqlError" /\ want[c] \in Nonces => RunsOf(c) = {}
=============================================================================
