-------------------------- MODULE MinaClientProofs ---------------------------
(***************************************************************************)
(* Proofs about MinaClient, for every number of calls, attempts and        *)
(* nonces: its types, how often a payment runs, what a result means and a  *)
(* GraphQL error of the first attempt, and which setting is in force.      *)
(***************************************************************************)
EXTENDS MinaClient, FiniteSetTheorems, TLAPS

\* Attempts are counted while a call is under way.
AttemptInv ==
  \A c \in Calls : /\ pc[c] = "idle" => attempt[c] = 0
                   /\ pc[c] # "idle" => attempt[c] >= 1
                   /\ pc[c] = "sleeping" => attempt[c] < Retries
                   /\ outcome[c] # "none" => pc[c] = "settled"

\* A request is of an attempt made, is the only one of it, and did not run.
NetInv ==
  /\ \A m \in net : m.attempt <= attempt[m.call] /\ m.want = want[m.call]
  /\ \A m, n \in net : m.call = n.call /\ m.attempt = n.attempt => m = n
  /\ \A m \in net : ~RunBy(m.call, m.attempt)

\* Payments run with ascending nonces, one per attempt, and with the nonce
\* they name.
LogInv ==
  /\ \A i \in 1..Len(log) : /\ log[i].attempt <= attempt[log[i].call]
                            /\ log[i].nonce < nonce
                            /\ want[log[i].call] \in {log[i].nonce, Open}
  /\ \A i, j \in 1..Len(log) : i < j => log[i].nonce < log[j].nonce

\* The changes are of attempts made, to the value asked for.
ChangesInv ==
  \A i \in 1..Len(changes) : /\ changes[i].attempt <= attempt[changes[i].call]
                             /\ changes[i].value = want[changes[i].call]

OncePerAttempt ==
  \A i, j \in 1..Len(log) :
    log[i].call = log[j].call /\ log[i].attempt = log[j].attempt => i = j

\* The attempt under way is over without a run.
Refused(c) == /\ ~RunBy(c, attempt[c])
              /\ \A m \in net : m.call = c => m.attempt # attempt[c]

AnswerInv ==
  \A c \in Calls :
    /\ pc[c] # "posting" => answer[c] = "none"
    /\ answer[c] = "data" /\ want[c] # Read => RunBy(c, attempt[c])
    /\ answer[c] = "errors" => Refused(c)
    /\ outcome[c] = "ok" /\ want[c] # Read => RunBy(c, attempt[c])
    /\ outcome[c] = "graphqlError" => Refused(c)

IInv == TypeOK /\ AttemptInv /\ NetInv /\ LogInv /\ ChangesInv /\ OncePerAttempt /\ AnswerInv

-----------------------------------------------------------------------------
LEMMA InitInv == Init => IInv
<1> SUFFICES ASSUME Init PROVE IInv
  OBVIOUS
<1> USE DEF Init
<1>1. Len(log) = 0 /\ Len(changes) = 0
  OBVIOUS
<1>2. TypeOK
  BY RetriesAssumption, MaxNonceAssumption DEF TypeOK, Answers, Outcomes
<1>3. AttemptInv /\ NetInv /\ AnswerInv
  BY DEF AttemptInv, NetInv, AnswerInv
<1>4. LogInv /\ ChangesInv /\ OncePerAttempt
  BY <1>1 DEF LogInv, ChangesInv, OncePerAttempt
<1> QED
  BY <1>2, <1>3, <1>4 DEF IInv

\* What TypeOK says of an entry of the log.
LEMMA EntryType ==
  ASSUME TypeOK, NEW i \in 1..Len(log)
  PROVE  /\ log[i].call \in Calls /\ log[i].attempt \in 1..Retries
         /\ log[i].nonce \in Nonces /\ log[i].nonce \in Nat
<1>1. log \in Seq(Runs)
  BY DEF TypeOK
<1>2. log[i] \in Runs
  BY <1>1
<1>3. /\ log[i].call \in Calls /\ log[i].attempt \in 1..Retries
      /\ log[i].nonce \in Nonces
  BY <1>2 DEF Runs
<1> QED
  BY <1>3, MaxNonceAssumption DEF Nonces

\* What TypeOK says of a change.
LEMMA ChangeType ==
  ASSUME TypeOK, NEW i \in 1..Len(changes)
  PROVE  /\ changes[i].call \in Calls /\ changes[i].attempt \in 1..Retries
         /\ changes[i].value \in Settings
<1>1. changes \in Seq(Changes)
  BY DEF TypeOK
<1>2. changes[i] \in Changes
  BY <1>1
<1> QED
  BY <1>2 DEF Changes

\* A new attempt is not in the network and did not run.
LEMMA PostInv ==
  ASSUME IInv, NEW c \in Calls, pc[c] \in {"idle", "sleeping"}, Post(c),
         UNCHANGED <<want, outcome, told, nonce, log, changes>>,
         before' \in [Calls -> SUBSET Calls]
  PROVE  IInv'
<1>1. /\ TypeOK /\ attempt[c] \in Nat /\ attempt[c] < Retries
      /\ attempt[c] + 1 \in 1..Retries
  BY RetriesAssumption DEF IInv, TypeOK, AttemptInv
<1> DEFINE new == [call |-> c, attempt |-> attempt[c] + 1, want |-> want[c]]
<1>2. /\ attempt' = [attempt EXCEPT ![c] = @ + 1] /\ net' = net \union {new}
      /\ pc' = [pc EXCEPT ![c] = "posting"] /\ answer' = [answer EXCEPT ![c] = "none"]
  BY DEF Post
<1>3. new \in Requests
  BY <1>1 DEF Requests, TypeOK
<1>4. TypeOK'
  BY <1>1, <1>2, <1>3 DEF TypeOK, Answers
<1>5. AttemptInv'
  BY <1>1, <1>2 DEF IInv, TypeOK, AttemptInv
<1>6. ~RunBy(c, attempt[c] + 1) /\ \A m \in net : m.call = c => m.attempt # attempt[c] + 1
  <2>1. ASSUME RunBy(c, attempt[c] + 1) PROVE FALSE
    <3>1. ~PaidBy(c, attempt[c] + 1)
      BY <1>1 DEF PaidBy, IInv, LogInv
    <3>2. ~SetBy(c, attempt[c] + 1)
      BY <1>1 DEF SetBy, IInv, ChangesInv
    <3> QED
      BY <2>1, <3>1, <3>2 DEF RunBy
  <2>2. ASSUME NEW m \in net, m.call = c PROVE m.attempt # attempt[c] + 1
    BY <1>1, <2>2 DEF IInv, NetInv
  <2> QED
    BY <2>1, <2>2
<1>7. NetInv'
  <2>1. \A m \in net' : ~RunBy(m.call, m.attempt)'
    BY <1>2, <1>6 DEF RunBy, PaidBy, SetBy, IInv, NetInv
  <2>2. \A m \in net' : m.attempt <= attempt'[m.call] /\ m.want = want'[m.call]
    <3> SUFFICES ASSUME NEW m \in net'
                 PROVE  m.attempt <= attempt'[m.call] /\ m.want = want'[m.call]
      OBVIOUS
    <3>1. CASE m = new
      BY <1>1, <1>2, <3>1 DEF TypeOK
    <3>2. CASE m \in net
      <4>1. m.call \in Calls /\ m.attempt \in Nat /\ attempt[m.call] \in Nat
        BY <1>1, <3>2 DEF TypeOK, Requests
      <4>2. attempt[m.call] <= attempt'[m.call]
        BY <1>1, <1>2, <4>1 DEF TypeOK
      <4>3. attempt'[m.call] \in Nat
        BY <1>4, <4>1 DEF TypeOK
      <4> QED
        BY <3>2, <4>1, <4>2, <4>3 DEF IInv, NetInv
    <3> QED
      BY <1>2, <3>1, <3>2
  <2>3. \A m, n \in net' : m.call = n.call /\ m.attempt = n.attempt => m = n
    BY <1>2, <1>6 DEF IInv, NetInv
  <2> QED
    BY <2>1, <2>2, <2>3 DEF NetInv
<1>8. LogInv'
  <2>1. ASSUME NEW i \in 1..Len(log) PROVE log[i].attempt <= attempt'[log[i].call]
    <3>1. log[i].call \in Calls /\ log[i].attempt \in Nat
      BY <1>1, EntryType
    <3>2. /\ attempt[log[i].call] \in Nat /\ attempt'[log[i].call] \in Nat
          /\ attempt[log[i].call] <= attempt'[log[i].call]
      BY <1>1, <1>2, <1>4, <3>1 DEF TypeOK
    <3> QED
      BY <3>1, <3>2 DEF IInv, LogInv
  <2> QED
    BY <2>1 DEF IInv, LogInv
<1>9. ChangesInv' /\ OncePerAttempt'
  <2>1. ASSUME NEW i \in 1..Len(changes)
        PROVE  changes[i].attempt <= attempt'[changes[i].call]
    <3>1. changes[i].call \in Calls /\ changes[i].attempt \in Nat
      BY <1>1, ChangeType
    <3>2. /\ attempt[changes[i].call] \in Nat /\ attempt'[changes[i].call] \in Nat
          /\ attempt[changes[i].call] <= attempt'[changes[i].call]
      BY <1>1, <1>2, <1>4, <3>1 DEF TypeOK
    <3> QED
      BY <3>1, <3>2 DEF IInv, ChangesInv
  <2> QED
    BY <2>1 DEF IInv, ChangesInv, OncePerAttempt
<1>10. AnswerInv'
  <2> SUFFICES ASSUME NEW d \in Calls
               PROVE  /\ pc'[d] # "posting" => answer'[d] = "none"
                      /\ answer'[d] = "data" /\ want'[d] # Read => RunBy(d, attempt[d])'
                      /\ answer'[d] = "errors" => Refused(d)'
                      /\ outcome'[d] = "ok" /\ want'[d] # Read => RunBy(d, attempt[d])'
                      /\ outcome'[d] = "graphqlError" => Refused(d)'
    BY DEF AnswerInv
  <2>1. CASE d = c
    <3>1. outcome[d] = "none" /\ answer'[d] = "none" /\ pc'[d] = "posting"
      BY <1>1, <1>2, <2>1 DEF IInv, AttemptInv, TypeOK
    <3> QED
      BY <3>1
  <2>2. CASE d # c
    <3>1. /\ pc'[d] = pc[d] /\ answer'[d] = answer[d] /\ attempt'[d] = attempt[d]
          /\ \A m \in net' : m.call = d => m \in net
      BY <1>1, <1>2, <2>2 DEF TypeOK
    <3> QED
      BY <3>1 DEF IInv, AnswerInv, Refused, RunBy, PaidBy, SetBy
  <2> QED
    BY <2>1, <2>2
<1> QED
  BY <1>4, <1>5, <1>7, <1>8, <1>9, <1>10 DEF IInv

\* A step of the client that sends nothing.
LEMMA ClientInv ==
  ASSUME IInv, NEW c \in Calls, Succeed(c) \/ FailWithErrors(c) \/ AttemptFails(c)
  PROVE  IInv'
<1>1. /\ TypeOK /\ UNCHANGED <<want, attempt, before, told, net, nonce, log, changes>>
      /\ pc[c] = "posting"
  BY DEF IInv, Succeed, FailWithErrors, AttemptFails, Settle
<1>2. \/ pc' = [pc EXCEPT ![c] = "settled"]
      \/ pc' = [pc EXCEPT ![c] = "sleeping"] /\ attempt[c] < Retries /\ outcome' = outcome
  BY DEF Succeed, FailWithErrors, AttemptFails, Settle
<1>3. answer' = [answer EXCEPT ![c] = "none"]
  BY DEF Succeed, FailWithErrors, AttemptFails, Settle
<1>4. \/ outcome' = outcome
      \/ outcome' = [outcome EXCEPT ![c] = "ok"] /\ answer[c] = "data"
      \/ outcome' = [outcome EXCEPT ![c] = "graphqlError"] /\ answer[c] = "errors"
      \/ outcome' = [outcome EXCEPT ![c] = "connection"]
  BY DEF Succeed, FailWithErrors, AttemptFails, Settle
<1>5. outcome' # outcome => pc' = [pc EXCEPT ![c] = "settled"]
  BY <1>2
<1>6. TypeOK'
  BY <1>1, <1>2, <1>3, <1>4 DEF TypeOK, Answers, Outcomes
<1>7. AttemptInv'
  <2> SUFFICES ASSUME NEW d \in Calls
               PROVE  /\ pc'[d] = "idle" => attempt'[d] = 0
                      /\ pc'[d] # "idle" => attempt'[d] >= 1
                      /\ pc'[d] = "sleeping" => attempt'[d] < Retries
                      /\ outcome'[d] # "none" => pc'[d] = "settled"
    BY DEF AttemptInv
  <2>1. CASE d # c
    <3>1. pc'[d] = pc[d] /\ outcome'[d] = outcome[d]
      BY <1>1, <1>2, <1>4, <2>1 DEF TypeOK
    <3> QED
      BY <1>1, <3>1 DEF IInv, AttemptInv
  <2>2. CASE d = c
    <3>1. outcome[c] = "none" /\ attempt[c] >= 1
      BY <1>1 DEF IInv, AttemptInv
    <3> QED
      BY <1>1, <1>2, <1>5, <2>2, <3>1 DEF TypeOK
  <2> QED
    BY <2>1, <2>2
<1>8. NetInv' /\ LogInv' /\ ChangesInv' /\ OncePerAttempt'
  BY <1>1 DEF IInv, NetInv, LogInv, ChangesInv, OncePerAttempt, RunBy, PaidBy, SetBy
<1>9. AnswerInv'
  <2> SUFFICES ASSUME NEW d \in Calls
               PROVE  /\ pc'[d] # "posting" => answer'[d] = "none"
                      /\ answer'[d] = "data" /\ want'[d] # Read => RunBy(d, attempt[d])'
                      /\ answer'[d] = "errors" => Refused(d)'
                      /\ outcome'[d] = "ok" /\ want'[d] # Read => RunBy(d, attempt[d])'
                      /\ outcome'[d] = "graphqlError" => Refused(d)'
    BY DEF AnswerInv
  <2>1. (RunBy(d, attempt[d])' <=> RunBy(d, attempt[d])) /\ (Refused(d)' <=> Refused(d))
    BY <1>1 DEF RunBy, PaidBy, SetBy, Refused
  <2>2. CASE d # c
    <3>1. pc'[d] = pc[d] /\ answer'[d] = answer[d] /\ outcome'[d] = outcome[d]
      BY <1>1, <1>2, <1>3, <1>4, <2>2 DEF TypeOK
    <3> QED
      BY <1>1, <2>1, <3>1 DEF IInv, AnswerInv
  <2>3. CASE d = c
    <3>1. answer'[c] = "none" /\ outcome[c] = "none"
      BY <1>1, <1>3 DEF TypeOK, IInv, AttemptInv
    <3>2. outcome'[c] = "ok" => answer[c] = "data"
      BY <1>1, <1>4, <3>1 DEF TypeOK
    <3>3. outcome'[c] = "graphqlError" => answer[c] = "errors"
      BY <1>1, <1>4, <3>1 DEF TypeOK
    <3> QED
      BY <1>1, <2>1, <2>3, <3>1, <3>2, <3>3 DEF IInv, AnswerInv
  <2> QED
    BY <2>2, <2>3
<1> QED
  BY <1>6, <1>7, <1>8, <1>9 DEF IInv

\* An answer reaches the call of a request, at the attempt of the request.
LEMMA AnswerFor ==
  ASSUME TypeOK, NEW m \in net, NEW what \in Answers, AnswerIfAwaited(m, what)
  PROVE  /\ answer' \in [Calls -> Answers]
         /\ \A d \in Calls :
              \/ answer'[d] = answer[d]
              \/ /\ d = m.call /\ answer'[d] = what
                 /\ pc[d] = "posting" /\ attempt[d] = m.attempt
BY DEF AnswerIfAwaited, Awaited, TypeOK

\* A request leaves the network without a run.
LEMMA DropInv ==
  ASSUME IInv, NEW m \in net, NEW what \in Answers, AnswerIfAwaited(m, what),
         net' = net \/ net' = net \ {m},
         UNCHANGED <<clientVars, told, nonce, log, changes>>,
         what # "none",
         what = "data" => m.want = Read,
         what = "errors" => net' = net \ {m}
  PROVE  IInv'
<1>1. TypeOK /\ m \in Requests
  BY DEF IInv, TypeOK
<1> USE DEF clientVars
<1>2. TypeOK'
  BY <1>1, AnswerFor DEF TypeOK
<1>3. AttemptInv' /\ LogInv' /\ ChangesInv' /\ OncePerAttempt'
  BY DEF IInv, AttemptInv, LogInv, ChangesInv, OncePerAttempt
<1>4. NetInv'
  BY DEF IInv, NetInv, RunBy, PaidBy, SetBy
<1>5. AnswerInv'
  <2> SUFFICES ASSUME NEW d \in Calls
               PROVE  /\ pc'[d] # "posting" => answer'[d] = "none"
                      /\ answer'[d] = "data" /\ want'[d] # Read => RunBy(d, attempt[d])'
                      /\ answer'[d] = "errors" => Refused(d)'
                      /\ outcome'[d] = "ok" /\ want'[d] # Read => RunBy(d, attempt[d])'
                      /\ outcome'[d] = "graphqlError" => Refused(d)'
    BY DEF AnswerInv
  <2>1. (RunBy(d, attempt[d])' <=> RunBy(d, attempt[d])) /\ (Refused(d) => Refused(d)')
    BY DEF RunBy, PaidBy, SetBy, Refused
  <2>2. CASE answer'[d] = answer[d]
    BY <2>1, <2>2 DEF IInv, AnswerInv
  <2>3. CASE d = m.call /\ answer'[d] = what /\ pc[d] = "posting" /\ attempt[d] = m.attempt
    <3>1. m.want = want[d] /\ ~RunBy(d, attempt[d])
      BY <2>3 DEF IInv, NetInv
    <3>2. what = "errors" => Refused(d)'
      BY <2>1, <2>3, <3>1 DEF IInv, NetInv, Refused
    <3> QED
      BY <2>1, <2>3, <3>1, <3>2 DEF IInv, AnswerInv
  <2> QED
    BY <1>1, <2>2, <2>3, AnswerFor
<1> QED
  BY <1>2, <1>3, <1>4, <1>5 DEF IInv

LEMMA RunInv == ASSUME IInv, NEW m \in net, Run(m) PROVE IInv'
<1> DEFINE entry == [call |-> m.call, attempt |-> m.attempt, nonce |-> nonce]
<1>1. /\ TypeOK /\ m.call \in Calls /\ m.attempt \in 1..Retries /\ nonce \in Nonces
      /\ nonce \in Nat /\ Len(log) \in Nat
  BY MaxNonceAssumption DEF IInv, TypeOK, Requests, Run, Nonces
<1>2. /\ log' = Append(log, entry) /\ nonce' = nonce + 1 /\ net' = net \ {m}
      /\ UNCHANGED <<pc, want, attempt, outcome, before, told, changes>>
  BY DEF Run, clientVars
<1>3. PICK what \in {"data", "bad"} : AnswerIfAwaited(m, what)
  BY DEF Run
<1>4. /\ Len(log') = Len(log) + 1
      /\ \A i \in 1..Len(log) : log'[i] = log[i]
      /\ log'[Len(log) + 1] = entry
  BY <1>1, <1>2 DEF TypeOK
<1>5. \A c, a : RunBy(c, a)' <=> RunBy(c, a) \/ (c = m.call /\ a = m.attempt)
  <2>1. \A c, a : PaidBy(c, a)' <=> PaidBy(c, a) \/ (c = m.call /\ a = m.attempt)
    BY <1>1, <1>4 DEF PaidBy
  <2>2. \A c, a : SetBy(c, a)' <=> SetBy(c, a)
    BY <1>2 DEF SetBy
  <2> QED
    BY <2>1, <2>2 DEF RunBy
<1>6. TypeOK'
  <2>1. entry \in Runs
    BY <1>1 DEF Runs
  <2>2. log' \in Seq(Runs)
    BY <1>1, <1>2, <2>1 DEF TypeOK
  <2>3. answer' \in [Calls -> Answers]
    BY <1>1, <1>3, AnswerFor DEF Answers
  <2>4. nonce' \in 0..(MaxNonce + 1)
    BY <1>1, <1>2, MaxNonceAssumption DEF Nonces
  <2> QED
    BY <1>1, <1>2, <2>2, <2>3, <2>4 DEF TypeOK
<1>7. AttemptInv'
  BY <1>2 DEF IInv, AttemptInv
<1>8. NetInv'
  <2>1. \A n \in net' : ~RunBy(n.call, n.attempt)'
    BY <1>2, <1>5 DEF IInv, NetInv
  <2> QED
    BY <1>2, <2>1 DEF IInv, NetInv
<1>9. m.attempt <= attempt[m.call] /\ m.want = want[m.call] /\ ~RunBy(m.call, m.attempt)
  BY DEF IInv, NetInv
<1>10. LogInv'
  <2>1. ASSUME NEW i \in 1..Len(log')
        PROVE  /\ log'[i].attempt <= attempt[log'[i].call]
               /\ log'[i].nonce < nonce'
               /\ want[log'[i].call] \in {log'[i].nonce, Open}
    <3>1. CASE i = Len(log) + 1
      BY <1>1, <1>2, <1>4, <1>9, <3>1 DEF Run
    <3>2. CASE i \in 1..Len(log)
      <4>1. log[i].nonce \in Nat /\ log[i].nonce < nonce
        BY <1>1, <3>2, EntryType DEF IInv, LogInv
      <4> QED
        BY <1>1, <1>2, <1>4, <3>2, <4>1 DEF IInv, LogInv
    <3> QED
      BY <1>1, <1>4, <3>1, <3>2
  <2>2. ASSUME NEW i \in 1..Len(log'), NEW j \in 1..Len(log'), i < j
        PROVE  log'[i].nonce < log'[j].nonce
    <3>1. i \in 1..Len(log)
      BY <1>1, <1>4, <2>2
    <3>2. CASE j = Len(log) + 1
      BY <1>4, <3>1, <3>2 DEF IInv, LogInv
    <3>3. CASE j \in 1..Len(log)
      BY <1>1, <1>4, <2>2, <3>1, <3>3 DEF IInv, LogInv
    <3> QED
      BY <1>1, <1>4, <3>2, <3>3
  <2> QED
    BY <1>2, <2>1, <2>2 DEF LogInv
<1>11. ChangesInv' /\ OncePerAttempt'
  <2>1. ASSUME NEW i \in 1..Len(log') PROVE i \in 1..Len(log) \/ i = Len(log) + 1
    BY <1>1, <1>4
  <2>2. \A i \in 1..Len(log) : ~(log[i].call = m.call /\ log[i].attempt = m.attempt)
    BY <1>9 DEF RunBy, PaidBy, SetBy
  <2> QED
    BY <1>2, <1>4, <2>1, <2>2 DEF IInv, ChangesInv, OncePerAttempt
<1>12. AnswerInv'
  <2> SUFFICES ASSUME NEW d \in Calls
               PROVE  /\ pc'[d] # "posting" => answer'[d] = "none"
                      /\ answer'[d] = "data" /\ want'[d] # Read => RunBy(d, attempt[d])'
                      /\ answer'[d] = "errors" => Refused(d)'
                      /\ outcome'[d] = "ok" /\ want'[d] # Read => RunBy(d, attempt[d])'
                      /\ outcome'[d] = "graphqlError" => Refused(d)'
    BY DEF AnswerInv
  <2>1. (RunBy(d, attempt[d]) => RunBy(d, attempt[d])') /\ (Refused(d) => Refused(d)')
    <3>1. Refused(d) => ~(d = m.call /\ attempt[d] = m.attempt)
      BY DEF Refused
    <3> QED
      BY <1>2, <1>5, <3>1 DEF Refused
  <2>2. CASE answer'[d] = answer[d]
    BY <1>2, <2>1, <2>2 DEF IInv, AnswerInv
  <2>3. CASE d = m.call /\ answer'[d] = what /\ pc[d] = "posting" /\ attempt[d] = m.attempt
    BY <1>2, <1>3, <1>5, <2>1, <2>3 DEF IInv, AnswerInv
  <2> QED
    BY <1>1, <1>3, <2>2, <2>3, AnswerFor DEF Answers
<1> QED
  BY <1>6, <1>7, <1>8, <1>10, <1>11, <1>12 DEF IInv

LEMMA ApplyInv == ASSUME IInv, NEW m \in net, Apply(m) PROVE IInv'
<1> DEFINE entry == [call |-> m.call, attempt |-> m.attempt, value |-> m.want]
<1>1. /\ TypeOK /\ m.call \in Calls /\ m.attempt \in 1..Retries /\ m.want \in Settings
      /\ Len(changes) \in Nat
  BY DEF IInv, TypeOK, Requests, Apply
<1>2. /\ changes' = Append(changes, entry) /\ net' = net \ {m}
      /\ UNCHANGED <<pc, want, attempt, outcome, before, nonce, log>>
  BY DEF Apply, clientVars
<1>3. PICK what \in {"data", "bad"} : AnswerIfAwaited(m, what)
  BY DEF Apply
<1>4. /\ Len(changes') = Len(changes) + 1
      /\ \A i \in 1..Len(changes) : changes'[i] = changes[i]
      /\ changes'[Len(changes) + 1] = entry
  BY <1>1, <1>2 DEF TypeOK
<1>5. \A c, a : RunBy(c, a)' <=> RunBy(c, a) \/ (c = m.call /\ a = m.attempt)
  <2>1. \A c, a : SetBy(c, a)' <=> SetBy(c, a) \/ (c = m.call /\ a = m.attempt)
    BY <1>1, <1>4 DEF SetBy
  <2>2. \A c, a : PaidBy(c, a)' <=> PaidBy(c, a)
    BY <1>2 DEF PaidBy
  <2> QED
    BY <2>1, <2>2 DEF RunBy
<1>6. TypeOK'
  <2>1. entry \in Changes
    BY <1>1 DEF Changes
  <2>2. changes' \in Seq(Changes)
    BY <1>1, <1>2, <2>1 DEF TypeOK
  <2>3. answer' \in [Calls -> Answers]
    BY <1>1, <1>3, AnswerFor DEF Answers
  <2>4. InForce \in Settings \union {Unset}
    BY <1>1, ChangeType DEF InForce, Setting
  <2>5. told' \in [Calls -> Settings \union {Unset}]
    BY <1>1, <2>4 DEF Apply, TypeOK
  <2> QED
    BY <1>1, <1>2, <2>2, <2>3, <2>5 DEF TypeOK
<1>7. AttemptInv' /\ LogInv' /\ OncePerAttempt'
  BY <1>2 DEF IInv, AttemptInv, LogInv, OncePerAttempt
<1>8. NetInv'
  <2>1. \A n \in net' : ~RunBy(n.call, n.attempt)'
    BY <1>2, <1>5 DEF IInv, NetInv
  <2> QED
    BY <1>2, <2>1 DEF IInv, NetInv
<1>9. m.attempt <= attempt[m.call] /\ m.want = want[m.call]
  BY DEF IInv, NetInv
<1>10. ChangesInv'
  <2> SUFFICES ASSUME NEW i \in 1..Len(changes')
               PROVE  /\ changes'[i].attempt <= attempt[changes'[i].call]
                      /\ changes'[i].value = want[changes'[i].call]
    BY <1>2 DEF ChangesInv
  <2>1. CASE i = Len(changes) + 1
    BY <1>4, <1>9, <2>1
  <2>2. CASE i \in 1..Len(changes)
    BY <1>4, <2>2 DEF IInv, ChangesInv
  <2> QED
    BY <1>1, <1>4, <2>1, <2>2
<1>11. AnswerInv'
  <2> SUFFICES ASSUME NEW d \in Calls
               PROVE  /\ pc'[d] # "posting" => answer'[d] = "none"
                      /\ answer'[d] = "data" /\ want'[d] # Read => RunBy(d, attempt[d])'
                      /\ answer'[d] = "errors" => Refused(d)'
                      /\ outcome'[d] = "ok" /\ want'[d] # Read => RunBy(d, attempt[d])'
                      /\ outcome'[d] = "graphqlError" => Refused(d)'
    BY DEF AnswerInv
  <2>1. (RunBy(d, attempt[d]) => RunBy(d, attempt[d])') /\ (Refused(d) => Refused(d)')
    <3>1. Refused(d) => ~(d = m.call /\ attempt[d] = m.attempt)
      BY DEF Refused
    <3> QED
      BY <1>2, <1>5, <3>1 DEF Refused
  <2>2. CASE answer'[d] = answer[d]
    BY <1>2, <2>1, <2>2 DEF IInv, AnswerInv
  <2>3. CASE d = m.call /\ answer'[d] = what /\ pc[d] = "posting" /\ attempt[d] = m.attempt
    BY <1>2, <1>3, <1>5, <2>1, <2>3 DEF IInv, AnswerInv
  <2> QED
    BY <1>1, <1>3, <2>2, <2>3, AnswerFor DEF Answers
<1> QED
  BY <1>6, <1>7, <1>8, <1>10, <1>11 DEF IInv

LEMMA OtherWalletInv == IInv /\ OtherWallet => IInv'
<1> SUFFICES ASSUME IInv, OtherWallet PROVE IInv'
  OBVIOUS
<1> USE DEF OtherWallet, clientVars, answerVars
<1>1. TypeOK'
  BY MaxNonceAssumption DEF IInv, TypeOK
<1>2. LogInv'
  <2>1. ASSUME NEW i \in 1..Len(log) PROVE log[i].nonce < nonce + 1
    <3>1. log[i].nonce \in Nat /\ nonce \in Nat /\ log[i].nonce < nonce
      BY MaxNonceAssumption, EntryType DEF IInv, LogInv, TypeOK
    <3> QED
      BY <3>1
  <2> QED
    BY <2>1 DEF IInv, LogInv
<1>3. AttemptInv' /\ NetInv' /\ ChangesInv' /\ OncePerAttempt' /\ AnswerInv'
  BY DEF IInv, AttemptInv, NetInv, ChangesInv, OncePerAttempt, AnswerInv, RunBy, PaidBy, SetBy, Refused
<1> QED
  BY <1>1, <1>2, <1>3 DEF IInv

LEMMA NextInv == IInv /\ [Next]_vars => IInv'
<1> SUFFICES ASSUME IInv, [Next]_vars PROVE IInv'
  OBVIOUS
<1>1. ASSUME NEW c \in Calls, Call(c) \/ Retry(c) PROVE IInv'
  <2>1. before' \in [Calls -> SUBSET Calls]
    BY <1>1 DEF Call, Retry, IInv, TypeOK
  <2> QED
    BY <1>1, <2>1, PostInv DEF Call, Retry
<1>2. ASSUME NEW c \in Calls, Succeed(c) \/ FailWithErrors(c) \/ AttemptFails(c) PROVE IInv'
  BY <1>2, ClientInv
<1>3. ASSUME NEW m \in net, Run(m) PROVE IInv'
  BY <1>3, RunInv
<1>4. ASSUME NEW m \in net, Reject(m) \/ AnswerRead(m) \/ GatewayError(m) PROVE IInv'
  BY <1>4, DropInv DEF Reject, AnswerRead, GatewayError, Answers
<1>5. ASSUME NEW m \in net, Apply(m) PROVE IInv'
  BY <1>5, ApplyInv
<1>6. CASE OtherWallet
  BY <1>6, OtherWalletInv
<1>7. CASE UNCHANGED vars
  <2> USE <1>7 DEF vars, clientVars, answerVars, IInv
  <2>1. TypeOK'
    BY DEF TypeOK
  <2>2. AttemptInv' /\ NetInv'
    BY DEF AttemptInv, NetInv, RunBy, PaidBy, SetBy
  <2>3. LogInv' /\ ChangesInv' /\ OncePerAttempt'
    BY DEF LogInv, ChangesInv, OncePerAttempt
  <2>4. AnswerInv'
    BY DEF AnswerInv, RunBy, PaidBy, SetBy, Refused
  <2> QED
    BY <2>1, <2>2, <2>3, <2>4
<1> QED
  BY <1>1, <1>2, <1>3, <1>4, <1>5, <1>6, <1>7 DEF Next, ClientStep, Environment

-----------------------------------------------------------------------------
(* The setting.                                                            *)

\* What setter c was told is what its run in the current attempt replaced.
ToldBefore(c) ==
  \E i \in 1..Len(changes) : /\ changes[i].call = c /\ changes[i].attempt = attempt[c]
                             /\ told[c] = Setting(i - 1)

ToldInv ==
  \A c \in Calls : want[c] \in Settings /\ (answer[c] = "data" \/ outcome[c] = "ok")
    => ToldBefore(c)

\* No setter but c was called, or only such as had been answered at once.
Alone(c) ==
  \A d \in Calls \ {c} :
    want[d] \in Settings => pc[d] = "idle" \/ (d \in before[c] /\ Prompt(d))

\* A setter that ran is in force as long as it is alone.
AloneInv ==
  \A c \in Calls : want[c] \in Settings /\ (\E a \in 1..Retries : SetBy(c, a)) /\ Alone(c)
    => InForce = want[c]

SettledBefore == \A c, d \in Calls : d \in before[c] => pc[d] = "settled"

SetterInv == ToldInv /\ SettledBefore /\ AloneInv

LEMMA SetterInitInv == Init => SetterInv
<1> SUFFICES ASSUME Init PROVE SetterInv
  OBVIOUS
<1>1. Len(changes) = 0
  BY DEF Init
<1>2. \A c, a : ~SetBy(c, a)
  BY <1>1 DEF SetBy
<1> QED
  BY <1>2 DEF Init, SetterInv, ToldInv, SettledBefore, AloneInv

\* Any step but a change of the setting.
LEMMA SetterKept ==
  ASSUME IInv, SetterInv, [Next]_vars, UNCHANGED <<want, told, changes>>,
         \A c \in Calls : pc[c] # "idle" => pc'[c] # "idle" /\ before'[c] = before[c],
         \A c \in Calls : pc[c] = "idle" =>
           \A d \in before'[c] : d \in Calls => pc[d] = "settled",
         \A c \in Calls : pc[c] = "settled" => /\ pc'[c] = "settled"
                                               /\ attempt'[c] = attempt[c]
                                               /\ outcome'[c] = outcome[c],
         \A c \in Calls : want[c] \in Settings
           /\ (answer'[c] = "data" \/ outcome'[c] = "ok") =>
           (answer[c] = "data" \/ outcome[c] = "ok") /\ attempt'[c] = attempt[c]
  PROVE  SetterInv'
<1>1. \A i : Setting(i)' = Setting(i)
  BY DEF Setting
<1>2. ToldInv'
  <2> SUFFICES ASSUME NEW c \in Calls, want[c] \in Settings,
                      answer'[c] = "data" \/ outcome'[c] = "ok"
               PROVE  ToldBefore(c)'
    BY DEF ToldInv
  <2>1. ToldBefore(c) /\ attempt'[c] = attempt[c]
    BY DEF SetterInv, ToldInv
  <2> QED
    BY <1>1, <2>1 DEF ToldBefore
<1>3. SettledBefore'
  BY DEF SetterInv, SettledBefore
<1>4. AloneInv'
  <2> SUFFICES ASSUME NEW c \in Calls, want[c] \in Settings,
                      NEW a \in 1..Retries, SetBy(c, a)', Alone(c)'
               PROVE  InForce' = want[c]
    BY DEF AloneInv
  <2>1. SetBy(c, a)
    BY DEF SetBy
  <2>2. pc[c] # "idle"
    BY <2>1 DEF SetBy, IInv, AttemptInv, ChangesInv
  <2>3. Alone(c)
    <3> SUFFICES ASSUME NEW d \in Calls \ {c}, want[d] \in Settings, pc[d] # "idle"
                 PROVE  d \in before[c] /\ Prompt(d)
      BY DEF Alone
    <3>1. d \in before'[c] /\ Prompt(d)'
      BY DEF Alone
    <3>2. d \in before[c] /\ pc[d] = "settled"
      BY <2>2, <3>1 DEF SetterInv, SettledBefore
    <3> QED
      BY <3>1, <3>2 DEF Prompt
  <2>4. InForce' = InForce
    BY DEF InForce, Setting
  <2> QED
    BY <2>1, <2>3, <2>4 DEF SetterInv, AloneInv
<1> QED
  BY <1>2, <1>3, <1>4 DEF SetterInv

\* A setter that was answered at once has no request left in the network.
LEMMA PromptDone ==
  ASSUME IInv, NEW m \in net, m.want # Read PROVE ~Prompt(m.call)
<1>1. /\ m.call \in Calls /\ m.attempt \in Nat /\ m.attempt >= 1
      /\ m.attempt <= attempt[m.call] /\ m.want = want[m.call]
      /\ ~RunBy(m.call, m.attempt)
  BY DEF IInv, TypeOK, Requests, NetInv
<1> SUFFICES ASSUME Prompt(m.call) PROVE FALSE
  OBVIOUS
<1>2. m.attempt = attempt[m.call]
  BY <1>1 DEF Prompt
<1> QED
  BY <1>1, <1>2 DEF Prompt, IInv, AnswerInv, Refused

LEMMA SetterApply == ASSUME IInv, SetterInv, NEW m \in net, Apply(m) PROVE SetterInv'
<1>1. /\ TypeOK /\ m.call \in Calls /\ m.attempt \in 1..Retries /\ m.want \in Settings
      /\ Len(changes) \in Nat /\ m.want = want[m.call] /\ m.attempt <= attempt[m.call]
  BY DEF IInv, TypeOK, Requests, Apply, NetInv
<1> DEFINE entry == [call |-> m.call, attempt |-> m.attempt, value |-> m.want]
<1>2. /\ changes' = Append(changes, entry)
      /\ UNCHANGED <<pc, want, attempt, outcome, before>>
      /\ told' = IF Awaited(m) THEN [told EXCEPT ![m.call] = InForce] ELSE told
  BY DEF Apply, clientVars
<1>3. PICK what \in {"data", "bad"} : AnswerIfAwaited(m, what)
  BY DEF Apply
<1>4. /\ Len(changes') = Len(changes) + 1
      /\ \A i \in 1..Len(changes) : changes'[i] = changes[i]
      /\ changes'[Len(changes) + 1] = entry
  BY <1>1, <1>2 DEF TypeOK
<1>5. \A i \in 0..Len(changes) : Setting(i)' = Setting(i)
  BY <1>1, <1>4 DEF Setting
<1>6. ToldInv'
  <2> SUFFICES ASSUME NEW c \in Calls, want[c] \in Settings,
                      answer'[c] = "data" \/ outcome[c] = "ok"
               PROVE  ToldBefore(c)'
    BY <1>2 DEF ToldInv
  <2>1. CASE Awaited(m) /\ c = m.call
    <3>1. outcome[c] # "ok" /\ attempt[c] = m.attempt
      BY <2>1 DEF Awaited, IInv, AttemptInv
    <3>2. told'[c] = Setting(Len(changes))
      BY <1>1, <1>2, <2>1 DEF TypeOK, InForce
    <3>3. PICK i \in Nat : i = Len(changes) + 1
      BY <1>1
    <3>4. i \in 1..Len(changes') /\ changes'[i].call = c /\ changes'[i].attempt = attempt'[c]
      BY <1>1, <1>2, <1>4, <2>1, <3>1, <3>3
    <3>5. i - 1 \in 0..Len(changes) /\ i - 1 = Len(changes)
      BY <1>1, <3>3
    <3>6. told'[c] = Setting(i - 1)'
      BY <1>5, <3>2, <3>5
    <3> QED
      BY <3>4, <3>6 DEF ToldBefore
  <2>2. CASE ~(Awaited(m) /\ c = m.call)
    <3>1. told'[c] = told[c] /\ answer'[c] = answer[c]
      BY <1>1, <1>2, <1>3, <2>2 DEF AnswerIfAwaited, TypeOK
    <3>2. ToldBefore(c)
      BY <3>1 DEF SetterInv, ToldInv
    <3>3. PICK i \in 1..Len(changes) : /\ changes[i].call = c /\ changes[i].attempt = attempt[c]
                                       /\ told[c] = Setting(i - 1)
      BY <3>2 DEF ToldBefore
    <3>4. i \in 1..Len(changes') /\ changes'[i] = changes[i] /\ i - 1 \in 0..Len(changes)
      BY <1>1, <1>4
    <3>5. told'[c] = Setting(i - 1)'
      BY <1>5, <3>1, <3>3, <3>4
    <3> QED
      BY <1>2, <3>3, <3>4, <3>5 DEF ToldBefore
  <2> QED
    BY <2>1, <2>2
<1>7. SettledBefore'
  BY <1>2 DEF SetterInv, SettledBefore
<1>8. AloneInv'
  <2> SUFFICES ASSUME NEW c \in Calls, want[c] \in Settings, Alone(c)',
                      NEW a \in 1..Retries, SetBy(c, a)'
               PROVE  InForce' = want[c]
    BY <1>2 DEF AloneInv
  <2>1. Alone(c)
    BY <1>2 DEF Alone, Prompt
  <2>2. c = m.call
    <3> SUFFICES ASSUME c # m.call PROVE FALSE
      OBVIOUS
    <3>1. pc[m.call] # "idle"
      BY <1>1 DEF IInv, AttemptInv
    <3>2. m.want # Read
      BY <1>1, SettingsAssumption DEF Read
    <3> QED
      BY <1>1, <2>1, <3>1, <3>2, PromptDone DEF Alone
  <2>3. InForce' = m.want
    BY <1>1, <1>4 DEF InForce, Setting
  <2> QED
    BY <1>1, <2>2, <2>3
<1> QED
  BY <1>6, <1>7, <1>8 DEF SetterInv

LEMMA SetterNextInv == IInv /\ SetterInv /\ [Next]_vars => SetterInv'
<1> SUFFICES ASSUME IInv, SetterInv, [Next]_vars PROVE SetterInv'
  OBVIOUS
<1>1. TypeOK
  BY DEF IInv
<1>2. ASSUME NEW c \in Calls, Call(c) \/ Retry(c) PROVE SetterInv'
  <2>1. /\ pc[c] \in {"idle", "sleeping"} /\ pc' = [pc EXCEPT ![c] = "posting"]
        /\ attempt' = [attempt EXCEPT ![c] = @ + 1]
        /\ answer' = [answer EXCEPT ![c] = "none"]
        /\ UNCHANGED <<want, outcome, told, changes>>
    BY <1>2 DEF Call, Retry, Post
  <2>2. \/ before' = before
        \/ pc[c] = "idle" /\ before' = [before EXCEPT ![c] = {d \in Calls : pc[d] = "settled"}]
    BY <1>2 DEF Call, Retry
  <2>3. outcome[c] = "none"
    BY <1>1, <2>1 DEF IInv, AttemptInv, TypeOK
  <2>4. ASSUME NEW d \in Calls
        PROVE  /\ pc[d] # "idle" => pc'[d] # "idle" /\ before'[d] = before[d]
               /\ pc[d] = "idle" => \A e \in before'[d] : e \in Calls => pc[e] = "settled"
    BY <1>1, <2>1, <2>2 DEF TypeOK, SetterInv, SettledBefore
  <2>5. ASSUME NEW d \in Calls
        PROVE  /\ pc[d] = "settled" => /\ pc'[d] = "settled" /\ attempt'[d] = attempt[d]
                                       /\ outcome'[d] = outcome[d]
               /\ answer'[d] = "data" \/ outcome'[d] = "ok" =>
                    /\ answer[d] = "data" \/ outcome[d] = "ok"
                    /\ attempt'[d] = attempt[d]
    BY <1>1, <2>1, <2>3 DEF TypeOK
  <2> QED
    BY <2>1, <2>4, <2>5, SetterKept
<1>3. ASSUME NEW c \in Calls, Succeed(c) \/ FailWithErrors(c) \/ AttemptFails(c)
      PROVE  SetterInv'
  <2>1. /\ pc[c] = "posting" /\ UNCHANGED <<want, attempt, before, told, changes>>
        /\ \E next \in {"settled", "sleeping"} : pc' = [pc EXCEPT ![c] = next]
        /\ answer' = [answer EXCEPT ![c] = "none"]
    BY <1>3 DEF Succeed, FailWithErrors, AttemptFails, Settle
  <2>2. \/ outcome' = outcome
        \/ outcome' = [outcome EXCEPT ![c] = "ok"] /\ answer[c] = "data"
        \/ outcome' = [outcome EXCEPT ![c] = "graphqlError"]
        \/ outcome' = [outcome EXCEPT ![c] = "connection"]
    BY <1>3 DEF Succeed, FailWithErrors, AttemptFails, Settle
  <2>3. ASSUME NEW d \in Calls
        PROVE  /\ pc[d] # "idle" => pc'[d] # "idle"
               /\ pc[d] = "settled" => pc'[d] = "settled" /\ outcome'[d] = outcome[d]
               /\ answer'[d] = "data" \/ outcome'[d] = "ok" =>
                    answer[d] = "data" \/ outcome[d] = "ok"
    BY <1>1, <2>1, <2>2 DEF TypeOK
  <2> QED
    BY <2>1, <2>3, SetterKept DEF SetterInv, SettledBefore
<1>4. ASSUME NEW m \in net, Run(m) \/ Reject(m) \/ AnswerRead(m) \/ GatewayError(m)
      PROVE  SetterInv'
  <2>1. UNCHANGED <<pc, want, attempt, outcome, before, told, changes>>
    BY <1>4 DEF Run, Reject, AnswerRead, GatewayError, clientVars
  <2>2. m \in Requests /\ m.want = want[m.call]
    BY <1>1 DEF IInv, TypeOK, NetInv
  <2>3. ASSUME NEW d \in Calls, want[d] \in Settings, answer'[d] = "data"
        PROVE  answer[d] = "data"
    <3>1. CASE Run(m) \/ AnswerRead(m)
      <4>1. m.want \notin Settings
        BY <1>1, <3>1, SettingsAssumption, MaxNonceAssumption
        DEF Run, AnswerRead, Open, Read, TypeOK
      <4>2. d # m.call
        BY <2>2, <2>3, <4>1
      <4> QED
        BY <1>1, <2>3, <3>1, <4>2, AnswerFor DEF Run, AnswerRead, Answers
    <3>2. CASE Reject(m) \/ GatewayError(m)
      BY <1>1, <2>3, <3>2, AnswerFor DEF Reject, GatewayError, Answers
    <3> QED
      BY <1>4, <3>1, <3>2
  <2> QED
    BY <2>1, <2>3, SetterKept DEF SetterInv, SettledBefore
<1>5. ASSUME NEW m \in net, Apply(m) PROVE SetterInv'
  BY <1>5, SetterApply
<1>6. CASE OtherWallet \/ UNCHANGED vars
  <2>1. UNCHANGED <<pc, want, attempt, answer, outcome, before, told, changes>>
    BY <1>6 DEF OtherWallet, vars, clientVars, answerVars
  <2> QED
    BY <2>1, SetterKept DEF SetterInv, SettledBefore
<1> QED
  BY <1>2, <1>3, <1>4, <1>5, <1>6 DEF Next, ClientStep, Environment

-----------------------------------------------------------------------------
(* The theorems.                                                           *)

\* Every reachable state satisfies the inductive invariant.
THEOREM Invariance == Spec => []IInv
<1> QED
  BY InitInv, NextInv, PTL DEF Spec

\* All variables keep their types.
THEOREM TypeCorrect == Spec => []TypeOK
<1>1. IInv => TypeOK
  BY DEF IInv
<1> QED
  BY <1>1, Invariance, PTL

\* A payment that names its nonce runs at most once, with that nonce.
THEOREM NamedNonceRunsOnce == Spec => []NamedNonceOnce
<1>1. IInv => NamedNonceOnce
  <2> SUFFICES ASSUME IInv, NEW c \in Calls, want[c] \in Nonces
               PROVE  /\ \A i, j \in RunsOf(c) : i = j
                      /\ \A i \in RunsOf(c) : log[i].nonce = want[c]
    BY DEF NamedNonceOnce
  <2>1. \A i \in RunsOf(c) : log[i].nonce = want[c]
    BY DEF RunsOf, IInv, LogInv, Nonces, Open
  <2>2. ASSUME NEW i \in RunsOf(c), NEW j \in RunsOf(c) PROVE i = j
    <3>1. i \in 1..Len(log) /\ j \in 1..Len(log) /\ log[i].nonce = log[j].nonce
          /\ log[i].nonce \in Int
      BY <2>1 DEF RunsOf, Nonces
    <3>2. ~(i < j) /\ ~(j < i)
      BY <3>1 DEF IInv, LogInv
    <3> QED
      BY <3>1, <3>2
  <2> QED
    BY <2>1, <2>2
<1> QED
  BY <1>1, Invariance, PTL

\* No payment runs more often than the configured number of attempts.
THEOREM RunsAreBounded == Spec => []RunsBounded
<1>1. IInv => RunsBounded
  <2> SUFFICES ASSUME IInv, NEW c \in Calls PROVE Cardinality(RunsOf(c)) <= Retries
    BY DEF RunsBounded
  <2> DEFINE f == [i \in RunsOf(c) |-> log[i].attempt]
  <2>1. \A i \in RunsOf(c) : f[i] \in 1..Retries
    BY EntryType DEF RunsOf, IInv
  <2>2. \A i, j \in RunsOf(c) : f[i] = f[j] => i = j
    BY DEF RunsOf, IInv, OncePerAttempt
  <2>3. f \in Injection(RunsOf(c), 1..Retries)
    BY <2>1, <2>2 DEF Injection, IsInjective
  <2>4. IsFiniteSet(1..Retries) /\ Cardinality(1..Retries) = Retries
    BY RetriesAssumption, FS_Interval
  <2> QED
    BY <2>3, <2>4, FS_Injection
<1> QED
  BY <1>1, Invariance, PTL

\* A payment that returns was run by the attempt that returned.
THEOREM ResultMeansRun == Spec => []OkMeansRan
<1>1. IInv => OkMeansRan
  BY DEF IInv, AnswerInv, OkMeansRan
<1> QED
  BY <1>1, Invariance, PTL

\* A GraphQL error of the first attempt means no run, now or later.
THEOREM FirstErrorMeansNoRun == Spec => []FirstErrorHonest
<1>1. IInv => FirstErrorHonest
  <2> SUFFICES ASSUME IInv, NEW c \in Calls, outcome[c] = "graphqlError", attempt[c] = 1
               PROVE  ~RunBy(c, 1) /\ \A m \in net : m.call # c
    BY DEF FirstErrorHonest
  <2>1. Refused(c)
    BY DEF IInv, AnswerInv
  <2>2. \A m \in net : m.call = c => m.attempt = 1
    BY DEF IInv, NetInv, TypeOK, Requests
  <2> QED
    BY <2>1, <2>2 DEF Refused
<1> QED
  BY <1>1, Invariance, PTL

LEMMA SetterInvariance == Spec => [](IInv /\ SetterInv)
<1> QED
  BY InitInv, NextInv, SetterInitInv, SetterNextInv, PTL DEF Spec

\* A setter that returns is in force, unless another setter was called since or
\* one before it had not been answered at once.
THEOREM SetterStaysInForce == Spec => []SetterInForce
<1>1. IInv /\ SetterInv => SetterInForce
  <2> SUFFICES ASSUME IInv, SetterInv, NEW c \in Calls, want[c] \in Settings,
                      outcome[c] = "ok", Alone(c)
               PROVE  InForce = want[c]
    BY DEF SetterInForce, Alone
  <2>1. RunBy(c, attempt[c]) /\ attempt[c] \in 0..Retries /\ want[c] \notin Int
    BY SettingsAssumption DEF IInv, AnswerInv, Read, TypeOK
  <2>2. ~PaidBy(c, attempt[c])
    <3> SUFFICES ASSUME NEW i \in 1..Len(log), log[i].call = c PROVE FALSE
      BY DEF PaidBy
    <3>1. log[i].nonce \in Nat /\ want[c] \in {log[i].nonce, Open}
      BY EntryType DEF IInv, LogInv
    <3> QED
      BY <2>1, <3>1 DEF Open
  <2>3. SetBy(c, attempt[c]) /\ attempt[c] \in 1..Retries
    <3>1. SetBy(c, attempt[c])
      BY <2>1, <2>2 DEF RunBy
    <3>2. attempt[c] \in 1..Retries
      BY <3>1, ChangeType DEF SetBy, IInv
    <3> QED
      BY <3>1, <3>2
  <2> QED
    BY <2>3 DEF SetterInv, AloneInv
<1> QED
  BY <1>1, SetterInvariance, PTL

\* The value that a setter returns is the one its own run replaced.
THEOREM PreviousIsHonest == Spec => []PreviousHonest
<1>1. IInv /\ SetterInv => PreviousHonest
  BY DEF SetterInv, ToldInv, ToldBefore, PreviousHonest
<1> QED
  BY <1>1, SetterInvariance, PTL
=============================================================================
