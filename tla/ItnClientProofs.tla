--------------------------- MODULE ItnClientProofs ---------------------------
(***************************************************************************)
(* Proofs about ItnClient, for every number of calls, attempts, sequence   *)
(* numbers and incarnations: its types, the order and uniqueness of the    *)
(* daemon's runs, what outcomes mean, when the session is the daemon's,    *)
(* and that ItnClient implements the safety part of ItnContract.           *)
(***************************************************************************)
EXTENDS ItnClient, TLAPS

TaskPlaces == {"ready", "authPosting", "authPause", "posting"}

Sent(c) == Ran(c) \/ OnTheWire(c)

\* Places and queue agree.
QueueInv ==
  \A c \in Calls : /\ pc[c] = "idle" <=> c > arrived
                   /\ pc[c] = "waiting" <=> c \in waiting
                   /\ pc[c] \in TaskPlaces <=> holder = c

\* A request leaves only from a task, and its call precedes all that have not
\* settled.
SentInv ==
  /\ \A c \in Calls : Sent(c) => pc[c] \in {"posting", "settled"}
  /\ \A c, d \in Calls : /\ Sent(c) \/ pc[c] \in TaskPlaces
                         /\ pc[d] # "settled"
                         /\ c # d
                         => c < d

\* A call has one request on its way, and none once the daemon ran one.
WireInv ==
  /\ \A m, n \in wire : m.call = n.call => m = n
  /\ \A m \in wire : ~Ran(m.call)
  /\ \A m \in wire : pc[m.call] = "posting" => m.at = local[m.call].used

\* No one knows of an incarnation before it starts.
UuidInv ==
  /\ \A m \in wire : m.at.uuid <= daemon.uuid
  /\ session.uuid <= daemon.uuid
  /\ \A c \in Calls : local[c].answer.session.uuid <= daemon.uuid

\* A request that the daemon would run comes after all that it ran.
FenceInv ==
  \A m \in wire : m.at = daemon => \A i \in 1..Len(log) : log[i] < m.call

\* What an answer that has come back says.
AnswerInv ==
  \A c \in Calls :
    /\ local[c].answer # NoAnswer => pc[c] \in {"authPosting", "posting"}
    /\ pc[c] = "posting" /\ local[c].answer.status \in {"data", "errors"} => Ran(c)
    /\ local[c].answer.status \in {"stale", "unauthorized"} => ~Sent(c)
    /\ pc[c] = "authPosting" /\ local[c].answer.status = "data"
         => /\ local[c].answer.session \in Sessions
            /\ answerMoves = {} => local[c].answer.session = daemon

\* A pause follows an attempt that was not the last.
AttemptInv == \A c \in Calls : pc[c] = "authPause" => local[c].attempt < Retries

OutcomeInv == \A c \in Calls : outcome[c] # "none" => pc[c] = "settled"

\* The session is the daemon's, but one behind it once the daemon counted the
\* request under way.
Counted == \E c \in Calls : pc[c] = "posting" /\ Ran(c)
SessionInv ==
  (session # NoSession /\ sessionMoves = {})
    => daemon = IF Counted THEN Successor(session) ELSE session

SentSession == \A c \in Calls : pc[c] = "posting" => local[c].used \in Sessions

IInv == /\ TypeOK /\ QueueInv /\ SentInv /\ WireInv /\ UuidInv /\ FenceInv
        /\ AnswerInv /\ AttemptInv /\ OutcomeInv /\ InOrder /\ OutcomeHonest
        /\ SessionStable /\ SentSession /\ SessionInv /\ StaleOnlyIfMoved
        /\ LastAuthOfSession

-----------------------------------------------------------------------------
(* Types.                                                                  *)

LEMMA Distinct == NoSession \notin Sessions /\ \A s \in Sessions : s # NoSession
BY DEF NoSession, Sessions

LEMMA SuccessorType == \A s \in Sessions : Successor(s) \in Sessions
BY SeqModAssumption DEF Successor, Sessions

LEMMA BlankType == Blank("query") \in Locals /\ \A k \in Kinds : Blank(k) \in Locals
BY RetriesAssumption DEF Blank, Locals, Kinds

\* The part of TypeOK that Settle and Proceed establish.
CallTypes == /\ Lock!TypeOK
             /\ pc \in [Calls -> Places]
             /\ local \in [Calls -> Locals]
             /\ outcome \in [Calls -> Outcomes]

LEMMA SettleType ==
  ASSUME TypeOK, NEW c \in Calls, NEW how \in Outcomes, Settle(c, how)
  PROVE  CallTypes'
BY BlankType DEF TypeOK, CallTypes, Settle, Lock!TypeOK, Lock!Release, Lock!Tickets,
     Lock!Nobody, Places

LEMMA ProceedType ==
  ASSUME TypeOK, NEW c \in Calls, NEW place \in Places, NEW l \in Locals,
         Proceed(c, place, l)
  PROVE  CallTypes'
BY DEF TypeOK, CallTypes, Proceed, Lock!TypeOK, queueVars, Lock!Tickets

LEMMA CallerType ==
  ASSUME IInv, NEW c \in Calls, CallerStep(c) \/ Start(c)
  PROVE  TypeOK'
<1> USE DEF IInv, TypeOK, sessionVars, daemonVars, callVars, queueVars, Lock!TypeOK,
          Lock!Tickets, Lock!Nobody, Calls
<1>1. ASSUME NEW k \in Kinds, Call(c, k) PROVE TypeOK'
  <2>1. Blank(k) \in Locals
    BY BlankType
  <2> QED
    BY <1>1, <2>1 DEF Call, Lock!Join, Places
<1>2. CASE CallAborted(c)
  BY <1>2 DEF CallAborted, Lock!TurnAway, Places, Outcomes
<1>3. CASE AbortWaiting(c)
  BY <1>3, BlankType DEF AbortWaiting, Lock!Abandon, Places, Outcomes
<1>4. CASE AbortRunning(c)
  BY <1>4 DEF AbortRunning
<1>5. CASE Start(c)
  BY <1>5 DEF Start, Lock!Grant, Places
<1> QED
  BY <1>1, <1>2, <1>3, <1>4, <1>5 DEF CallerStep

LEMMA TaskType ==
  ASSUME IInv, NEW c \in Calls, TaskStep(c)
  PROVE  TypeOK'
<1>0. TypeOK /\ local[c] \in Locals
  BY DEF IInv, TypeOK
<1> SUFFICES ASSUME TRUE
             PROVE  /\ CallTypes'
                    /\ session' \in Sessions \union {NoSession}
                    /\ latestAuth' \in 0..MaxUuid
                    /\ sessionMoves' \subseteq Moves
                    /\ wire' \subseteq [call : Calls, at : Sessions]
                    /\ UNCHANGED <<daemon, keyKnown, log, answerMoves, aborted>>
  BY <1>0 DEF TypeOK, CallTypes
<1> USE DEF sessionVars, daemonVars
<1>1. CASE StartHandshake(c)
  <2>1. [local[c] EXCEPT !.attempt = 1] \in Locals
    BY <1>0, RetriesAssumption DEF Locals
  <2> QED
    BY <1>0, <1>1, <2>1, ProceedType DEF StartHandshake, TypeOK, Places
<1>2. CASE HandshakeSucceeds(c)
  <2>1. [local[c] EXCEPT !.attempt = 0, !.answer = NoAnswer] \in Locals
    <3> DEFINE l == [local[c] EXCEPT !.attempt = 0]
    <3>1. l \in Locals
      BY <1>0, RetriesAssumption DEF Locals
    <3>2. [l EXCEPT !.answer = NoAnswer] \in Locals
      BY <3>1 DEF Locals
    <3> QED
      BY <3>2
  <2>2. local[c].answer \in Answers \union {NoAnswer}
    BY <1>0 DEF Locals
  <2>3. local[c].answer.session \in Sessions \union {NoSession}
    BY <2>2 DEF Answers, NoAnswer
  <2>4. local[c].answer.session.uuid \in 0..MaxUuid
    BY <2>3, MaxUuidAssumption DEF Sessions, NoSession
  <2>5. CallTypes'
    BY <1>0, <1>2, <2>1, SettleType, ProceedType DEF HandshakeSucceeds, Places, Outcomes
  <2> QED
    BY <1>0, <1>2, <2>3, <2>4, <2>5 DEF HandshakeSucceeds, TypeOK
<1>3. CASE HandshakeRefused(c)
  BY <1>0, <1>3, SettleType DEF HandshakeRefused, TypeOK, Outcomes
<1>4. CASE HandshakeAttemptFails(c)
  <2>1. [local[c] EXCEPT !.answer = NoAnswer] \in Locals
    BY <1>0 DEF Locals
  <2> QED
    BY <1>0, <1>4, <2>1, SettleType, ProceedType
       DEF HandshakeAttemptFails, TypeOK, Places, Outcomes
<1>5. CASE HandshakeAborted(c)
  BY <1>0, <1>5, SettleType DEF HandshakeAborted, TypeOK, Outcomes
<1>6. CASE RetryHandshake(c)
  <2>1. local[c].attempt < Retries
    BY <1>6 DEF IInv, AttemptInv, RetryHandshake
  <2>2. [local[c] EXCEPT !.attempt = @ + 1] \in Locals
    BY <1>0, <2>1, RetriesAssumption DEF Locals
  <2> QED
    BY <1>0, <1>6, <2>2, ProceedType DEF RetryHandshake, TypeOK, Places
<1>7. CASE SendQuery(c)
  <2>1. session \in Sessions
    BY <1>0, <1>7 DEF SendQuery, TypeOK
  <2>2. [local[c] EXCEPT !.used = session] \in Locals
    BY <1>0, <2>1 DEF Locals
  <2> QED
    BY <1>0, <1>7, <2>1, <2>2, ProceedType DEF SendQuery, TypeOK, Places
<1>8. CASE PostFails(c)
  BY <1>0, <1>8, SettleType DEF PostFails, DropSession, TypeOK, Outcomes
<1>9. CASE QueryStale(c)
  <2>1. [Blank("query") EXCEPT !.pass = 2] \in Locals
    BY BlankType DEF Locals
  <2> QED
    BY <1>0, <1>9, <2>1, SettleType, ProceedType
       DEF QueryStale, DropSession, TypeOK, Places, Outcomes
<1>10. CASE QueryUnauthorized(c) \/ QueryHttpError(c)
  BY <1>0, <1>10, SettleType
     DEF QueryUnauthorized, QueryHttpError, DropSession, TypeOK, Outcomes
<1>11. CASE QueryAnswered(c)
  <2>1. session = local[c].used /\ session \in Sessions
    BY <1>11 DEF IInv, SessionStable, SentSession, QueryAnswered
  <2>2. session' \in Sessions
    BY <1>11, <2>1, SeqModAssumption DEF QueryAnswered, Sessions
  <2> QED
    BY <1>0, <1>11, <2>2, SettleType DEF QueryAnswered, TypeOK, Outcomes
<1> QED
  BY <1>1, <1>2, <1>3, <1>4, <1>5, <1>6, <1>7, <1>8, <1>9, <1>10, <1>11 DEF TaskStep

LEMMA AnswerType ==
  ASSUME TypeOK, NEW c \in Calls, NEW status \in Statuses,
         NEW s \in Sessions \union {NoSession}, Answer(c, status, s)
  PROVE  local' \in [Calls -> Locals]
<1>1. [status |-> status, session |-> s] \in Answers
  BY DEF Answers
<1>2. local[c] \in Locals
  BY DEF TypeOK
<1>3. [local[c] EXCEPT !.answer = [status |-> status, session |-> s]] \in Locals
  BY <1>1, <1>2 DEF Locals
<1> QED
  BY <1>3 DEF TypeOK, Answer

LEMMA EnvironmentType == ASSUME IInv, Environment PROVE TypeOK'
<1>0. TypeOK
  BY DEF IInv
<1> USE DEF sessionVars, daemonVars, queueVars, callVars
<1>1. ASSUME NEW c \in Calls, AnswerAuth(c) PROVE TypeOK'
  <2>1. local' \in [Calls -> Locals]
    BY <1>0, <1>1, AnswerType DEF AnswerAuth, Statuses, TypeOK
  <2> QED
    BY <1>0, <1>1, <2>1 DEF AnswerAuth, TypeOK, Lock!TypeOK
<1>2. ASSUME NEW c \in Calls, GatewayError(c) PROVE TypeOK'
  <2>1. local' \in [Calls -> Locals]
    BY <1>0, <1>2, AnswerType DEF GatewayError, Statuses
  <2> QED
    BY <1>0, <1>2, <2>1 DEF GatewayError, TypeOK, Lock!TypeOK
<1>3. ASSUME NEW m \in wire, Accept(m) PROVE TypeOK'
  <2>1. m.call \in Calls
    BY <1>0 DEF TypeOK
  <2>2. local' \in [Calls -> Locals]
    BY <1>0, <1>3, <2>1, AnswerType DEF Accept, Statuses, TypeOK
  <2>3. daemon' \in Sessions /\ wire' \subseteq wire
    BY <1>0, <1>3, SuccessorType DEF Accept, CountOne, TypeOK
  <2>4. log' \in Seq(Calls)
    BY <1>0, <1>3, <2>1 DEF Accept, TypeOK
  <2>5. answerMoves' \subseteq Moves /\ sessionMoves' \subseteq Moves
    BY <1>0, <1>3 DEF Accept, Moved, Moves, TypeOK
  <2> QED
    BY <1>0, <1>3, <2>2, <2>3, <2>4, <2>5 DEF Accept, TypeOK, Lock!TypeOK
<1>4. ASSUME NEW m \in wire, Refuse(m) PROVE TypeOK'
  <2>1. m.call \in Calls
    BY <1>0 DEF TypeOK
  <2>2. local' \in [Calls -> Locals]
    BY <1>0, <1>4, <2>1, AnswerType DEF Refuse, Statuses, TypeOK
  <2> QED
    BY <1>0, <1>4, <2>2 DEF Refuse, TypeOK, Lock!TypeOK
<1>5. CASE OtherClient
  <2>1. daemon' \in Sessions /\ wire' \subseteq wire
    BY <1>0, <1>5, SuccessorType DEF OtherClient, CountOne, TypeOK
  <2> QED
    BY <1>0, <1>5, <2>1 DEF OtherClient, Moved, Moves, TypeOK, Lock!TypeOK
<1>6. CASE Restart
  <2>1. daemon' \in Sessions
    BY <1>0, <1>6, SeqModAssumption, MaxUuidAssumption DEF Restart, Sessions, TypeOK
  <2> QED
    BY <1>0, <1>6, <2>1 DEF Restart, Moved, Moves, TypeOK, Lock!TypeOK
<1> QED
  BY <1>1, <1>2, <1>3, <1>4, <1>5, <1>6 DEF Environment

-----------------------------------------------------------------------------
(* What the steps have in common.                                          *)

\* A step of a task: only its call moves, it stays in its task or settles,
\* and its answer is used up.
TaskEffect(c) ==
  /\ pc[c] \in TaskPlaces /\ holder = c
  /\ \A d \in Calls : d # c => /\ pc'[d] = pc[d]
                               /\ local'[d] = local[d]
                               /\ outcome'[d] = outcome[d]
                               /\ pc[d] \notin TaskPlaces
  /\ \/ pc'[c] = "settled" /\ holder' = 0
     \/ pc'[c] \in TaskPlaces /\ holder' = c /\ outcome'[c] = outcome[c]
  /\ local'[c].answer = NoAnswer
  /\ UNCHANGED <<arrived, waiting, daemon, log, answerMoves>>

LEMMA TaskStepEffect ==
  ASSUME IInv, NEW c \in Calls, TaskStep(c)
  PROVE  TaskEffect(c)
<1> USE DEF TaskPlaces
<1>1. /\ pc \in [Calls -> Places] /\ local \in [Calls -> Locals]
      /\ outcome \in [Calls -> Outcomes]
  BY DEF IInv, TypeOK
<1>2. pc[c] \in TaskPlaces
  BY DEF TaskStep, StartHandshake, HandshakeSucceeds, HandshakeRefused,
         HandshakeAttemptFails, HandshakeAborted, RetryHandshake, SendQuery, PostFails,
         QueryStale, QueryUnauthorized, QueryHttpError, QueryAnswered
<1>3. holder = c /\ \A d \in Calls : d # c => pc[d] \notin TaskPlaces
  BY <1>2 DEF IInv, QueueInv
<1>4. ASSUME NEW how, Settle(c, how), UNCHANGED <<daemon, log, answerMoves>>
      PROVE  TaskEffect(c)
  BY <1>1, <1>2, <1>3, <1>4 DEF TaskEffect, Settle, Blank, Lock!Release, Lock!Nobody
<1>5. ASSUME NEW place \in TaskPlaces, NEW l, Proceed(c, place, l),
             l.answer = NoAnswer, UNCHANGED <<daemon, log, answerMoves>>
      PROVE  TaskEffect(c)
  BY <1>1, <1>2, <1>3, <1>5 DEF TaskEffect, Proceed, queueVars
<1>6. pc[c] \in {"ready", "authPause"} => local[c].answer = NoAnswer
  BY DEF IInv, AnswerInv
<1>7. local[c] \in Locals
  BY <1>1
<1> USE DEF daemonVars, sessionVars, Locals
<1>8. CASE StartHandshake(c)
  <2>1. [local[c] EXCEPT !.attempt = 1].answer = NoAnswer
    BY <1>6, <1>7, <1>8 DEF StartHandshake
  <2> QED
    BY <1>5, <1>8, <2>1 DEF StartHandshake
<1>9. CASE RetryHandshake(c)
  <2>1. [local[c] EXCEPT !.attempt = @ + 1].answer = NoAnswer
    BY <1>6, <1>7, <1>9 DEF RetryHandshake
  <2> QED
    BY <1>5, <1>9, <2>1 DEF RetryHandshake
<1>10. CASE SendQuery(c)
  <2>1. [local[c] EXCEPT !.used = session].answer = NoAnswer
    BY <1>6, <1>7, <1>10 DEF SendQuery
  <2> QED
    BY <1>5, <1>10, <2>1 DEF SendQuery
<1>11. CASE HandshakeSucceeds(c)
  <2>1. [local[c] EXCEPT !.attempt = 0, !.answer = NoAnswer].answer = NoAnswer
    BY <1>7
  <2> QED
    BY <1>4, <1>5, <1>11, <2>1 DEF HandshakeSucceeds
<1>12. CASE HandshakeAttemptFails(c)
  <2>1. [local[c] EXCEPT !.answer = NoAnswer].answer = NoAnswer
    BY <1>7
  <2> QED
    BY <1>4, <1>5, <1>12, <2>1 DEF HandshakeAttemptFails
<1>13. CASE QueryStale(c)
  <2>1. [Blank("query") EXCEPT !.pass = 2].answer = NoAnswer
    BY DEF Blank
  <2> QED
    BY <1>4, <1>5, <1>13, <2>1 DEF QueryStale
<1>14. CASE HandshakeRefused(c)
  BY <1>4, <1>14 DEF HandshakeRefused
<1>15. CASE HandshakeAborted(c) \/ PostFails(c) \/ QueryUnauthorized(c)
            \/ QueryHttpError(c) \/ QueryAnswered(c)
  BY <1>4, <1>15 DEF HandshakeAborted, PostFails, QueryUnauthorized, QueryHttpError,
                     QueryAnswered
<1> QED
  BY <1>8, <1>9, <1>10, <1>11, <1>12, <1>13, <1>14, <1>15 DEF TaskStep

\* Only SendQuery puts a request on the wire, and only it leads to a post.
LEMMA TaskStepWire ==
  ASSUME IInv, NEW c \in Calls, TaskStep(c)
  PROVE  \/ SendQuery(c)
         \/ wire' = wire /\ pc'[c] # "posting"
<1>1. pc \in [Calls -> Places]
  BY DEF IInv, TypeOK
<1> QED
  BY <1>1 DEF TaskStep, StartHandshake, HandshakeSucceeds, HandshakeRefused,
       HandshakeAttemptFails, HandshakeAborted, RetryHandshake, PostFails, QueryStale,
       QueryUnauthorized, QueryHttpError, QueryAnswered, Settle, Proceed, daemonVars

\* The log after Append.
LEMMA AppendLog ==
  ASSUME log \in Seq(Calls), NEW c \in Calls, log' = Append(log, c)
  PROVE  /\ Len(log') = Len(log) + 1
         /\ \A i \in 1..Len(log) : log'[i] = log[i]
         /\ log'[Len(log) + 1] = c
         /\ \A d : Ran(d)' <=> Ran(d) \/ d = c
<1>1. Len(log) \in Nat /\ Len(log') = Len(log) + 1
  OBVIOUS
<1>2. \A i \in 1..Len(log) : log'[i] = log[i]
  OBVIOUS
<1>3. log'[Len(log) + 1] = c
  OBVIOUS
<1> QED
  BY <1>1, <1>2, <1>3 DEF Ran

\* A step of the daemon or the network: the calls stay where they are, nothing
\* is sent, and what ran has run.
EnvironmentEffect ==
  /\ UNCHANGED <<arrived, waiting, holder, session, latestAuth, pc, outcome, aborted>>
  /\ \A d \in Calls : local'[d].used = local[d].used /\ local'[d].attempt = local[d].attempt
  /\ wire' \subseteq wire
  /\ \A d \in Calls : Ran(d) => Ran(d)'
  /\ \A d \in Calls : Sent(d)' => Sent(d)

LEMMA AnswerEffect ==
  ASSUME TypeOK, NEW c \in Calls, NEW status, NEW s, Answer(c, status, s)
  PROVE  /\ \A d \in Calls : /\ local'[d].used = local[d].used
                             /\ local'[d].attempt = local[d].attempt
                             /\ d # c => local'[d] = local[d]
         /\ local'[c].answer = [status |-> status, session |-> s]
<1>1. local[c] \in Locals
  BY DEF TypeOK
<1> QED
  BY <1>1 DEF TypeOK, Answer, Locals

LEMMA EnvironmentStepEffect == IInv /\ Environment => EnvironmentEffect
<1> SUFFICES ASSUME IInv, Environment PROVE EnvironmentEffect
  OBVIOUS
<1>0. TypeOK
  BY DEF IInv
<1> USE DEF EnvironmentEffect, sessionVars, daemonVars, queueVars, callVars, Sent
<1>1. ASSUME NEW c \in Calls, AnswerAuth(c) PROVE EnvironmentEffect
  <2>1. \A d \in Calls : local'[d].used = local[d].used /\ local'[d].attempt = local[d].attempt
    BY <1>0, <1>1, AnswerEffect DEF AnswerAuth
  <2> QED
    BY <1>1, <2>1 DEF AnswerAuth, Ran, OnTheWire
<1>2. ASSUME NEW c \in Calls, GatewayError(c) PROVE EnvironmentEffect
  <2>1. \A d \in Calls : local'[d].used = local[d].used /\ local'[d].attempt = local[d].attempt
    BY <1>0, <1>2, AnswerEffect DEF GatewayError
  <2> QED
    BY <1>2, <2>1 DEF GatewayError, Ran, OnTheWire
<1>3. ASSUME NEW m \in wire, Accept(m) PROVE EnvironmentEffect
  <2>1. m.call \in Calls /\ log \in Seq(Calls)
    BY <1>0 DEF TypeOK
  <2>2. \A d \in Calls : local'[d].used = local[d].used /\ local'[d].attempt = local[d].attempt
    BY <1>0, <1>3, <2>1, AnswerEffect DEF Accept
  <2>3. wire' \subseteq wire
    BY <1>3 DEF Accept, CountOne
  <2>4. \A d \in Calls : Ran(d)' <=> Ran(d) \/ d = m.call
    BY <1>3, <2>1, AppendLog DEF Accept
  <2>5. \A d \in Calls : Sent(d)' => Sent(d)
    BY <2>3, <2>4 DEF OnTheWire
  <2> QED
    BY <1>3, <2>2, <2>3, <2>4, <2>5 DEF Accept
<1>4. ASSUME NEW m \in wire, Refuse(m) PROVE EnvironmentEffect
  <2>1. m.call \in Calls
    BY <1>0 DEF TypeOK
  <2>2. \A d \in Calls : local'[d].used = local[d].used /\ local'[d].attempt = local[d].attempt
    BY <1>0, <1>4, <2>1, AnswerEffect DEF Refuse
  <2> QED
    BY <1>4, <2>2 DEF Refuse, Ran, OnTheWire
<1>5. CASE OtherClient \/ Restart
  <2>1. wire' \subseteq wire
    BY <1>5 DEF OtherClient, Restart, CountOne
  <2> QED
    BY <1>5, <2>1 DEF OtherClient, Restart, Ran, OnTheWire
<1> QED
  BY <1>1, <1>2, <1>3, <1>4, <1>5 DEF Environment

\* A caller's step, or the start of a task: no request, no answer, and the
\* call keeps its locals or has none yet.
CallerEffect(c) ==
  /\ \A d \in Calls : d # c => /\ pc'[d] = pc[d]
                               /\ outcome'[d] = outcome[d]
                               /\ local'[d] = local[d]
  /\ local'[c] = local[c] \/ local'[c].answer = NoAnswer
  /\ \/ pc'[c] = pc[c] /\ outcome'[c] = outcome[c] /\ local'[c] = local[c]
     \/ /\ pc[c] \in {"idle", "waiting"}
        /\ \/ pc'[c] = "settled" /\ outcome'[c] = "aborted"
           \/ pc'[c] \in {"waiting", "ready"} /\ outcome'[c] = outcome[c]
  /\ UNCHANGED <<session, latestAuth, sessionMoves, wire, daemon, log, answerMoves>>

LEMMA CallerStepEffect ==
  ASSUME IInv, NEW c \in Calls, CallerStep(c) \/ Start(c)
  PROVE  CallerEffect(c)
<1>1. /\ pc \in [Calls -> Places] /\ local \in [Calls -> Locals]
      /\ outcome \in [Calls -> Outcomes]
  BY DEF IInv, TypeOK
<1>2. /\ pc[c] = "idle" <=> c > arrived
      /\ pc[c] = "waiting" <=> c \in waiting
      /\ arrived \in Nat
  BY DEF IInv, QueueInv, TypeOK, Lock!TypeOK
<1> USE <1>1, <1>2 DEF CallerEffect, sessionVars, daemonVars, callVars
<1>3. ASSUME NEW k \in Kinds, Call(c, k) PROVE CallerEffect(c)
  BY <1>3 DEF Call, Lock!Join, Blank
<1>4. CASE CallAborted(c)
  BY <1>4 DEF CallAborted, Lock!TurnAway
<1>5. CASE AbortWaiting(c)
  BY <1>5 DEF AbortWaiting, Blank
<1>6. CASE AbortRunning(c)
  BY <1>6 DEF AbortRunning
<1>7. CASE Start(c)
  BY <1>7 DEF Start, Lock!Grant
<1> QED
  BY <1>3, <1>4, <1>5, <1>6, <1>7 DEF CallerStep

-----------------------------------------------------------------------------
(* The queue.                                                              *)

LEMMA QueuePreserved ==
  ASSUME IInv, [Next]_vars
  PROVE  QueueInv'
<1>1. pc \in [Calls -> Places] /\ arrived \in Nat /\ waiting \subseteq Calls /\ QueueInv
  BY DEF IInv, TypeOK, Lock!TypeOK, Lock!Tickets, Calls
<1>2. ASSUME NEW c \in Calls, CallerStep(c) \/ Start(c) PROVE QueueInv'
  <2> USE <1>1 DEF QueueInv, TaskPlaces, Places, Calls
  <2>1. ASSUME NEW k \in Kinds, Call(c, k) PROVE QueueInv'
    BY <2>1 DEF Call, Lock!Join
  <2>2. CASE CallAborted(c)
    BY <2>2 DEF CallAborted, Lock!TurnAway
  <2>3. CASE AbortWaiting(c)
    BY <2>3 DEF AbortWaiting, Lock!Abandon
  <2>4. CASE AbortRunning(c)
    BY <2>4 DEF AbortRunning, queueVars, callVars
  <2>5. CASE Start(c)
    BY <2>5 DEF Start, Lock!Grant, Lock!Nobody
  <2> QED
    BY <1>2, <2>1, <2>2, <2>3, <2>4, <2>5 DEF CallerStep
<1>3. ASSUME NEW c \in Calls, TaskStep(c) PROVE QueueInv'
  <2>1. TaskEffect(c)
    BY <1>3, TaskStepEffect
  <2> QED
    BY <1>1, <2>1 DEF TaskEffect, QueueInv, TaskPlaces, Calls
<1>4. CASE Environment
  BY <1>1, <1>4, EnvironmentStepEffect DEF EnvironmentEffect, QueueInv
<1>5. CASE UNCHANGED vars
  BY <1>1, <1>5 DEF vars, queueVars, callVars, QueueInv
<1> QED
  BY <1>2, <1>3, <1>4, <1>5 DEF Next

\* What Start knows: every call that has not settled comes later.
LEMMA StartsFirst ==
  ASSUME IInv, NEW c \in Calls, Start(c)
  PROVE  \A d \in Calls : pc[d] # "settled" /\ d # c => c < d
<1> SUFFICES ASSUME NEW d \in Calls, pc[d] # "settled", d # c PROVE c < d
  OBVIOUS
<1>1. pc[d] \in Places /\ arrived \in Nat /\ QueueInv
  BY DEF IInv, TypeOK, Lock!TypeOK
<1>2. c <= arrived
  BY <1>1 DEF Start, Lock!Grant, QueueInv, Calls
<1>3. CASE pc[d] = "idle"
  BY <1>1, <1>2, <1>3 DEF QueueInv, Calls
<1>4. CASE pc[d] = "waiting"
  BY <1>1, <1>4 DEF Start, Lock!Grant, QueueInv, Calls
<1>5. CASE pc[d] \in TaskPlaces
  BY <1>1, <1>5 DEF Start, Lock!Grant, Lock!Nobody, QueueInv, Calls
<1> QED
  BY <1>1, <1>3, <1>4, <1>5 DEF Places, TaskPlaces

LEMMA SentPreserved ==
  ASSUME IInv, [Next]_vars
  PROVE  SentInv'
<1>1. SentInv /\ pc \in [Calls -> Places]
  BY DEF IInv, TypeOK
<1>2. ASSUME NEW c \in Calls, CallerStep(c) \/ Start(c) PROVE SentInv'
  <2>1. CallerEffect(c)
    BY <1>2, CallerStepEffect
  <2>2. \A d \in Calls : Sent(d)' <=> Sent(d)
    BY <2>1 DEF CallerEffect, Sent, Ran, OnTheWire
  <2>3. \A d \in Calls : Sent(d)' => pc'[d] \in {"posting", "settled"}
    BY <1>1, <2>1, <2>2 DEF CallerEffect, SentInv
  <2>4. \A d \in Calls : pc'[d] # "settled" => pc[d] # "settled"
    BY <1>1, <2>1 DEF CallerEffect
  <2>5. ASSUME NEW d \in Calls, NEW e \in Calls,
               Sent(d)' \/ pc'[d] \in TaskPlaces, pc'[e] # "settled", d # e
        PROVE  d < e
    <3>1. CASE pc'[d] \in TaskPlaces /\ pc[d] \notin TaskPlaces
      <4>1. d = c /\ Start(c)
        <5>1. d = c
          BY <2>1, <3>1 DEF CallerEffect
        <5>2. pc'[c] # "settled" /\ pc'[c] # "waiting"
          BY <3>1, <5>1 DEF TaskPlaces
        <5>3. ~CallAborted(c) /\ ~AbortWaiting(c)
          BY <1>1, <5>2 DEF CallAborted, AbortWaiting
        <5>4. ~AbortRunning(c)
          BY <3>1, <5>1 DEF AbortRunning, callVars
        <5>5. \A k : ~Call(c, k)
          BY <1>1, <5>2 DEF Call
        <5> QED
          BY <1>2, <5>1, <5>3, <5>4, <5>5 DEF CallerStep
      <4> QED
        BY <2>4, <2>5, <4>1, StartsFirst
    <3>2. CASE Sent(d) \/ pc[d] \in TaskPlaces
      BY <1>1, <2>4, <2>5, <3>2 DEF SentInv
    <3> QED
      BY <2>2, <2>5, <3>1, <3>2
  <2> QED
    BY <2>3, <2>5 DEF SentInv
<1>3. ASSUME NEW c \in Calls, TaskStep(c) PROVE SentInv'
  <2>1. TaskEffect(c)
    BY <1>3, TaskStepEffect
  <2>2. \A d \in Calls : Sent(d)' => Sent(d) \/ (d = c /\ SendQuery(c))
    BY <1>3, <2>1, TaskStepWire DEF TaskEffect, SendQuery, Sent, Ran, OnTheWire
  <2>3. ASSUME Sent(c)' PROVE pc'[c] \in {"posting", "settled"}
    <3>1. CASE SendQuery(c)
      BY <1>1, <3>1 DEF SendQuery, Proceed
    <3>2. CASE Sent(c)
      <4>1. pc[c] = "posting" /\ local[c].answer.status # "stale"
        BY <1>1, <2>1, <3>2 DEF SentInv, TaskEffect, TaskPlaces, IInv, AnswerInv
      <4> QED
        BY <1>1, <1>3, <4>1
           DEF TaskStep, StartHandshake, HandshakeSucceeds, HandshakeRefused,
               HandshakeAttemptFails, HandshakeAborted, RetryHandshake, SendQuery,
               PostFails, QueryStale, QueryUnauthorized, QueryHttpError, QueryAnswered,
               Settle
    <3> QED
      BY <2>2, <2>3, <3>1, <3>2
  <2>4. \A d \in Calls : Sent(d)' => pc'[d] \in {"posting", "settled"}
    BY <1>1, <2>1, <2>2, <2>3 DEF TaskEffect, SentInv
  <2>5. ASSUME NEW d \in Calls, NEW e \in Calls,
               Sent(d)' \/ pc'[d] \in TaskPlaces, pc'[e] # "settled", d # e
        PROVE  d < e
    <3>1. Sent(d) \/ pc[d] \in TaskPlaces
      BY <2>1, <2>2, <2>5 DEF TaskEffect
    <3>2. pc[e] # "settled"
      BY <2>1, <2>5 DEF TaskEffect, TaskPlaces
    <3> QED
      BY <1>1, <2>5, <3>1, <3>2 DEF SentInv
  <2> QED
    BY <2>4, <2>5 DEF SentInv
<1>4. CASE Environment
  BY <1>1, <1>4, EnvironmentStepEffect DEF EnvironmentEffect, SentInv
<1>5. CASE UNCHANGED vars
  BY <1>1, <1>5 DEF vars, callVars, daemonVars, SentInv, Sent, Ran, OnTheWire
<1> QED
  BY <1>2, <1>3, <1>4, <1>5 DEF Next

-----------------------------------------------------------------------------
(* The order of the daemon's runs.                                         *)

\* What SendQuery adds to the wire.
LEMMA SendQueryWire ==
  ASSUME IInv, NEW c \in Calls, SendQuery(c)
  PROVE  /\ wire' \subseteq wire \union {[call |-> c, at |-> session]}
         /\ ~Sent(c)
         /\ pc'[c] = "posting" /\ local'[c].used = session
         /\ session \in Sessions /\ UNCHANGED <<session, log, daemon>>
<1>1. /\ pc \in [Calls -> Places] /\ local \in [Calls -> Locals] /\ local[c] \in Locals
      /\ session \in Sessions \union {NoSession}
  BY DEF IInv, TypeOK
<1>2. [local[c] EXCEPT !.used = session].used = session
  BY <1>1 DEF Locals
<1>3. local'[c].used = session /\ pc'[c] = "posting"
  BY <1>1, <1>2 DEF SendQuery, Proceed
<1>4. ~Sent(c)
  BY DEF SendQuery, IInv, SentInv
<1> QED
  BY <1>1, <1>3, <1>4 DEF SendQuery, sessionVars

LEMMA WirePreserved ==
  ASSUME IInv, [Next]_vars
  PROVE  WireInv'
<1>1. WireInv /\ wire \subseteq [call : Calls, at : Sessions] /\ log \in Seq(Calls)
  BY DEF IInv, TypeOK
<1>2. ASSUME NEW c \in Calls, CallerStep(c) \/ Start(c) PROVE WireInv'
  <2>1. CallerEffect(c)
    BY <1>2, CallerStepEffect
  <2>2. \A d \in Calls : pc'[d] = "posting" => pc[d] = "posting" /\ local'[d] = local[d]
    BY <2>1 DEF CallerEffect
  <2> QED
    BY <1>1, <2>1, <2>2 DEF CallerEffect, WireInv, Ran
<1>3. ASSUME NEW c \in Calls, TaskStep(c) PROVE WireInv'
  <2>1. TaskEffect(c)
    BY <1>3, TaskStepEffect
  <2>2. CASE SendQuery(c)
    <3>1. \A m \in wire : m.call # c
      BY <2>2, SendQueryWire DEF Sent, OnTheWire
    <3>2. ~Ran(c)
      BY <2>2, SendQueryWire DEF Sent
    <3> QED
      BY <1>1, <2>1, <2>2, <3>1, <3>2, SendQueryWire DEF TaskEffect, WireInv, Ran
  <2>3. CASE wire' = wire /\ pc'[c] # "posting"
    BY <1>1, <2>1, <2>3 DEF TaskEffect, WireInv, Ran
  <2> QED
    BY <1>3, <2>2, <2>3, TaskStepWire
<1>4. CASE Environment
  <2>1. EnvironmentEffect
    BY <1>4, EnvironmentStepEffect
  <2>2. \A m \in wire' : ~Ran(m.call)'
    <3>1. ASSUME NEW n \in wire, Accept(n) PROVE \A m \in wire' : ~Ran(m.call)'
      <4>1. \A d : Ran(d)' <=> Ran(d) \/ d = n.call
        BY <1>1, <3>1, AppendLog DEF Accept
      <4>2. wire' \subseteq wire \ {n}
        BY <3>1 DEF Accept, CountOne
      <4> QED
        BY <1>1, <4>1, <4>2 DEF WireInv
    <3>2. CASE log' = log
      BY <1>1, <2>1, <3>2 DEF EnvironmentEffect, WireInv, Ran
    <3> QED
      BY <1>4, <3>1, <3>2
         DEF Environment, AnswerAuth, GatewayError, Refuse, OtherClient, Restart, daemonVars
  <2>3. \A m \in wire' : pc'[m.call] = "posting" => m.at = local'[m.call].used
    BY <1>1, <2>1 DEF EnvironmentEffect, WireInv
  <2> QED
    BY <1>1, <2>1, <2>2, <2>3 DEF EnvironmentEffect, WireInv
<1>5. CASE UNCHANGED vars
  BY <1>1, <1>5 DEF vars, callVars, daemonVars, WireInv, Ran
<1> QED
  BY <1>2, <1>3, <1>4, <1>5 DEF Next

\* Only a call that listens gets an answer, and its session is the daemon's.
LEMMA EnvironmentAnswers ==
  ASSUME IInv, Environment, NEW d \in Calls
  PROVE  \/ local'[d] = local[d]
         \/ Listening(d) /\ local'[d].answer.session \in {daemon, NoSession}
<1>0. TypeOK /\ \A m \in wire : m.call \in Calls
  BY DEF IInv, TypeOK
<1>1. ASSUME NEW c \in Calls, NEW st, NEW x \in {daemon, NoSession}, Answer(c, st, x),
             Listening(c)
      PROVE  \/ local'[d] = local[d]
             \/ Listening(d) /\ local'[d].answer.session \in {daemon, NoSession}
  <2>1. d # c => local'[d] = local[d]
    BY <1>0, <1>1, AnswerEffect
  <2>2. local'[c].answer = [status |-> st, session |-> x]
    BY <1>0, <1>1, AnswerEffect
  <2>3. local'[c].answer.session = x
    BY <2>2
  <2> QED
    BY <1>1, <2>1, <2>3
<1>2. ASSUME NEW c \in Calls, AnswerAuth(c) \/ GatewayError(c)
      PROVE  \/ local'[d] = local[d]
             \/ Listening(d) /\ local'[d].answer.session \in {daemon, NoSession}
  BY <1>1, <1>2 DEF AnswerAuth, GatewayError
<1>3. ASSUME NEW m \in wire, Accept(m) \/ Refuse(m)
      PROVE  \/ local'[d] = local[d]
             \/ Listening(d) /\ local'[d].answer.session \in {daemon, NoSession}
  BY <1>0, <1>1, <1>3 DEF Accept, Refuse
<1>4. CASE OtherClient \/ Restart
  BY <1>4 DEF OtherClient, Restart, callVars
<1> QED
  BY <1>2, <1>3, <1>4 DEF Environment

LEMMA UuidPreserved ==
  ASSUME IInv, [Next]_vars
  PROVE  UuidInv'
<1>1. /\ UuidInv /\ daemon \in Sessions /\ session \in Sessions \union {NoSession}
      /\ wire \subseteq [call : Calls, at : Sessions]
      /\ local \in [Calls -> Locals]
  BY DEF IInv, TypeOK
<1>2. daemon.uuid \in Nat /\ NoSession.uuid = 0 /\ NoAnswer.session.uuid = 0
  BY <1>1, MaxUuidAssumption DEF Sessions, NoSession, NoAnswer
<1>3. ASSUME NEW c \in Calls, CallerStep(c) \/ Start(c) PROVE UuidInv'
  <2>1. CallerEffect(c)
    BY <1>3, CallerStepEffect
  <2>2. \A d \in Calls : local'[d].answer.session.uuid <= daemon.uuid
    BY <1>1, <1>2, <2>1 DEF CallerEffect, UuidInv
  <2> QED
    BY <1>1, <2>1, <2>2 DEF CallerEffect, UuidInv
<1>4. ASSUME NEW c \in Calls, TaskStep(c) PROVE UuidInv'
  <2>1. TaskEffect(c)
    BY <1>4, TaskStepEffect
  <2>2. \A m \in wire' : m.at.uuid <= daemon.uuid
    BY <1>1, <1>4, SendQueryWire, TaskStepWire DEF UuidInv
  <2>3. \A d \in Calls : local'[d].answer.session.uuid <= daemon.uuid
    BY <1>1, <1>2, <2>1 DEF TaskEffect, UuidInv
  <2>4. session'.uuid <= daemon.uuid
    <3>1. CASE HandshakeSucceeds(c)
      BY <1>1, <3>1 DEF HandshakeSucceeds, UuidInv
    <3>2. CASE session' = session \/ session' = NoSession
      BY <1>1, <1>2, <3>2 DEF UuidInv
    <3>3. CASE QueryAnswered(c)
      <4>1. session'.uuid = session.uuid
        BY <1>1, <3>3 DEF QueryAnswered, Sessions, NoSession
      <4> QED
        BY <1>1, <4>1 DEF UuidInv
    <3> QED
      BY <1>4, <3>1, <3>2, <3>3
         DEF TaskStep, StartHandshake, HandshakeRefused, HandshakeAttemptFails,
             HandshakeAborted, RetryHandshake, SendQuery, PostFails, QueryStale,
             QueryUnauthorized, QueryHttpError, DropSession, sessionVars
  <2> QED
    BY <2>1, <2>2, <2>3, <2>4 DEF TaskEffect, UuidInv
<1>5. CASE Environment
  <2>1. EnvironmentEffect
    BY <1>5, EnvironmentStepEffect
  <2>2. daemon.uuid <= daemon'.uuid
    <3>1. CASE daemon' = daemon
      BY <1>2, <3>1
    <3>2. CASE daemon' = Successor(daemon)
      BY <1>1, <1>2, <3>2 DEF Successor, Sessions
    <3>3. CASE Restart
      BY <1>2, <3>3 DEF Restart
    <3> QED
      BY <1>5, <3>1, <3>2, <3>3
         DEF Environment, AnswerAuth, GatewayError, Accept, Refuse, OtherClient, CountOne,
             daemonVars
  <2>3. daemon'.uuid \in Nat
    BY <1>5, EnvironmentType, MaxUuidAssumption DEF TypeOK, Sessions
  <2>4. \A m \in wire' : m.at.uuid <= daemon'.uuid
    <3> SUFFICES ASSUME NEW m \in wire' PROVE m.at.uuid <= daemon'.uuid
      OBVIOUS
    <3>1. m.at.uuid \in Nat /\ m.at.uuid <= daemon.uuid
      BY <1>1, <2>1, MaxUuidAssumption DEF EnvironmentEffect, Sessions, UuidInv
    <3> QED
      BY <1>2, <2>2, <2>3, <3>1
  <2>5. session'.uuid <= daemon'.uuid
    <3>1. session.uuid \in Nat /\ session.uuid <= daemon.uuid /\ session' = session
      BY <1>1, <2>1, MaxUuidAssumption DEF EnvironmentEffect, Sessions, NoSession, UuidInv
    <3> QED
      BY <1>2, <2>2, <2>3, <3>1
  <2>6. ASSUME NEW d \in Calls PROVE local'[d].answer.session.uuid <= daemon'.uuid
    <3>1. local[d].answer.session \in Sessions \union {NoSession}
      BY <1>1 DEF Locals, Answers, NoAnswer
    <3>2. local[d].answer.session.uuid \in Nat
      BY <3>1, MaxUuidAssumption DEF Sessions, NoSession
    <3>3. \/ local'[d].answer = local[d].answer
          \/ local'[d].answer.session \in {daemon, NoSession}
      BY <1>5, EnvironmentAnswers
    <3>4. local[d].answer.session.uuid <= daemon.uuid
      BY <1>1 DEF UuidInv
    <3> QED
      BY <1>2, <2>2, <2>3, <3>2, <3>3, <3>4
  <2> QED
    BY <2>4, <2>5, <2>6 DEF UuidInv
<1>6. CASE UNCHANGED vars
  BY <1>1, <1>6 DEF vars, callVars, daemonVars, sessionVars, UuidInv
<1> QED
  BY <1>3, <1>4, <1>5, <1>6 DEF Next

\* The fence and the order of the log: the two sides of one argument.
LEMMA OrderPreserved ==
  ASSUME IInv, [Next]_vars
  PROVE  FenceInv' /\ InOrder'
<1>1. /\ FenceInv /\ InOrder /\ log \in Seq(Calls) /\ daemon \in Sessions
      /\ wire \subseteq [call : Calls, at : Sessions] /\ Len(log) \in Nat
  BY DEF IInv, TypeOK
<1>2. ASSUME log' = log, daemon' = daemon, wire' \subseteq wire
      PROVE  FenceInv' /\ InOrder'
  BY <1>1, <1>2 DEF FenceInv, InOrder
<1>3. ASSUME NEW c \in Calls, CallerStep(c) \/ Start(c) PROVE FenceInv' /\ InOrder'
  BY <1>2, <1>3, CallerStepEffect DEF CallerEffect
<1>4. ASSUME NEW c \in Calls, TaskStep(c) PROVE FenceInv' /\ InOrder'
  <2>1. TaskEffect(c)
    BY <1>4, TaskStepEffect
  <2>2. CASE SendQuery(c)
    <3>1. ASSUME NEW i \in 1..Len(log) PROVE log[i] < c
      <4>1. log[i] \in Calls /\ Sent(log[i]) /\ log[i] # c
        BY <1>1, <2>2, SendQueryWire DEF Sent, Ran
      <4>2. pc[c] # "settled"
        BY <2>2 DEF SendQuery
      <4> QED
        BY <4>1, <4>2 DEF IInv, SentInv
    <3> QED
      BY <1>1, <2>1, <2>2, <3>1, SendQueryWire DEF TaskEffect, FenceInv, InOrder
  <2>3. CASE wire' = wire
    BY <1>2, <2>1, <2>3 DEF TaskEffect
  <2> QED
    BY <1>4, <2>2, <2>3, TaskStepWire
<1>5. ASSUME NEW m \in wire, Accept(m) PROVE FenceInv' /\ InOrder'
  <2>1. FenceInv'
    BY <1>5 DEF Accept, CountOne, FenceInv
  <2>2. m.call \in Calls /\ log' = Append(log, m.call)
    BY <1>1, <1>5 DEF Accept
  <2>3. \A i \in 1..Len(log) : log[i] < m.call
    BY <1>1, <1>5 DEF Accept, FenceInv
  <2>4. /\ Len(log') = Len(log) + 1
        /\ \A i \in 1..Len(log) : log'[i] = log[i]
        /\ log'[Len(log) + 1] = m.call
    BY <1>1, <2>2, AppendLog
  <2>5. ASSUME NEW i \in 1..Len(log'), NEW j \in 1..Len(log'), i < j
        PROVE  log'[i] < log'[j]
    <3>1. i \in 1..Len(log)
      BY <1>1, <2>4, <2>5
    <3>2. CASE j = Len(log) + 1
      BY <2>3, <2>4, <3>1, <3>2
    <3>3. CASE j \in 1..Len(log)
      BY <1>1, <2>4, <2>5, <3>1, <3>3 DEF InOrder
    <3> QED
      BY <1>1, <2>4, <3>2, <3>3
  <2> QED
    BY <2>1, <2>5 DEF InOrder
<1>6. CASE OtherClient
  BY <1>1, <1>6 DEF OtherClient, CountOne, FenceInv, InOrder
<1>7. CASE Restart
  <2>1. ASSUME NEW m \in wire PROVE m.at # daemon'
    <3>1. m.at.uuid \in Nat /\ daemon.uuid \in Nat /\ m.at.uuid <= daemon.uuid
      BY <1>1, MaxUuidAssumption DEF IInv, UuidInv, Sessions
    <3>2. daemon'.uuid = daemon.uuid + 1
      BY <1>7 DEF Restart
    <3> QED
      BY <3>1, <3>2
  <2> QED
    BY <1>1, <1>7, <2>1 DEF Restart, FenceInv, InOrder
<1>8. ASSUME NEW c \in Calls, AnswerAuth(c) \/ GatewayError(c) PROVE FenceInv' /\ InOrder'
  BY <1>2, <1>8 DEF AnswerAuth, GatewayError, daemonVars
<1>9. ASSUME NEW m \in wire, Refuse(m) PROVE FenceInv' /\ InOrder'
  BY <1>2, <1>9 DEF Refuse
<1>10. CASE UNCHANGED vars
  BY <1>2, <1>10 DEF vars, daemonVars
<1> QED
  BY <1>3, <1>4, <1>5, <1>6, <1>7, <1>8, <1>9, <1>10 DEF Next, Environment

-----------------------------------------------------------------------------
(* Answers and outcomes.                                                   *)

\* AnswerInv, for one call.
AnswerOf(c) ==
  /\ local[c].answer # NoAnswer => pc[c] \in {"authPosting", "posting"}
  /\ pc[c] = "posting" /\ local[c].answer.status \in {"data", "errors"} => Ran(c)
  /\ local[c].answer.status \in {"stale", "unauthorized"} => ~Sent(c)
  /\ pc[c] = "authPosting" /\ local[c].answer.status = "data"
       => /\ local[c].answer.session \in Sessions
          /\ answerMoves = {} => local[c].answer.session = daemon

LEMMA NoAnswerStatus == NoAnswer.status = "none"
BY DEF NoAnswer

LEMMA AnswerPreserved ==
  ASSUME IInv, [Next]_vars
  PROVE  AnswerInv'
<1> SUFFICES ASSUME NEW d \in Calls PROVE AnswerOf(d)'
  BY DEF AnswerInv, AnswerOf
<1>1. AnswerOf(d) /\ TypeOK
  BY DEF IInv, AnswerInv, AnswerOf
<1>2. ASSUME local'[d].answer = NoAnswer PROVE AnswerOf(d)'
  BY <1>2, NoAnswerStatus DEF AnswerOf
<1>3. ASSUME pc'[d] = pc[d], local'[d].answer = local[d].answer, Ran(d) => Ran(d)',
             Sent(d)' => Sent(d),
             answerMoves' = {} => answerMoves = {} /\ daemon' = daemon
      PROVE  AnswerOf(d)'
  BY <1>1, <1>3 DEF AnswerOf
<1>4. ASSUME NEW c \in Calls, CallerStep(c) \/ Start(c) PROVE AnswerOf(d)'
  <2>1. CallerEffect(c)
    BY <1>4, CallerStepEffect
  <2>2. (Ran(d) <=> Ran(d)') /\ (Sent(d)' <=> Sent(d))
    BY <2>1 DEF CallerEffect, Sent, Ran, OnTheWire
  <2>3. CASE local'[d].answer = NoAnswer
    BY <1>2, <2>3
  <2>4. CASE local'[d] = local[d] /\ pc'[d] = pc[d]
    BY <1>3, <2>1, <2>2, <2>4 DEF CallerEffect
  <2>5. CASE local'[d] = local[d] /\ pc[d] \in {"idle", "waiting"}
    BY <1>1, <1>2, <2>5 DEF AnswerOf
  <2> QED
    BY <2>1, <2>3, <2>4, <2>5 DEF CallerEffect
<1>5. ASSUME NEW c \in Calls, TaskStep(c) PROVE AnswerOf(d)'
  <2>1. TaskEffect(c)
    BY <1>5, TaskStepEffect
  <2>2. local'[d].answer = NoAnswer
    BY <1>1, <2>1 DEF TaskEffect, AnswerOf, TaskPlaces
  <2> QED
    BY <1>2, <2>2
<1>6. CASE Environment
  <2>1. EnvironmentEffect
    BY <1>6, EnvironmentStepEffect
  <2>2. ASSUME NEW c \in Calls, AnswerAuth(c) PROVE AnswerOf(d)'
    <3>1. (Ran(d) <=> Ran(d)') /\ (Sent(d)' <=> Sent(d)) /\ daemon' = daemon
      BY <2>2 DEF AnswerAuth, Sent, Ran, OnTheWire
    <3>2. CASE d = c
      <4>1. ~Sent(d) /\ pc'[d] = "authPosting" /\ daemon \in Sessions
        BY <1>1, <2>2, <3>2 DEF AnswerAuth, IInv, SentInv, TypeOK
      <4>2. \/ local'[d].answer = [status |-> "data", session |-> daemon]
            \/ \E st \in {"errors", "unauthorized", "httpError"} :
                 local'[d].answer = [status |-> st, session |-> NoSession]
        BY <1>1, <2>2, <3>2, AnswerEffect DEF AnswerAuth
      <4> QED
        BY <3>1, <4>1, <4>2 DEF AnswerOf
    <3>3. CASE d # c
      <4>1. local'[d] = local[d] /\ pc'[d] = pc[d]
        BY <1>1, <2>2, <3>3, AnswerEffect DEF AnswerAuth
      <4>2. pc[d] # "authPosting"
        BY <2>2, <3>3 DEF AnswerAuth, IInv, QueueInv, TaskPlaces
      <4> QED
        BY <1>1, <3>1, <4>1, <4>2 DEF AnswerOf
    <3> QED
      BY <3>2, <3>3
  <2>3. ASSUME NEW c \in Calls, GatewayError(c) PROVE AnswerOf(d)'
    <3>1. CASE d = c
      <4>1. local'[d].answer = [status |-> "httpError", session |-> NoSession]
        BY <1>1, <2>3, <3>1, AnswerEffect DEF GatewayError
      <4>2. pc'[d] = "posting"
        BY <2>3, <3>1 DEF GatewayError
      <4> QED
        BY <4>1, <4>2 DEF AnswerOf
    <3>2. CASE d # c
      <4>1. local'[d] = local[d] /\ UNCHANGED <<answerMoves, daemon>>
        BY <1>1, <2>3, <3>2, AnswerEffect DEF GatewayError, daemonVars
      <4> QED
        BY <1>3, <2>1, <4>1 DEF EnvironmentEffect
    <3> QED
      BY <3>1, <3>2
  <2>4. ASSUME NEW m \in wire, Accept(m) \/ Refuse(m) PROVE AnswerOf(d)'
    <3>1. m.call \in Calls /\ log \in Seq(Calls)
      BY <1>1 DEF TypeOK
    <3>2. CASE Listening(m.call) /\ d = m.call /\ Accept(m)
      <4>1. pc[d] = "posting" /\ pc'[d] = "posting"
        BY <3>1, <3>2 DEF Accept, Listening, IInv, SentInv, Sent, OnTheWire
      <4>2. \E st \in {"data", "errors", "httpError"} :
              local'[d].answer = [status |-> st, session |-> NoSession]
        BY <1>1, <3>1, <3>2, AnswerEffect DEF Accept
      <4>3. Ran(d)'
        BY <3>1, <3>2, AppendLog DEF Accept
      <4> QED
        BY <4>1, <4>2, <4>3 DEF AnswerOf
    <3>3. CASE Listening(m.call) /\ d = m.call /\ Refuse(m)
      <4>1. pc[d] = "posting" /\ pc'[d] = "posting"
        BY <3>1, <3>3 DEF Refuse, Listening, IInv, SentInv, Sent, OnTheWire
      <4>2. \E st \in {"stale", "unauthorized"} :
              local'[d].answer = [status |-> st, session |-> NoSession]
        BY <1>1, <3>1, <3>3, AnswerEffect DEF Refuse
      <4>3. ~Sent(d)'
        BY <3>3 DEF Refuse, Sent, Ran, OnTheWire, IInv, WireInv
      <4> QED
        BY <4>1, <4>2, <4>3 DEF AnswerOf
    <3>4. CASE ~(Listening(m.call) /\ d = m.call)
      <4>1. local'[d] = local[d]
        BY <1>1, <2>4, <3>1, <3>4, AnswerEffect DEF Accept, Refuse
      <4>2. CASE daemon' = daemon /\ answerMoves' = answerMoves
        BY <1>3, <2>1, <4>1, <4>2 DEF EnvironmentEffect
      <4>3. CASE answerMoves' # {}
        BY <1>3, <2>1, <4>1, <4>3 DEF EnvironmentEffect
      <4>4. CASE Accept(m) /\ Listening(m.call)
        <5>1. pc[m.call] = "posting"
          BY <3>1, <4>4 DEF Listening, IInv, SentInv, Sent, OnTheWire
        <5>2. pc[d] # "authPosting"
          BY <3>1, <5>1 DEF IInv, QueueInv, TaskPlaces
        <5> QED
          BY <1>1, <2>1, <4>1, <5>2 DEF AnswerOf, EnvironmentEffect
      <4> QED
        BY <2>4, <4>2, <4>3, <4>4 DEF Accept, Refuse, Moved
    <3> QED
      BY <2>4, <3>2, <3>3, <3>4
  <2>5. CASE OtherClient \/ Restart
    <3>1. local' = local /\ answerMoves' # {}
      BY <2>5 DEF OtherClient, Restart, Moved, callVars
    <3> QED
      BY <1>3, <2>1, <3>1 DEF EnvironmentEffect
  <2> QED
    BY <1>6, <2>2, <2>3, <2>4, <2>5 DEF Environment
<1>7. CASE UNCHANGED vars
  BY <1>3, <1>7 DEF vars, callVars, daemonVars, Sent, Ran, OnTheWire
<1> QED
  BY <1>4, <1>5, <1>6, <1>7 DEF Next

LEMMA AttemptPreserved ==
  ASSUME IInv, [Next]_vars
  PROVE  AttemptInv'
<1>1. AttemptInv /\ pc \in [Calls -> Places] /\ local \in [Calls -> Locals]
  BY DEF IInv, TypeOK
<1>2. ASSUME NEW c \in Calls, CallerStep(c) \/ Start(c) PROVE AttemptInv'
  BY <1>1, <1>2, CallerStepEffect DEF CallerEffect, AttemptInv
<1>3. ASSUME NEW c \in Calls, TaskStep(c) PROVE AttemptInv'
  <2>1. TaskEffect(c)
    BY <1>3, TaskStepEffect
  <2>2. pc'[c] = "authPause" => HandshakeAttemptFails(c)
    BY <1>1, <1>3 DEF TaskStep, StartHandshake, HandshakeSucceeds, HandshakeRefused,
       HandshakeAborted, RetryHandshake, SendQuery, PostFails, QueryStale,
       QueryUnauthorized, QueryHttpError, QueryAnswered, Settle, Proceed
  <2>3. ASSUME HandshakeAttemptFails(c), pc'[c] = "authPause"
        PROVE  local'[c].attempt < Retries
    <3>1. local[c].attempt < Retries /\ local'[c] = [local[c] EXCEPT !.answer = NoAnswer]
      BY <1>1, <2>3 DEF HandshakeAttemptFails, Proceed, Settle
    <3>2. local[c] \in Locals
      BY <1>1
    <3> QED
      BY <3>1, <3>2 DEF Locals
  <2> QED
    BY <1>1, <2>1, <2>2, <2>3 DEF TaskEffect, AttemptInv
<1>4. CASE Environment
  BY <1>1, <1>4, EnvironmentStepEffect DEF EnvironmentEffect, AttemptInv
<1>5. CASE UNCHANGED vars
  BY <1>1, <1>5 DEF vars, callVars, AttemptInv
<1> QED
  BY <1>2, <1>3, <1>4, <1>5 DEF Next

\* OutcomeHonest, for one call.
HonestFor(c) ==
  /\ outcome[c] \in {"ok", "errors"} => Ran(c)
  /\ outcome[c] \in {"unauthorized", "sequencing", "authConnection", "authErrors",
                     "authenticated"} => ~Sent(c)

LEMMA OutcomePreserved ==
  ASSUME IInv, [Next]_vars
  PROVE  OutcomeInv' /\ OutcomeHonest'
<1> SUFFICES ASSUME NEW d \in Calls
             PROVE  (outcome'[d] # "none" => pc'[d] = "settled") /\ HonestFor(d)'
  BY DEF OutcomeInv, OutcomeHonest, HonestFor, Sent
<1>1. /\ outcome[d] # "none" => pc[d] = "settled"
      /\ HonestFor(d)
      /\ pc \in [Calls -> Places] /\ outcome \in [Calls -> Outcomes]
  BY DEF IInv, TypeOK, OutcomeInv, OutcomeHonest, HonestFor, Sent
<1>2. ASSUME pc'[d] = pc[d], outcome'[d] = outcome[d],
             Ran(d) => Ran(d)', Sent(d)' => Sent(d)
      PROVE  (outcome'[d] # "none" => pc'[d] = "settled") /\ HonestFor(d)'
  BY <1>1, <1>2 DEF HonestFor
<1>3. ASSUME NEW c \in Calls, CallerStep(c) \/ Start(c)
      PROVE  (outcome'[d] # "none" => pc'[d] = "settled") /\ HonestFor(d)'
  <2>1. CallerEffect(c)
    BY <1>3, CallerStepEffect
  <2>2. (Ran(d) <=> Ran(d)') /\ (Sent(d)' <=> Sent(d))
    BY <2>1 DEF CallerEffect, Sent, Ran, OnTheWire
  <2> QED
    BY <1>1, <2>1, <2>2 DEF CallerEffect, HonestFor
<1>4. ASSUME NEW c \in Calls, TaskStep(c)
      PROVE  (outcome'[d] # "none" => pc'[d] = "settled") /\ HonestFor(d)'
  <2>1. TaskEffect(c)
    BY <1>4, TaskStepEffect
  <2>2. (Ran(d) <=> Ran(d)') /\ (Sent(d)' => Sent(d) \/ (d = c /\ SendQuery(c)))
    BY <1>4, <2>1, TaskStepWire, SendQueryWire DEF TaskEffect, Sent, Ran, OnTheWire
  <2>3. CASE d # c
    BY <1>2, <2>1, <2>2, <2>3 DEF TaskEffect
  <2>4. CASE d = c /\ outcome'[c] = outcome[c]
    <3>1. outcome'[c] = "none"
      BY <1>1, <2>1, <2>4 DEF TaskEffect, TaskPlaces
    <3> QED
      BY <2>4, <3>1 DEF HonestFor
  <2>5. CASE d = c /\ outcome'[c] # outcome[c]
    <3>1. pc'[c] = "settled" /\ ~SendQuery(c)
      BY <1>1, <2>1, <2>5 DEF TaskEffect, TaskPlaces, SendQuery, Proceed
    <3>2. Sent(c)' => Sent(c)
      BY <2>2, <2>5, <3>1
    <3>3. pc[c] # "posting" => ~Sent(c)
      BY <2>1 DEF TaskEffect, TaskPlaces, IInv, SentInv
    <3>4. /\ pc[c] = "posting" /\ local[c].answer.status \in {"data", "errors"} => Ran(c)
          /\ local[c].answer.status \in {"stale", "unauthorized"} => ~Sent(c)
      BY DEF IInv, AnswerInv
    <3>5. CASE \E how \in {"authenticated", "unauthorized", "authErrors",
                           "authConnection"} : pc[c] # "posting" /\ outcome'[c] = how
      BY <2>5, <3>1, <3>2, <3>3, <3>5 DEF HonestFor
    <3>6. CASE outcome'[c] \in {"aborted", "connection"}
      BY <2>5, <3>1, <3>6 DEF HonestFor
    <3>7. CASE QueryStale(c) \/ QueryUnauthorized(c)
      <4>1. outcome'[c] \in {"sequencing", "unauthorized"}
        BY <1>1, <2>5, <3>7 DEF QueryStale, QueryUnauthorized, Settle, Proceed
      <4>2. ~Sent(c)
        BY <3>4, <3>7 DEF QueryStale, QueryUnauthorized
      <4> QED
        BY <2>5, <3>1, <3>2, <4>1, <4>2 DEF HonestFor
    <3>8. CASE QueryAnswered(c)
      <4>1. outcome'[c] \in {"ok", "errors"}
        BY <1>1, <3>8 DEF QueryAnswered, Settle
      <4>2. Ran(c)
        BY <3>4, <3>8 DEF QueryAnswered
      <4> QED
        BY <2>2, <2>5, <3>1, <4>1, <4>2 DEF HonestFor
    <3> QED
      BY <1>1, <1>4, <2>5, <3>5, <3>6, <3>7, <3>8
         DEF TaskStep, StartHandshake, HandshakeSucceeds, HandshakeRefused,
             HandshakeAttemptFails, HandshakeAborted, RetryHandshake, SendQuery, PostFails,
             QueryHttpError, Settle, Proceed
  <2> QED
    BY <2>3, <2>4, <2>5
<1>5. CASE Environment
  BY <1>2, <1>5, EnvironmentStepEffect DEF EnvironmentEffect
<1>6. CASE UNCHANGED vars
  BY <1>2, <1>6 DEF vars, callVars, daemonVars, Sent, Ran, OnTheWire
<1> QED
  BY <1>3, <1>4, <1>5, <1>6 DEF Next

-----------------------------------------------------------------------------
(* The session.                                                            *)

\* The step of a task that does not touch the session.
LEMMA SessionSteps ==
  ASSUME NEW c \in Calls, TaskStep(c)
  PROVE  \/ HandshakeSucceeds(c)
         \/ QueryAnswered(c)
         \/ session' = NoSession /\ sessionMoves' = {} /\ UNCHANGED latestAuth
         \/ SendQuery(c)
         \/ /\ UNCHANGED <<session, latestAuth, sessionMoves>>
            /\ pc[c] # "posting" \/ local[c].answer.status = "unauthorized"
BY DEF TaskStep, StartHandshake, HandshakeRefused, HandshakeAttemptFails, HandshakeAborted,
       RetryHandshake, PostFails, QueryStale, QueryUnauthorized, QueryHttpError,
       DropSession, sessionVars

LEMMA SessionPreserved ==
  ASSUME IInv, [Next]_vars
  PROVE  SessionStable' /\ SentSession' /\ LastAuthOfSession'
<1>1. /\ SessionStable /\ SentSession /\ LastAuthOfSession
      /\ session \in Sessions \union {NoSession} /\ pc \in [Calls -> Places]
  BY DEF IInv, TypeOK
<1>2. ASSUME UNCHANGED <<session, latestAuth>>,
             \A d \in Calls : pc'[d] = "posting" => /\ pc[d] = "posting"
                                                    /\ local'[d].used = local[d].used
      PROVE  SessionStable' /\ SentSession' /\ LastAuthOfSession'
  BY <1>1, <1>2 DEF SessionStable, SentSession, LastAuthOfSession
<1>3. ASSUME NEW c \in Calls, CallerStep(c) \/ Start(c)
      PROVE  SessionStable' /\ SentSession' /\ LastAuthOfSession'
  BY <1>2, <1>3, CallerStepEffect DEF CallerEffect
<1>4. ASSUME NEW c \in Calls, TaskStep(c)
      PROVE  SessionStable' /\ SentSession' /\ LastAuthOfSession'
  <2>1. TaskEffect(c)
    BY <1>4, TaskStepEffect
  <2>2. CASE SendQuery(c)
    <3>1. UNCHANGED <<session, latestAuth>>
      BY <2>2 DEF SendQuery, sessionVars
    <3>2. \A d \in Calls : pc'[d] = "posting" => d = c
      BY <2>1 DEF TaskEffect, TaskPlaces
    <3> QED
      BY <1>1, <2>2, <3>1, <3>2, SendQueryWire
         DEF SessionStable, SentSession, LastAuthOfSession
  <2>3. CASE ~SendQuery(c)
    <3>1. \A d \in Calls : pc'[d] # "posting"
      BY <1>4, <2>1, <2>3, TaskStepWire DEF TaskEffect, TaskPlaces
    <3>2. LastAuthOfSession'
      <4>1. CASE HandshakeSucceeds(c)
        BY <4>1 DEF HandshakeSucceeds, LastAuthOfSession
      <4>2. CASE QueryAnswered(c)
        <5>1. session \in Sessions
          BY <1>1, <4>2 DEF QueryAnswered, SessionStable, SentSession
        <5>2. session # NoSession /\ session'.uuid = session.uuid /\ latestAuth' = latestAuth
          BY <4>2, <5>1, Distinct DEF QueryAnswered, Sessions
        <5> QED
          BY <1>1, <5>2 DEF LastAuthOfSession
      <4> QED
        BY <1>1, <1>4, <2>3, <4>1, <4>2, SessionSteps DEF LastAuthOfSession
    <3> QED
      BY <3>1, <3>2 DEF SessionStable, SentSession
  <2> QED
    BY <2>2, <2>3
<1>5. CASE Environment
  BY <1>2, <1>5, EnvironmentStepEffect DEF EnvironmentEffect
<1>6. CASE UNCHANGED vars
  BY <1>2, <1>6 DEF vars, callVars, sessionVars
<1> QED
  BY <1>3, <1>4, <1>5, <1>6 DEF Next

LEMMA SessionInvPreserved ==
  ASSUME IInv, [Next]_vars
  PROVE  SessionInv'
<1>1. SessionInv /\ pc \in [Calls -> Places] /\ daemon \in Sessions
  BY DEF IInv, TypeOK
<1>2. ASSUME UNCHANGED <<session, sessionMoves, daemon>>, Counted' <=> Counted
      PROVE  SessionInv'
  BY <1>1, <1>2 DEF SessionInv, Successor
<1>3. ASSUME NEW c \in Calls, CallerStep(c) \/ Start(c) PROVE SessionInv'
  <2>1. CallerEffect(c)
    BY <1>3, CallerStepEffect
  <2>2. \A d \in Calls : (pc'[d] = "posting" <=> pc[d] = "posting") /\ (Ran(d)' <=> Ran(d))
    BY <2>1 DEF CallerEffect, Ran
  <2> QED
    BY <1>2, <2>1, <2>2 DEF CallerEffect, Counted
<1>4. ASSUME NEW c \in Calls, TaskStep(c) PROVE SessionInv'
  <2>1. TaskEffect(c)
    BY <1>4, TaskStepEffect
  <2>2. /\ \A d \in Calls : pc[d] = "posting" => d = c
        /\ \A d \in Calls : pc'[d] = "posting" => d = c
        /\ \A d \in Calls : Ran(d)' <=> Ran(d)
    BY <2>1 DEF TaskEffect, TaskPlaces, Ran
  <2>3. CASE SendQuery(c)
    <3>1. ~Counted /\ ~Counted'
      BY <2>2, <2>3, SendQueryWire DEF Counted, Sent, SendQuery
    <3> QED
      BY <1>2, <2>3, <3>1 DEF SendQuery, sessionVars
  <2>4. CASE ~SendQuery(c)
    <3>1. ~Counted'
      BY <1>4, <2>2, <2>4, TaskStepWire DEF Counted
    <3>2. CASE HandshakeSucceeds(c)
      <4>1. answerMoves = {} => session' = daemon
        BY <3>2 DEF HandshakeSucceeds, IInv, AnswerInv
      <4> QED
        BY <2>1, <3>1, <3>2, <4>1 DEF HandshakeSucceeds, TaskEffect, SessionInv
    <3>3. CASE QueryAnswered(c)
      <4>1. Counted /\ session = local[c].used /\ session \in Sessions
        BY <3>3 DEF QueryAnswered, IInv, AnswerInv, SessionStable, SentSession, Counted
      <4>2. session' = Successor(session) /\ sessionMoves' = sessionMoves
        BY <3>3, <4>1 DEF QueryAnswered, Successor
      <4> QED
        BY <1>1, <2>1, <3>1, <4>1, <4>2, Distinct DEF TaskEffect, SessionInv
    <3>4. CASE session' = NoSession
      BY <3>4 DEF SessionInv
    <3>5. CASE /\ UNCHANGED <<session, latestAuth, sessionMoves>>
               /\ pc[c] # "posting" \/ local[c].answer.status = "unauthorized"
      <4>1. ~Counted
        BY <2>2, <3>5 DEF Counted, IInv, AnswerInv, Sent
      <4> QED
        BY <1>2, <2>1, <3>1, <3>5, <4>1 DEF TaskEffect
    <3> QED
      BY <1>4, <2>4, <3>2, <3>3, <3>4, <3>5, SessionSteps
  <2> QED
    BY <2>3, <2>4
<1>5. ASSUME NEW c \in Calls, AnswerAuth(c) \/ GatewayError(c) PROVE SessionInv'
  BY <1>2, <1>5 DEF AnswerAuth, GatewayError, sessionVars, daemonVars, Counted, Ran
<1>6. ASSUME NEW m \in wire, Refuse(m) PROVE SessionInv'
  BY <1>2, <1>6 DEF Refuse, sessionVars, Counted, Ran
<1>7. ASSUME NEW m \in wire, Accept(m) PROVE SessionInv'
  <2>1. CASE Listening(m.call)
    <3>1. m.call \in Calls /\ log \in Seq(Calls)
      BY DEF IInv, TypeOK
    <3>2. pc[m.call] = "posting" /\ Ran(m.call)'
      BY <1>7, <2>1, <3>1, AppendLog
         DEF Accept, Listening, IInv, SentInv, Sent, OnTheWire
    <3>3. Counted'
      BY <1>7, <3>1, <3>2 DEF Accept, Counted
    <3>4. session = daemon
      BY <1>7, <3>1, <3>2 DEF Accept, IInv, WireInv, SessionStable
    <3> QED
      BY <1>7, <2>1, <3>3, <3>4 DEF Accept, CountOne, SessionInv
  <2>2. CASE ~Listening(m.call)
    BY <1>7, <2>2 DEF Accept, Moved, SessionInv
  <2> QED
    BY <2>1, <2>2
<1>8. CASE OtherClient \/ Restart
  BY <1>8 DEF OtherClient, Restart, Moved, SessionInv
<1>9. CASE UNCHANGED vars
  BY <1>2, <1>9 DEF vars, callVars, sessionVars, daemonVars, Counted, Ran
<1> QED
  BY <1>3, <1>4, <1>5, <1>6, <1>7, <1>8, <1>9 DEF Next, Environment

LEMMA StalePreserved ==
  ASSUME IInv, [Next]_vars
  PROVE  StaleOnlyIfMoved'
<1> SUFFICES ASSUME NEW d \in Calls, local'[d].answer.status = "stale"
             PROVE  sessionMoves' # {}
  BY DEF StaleOnlyIfMoved
<1>0. TypeOK /\ \A m \in wire : m.call \in Calls
  BY DEF IInv, TypeOK
<1>1. local[d].answer.status = "stale" => sessionMoves # {}
  BY DEF IInv, StaleOnlyIfMoved
<1>2. ASSUME NEW c \in Calls, CallerStep(c) \/ Start(c) PROVE sessionMoves' # {}
  BY <1>1, <1>2, CallerStepEffect, NoAnswerStatus DEF CallerEffect
<1>3. ASSUME NEW c \in Calls, TaskStep(c) PROVE sessionMoves' # {}
  <2>1. local'[d].answer = NoAnswer
    BY <1>3, TaskStepEffect DEF TaskEffect, TaskPlaces, IInv, AnswerInv
  <2> QED
    BY <2>1, NoAnswerStatus
<1>4. ASSUME NEW m \in wire, Refuse(m) PROVE sessionMoves' # {}
  <2>1. CASE local'[d] = local[d]
    BY <1>1, <1>4, <2>1 DEF Refuse, sessionVars
  <2>2. CASE local'[d] # local[d]
    <3>1. d = m.call /\ Listening(d) /\ keyKnown
      <4>1. /\ d = m.call /\ Listening(d)
            /\ local'[d].answer
                 = [status |-> IF keyKnown THEN "stale" ELSE "unauthorized",
                    session |-> NoSession]
        BY <1>0, <1>4, <2>2, AnswerEffect DEF Refuse
      <4> QED
        BY <4>1
    <3>2. pc[d] = "posting" /\ ~Ran(d) /\ m.at = session /\ session # daemon
      BY <1>4, <3>1 DEF Refuse, Listening, IInv, SentInv, Sent, OnTheWire, WireInv,
                        SessionStable
    <3>3. session # NoSession
      BY <3>2, Distinct DEF IInv, SessionStable, SentSession
    <3>4. ~Counted
      BY <3>2 DEF Counted, IInv, QueueInv, TaskPlaces
    <3> QED
      BY <1>4, <3>2, <3>3, <3>4 DEF IInv, SessionInv, Refuse, sessionVars
  <2> QED
    BY <2>1, <2>2
<1>5. ASSUME NEW m \in wire, Accept(m) PROVE sessionMoves' # {}
  <2>1. CASE local'[d] = local[d]
    BY <1>1, <1>5, <2>1 DEF Accept, Moved
  <2>2. CASE local'[d] # local[d]
    <3>1. \E st \in {"data", "errors", "httpError"} :
            local'[d].answer = [status |-> st, session |-> NoSession]
      BY <1>0, <1>5, <2>2, AnswerEffect DEF Accept
    <3> QED
      BY <3>1
  <2> QED
    BY <2>1, <2>2
<1>6. ASSUME NEW c \in Calls, AnswerAuth(c) \/ GatewayError(c) PROVE sessionMoves' # {}
  <2>1. CASE local'[d] = local[d]
    BY <1>1, <1>6, <2>1 DEF AnswerAuth, GatewayError, sessionVars
  <2>2. CASE local'[d] # local[d]
    <3>1. \E st \in {"data", "errors", "unauthorized", "httpError"}, x \in {daemon, NoSession} :
            local'[d].answer = [status |-> st, session |-> x]
      BY <1>0, <1>6, <2>2, AnswerEffect DEF AnswerAuth, GatewayError
    <3> QED
      BY <3>1
  <2> QED
    BY <2>1, <2>2
<1>7. CASE OtherClient \/ Restart
  BY <1>7 DEF OtherClient, Restart, Moved
<1>8. CASE UNCHANGED vars
  BY <1>1, <1>8 DEF vars, callVars, sessionVars
<1> QED
  BY <1>2, <1>3, <1>4, <1>5, <1>6, <1>7, <1>8 DEF Next, Environment

-----------------------------------------------------------------------------
(* The theorems.                                                           *)

LEMMA InitInv == Init => IInv
<1> SUFFICES ASSUME Init PROVE IInv
  OBVIOUS
<1> USE DEF Init, Lock!Init, Lock!Nobody
<1>1. daemon \in Sessions
  BY SeqModAssumption, MaxUuidAssumption DEF Sessions
<1>2. Blank("query") \in Locals /\ Blank("query").answer = NoAnswer
  BY BlankType DEF Blank
<1>3. \A c \in Calls : pc[c] = "idle" /\ local[c].answer = NoAnswer /\ outcome[c] = "none"
  BY <1>2
<1>4. Len(log) = 0 /\ \A c : ~Sent(c) /\ ~Ran(c) /\ ~OnTheWire(c)
  BY DEF Sent, Ran, OnTheWire
<1>5. TypeOK
  <2>1. Lock!TypeOK
    BY NAssumption DEF Lock!TypeOK, Lock!Tickets
  <2>2. log \in Seq(Calls)
    OBVIOUS
  <2> QED
    BY <1>1, <1>2, <2>1, <2>2, MaxUuidAssumption DEF TypeOK, Places, Outcomes
<1>6. QueueInv /\ SentInv /\ WireInv
  BY <1>3, <1>4, NAssumption DEF QueueInv, SentInv, WireInv, TaskPlaces, Calls
<1>7. UuidInv /\ FenceInv /\ AnswerInv
  BY <1>1, <1>3, NoAnswerStatus, MaxUuidAssumption
     DEF UuidInv, FenceInv, AnswerInv, NoAnswer, NoSession, Sessions
<1>8. AttemptInv /\ OutcomeInv /\ InOrder /\ OutcomeHonest
  BY <1>3, <1>4 DEF AttemptInv, OutcomeInv, InOrder, OutcomeHonest
<1>9. SessionStable /\ SentSession /\ SessionInv /\ StaleOnlyIfMoved /\ LastAuthOfSession
  BY <1>3, NoAnswerStatus
     DEF SessionStable, SentSession, SessionInv, StaleOnlyIfMoved, LastAuthOfSession
<1> QED
  BY <1>5, <1>6, <1>7, <1>8, <1>9 DEF IInv

LEMMA NextInv == IInv /\ [Next]_vars => IInv'
<1> SUFFICES ASSUME IInv, [Next]_vars PROVE IInv'
  OBVIOUS
<1>1. TypeOK'
  <2>1. CASE UNCHANGED vars
    BY <2>1 DEF IInv, TypeOK, Lock!TypeOK, vars, queueVars, sessionVars, daemonVars, callVars
  <2> QED
    BY <2>1, CallerType, TaskType, EnvironmentType DEF Next
<1> QED
  BY <1>1, QueuePreserved, SentPreserved, WirePreserved, UuidPreserved, OrderPreserved,
     AnswerPreserved, AttemptPreserved, OutcomePreserved, SessionPreserved,
     SessionInvPreserved, StalePreserved
     DEF IInv

\* Every reachable state of the client and its daemon satisfies the inductive
\* invariant.
THEOREM Invariance == Spec => []IInv
<1> QED
  BY InitInv, NextInv, PTL DEF Spec

\* All variables keep their types.
THEOREM TypeCorrect == Spec => []TypeOK
<1>1. IInv => TypeOK
  BY DEF IInv
<1> QED
  BY <1>1, Invariance, PTL

\* The daemon runs the requests of a client at most once and in the order of
\* the calls, whatever the network, the daemon and other clients do.
THEOREM RunsInOrder == Spec => []InOrder
<1>1. IInv => InOrder
  BY DEF IInv
<1> QED
  BY <1>1, Invariance, PTL

\* How a call ended tells whether the daemon ran its request.
THEOREM OutcomesHonest == Spec => []OutcomeHonest
<1>1. IInv => OutcomeHonest
  BY DEF IInv
<1> QED
  BY <1>1, Invariance, PTL

\* The session read before the await of a post is the session after it.
THEOREM SessionIsStable == Spec => []SessionStable
<1>1. IInv => SessionStable
  BY DEF IInv
<1> QED
  BY <1>1, Invariance, PTL

\* Between requests an undisturbed session is the daemon's.
THEOREM SessionIsDaemons == Spec => []SessionTracksDaemon
<1>1. IInv => SessionTracksDaemon
  BY DEF IInv, SessionInv, SessionTracksDaemon, Counted
<1> QED
  BY <1>1, Invariance, PTL

\* A 412 is never the client's own doing alone.
THEOREM StaleHasCause == Spec => []StaleOnlyIfMoved
<1>1. IInv => StaleOnlyIfMoved
  BY DEF IInv
<1> QED
  BY <1>1, Invariance, PTL

\* lastAuth() and the session speak of the same incarnation.
THEOREM LastAuthIsCurrent == Spec => []LastAuthOfSession
<1>1. IInv => LastAuthOfSession
  BY DEF IInv
<1> QED
  BY <1>1, Invariance, PTL

-----------------------------------------------------------------------------
\* ItnClient implements the safety part of ItnContract: from the invariant above,
\* every step of the client, the network and the daemon is a step of the contract
\* or none.

\* A call that settled has an outcome.
SettledInv == \A c \in Calls : pc[c] = "settled" => outcome[c] # "none"

LEMMA SettledPreserved ==
  ASSUME IInv, SettledInv, [Next]_vars
  PROVE  SettledInv'
<1>1. /\ pc \in [Calls -> Places] /\ outcome \in [Calls -> Outcomes]
      /\ local \in [Calls -> Locals]
  BY DEF IInv, TypeOK
<1>2. ASSUME NEW c \in Calls, NEW how \in Outcomes \ {"none"}, Settle(c, how)
      PROVE  SettledInv'
  BY <1>1, <1>2 DEF Settle, SettledInv
<1>3. ASSUME NEW c \in Calls, NEW place \in Places \ {"settled"}, NEW l,
             Proceed(c, place, l)
      PROVE  SettledInv'
  BY <1>1, <1>3 DEF Proceed, SettledInv
<1>4. ASSUME NEW c \in Calls, CallerStep(c) \/ Start(c) PROVE SettledInv'
  <2>1. CallerEffect(c)
    BY <1>4, CallerStepEffect
  <2> QED
    BY <2>1 DEF CallerEffect, SettledInv
<1>5. ASSUME NEW c \in Calls, TaskStep(c) PROVE SettledInv'
  <2>1. CASE StartHandshake(c) \/ HandshakeSucceeds(c) \/ HandshakeRefused(c)
             \/ HandshakeAttemptFails(c) \/ HandshakeAborted(c) \/ RetryHandshake(c)
    BY <1>2, <1>3, <2>1
       DEF StartHandshake, HandshakeSucceeds, HandshakeRefused, HandshakeAttemptFails,
           HandshakeAborted, RetryHandshake, Places, Outcomes
  <2>2. CASE SendQuery(c) \/ PostFails(c) \/ QueryStale(c) \/ QueryUnauthorized(c)
             \/ QueryHttpError(c) \/ QueryAnswered(c)
    BY <1>2, <1>3, <2>2
       DEF SendQuery, PostFails, QueryStale, QueryUnauthorized, QueryHttpError,
           QueryAnswered, Places, Outcomes
  <2> QED
    BY <1>5, <2>1, <2>2 DEF TaskStep
<1>6. CASE Environment
  BY <1>6, EnvironmentStepEffect DEF EnvironmentEffect, SettledInv
<1>7. CASE UNCHANGED vars
  BY <1>7 DEF vars, callVars, SettledInv
<1> QED
  BY <1>4, <1>5, <1>6, <1>7 DEF Next

-----------------------------------------------------------------------------
(* Every step is one of the contract.                                      *)

LEMMA SameNames ==
  /\ Contract!Calls = Calls
  /\ \A c : Contract!InLog(c) <=> Ran(c)
BY DEF Contract!Calls, Calls, Contract!InLog, Ran

LEMMA RefineInit == Init => Contract!Init
BY SameNames DEF Init, Lock!Init, Contract!Init

\* A call that settles in this step, before which it had arrived, settles in
\* the contract: its outcome is honest afterwards, and so was it possible.
LEMMA RefineSettle ==
  ASSUME IInv, [Next]_vars, NEW c \in Calls, NEW how \in Outcomes \ {"none"},
         c <= arrived, outcome[c] = "none",
         outcome' = [outcome EXCEPT ![c] = how], UNCHANGED <<arrived, log>>
  PROVE  Contract!Settles(c)
<1>1. outcome'[c] = how
  BY DEF IInv, TypeOK
<1>2. OutcomeHonest' /\ (Ran(c)' <=> Ran(c))
  BY OutcomePreserved DEF Ran
<1>3. /\ how \in Contract!Ran => Ran(c)
      /\ how \in Contract!NotRun => ~Ran(c)
  BY <1>1, <1>2 DEF OutcomeHonest, Contract!Ran, Contract!NotRun
<1>4. how \in Contract!Ran \union Contract!NotRun \union Contract!Unknown
  BY DEF Outcomes, Contract!Ran, Contract!NotRun, Contract!Unknown
<1>5. Contract!Settle(c, how)
  BY <1>3, SameNames DEF Contract!Settle
<1> QED
  BY <1>4, <1>5 DEF Contract!Settles

LEMMA RefineCaller ==
  ASSUME IInv, [Next]_vars, NEW c \in Calls, CallerStep(c) \/ Start(c)
  PROVE  [Contract!Next]_(Contract!vars)
<1>1. ASSUME NEW k \in Kinds, Call(c, k) PROVE Contract!Arrive(c)
  BY <1>1 DEF Call, Lock!Join, Contract!Arrive, daemonVars
<1>2. CASE CallAborted(c)
  BY <1>2 DEF CallAborted, Lock!TurnAway, Contract!TurnAway, Contract!Next, daemonVars,
              Contract!Calls, Calls
<1>3. CASE AbortWaiting(c)
  <2>1. c <= arrived /\ outcome[c] = "none"
    BY <1>3 DEF AbortWaiting, IInv, TypeOK, QueueInv, OutcomeInv, Lock!TypeOK, Calls
  <2>2. Contract!Settles(c)
    BY <1>3, <2>1, RefineSettle DEF AbortWaiting, Lock!Abandon, Outcomes, daemonVars
  <2> QED
    BY <2>2, SameNames DEF Contract!Next
<1>4. CASE AbortRunning(c) \/ Start(c)
  BY <1>4 DEF AbortRunning, Start, Lock!Grant, queueVars, callVars, daemonVars,
              Contract!vars
<1> QED
  BY <1>1, <1>2, <1>3, <1>4, SameNames DEF CallerStep, Contract!Next

LEMMA RefineTask ==
  ASSUME IInv, [Next]_vars, NEW c \in Calls, TaskStep(c)
  PROVE  [Contract!Next]_(Contract!vars)
<1>1. TaskEffect(c)
  BY TaskStepEffect
<1>2. /\ outcome \in [Calls -> Outcomes] /\ outcome' \in [Calls -> Outcomes]
      /\ c <= arrived /\ outcome[c] = "none"
  <2>1. TypeOK /\ TypeOK'
    BY TaskType DEF IInv
  <2>2. pc[c] \notin {"idle", "settled"}
    BY <1>1 DEF TaskEffect, TaskPlaces
  <2> QED
    BY <2>1, <2>2 DEF TypeOK, IInv, QueueInv, OutcomeInv, Lock!TypeOK, Calls
<1>3. outcome' = [outcome EXCEPT ![c] = outcome'[c]]
  BY <1>1, <1>2 DEF TaskEffect
<1>4. arrived' = arrived /\ log' = log
  BY <1>1 DEF TaskEffect
<1>5. CASE outcome'[c] = "none"
  BY <1>2, <1>3, <1>4, <1>5 DEF Contract!vars
<1>6. CASE outcome'[c] # "none"
  <2>1. Contract!Settles(c)
    BY <1>2, <1>3, <1>4, <1>6, RefineSettle
  <2> QED
    BY <2>1, SameNames DEF Contract!Next
<1> QED
  BY <1>5, <1>6

\* The fence keeps the order; the queue sees to it that all earlier calls have
\* settled.
LEMMA RefineAccept ==
  ASSUME IInv, SettledInv, NEW m \in wire, Accept(m)
  PROVE  Contract!Run(m.call)
<1>1. m.call \in Calls /\ Sent(m.call) /\ ~Ran(m.call)
  BY DEF IInv, TypeOK, WireInv, Sent, OnTheWire
<1>2. m.call <= arrived
  BY <1>1 DEF IInv, TypeOK, SentInv, QueueInv, Lock!TypeOK, Calls
<1>3. outcome[m.call] \in Contract!Unknown \union {"none"}
  <2>1. OnTheWire(m.call) /\ outcome[m.call] \in Outcomes
    BY <1>1 DEF OnTheWire, IInv, TypeOK
  <2> QED
    BY <1>1, <2>1 DEF IInv, OutcomeHonest, Outcomes, Contract!Unknown
<1>4. \A d \in Calls : d < m.call => outcome[d] # "none"
  <2> SUFFICES ASSUME NEW d \in Calls, d < m.call PROVE pc[d] = "settled"
    BY DEF SettledInv
  <2>1. d # m.call /\ ~(m.call < d)
    BY <1>1 DEF Calls
  <2> QED
    BY <1>1, <2>1 DEF IInv, SentInv
<1>5. \A i \in 1..Len(log) : log[i] < m.call
  BY DEF IInv, FenceInv, Accept
<1> QED
  BY <1>2, <1>3, <1>4, <1>5, SameNames DEF Accept, Contract!Run, queueVars

LEMMA RefineNext ==
  IInv /\ SettledInv /\ [Next]_vars => [Contract!Next]_(Contract!vars)
<1> SUFFICES ASSUME IInv, SettledInv, [Next]_vars PROVE [Contract!Next]_(Contract!vars)
  OBVIOUS
<1>1. ASSUME NEW m \in wire, Accept(m) PROVE [Contract!Next]_(Contract!vars)
  <2>1. m.call \in Contract!Calls
    BY SameNames DEF IInv, TypeOK
  <2> QED
    BY <1>1, <2>1, RefineAccept DEF Contract!Next
<1>2. ASSUME Environment, \A m \in wire : ~Accept(m)
      PROVE  UNCHANGED <<arrived, outcome, log>>
  BY <1>2 DEF Environment, AnswerAuth, GatewayError, Refuse, OtherClient, Restart,
              queueVars, callVars, daemonVars
<1>3. CASE UNCHANGED vars
  BY <1>3 DEF vars, queueVars, callVars, daemonVars, Contract!vars
<1> QED
  BY <1>1, <1>2, <1>3, RefineCaller, RefineTask DEF Next, Environment, Contract!vars

\* Every behaviour of the client and its daemon is one of the contract with
\* the callers.
THEOREM ClientKeepsContract == Spec => Contract!Spec
<1>1. Init => SettledInv
  BY DEF Init, SettledInv
<1> QED
  BY <1>1, InitInv, NextInv, SettledPreserved, RefineInit, RefineNext, PTL
     DEF Spec, Contract!Spec
=============================================================================
