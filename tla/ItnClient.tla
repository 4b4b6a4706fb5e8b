------------------------------ MODULE ItnClient ------------------------------
(***************************************************************************)
(* ItnClient and the daemon it talks to: the queue, the `auth` handshake   *)
(* with its retries, the sequenced request with its one repetition after a *)
(* 412, aborts and timeouts, against a network that delays or loses        *)
(* requests and answers, a daemon that restarts, and other clients that    *)
(* sign with the same key.                                                 *)
(*                                                                         *)
(* A client's step is a synchronous run of its code up to the next await.  *)
(* The daemon's rules are those that the class comment of ItnClient states *)
(* and that the client relies on.                                          *)
(***************************************************************************)
EXTENDS Integers, Sequences, FiniteSets

CONSTANTS
  N,           \* number of calls, named in order of arrival
  Retries,     \* config.retries: attempts of one handshake
  SeqMod,      \* sequence numbers are counted modulo this; 2^16 in the code
  MaxUuid      \* bound: incarnations of the daemon

ASSUME NAssumption == N \in Nat \ {0}
ASSUME RetriesAssumption == Retries \in Nat \ {0}
ASSUME SeqModAssumption == SeqMod \in Nat \ {0, 1}
ASSUME MaxUuidAssumption == MaxUuid \in Nat \ {0}

Calls == 1..N

\* auth(), or any other operation, all of which are one executeQuery().
Kinds == {"auth", "query"}

\* A daemon's incarnation and its next number for the client's key.
Sessions  == [uuid : 1..MaxUuid, seq : 0..(SeqMod - 1)]
NoSession == [uuid |-> 0, seq |-> 0]               \* null in the code

\* data: a 2xx answer that decodes; errors: a 2xx answer that decode or
\* parseAuth turns into an error; unauthorized: 401; stale: 412; httpError:
\* any other status from 300 on.
Statuses == {"data", "errors", "unauthorized", "stale", "httpError"}
NoAnswer == [status |-> "none", session |-> NoSession]
Answers  == [status : Statuses, session : Sessions \union {NoSession}]

\* ok and authenticated: the call returned; aborted: the signal's reason;
\* connection, authConnection: DaemonConnectionError, of the request or of the
\* handshake; errors, authErrors: what decode threw, likewise; unauthorized
\* and sequencing: ItnUnauthorizedError and ItnSequencingError.
Outcomes == {"none", "ok", "authenticated", "aborted", "connection", "errors",
             "unauthorized", "sequencing", "authConnection", "authErrors"}

VARIABLES
  arrived, waiting, holder,    \* the queue, a FifoMutex
  session,      \* this.session
  latestAuth,   \* the incarnation in this.latestAuth, 0 for null
  pc,           \* where each call is
  local,        \* the locals of each call
  aborted,      \* aborted[c]: the call's AbortSignal has fired
  outcome,      \* how each call ended
  wire,         \* the sequenced requests that the daemon may still receive
  daemon,       \* the daemon's incarnation and next number
  keyKnown,     \* the daemon was started with the client's key
  log,          \* the calls whose requests the daemon ran, in that order
  answerMoves,  \* why the daemon's number moved since its latest auth answer
  sessionMoves  \* ... and since the answer that the session comes from

queueVars   == <<arrived, waiting, holder>>
sessionVars == <<session, latestAuth, sessionMoves>>
daemonVars  == <<wire, daemon, keyKnown, log, answerMoves>>
callVars    == <<pc, local, outcome>>
vars == <<queueVars, sessionVars, daemonVars, callVars, aborted>>

Lock == INSTANCE FifoMutex

\* ready: at the top of the loop over passes (or of handshake, for auth);
\* authPosting, posting: awaits a post; authPause: sleeps between attempts.
Places == {"idle", "waiting", "ready", "authPosting", "authPause", "posting", "settled"}

Locals == [kind : Kinds, pass : 1..2, attempt : 0..Retries,
           used : Sessions \union {NoSession}, answer : Answers \union {NoAnswer}]
Blank(k) == [kind |-> k, pass |-> 1, attempt |-> 0, used |-> NoSession, answer |-> NoAnswer]

Moves == {"others", "ownLate"}

TypeOK == /\ Lock!TypeOK
          /\ session \in Sessions \union {NoSession}
          /\ latestAuth \in 0..MaxUuid
          /\ pc \in [Calls -> Places]
          /\ local \in [Calls -> Locals]
          /\ aborted \in [Calls -> BOOLEAN]
          /\ outcome \in [Calls -> Outcomes]
          /\ wire \subseteq [call : Calls, at : Sessions]
          /\ daemon \in Sessions
          /\ keyKnown \in BOOLEAN
          /\ log \in Seq(Calls)
          /\ answerMoves \subseteq Moves
          /\ sessionMoves \subseteq Moves

Init == /\ Lock!Init
        /\ session = NoSession
        /\ latestAuth = 0
        /\ pc = [c \in Calls |-> "idle"]
        /\ local = [c \in Calls |-> Blank("query")]
        /\ aborted = [c \in Calls |-> FALSE]
        /\ outcome = [c \in Calls |-> "none"]
        /\ wire = {}
        /\ daemon = [uuid |-> 1, seq |-> 0]
        /\ keyKnown \in BOOLEAN
        /\ log = <<>>
        /\ answerMoves = {}
        /\ sessionMoves = {}

-----------------------------------------------------------------------------
(* The queue.                                                              *)

\* The call is over: its promise settles and the lock is released.
Settle(c, how) == /\ pc' = [pc EXCEPT ![c] = "settled"]
                  /\ outcome' = [outcome EXCEPT ![c] = how]
                  /\ local' = [local EXCEPT ![c] = Blank("query")]
                  /\ Lock!Release(c)

\* The call's locals change and it stays in the queue's care.
Proceed(c, place, l) == /\ pc' = [pc EXCEPT ![c] = place]
                        /\ local' = [local EXCEPT ![c] = l]
                        /\ UNCHANGED <<outcome, queueVars>>

\* auth() or executeQuery() is called.
Call(c, k) == /\ Lock!Join(c)
              /\ pc' = [pc EXCEPT ![c] = "waiting"]
              /\ local' = [local EXCEPT ![c] = Blank(k)]
              /\ UNCHANGED <<outcome, sessionVars, daemonVars, aborted>>

\* ... with a signal that has fired before.
CallAborted(c) == /\ Lock!TurnAway(c)
                  /\ pc' = [pc EXCEPT ![c] = "settled"]
                  /\ outcome' = [outcome EXCEPT ![c] = "aborted"]
                  /\ aborted' = [aborted EXCEPT ![c] = TRUE]
                  /\ UNCHANGED <<local, sessionVars, daemonVars>>

\* The signal fires while the call waits in the queue: it gives up at once.
AbortWaiting(c) == /\ pc[c] = "waiting"
                   /\ Lock!Abandon(c)
                   /\ aborted' = [aborted EXCEPT ![c] = TRUE]
                   /\ pc' = [pc EXCEPT ![c] = "settled"]
                   /\ outcome' = [outcome EXCEPT ![c] = "aborted"]
                   /\ local' = [local EXCEPT ![c] = Blank("query")]
                   /\ UNCHANGED <<sessionVars, daemonVars>>

\* The signal fires during the task: the post under way will reject, and the
\* next one will not be sent.  Nobody listens during a pause.
AbortRunning(c) == /\ pc[c] \in {"ready", "authPosting", "authPause", "posting"}
                   /\ ~aborted[c]
                   /\ aborted' = [aborted EXCEPT ![c] = TRUE]
                   /\ UNCHANGED <<queueVars, sessionVars, daemonVars, callVars>>

\* A plausible slip: the task does not wait for the one that runs.
StartAtOnce(c) == /\ c \in waiting /\ waiting' = waiting \ {c}
                  /\ holder' = c
                  /\ pc' = [pc EXCEPT ![c] = "ready"]
                  /\ UNCHANGED <<arrived, local, outcome, sessionVars, daemonVars, aborted>>

\* The calls before it have left, and the task starts.
Start(c) == /\ Lock!Grant(c)
            /\ pc' = [pc EXCEPT ![c] = "ready"]
            /\ UNCHANGED <<local, outcome, sessionVars, daemonVars, aborted>>

-----------------------------------------------------------------------------
(* The handshake.                                                          *)

\* auth() always runs it, a query only without a session.
StartHandshake(c) ==
  /\ pc[c] = "ready"
  /\ local[c].kind = "auth" \/ session = NoSession
  /\ Proceed(c, "authPosting", [local[c] EXCEPT !.attempt = 1])
  /\ UNCHANGED <<sessionVars, daemonVars, aborted>>

\* A plausible slip: only auth() stores the answer for lastAuth().
HandshakeForgotten(c) ==
  /\ pc[c] = "authPosting"
  /\ local[c].answer.status = "data"
  /\ session' = local[c].answer.session
  /\ sessionMoves' = answerMoves
  /\ IF local[c].kind = "auth"
       THEN Settle(c, "authenticated") /\ latestAuth' = local[c].answer.session.uuid
       ELSE /\ Proceed(c, "ready", [local[c] EXCEPT !.attempt = 0, !.answer = NoAnswer])
            /\ UNCHANGED latestAuth
  /\ UNCHANGED <<daemonVars, aborted>>

\* The status is below 300 and the body is an auth answer: the session starts
\* there, a query goes on and auth() returns.
HandshakeSucceeds(c) ==
  /\ pc[c] = "authPosting"
  /\ local[c].answer.status = "data"
  /\ session' = local[c].answer.session
  /\ latestAuth' = local[c].answer.session.uuid
  /\ sessionMoves' = answerMoves
  /\ IF local[c].kind = "auth"
       THEN Settle(c, "authenticated")
       ELSE Proceed(c, "ready", [local[c] EXCEPT !.attempt = 0, !.answer = NoAnswer])
  /\ UNCHANGED <<daemonVars, aborted>>

\* A 401 or an unusable body is final.
HandshakeRefused(c) ==
  /\ pc[c] = "authPosting"
  /\ \/ local[c].answer.status = "unauthorized" /\ Settle(c, "unauthorized")
     \/ local[c].answer.status = "errors"       /\ Settle(c, "authErrors")
  /\ UNCHANGED <<sessionVars, daemonVars, aborted>>

\* A status from 300 on, or no answer at all: sleep and try again, up to the
\* configured number of attempts.
HandshakeAttemptFails(c) ==
  /\ pc[c] = "authPosting"
  /\ local[c].answer.status = "httpError" \/ ~aborted[c]
  /\ IF local[c].attempt < Retries
       THEN Proceed(c, "authPause", [local[c] EXCEPT !.answer = NoAnswer])
       ELSE Settle(c, "authConnection")
  /\ UNCHANGED <<sessionVars, daemonVars, aborted>>

\* The post rejected, and the signal has fired.
HandshakeAborted(c) == /\ pc[c] = "authPosting"
                       /\ aborted[c]
                       /\ Settle(c, "aborted")
                       /\ UNCHANGED <<sessionVars, daemonVars, aborted>>

RetryHandshake(c) ==
  /\ pc[c] = "authPause"
  /\ Proceed(c, "authPosting", [local[c] EXCEPT !.attempt = @ + 1])
  /\ UNCHANGED <<sessionVars, daemonVars, aborted>>

-----------------------------------------------------------------------------
(* The sequenced request.                                                  *)

DropSession == /\ session' = NoSession
               /\ sessionMoves' = {}
               /\ UNCHANGED latestAuth

\* The session is read and the request signed and posted with it; a fired
\* signal keeps it from leaving.
SendQuery(c) ==
  /\ pc[c] = "ready"
  /\ local[c].kind = "query"
  /\ session # NoSession
  /\ Proceed(c, "posting", [local[c] EXCEPT !.used = session])
  /\ wire' = IF aborted[c] THEN wire ELSE wire \union {[call |-> c, at |-> session]}
  /\ UNCHANGED <<sessionVars, daemon, keyKnown, log, answerMoves, aborted>>

\* A plausible slip: the request is repeated after a transport error.
PostRepeated(c) ==
  /\ pc[c] = "posting"
  /\ DropSession
  /\ IF local[c].pass = 1 /\ ~aborted[c]
       THEN Proceed(c, "ready", [Blank("query") EXCEPT !.pass = 2])
       ELSE Settle(c, IF aborted[c] THEN "aborted" ELSE "connection")
  /\ UNCHANGED <<daemonVars, aborted>>

\* A plausible slip: the session outlives a post without an answer.
PostKeepsSession(c) == /\ pc[c] = "posting"
                       /\ Settle(c, IF aborted[c] THEN "aborted" ELSE "connection")
                       /\ UNCHANGED <<sessionVars, daemonVars, aborted>>

\* No answer (network error, timeout, abort, unreadable body): the daemon may
\* or may not have run the request, or may run it later.
PostFails(c) == /\ pc[c] = "posting"
                /\ DropSession
                /\ Settle(c, IF aborted[c] THEN "aborted" ELSE "connection")
                /\ UNCHANGED <<daemonVars, aborted>>

\* A plausible slip: the request is repeated as long as the answer is 412.
QueryStaleForEver(c) ==
  /\ pc[c] = "posting"
  /\ local[c].answer.status = "stale"
  /\ DropSession
  /\ Proceed(c, "ready", [Blank("query") EXCEPT !.pass = 2])
  /\ UNCHANGED <<daemonVars, aborted>>

\* 412: a second pass with a new session, and no third.
QueryStale(c) ==
  /\ pc[c] = "posting"
  /\ local[c].answer.status = "stale"
  /\ DropSession
  /\ IF local[c].pass = 1
       THEN Proceed(c, "ready", [Blank("query") EXCEPT !.pass = 2])
       ELSE Settle(c, "sequencing")
  /\ UNCHANGED <<daemonVars, aborted>>

\* 401: the session is kept.
QueryUnauthorized(c) == /\ pc[c] = "posting"
                        /\ local[c].answer.status = "unauthorized"
                        /\ Settle(c, "unauthorized")
                        /\ UNCHANGED <<sessionVars, daemonVars, aborted>>

\* A plausible slip: every error status is handled like a 412.
QueryErrorRepeated(c) ==
  /\ pc[c] = "posting"
  /\ local[c].answer.status = "httpError"
  /\ DropSession
  /\ IF local[c].pass = 1
       THEN Proceed(c, "ready", [Blank("query") EXCEPT !.pass = 2])
       ELSE Settle(c, "sequencing")
  /\ UNCHANGED <<daemonVars, aborted>>

\* Any other status from 300 on: a proxy's, and the daemon may have counted.
QueryHttpError(c) == /\ pc[c] = "posting"
                     /\ local[c].answer.status = "httpError"
                     /\ DropSession
                     /\ Settle(c, "connection")
                     /\ UNCHANGED <<daemonVars, aborted>>

\* A plausible slip: a GraphQL error is taken for a request not counted.
QueryErrorUncounted(c) ==
  /\ pc[c] = "posting"
  /\ local[c].answer.status \in {"data", "errors"}
  /\ session' = IF local[c].answer.status = "errors" THEN session
                ELSE [session EXCEPT !.seq = (local[c].used.seq + 1) % SeqMod]
  /\ Settle(c, IF local[c].answer.status = "data" THEN "ok" ELSE "errors")
  /\ UNCHANGED <<latestAuth, sessionMoves, daemonVars, aborted>>

\* A plausible slip: the number is not wrapped.
QueryAnsweredUnwrapped(c) ==
  /\ pc[c] = "posting"
  /\ local[c].answer.status \in {"data", "errors"}
  /\ session' = [session EXCEPT !.seq = local[c].used.seq + 1]
  /\ Settle(c, IF local[c].answer.status = "data" THEN "ok" ELSE "errors")
  /\ UNCHANGED <<latestAuth, sessionMoves, daemonVars, aborted>>

\* The daemon counted the request: the session moves on from the number that
\* was sent, whatever decode makes of the body.
QueryAnswered(c) ==
  /\ pc[c] = "posting"
  /\ local[c].answer.status \in {"data", "errors"}
  /\ session' = [session EXCEPT !.seq = (local[c].used.seq + 1) % SeqMod]
  /\ Settle(c, IF local[c].answer.status = "data" THEN "ok" ELSE "errors")
  /\ UNCHANGED <<latestAuth, sessionMoves, daemonVars, aborted>>

-----------------------------------------------------------------------------
(* The daemon and the network.                                             *)

\* The client still waits for an answer to the post of c.
Listening(c) == /\ pc[c] \in {"authPosting", "posting"}
                /\ ~aborted[c]
                /\ local[c].answer = NoAnswer

Answer(c, status, s) ==
  local' = [local EXCEPT ![c].answer = [status |-> status, session |-> s]]

Moved(why) == /\ answerMoves' = answerMoves \union {why}
              /\ sessionMoves' = sessionMoves \union {why}

Successor(s) == [s EXCEPT !.seq = (@ + 1) % SeqMod]

\* The daemon counts a request.  Bound: no request is still in the network
\* when the daemon has counted all the way round to its number.
CountOne(remaining) == /\ daemon' = Successor(daemon)
                       /\ wire' = {m \in remaining : m.at # Successor(daemon)}

\* The unsequenced auth query is answered: with the daemon's incarnation and
\* next number if it knows the key, or by an error on the way.
AnswerAuth(c) ==
  /\ pc[c] = "authPosting"
  /\ Listening(c)
  /\ \/ keyKnown /\ Answer(c, "data", daemon) /\ answerMoves' = {}
     \/ keyKnown /\ Answer(c, "errors", NoSession) /\ UNCHANGED answerMoves
     \/ ~keyKnown /\ Answer(c, "unauthorized", NoSession) /\ UNCHANGED answerMoves
     \/ Answer(c, "httpError", NoSession) /\ UNCHANGED answerMoves
  /\ UNCHANGED <<queueVars, sessionVars, wire, daemon, keyKnown, log, pc, outcome, aborted>>

\* A request with the daemon's incarnation and next number is run and
\* counted, however late it arrives; its answer may get lost as an error.
Accept(m) ==
  LET c == m.call IN
  /\ keyKnown
  /\ m.at = daemon
  /\ CountOne(wire \ {m})
  /\ log' = Append(log, c)
  /\ IF Listening(c)
       THEN /\ \E status \in {"data", "errors", "httpError"} : Answer(c, status, NoSession)
            /\ UNCHANGED <<answerMoves, sessionMoves>>
       ELSE Moved("ownLate") /\ UNCHANGED local
  /\ UNCHANGED <<queueVars, session, latestAuth, keyKnown, pc, outcome, aborted>>

\* Any other is refused: 401 for an unknown key, 412 for a stale session.
Refuse(m) ==
  LET c == m.call IN
  /\ ~keyKnown \/ m.at # daemon
  /\ wire' = wire \ {m}
  /\ IF Listening(c)
       THEN Answer(c, IF keyKnown THEN "stale" ELSE "unauthorized", NoSession)
       ELSE UNCHANGED local
  /\ UNCHANGED <<queueVars, sessionVars, daemon, keyKnown, log, answerMoves,
                 pc, outcome, aborted>>

\* Something between the client and the daemon answers with an error while
\* the request is still on its way.
GatewayError(c) ==
  /\ pc[c] = "posting"
  /\ Listening(c)
  /\ Answer(c, "httpError", NoSession)
  /\ UNCHANGED <<queueVars, sessionVars, daemonVars, pc, outcome, aborted>>

\* Another client that signs with the same key has a request counted.
OtherClient == /\ keyKnown
               /\ CountOne(wire)
               /\ Moved("others")
               /\ UNCHANGED <<queueVars, session, latestAuth, callVars, keyKnown, log, aborted>>

\* The daemon restarts, with or without the client's key.
Restart == /\ daemon.uuid < MaxUuid
           /\ daemon' = [uuid |-> daemon.uuid + 1, seq |-> 0]
           /\ keyKnown' \in BOOLEAN
           /\ Moved("others")
           /\ UNCHANGED <<queueVars, session, latestAuth, callVars, wire, log, aborted>>

-----------------------------------------------------------------------------
TaskStep(c) == \/ StartHandshake(c) \/ HandshakeSucceeds(c) \/ HandshakeRefused(c)
               \/ HandshakeAttemptFails(c) \/ HandshakeAborted(c) \/ RetryHandshake(c)
               \/ SendQuery(c) \/ PostFails(c) \/ QueryStale(c) \/ QueryUnauthorized(c)
               \/ QueryHttpError(c) \/ QueryAnswered(c)

CallerStep(c) == \/ \E k \in Kinds : Call(c, k)
                 \/ CallAborted(c) \/ AbortWaiting(c) \/ AbortRunning(c)

Environment == \/ \E c \in Calls : AnswerAuth(c) \/ GatewayError(c)
               \/ \E m \in wire : Accept(m) \/ Refuse(m)
               \/ OtherClient \/ Restart

Next == \/ \E c \in Calls : CallerStep(c) \/ Start(c) \/ TaskStep(c)
        \/ Environment

Spec == Init /\ [][Next]_vars

\* The event loop runs the continuations, and every post ends: it has a
\* timeout.  Nothing is assumed of callers, the network or the daemon.
FairSpec == Spec /\ \A c \in Calls : WF_vars(Start(c)) /\ WF_vars(TaskStep(c))

-----------------------------------------------------------------------------
(* Properties.                                                             *)

\* The daemon runs the requests of a client in the order of the calls and
\* none twice, although requests are repeated after a 412 and may arrive
\* after their caller gave up.
InOrder == \A i, j \in 1..Len(log) : i < j => log[i] < log[j]

Ran(c) == \E i \in 1..Len(log) : log[i] = c
OnTheWire(c) == \E m \in wire : m.call = c

\* What a caller may conclude from how its call ended: a result or an error
\* of the answer means that the daemon ran it; an authorization, sequencing or
\* handshake error means that it has not and will not.
OutcomeHonest ==
  \A c \in Calls :
    /\ outcome[c] \in {"ok", "errors"} => Ran(c)
    /\ outcome[c] \in {"unauthorized", "sequencing", "authConnection", "authErrors",
                       "authenticated"} => ~Ran(c) /\ ~OnTheWire(c)

\* The session is the same after the await of a post as before it.
SessionStable == \A c \in Calls : pc[c] = "posting" => session = local[c].used

\* Between requests the session is the daemon's, unless the daemon restarted,
\* counted a request of another client, or counted one of this client that
\* arrived late.
SessionTracksDaemon ==
  (session # NoSession /\ sessionMoves = {} /\ \A c \in Calls : pc[c] # "posting")
    => session = daemon

\* A 412 comes only when something moved the daemon since the handshake: a
\* client alone with its daemon never makes its own session stale.
StaleOnlyIfMoved ==
  \A c \in Calls : local[c].answer.status = "stale" => sessionMoves # {}

\* lastAuth() is the answer of the incarnation that the session is with.
LastAuthOfSession == session # NoSession => latestAuth = session.uuid

\* Every call that queues up settles.
EveryCallSettles == \A c \in Calls : pc[c] = "waiting" ~> pc[c] = "settled"

\* Nothing of sessions, posts and sequence numbers, and no lateness of the
\* network, shows through what callers are promised.
Contract == INSTANCE ItnContract

KeepsContract == Contract!FairSpec

\* The comment in executeQuery on the second pass: the daemon restarted, or
\* another client with the same key used the number.
StaleOnlyByOthers ==
  \A c \in Calls : local[c].answer.status = "stale" => "others" \in sessionMoves
=============================================================================
