------------------------------ MODULE ItnQueue -------------------------------
(***************************************************************************)
(* ItnClient.exclusive: the queue of an ItnClient, as the chain of         *)
(* promises the code builds.  Every call replaces the field `queue` by a   *)
(* promise of its own and waits for the promise that was there before.     *)
(* A call whose AbortSignal fires while it waits gives up at once, but its *)
(* promise is resolved only after the one before it, so that the calls     *)
(* behind it keep their place.                                             *)
(*                                                                         *)
(* A step is a synchronous run of the code up to its next await.  The task *)
(* (a handshake or a sequenced request) is opaque here: ItnClient models   *)
(* it.                                                                     *)
(***************************************************************************)
EXTENDS Naturals

CONSTANT N                     \* number of calls, named in order of arrival

ASSUME NAssumption == N \in Nat \ {0}

Calls == 1..N
Root  == 0                     \* the field's initial Promise.resolve()

VARIABLES
  arrived,      \* number of calls made so far
  tail,         \* this.queue: the call whose promise it is, or Root
  previous,     \* previous[c]: the promise call c captured
  resolved,     \* the promises that are resolved
  pc,           \* where each call is
  aborted       \* aborted[c]: the call's AbortSignal has fired

vars == <<arrived, tail, previous, resolved, pc, aborted>>

\* idle: not called; waiting: awaits the gate promise; ready: the gate is
\* open and the continuation queued; running: the task runs; rejected: the
\* gate was rejected by the signal; left: the finally block has run.
Places == {"idle", "waiting", "ready", "running", "rejected", "left"}

TypeOK == /\ arrived \in 0..N
          /\ tail \in Calls \union {Root}
          /\ previous \in [Calls -> Calls \union {Root}]
          /\ resolved \subseteq Calls \union {Root}
          /\ pc \in [Calls -> Places]
          /\ aborted \in [Calls -> BOOLEAN]

Init == /\ arrived = 0
        /\ tail = Root
        /\ previous = [c \in Calls |-> Root]
        /\ resolved = {Root}
        /\ pc = [c \in Calls |-> "idle"]
        /\ aborted \in [Calls -> BOOLEAN]

-----------------------------------------------------------------------------
\* A plausible slip: the captured promise is the first one, not the latest.
CallBehindRoot(c) == /\ c = arrived + 1
                     /\ arrived' = c
                     /\ tail' = c
                     /\ pc' = [pc EXCEPT ![c] = IF aborted[c] THEN "rejected" ELSE "waiting"]
                     /\ UNCHANGED <<previous, resolved, aborted>>

\* exclusive() up to its first await: the promise is chained, and the gate is
\* rejected right away when the signal has fired before the call.
Call(c) == /\ c = arrived + 1
           /\ arrived' = c
           /\ previous' = [previous EXCEPT ![c] = tail]
           /\ tail' = c
           /\ pc' = [pc EXCEPT ![c] = IF aborted[c] THEN "rejected" ELSE "waiting"]
           /\ UNCHANGED <<resolved, aborted>>

\* A plausible slip: nobody listens to the signal while the call waits.
AbortUnheard(c) == /\ pc[c] \notin {"idle", "left"}
                   /\ ~aborted[c]
                   /\ aborted' = [aborted EXCEPT ![c] = TRUE]
                   /\ UNCHANGED <<arrived, tail, previous, resolved, pc>>

\* The signal fires.  Its listener rejects the gate of a waiting call; once
\* the gate is open the listener is gone and only the task sees the signal.
Abort(c) == /\ pc[c] \notin {"idle", "left"}
            /\ ~aborted[c]
            /\ aborted' = [aborted EXCEPT ![c] = TRUE]
            /\ pc' = [pc EXCEPT ![c] = IF @ = "waiting" THEN "rejected" ELSE @]
            /\ UNCHANGED <<arrived, tail, previous, resolved>>

\* A plausible slip: a call waits until the one before it starts, not ends.
WakeEarly(c) == /\ pc[c] = "waiting"
                /\ \A d \in Calls : d = previous[c] => pc[d] # "waiting"
                /\ pc' = [pc EXCEPT ![c] = "ready"]
                /\ UNCHANGED <<arrived, tail, previous, resolved, aborted>>

\* The callback of previous.then: remove the listener, open the gate.
Wake(c) == /\ pc[c] = "waiting"
           /\ previous[c] \in resolved
           /\ pc' = [pc EXCEPT ![c] = "ready"]
           /\ UNCHANGED <<arrived, tail, previous, resolved, aborted>>

\* The await returns and the task is started.
Start(c) == /\ pc[c] = "ready"
            /\ pc' = [pc EXCEPT ![c] = "running"]
            /\ UNCHANGED <<arrived, tail, previous, resolved, aborted>>

\* The task is over, with a result or an error, and the finally block runs.
Finish(c) == /\ pc[c] = "running"
             /\ pc' = [pc EXCEPT ![c] = "left"]
             /\ UNCHANGED <<arrived, tail, previous, resolved, aborted>>

\* A plausible slip: a call that gives up resolves its promise at once.
GiveUpAndResolve(c) == /\ pc[c] = "rejected"
                       /\ pc' = [pc EXCEPT ![c] = "left"]
                       /\ resolved' = resolved \union {c}
                       /\ UNCHANGED <<arrived, tail, previous, aborted>>

\* The await of a rejected gate throws, and the finally block runs.
GiveUp(c) == /\ pc[c] = "rejected"
             /\ pc' = [pc EXCEPT ![c] = "left"]
             /\ UNCHANGED <<arrived, tail, previous, resolved, aborted>>

\* A plausible slip: only a call that was not cancelled resolves its promise.
DoneUnlessAborted(c) == /\ pc[c] = "left" /\ ~aborted[c]
                        /\ c \notin resolved
                        /\ previous[c] \in resolved
                        /\ resolved' = resolved \union {c}
                        /\ UNCHANGED <<arrived, tail, previous, pc, aborted>>

\* previous.then(done), registered by the finally block: the promise of c is
\* resolved once the one before it is.
Done(c) == /\ pc[c] = "left"
           /\ c \notin resolved
           /\ previous[c] \in resolved
           /\ resolved' = resolved \union {c}
           /\ UNCHANGED <<arrived, tail, previous, pc, aborted>>

Microtask(c) == Wake(c) \/ Start(c) \/ GiveUp(c) \/ Done(c)

Next == \E c \in Calls : Call(c) \/ Abort(c) \/ Microtask(c) \/ Finish(c)

Spec == Init /\ [][Next]_vars

\* The event loop runs every queued microtask.  How long a task takes is not
\* up to the queue: it may hold it for ever.
FairSpec == Spec /\ \A c \in Calls : WF_vars(Microtask(c))
-----------------------------------------------------------------------------
\* The calls that are past the gate and not yet past the finally block.
Inside == {c \in Calls : pc[c] \in {"ready", "running"}}

\* At most one call of a client is past the gate: two requests of one client
\* are never under way together, however calls and cancellations interleave.
OneAtATime == \A c, d \in Inside : c = d

\* A call passes the gate only after every call made before it has left; a
\* call that gave up in between neither lets the next one overtake nor
\* blocks it.
ServedInOrder == \A c \in Inside : \A d \in Calls : d < c => pc[d] = "left"

\* A call waits for ever only behind a task that runs for ever: neither a
\* cancelled call nor one that ended keeps the calls behind it.
WaitsOnlyForTask ==
  \A c \in Calls : <>[](pc[c] = "waiting") => \E d \in Calls : <>[](pc[d] = "running")

\* A call that is cancelled while it waits leaves even if the task before it
\* never ends.
CancelledCallLeaves ==
  \A c \in Calls : (pc[c] \in {"waiting", "rejected"} /\ aborted[c]) ~> pc[c] = "left"

\* The promise chain is a FIFO mutex that waiting calls may abandon.
Mutex == INSTANCE FifoMutex WITH
           waiting <- {c \in Calls : pc[c] = "waiting"},
           holder  <- IF Inside = {} THEN 0 ELSE CHOOSE c \in Inside : TRUE

ImplementsFifoMutex == Mutex!FairSpec
=============================================================================
