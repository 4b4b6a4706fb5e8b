------------------------------ MODULE FifoMutex ------------------------------
(***************************************************************************)
(* What ItnClient.exclusive promises to its callers: a mutex that serves   *)
(* them in the order in which they called, and that a caller may stop      *)
(* waiting for.  Calls are named by the order of their arrival: the first  *)
(* call is 1.  ItnQueue, the chain of promises that the code builds, is    *)
(* shown to implement this module; ItnClient uses it as its queue.         *)
(***************************************************************************)
EXTENDS Naturals

CONSTANT N              \* number of calls made to the client

Tickets == 1..N
Nobody  == 0

VARIABLES
  arrived,              \* number of calls made so far
  waiting,              \* the calls that wait for their turn
  holder                \* the call whose task runs, or Nobody

vars == <<arrived, waiting, holder>>

TypeOK == /\ arrived \in 0..N
          /\ waiting \subseteq Tickets
          /\ holder \in Tickets \union {Nobody}

Init == /\ arrived = 0
        /\ waiting = {}
        /\ holder = Nobody

\* The next call arrives and queues up.
Join(t) == /\ t = arrived + 1
           /\ arrived' = t
           /\ waiting' = waiting \union {t}
           /\ UNCHANGED holder

\* The next call arrives with a signal that is already aborted.
TurnAway(t) == /\ t = arrived + 1
               /\ arrived' = t
               /\ UNCHANGED <<waiting, holder>>

\* A waiting call is cancelled: it leaves, and nobody overtakes anybody.
Abandon(t) == /\ t \in waiting
              /\ waiting' = waiting \ {t}
              /\ UNCHANGED <<arrived, holder>>

\* The mutex is free and goes to the earliest call that still waits.
Grant(t) == /\ holder = Nobody
            /\ t \in waiting
            /\ \A u \in waiting : t <= u
            /\ holder' = t
            /\ waiting' = waiting \ {t}
            /\ UNCHANGED arrived

Release(t) == /\ holder = t
              /\ holder' = Nobody
              /\ UNCHANGED <<arrived, waiting>>

Next == \E t \in Tickets : \/ Join(t) \/ TurnAway(t) \/ Abandon(t)
                           \/ Grant(t) \/ Release(t)

Spec == Init /\ [][Next]_vars

\* A free mutex does not keep a caller waiting; how long a task holds it is
\* up to the task.
FairSpec == Spec /\ \A t \in Tickets : WF_vars(Grant(t))
=============================================================================
