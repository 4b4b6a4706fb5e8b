----------------------------- MODULE ItnContract -----------------------------
(***************************************************************************)
(* What the callers of an ItnClient may rely on, without sessions, posts   *)
(* and sequence numbers: the daemon runs the requests of the calls one     *)
(* after the other, each at most once and never before an earlier call has *)
(* settled, and every call settles with an outcome that is true of its     *)
(* request.  After an abort or a connection error the request may still    *)
(* run, but not once a later one has.  ItnClient is shown to implement     *)
(* this module.                                                            *)
(***************************************************************************)
EXTENDS Integers, Sequences

CONSTANT N                \* number of calls, named in order of arrival

Calls == 1..N

VARIABLES
  arrived,                \* number of calls made so far
  outcome,                \* how each call ended, "none" while it has not
  log                     \* the calls whose requests ran, in that order

vars == <<arrived, outcome, log>>

\* An answer of the daemon to the request: it ran.
Ran == {"ok", "errors"}
\* The request was refused or never sent, and will not run; auth() has none.
NotRun == {"unauthorized", "sequencing", "authConnection", "authErrors", "authenticated"}
\* It may have run, and it may run later.
Unknown == {"aborted", "connection"}

InLog(c) == \E i \in 1..Len(log) : log[i] = c

Init == /\ arrived = 0
        /\ outcome = [c \in Calls |-> "none"]
        /\ log = <<>>

\* auth() or an operation is called.
Arrive(c) == /\ c = arrived + 1
             /\ arrived' = c
             /\ UNCHANGED <<outcome, log>>

\* ... with a signal that has fired before: it settles at once.
TurnAway(c) == /\ c = arrived + 1
               /\ arrived' = c
               /\ outcome' = [outcome EXCEPT ![c] = "aborted"]
               /\ UNCHANGED log

\* The daemon runs the request of a call.
Run(c) == /\ c <= arrived
          /\ outcome[c] \in Unknown \union {"none"}
          /\ \A d \in Calls : d < c => outcome[d] # "none"
          /\ \A i \in 1..Len(log) : log[i] < c
          /\ log' = Append(log, c)
          /\ UNCHANGED <<arrived, outcome>>

\* The promise of the call settles.
Settle(c, how) == /\ c <= arrived
                  /\ outcome[c] = "none"
                  /\ how \in Ran => InLog(c)
                  /\ how \in NotRun => ~InLog(c)
                  /\ outcome' = [outcome EXCEPT ![c] = how]
                  /\ UNCHANGED <<arrived, log>>

Settles(c) == \E how \in Ran \union NotRun \union Unknown : Settle(c, how)

Next == \E c \in Calls : Arrive(c) \/ TurnAway(c) \/ Run(c) \/ Settles(c)

Spec == Init /\ [][Next]_vars

\* Every call settles.
FairSpec == Spec /\ \A c \in Calls : WF_vars(Settles(c))
=============================================================================
