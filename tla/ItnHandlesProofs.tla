--------------------------- MODULE ItnHandlesProofs ---------------------------
(***************************************************************************)
(* The properties of ItnHandles for every number of calls and every set of *)
(* handles.  Each rests on one promise of ItnContract: requests run in the *)
(* order of their calls.                                                   *)
(***************************************************************************)
EXTENDS ItnHandles, TLAPS

InLog(c) == \E i \in 1..Len(log) : log[i] = c

\* Only requests of calls that were made have run.
LogInv == \A c \in Calls : InLog(c) => c <= arrived
\* What the daemon served, it ran.
ServedInv == \A c \in served : InLog(c)
\* A call returns only what the daemon served.
ReturnInv == \A c \in Calls : Returned(c) => c \in served
\* A scheduler runs under the handle of its caller, who was served.
RunningInv == \A s \in running : s.by \in served /\ s.handle = HandleOf(s.by)
\* What a served stop found is gone; what a served list found, it returned.
StopInv == \A c \in served : request[c].op = "stop" =>
             \A s \in running : s.handle = request[c].handle => s.by > c
ListInv == \A c \in served : request[c].op = "list" =>
             \A s \in running : s.by < c => s.handle \in listed[c]

IInv == TypeOK /\ LogInv /\ ServedInv /\ ReturnInv /\ RunningInv /\ StopInv /\ ListInv

LEMMA InitInv == Init => IInv
BY NAssumption
   DEF Init, IInv, TypeOK, LogInv, ServedInv, ReturnInv, RunningInv, StopInv, ListInv,
       Client!Init, Client!Calls, Calls, InLog, Returned

\* A new call has not run, so it changes no handle that the invariant is about.
LEMMA AskPreserves ==
  ASSUME IInv, NEW c \in Calls, NEW r \in Requests, Ask(c, r)
  PROVE  IInv'
<1>1. /\ c = arrived + 1 /\ arrived' = c
      /\ outcome' = outcome \/ outcome' = [outcome EXCEPT ![c] = "aborted"]
      /\ request' = [request EXCEPT ![c] = r]
      /\ UNCHANGED <<log, served, running, started, listed>>
  BY DEF Ask, Client!Arrive, Client!TurnAway
<1>2. TypeOK
  BY DEF IInv
<1>3. \A d \in served : d \in Calls /\ d # c
  BY <1>1, <1>2 DEF IInv, TypeOK, ServedInv, LogInv, Calls
<1>4. \A d \in served : request'[d] = request[d]
  BY <1>1, <1>2, <1>3 DEF TypeOK
<1>5. TypeOK'
  BY <1>1, <1>2 DEF TypeOK, Client!Unknown, Calls
<1>6. LogInv' /\ ServedInv' /\ ReturnInv'
  <2>1. \A d \in Calls : InLog(d)' <=> InLog(d)
    BY <1>1 DEF InLog
  <2>2. LogInv'
    BY <1>1, <1>2, <2>1 DEF IInv, TypeOK, LogInv, Calls
  <2>3. ServedInv'
    BY <1>1, <1>2, <2>1 DEF IInv, TypeOK, ServedInv
  <2>4. ReturnInv'
    BY <1>1, <1>2 DEF IInv, TypeOK, ReturnInv, Returned
  <2> QED
    BY <2>2, <2>3, <2>4
<1>7. RunningInv'
  BY <1>1, <1>4 DEF IInv, RunningInv, HandleOf
<1>8. StopInv' /\ ListInv'
  BY <1>1, <1>4 DEF IInv, StopInv, ListInv
<1> QED
  BY <1>5, <1>6, <1>7, <1>8 DEF IInv

\* "ok" is an outcome of the served only.
LEMMA SettlePreserves ==
  ASSUME IInv, NEW c \in Calls, Settle(c)
  PROVE  IInv'
<1>1. PICK how \in Client!Ran \union Client!NotRun \union Client!Unknown :
        /\ how = "ok" => c \in served
        /\ outcome' = [outcome EXCEPT ![c] = how]
  BY DEF Settle, Client!Settle
<1>2. UNCHANGED <<arrived, log, request, served, running, started, listed>>
  BY DEF Settle, Client!Settle
<1>3. TypeOK'
  BY <1>1, <1>2 DEF IInv, TypeOK
<1>4. ReturnInv'
  BY <1>1, <1>2 DEF IInv, TypeOK, ReturnInv, Returned
<1>5. LogInv' /\ ServedInv' /\ RunningInv' /\ StopInv' /\ ListInv'
  BY <1>2 DEF IInv, LogInv, ServedInv, RunningInv, StopInv, ListInv, InLog, HandleOf
<1> QED
  BY <1>3, <1>4, <1>5 DEF IInv

\* A request that runs comes after all that ran.
LEMMA RunEffect ==
  ASSUME IInv, NEW c \in Calls, Client!Run(c)
  PROVE  /\ log' \in Seq(Calls) /\ LogInv' /\ InLog(c)'
         /\ \A d \in Calls : InLog(d) => InLog(d)'
         /\ \A d \in served : d < c
         /\ UNCHANGED <<arrived, outcome>>
<1>1. /\ log \in Seq(Calls) /\ arrived \in 0..N
      /\ c <= arrived /\ log' = Append(log, c) /\ UNCHANGED <<arrived, outcome>>
      /\ \A i \in 1..Len(log) : log[i] < c
  BY DEF IInv, TypeOK, Client!Run
<1>2. log' \in Seq(Calls)
  BY <1>1
<1>3. /\ Len(log') = Len(log) + 1 /\ log'[Len(log) + 1] = c
      /\ \A i \in 1..Len(log) : log'[i] = log[i]
  BY <1>1
<1>4. Len(log) \in Nat
  BY <1>1
<1>5. \A d : InLog(d)' <=> InLog(d) \/ d = c
  BY <1>3, <1>4 DEF InLog
<1>6. LogInv'
  BY <1>1, <1>5 DEF IInv, LogInv
<1>7. \A d \in served : d < c
  BY <1>1 DEF IInv, ServedInv, InLog
<1> QED
  BY <1>1, <1>2, <1>5, <1>6, <1>7

LEMMA ServeEffect ==
  ASSUME IInv, NEW c \in Calls, Serve(c)
  PROVE  /\ log' \in Seq(Calls) /\ LogInv' /\ ServedInv' /\ ReturnInv'
         /\ served' = served \union {c} /\ served' \subseteq Calls
         /\ \A d \in served : d < c
         /\ UNCHANGED <<arrived, outcome, request>>
<1>1. Client!Run(c) /\ served' = served \union {c} /\ UNCHANGED request
  BY DEF Serve
<1>2. ServedInv'
  BY <1>1, RunEffect DEF IInv, TypeOK, ServedInv
<1>3. ReturnInv'
  BY <1>1, RunEffect DEF IInv, ReturnInv, Returned
<1> QED
  BY <1>1, <1>2, <1>3, RunEffect DEF IInv, TypeOK

\* A new scheduler is that of the latest call, and so of none before a stop or
\* a list that was served.
LEMMA ServeStartPreserves ==
  ASSUME IInv, NEW c \in Calls, ServeStart(c)
  PROVE  IInv'
<1> DEFINE s == [by |-> c, handle |-> HandleOf(c)]
<1>1. /\ request[c].op \in Starting /\ Serve(c) /\ UNCHANGED listed
      /\ \/ running' = running /\ started' = started
         \/ running' = running \union {s} /\ started' = started \union {s}
  <2>1. HandleOf(c) = IF SentHandle(c) = NoHandle THEN c ELSE SentHandle(c)
    BY DEF HandleOf, SentHandle
  <2> QED
    BY <2>1 DEF ServeStart
<1>2. s \in Schedulers
  BY <1>1 DEF IInv, TypeOK, Requests, Starting, NoRequest, HandleOf, Schedulers, Names
<1>3. TypeOK'
  BY <1>1, <1>2, ServeEffect DEF IInv, TypeOK
<1>4. \A d : HandleOf(d)' = HandleOf(d)
  BY <1>1, ServeEffect DEF HandleOf
<1>5. RunningInv'
  BY <1>1, <1>4, ServeEffect DEF IInv, RunningInv
<1>6. StopInv' /\ ListInv'
  <2>1. \A d \in served : d \in Nat /\ c \in Nat /\ d < c
    BY <1>1, ServeEffect DEF IInv, TypeOK, Calls
  <2>2. request[c].op \notin {"stop", "list"}
    BY <1>1 DEF Starting
  <2> QED
    BY <1>1, <2>1, <2>2, ServeEffect DEF IInv, StopInv, ListInv
<1> QED
  BY <1>1, <1>3, <1>5, <1>6, ServeEffect DEF IInv

LEMMA ServeStopPreserves ==
  ASSUME IInv, NEW c \in Calls, ServeStop(c)
  PROVE  IInv'
<1>1. /\ request[c].op = "stop" /\ Serve(c) /\ UNCHANGED <<started, listed>>
      /\ running' = {s \in running : s.handle # request[c].handle}
  BY DEF ServeStop, SentHandle
<1>2. TypeOK'
  BY <1>1, ServeEffect DEF IInv, TypeOK
<1>3. RunningInv'
  BY <1>1, ServeEffect DEF IInv, RunningInv, HandleOf
<1>4. StopInv' /\ ListInv'
  BY <1>1, ServeEffect DEF IInv, StopInv, ListInv
<1> QED
  BY <1>1, <1>2, <1>3, <1>4, ServeEffect DEF IInv

LEMMA ServeListPreserves ==
  ASSUME IInv, NEW c \in Calls, ServeList(c)
  PROVE  IInv'
<1>1. /\ request[c].op = "list" /\ Serve(c) /\ UNCHANGED <<running, started>>
      /\ listed' = [listed EXCEPT ![c] = {s.handle : s \in running}]
  BY DEF ServeList
<1>2. TypeOK'
  BY <1>1, ServeEffect DEF IInv, TypeOK, Schedulers
<1>3. RunningInv'
  BY <1>1, ServeEffect DEF IInv, RunningInv, HandleOf
<1>4. StopInv'
  BY <1>1, ServeEffect DEF IInv, StopInv
<1>5. ListInv'
  BY <1>1, ServeEffect DEF IInv, TypeOK, ListInv
<1> QED
  BY <1>1, <1>2, <1>3, <1>4, <1>5, ServeEffect DEF IInv

LEMMA RejectPreserves ==
  ASSUME IInv, NEW c \in Calls, Reject(c)
  PROVE  IInv'
<1>1. Client!Run(c) /\ UNCHANGED <<request, served, running, started, listed>>
  BY DEF Reject
<1>2. TypeOK'
  BY <1>1, RunEffect DEF IInv, TypeOK
<1>3. ServedInv'
  BY <1>1, RunEffect DEF IInv, TypeOK, ServedInv
<1>4. ReturnInv' /\ RunningInv' /\ StopInv' /\ ListInv'
  BY <1>1, RunEffect
     DEF IInv, ReturnInv, Returned, RunningInv, HandleOf, StopInv, ListInv
<1> QED
  BY <1>1, <1>2, <1>3, <1>4, RunEffect DEF IInv

LEMMA NextInv == IInv /\ [Next]_vars => IInv'
<1> SUFFICES ASSUME IInv, [Next]_vars PROVE IInv'
  OBVIOUS
<1>1. ASSUME NEW s \in running, End(s) PROVE IInv'
  BY <1>1 DEF End, clientVars, IInv, TypeOK, LogInv, ServedInv, ReturnInv, RunningInv,
              StopInv, ListInv, InLog, Returned, HandleOf
<1>2. CASE UNCHANGED vars
  BY <1>2 DEF vars, clientVars, IInv, TypeOK, LogInv, ServedInv, ReturnInv, RunningInv,
              StopInv, ListInv, InLog, Returned, HandleOf
<1> QED
  BY <1>1, <1>2, AskPreserves, SettlePreserves, ServeStartPreserves,
     ServeStopPreserves, ServeListPreserves, RejectPreserves DEF Next

LEMMA Invariant == Spec => []IInv
BY InitInv, NextInv, PTL DEF Spec

-----------------------------------------------------------------------------
(* What callers of the scheduler calls may rely on.                        *)

\* The variables keep their types.
THEOREM TypeCorrect == Spec => []TypeOK
BY Invariant, PTL DEF IInv

\* After stopScheduledTransactions has returned, nothing that was asked for
\* before it runs under its handle, and nothing will.
THEOREM StoppedForGood == Spec => []StoppedStays
<1>1. IInv => StoppedStays
  BY DEF IInv, ReturnInv, StopInv, RunningInv, StoppedStays
<1> QED
  BY <1>1, Invariant, PTL

\* What a returned list of scheduledTransactions does not name is over.
THEOREM ListCanBeTrusted == Spec => []ListIsComplete
<1>1. IInv => ListIsComplete
  BY DEF IInv, ReturnInv, ListInv, RunningInv, ListIsComplete
<1> QED
  BY <1>1, Invariant, PTL
=============================================================================
