--------------------------- MODULE ItnQueueProofs ---------------------------
(***************************************************************************)
(* Proofs about ItnQueue, for every number of calls: its promises resolve  *)
(* in the order of the calls, so at most one call is past its gate, calls  *)
(* are served in order, and the chain implements FifoMutex.                *)
(***************************************************************************)
EXTENDS ItnQueue, TLAPS

\* Every call made so far captured the promise of the call before it.
Chained == /\ tail = arrived
           /\ \A c \in Calls : c <= arrived <=> pc[c] # "idle"
           /\ \A c \in Calls : c <= arrived => previous[c] = c - 1

\* Promises resolve in order, and only those of calls that have left.
ResolvedInOrder ==
  /\ Root \in resolved
  /\ \A c \in Calls : c \in resolved => pc[c] = "left"
  /\ \A c, d \in Calls : d <= c /\ c \in resolved => d \in resolved

\* A call past its gate saw the promise before it resolved.
PassedTheGate == \A c \in Inside : previous[c] \in resolved

IInv == TypeOK /\ Chained /\ ResolvedInOrder /\ PassedTheGate

-----------------------------------------------------------------------------
\* Whoever finds the promise before it resolved has only calls that left
\* before it: the induction over the chain, kept as an invariant.
LEMMA EarlierCallsLeft ==
  ASSUME IInv, NEW c \in Calls, c <= arrived, previous[c] \in resolved
  PROVE  \A d \in Calls : d < c => pc[d] = "left"
<1> SUFFICES ASSUME NEW d \in Calls, d < c PROVE pc[d] = "left"
  OBVIOUS
<1>1. previous[c] = c - 1
  BY DEF IInv, Chained
<1>2. c - 1 \in Calls /\ d <= c - 1
  BY NAssumption DEF Calls
<1>3. d \in resolved
  BY <1>1, <1>2 DEF IInv, ResolvedInOrder
<1> QED
  BY <1>3 DEF IInv, ResolvedInOrder

LEMMA InsideArrived ==
  ASSUME IInv, NEW c \in Inside
  PROVE  c \in Calls /\ c <= arrived
BY DEF IInv, Chained, Inside

\* The invariant implies the two safety properties.
LEMMA InvServedInOrder == IInv => ServedInOrder
<1> SUFFICES ASSUME IInv, NEW c \in Inside
             PROVE  \A d \in Calls : d < c => pc[d] = "left"
  BY DEF ServedInOrder
<1> QED
  BY InsideArrived, EarlierCallsLeft DEF IInv, PassedTheGate

LEMMA InvOneAtATime == IInv => OneAtATime
<1> SUFFICES ASSUME IInv, NEW c \in Inside, NEW d \in Inside PROVE c = d
  BY DEF OneAtATime
<1>1. c \in Calls /\ d \in Calls /\ pc[c] # "left" /\ pc[d] # "left"
  BY DEF Inside
<1>2. ~(c < d) /\ ~(d < c)
  BY <1>1, InvServedInOrder DEF ServedInOrder
<1> QED
  BY <1>1, <1>2 DEF Calls

-----------------------------------------------------------------------------
LEMMA InitInv == Init => IInv
<1> SUFFICES ASSUME Init PROVE IInv
  OBVIOUS
<1>1. TypeOK
  BY NAssumption DEF Init, TypeOK, Places
<1>2. Chained
  BY NAssumption DEF Init, Chained, Calls, Root
<1>3. ResolvedInOrder
  BY DEF Init, ResolvedInOrder, Calls, Root
<1>4. PassedTheGate
  BY DEF Init, PassedTheGate, Inside
<1> QED
  BY <1>1, <1>2, <1>3, <1>4 DEF IInv

LEMMA CallInv == ASSUME IInv, NEW c \in Calls, Call(c) PROVE IInv'
<1> USE DEF Call
<1>1. arrived \in Nat /\ c \notin resolved /\ pc[c] = "idle"
  BY DEF IInv, TypeOK, Chained, ResolvedInOrder, Calls
<1>2. TypeOK'
  BY <1>1 DEF IInv, TypeOK, Calls, Places
<1>3. Chained'
  BY <1>1 DEF IInv, TypeOK, Chained, Calls
<1>4. ResolvedInOrder'
  BY <1>1 DEF IInv, TypeOK, ResolvedInOrder
<1>5. PassedTheGate'
  BY <1>1 DEF IInv, TypeOK, PassedTheGate, Inside
<1> QED
  BY <1>2, <1>3, <1>4, <1>5 DEF IInv

LEMMA AbortInv == ASSUME IInv, NEW c \in Calls, Abort(c) PROVE IInv'
<1> USE DEF Abort
<1>1. TypeOK'
  BY DEF IInv, TypeOK, Places
<1>2. Chained'
  BY DEF IInv, TypeOK, Chained
<1>3. ResolvedInOrder'
  BY DEF IInv, TypeOK, ResolvedInOrder
<1>4. PassedTheGate'
  BY DEF IInv, TypeOK, PassedTheGate, Inside
<1> QED
  BY <1>1, <1>2, <1>3, <1>4 DEF IInv

LEMMA MicrotaskInv ==
  ASSUME IInv, NEW c \in Calls, Microtask(c) \/ Finish(c)
  PROVE  IInv'
<1>1. CASE Wake(c)
  <2> USE <1>1 DEF Wake
  <2>1. TypeOK' /\ Chained' /\ ResolvedInOrder'
    BY DEF IInv, TypeOK, Places, Chained, ResolvedInOrder
  <2>2. PassedTheGate'
    BY DEF IInv, TypeOK, PassedTheGate, Inside
  <2> QED
    BY <2>1, <2>2 DEF IInv
<1>2. CASE Start(c) \/ Finish(c) \/ GiveUp(c)
  <2> USE <1>2 DEF Start, Finish, GiveUp
  <2>1. TypeOK' /\ Chained'
    BY DEF IInv, TypeOK, Places, Chained
  <2>2. ResolvedInOrder'
    BY DEF IInv, TypeOK, ResolvedInOrder
  <2>3. PassedTheGate'
    BY DEF IInv, TypeOK, PassedTheGate, Inside
  <2> QED
    BY <2>1, <2>2, <2>3 DEF IInv
<1>3. CASE Done(c)
  <2> USE <1>3 DEF Done
  <2>1. TypeOK' /\ Chained'
    BY DEF IInv, TypeOK, Chained
  <2>2. ResolvedInOrder'
    <3>1. c <= arrived /\ previous[c] = c - 1
      BY DEF IInv, Chained
    <3>2. ASSUME NEW d \in Calls, d < c PROVE d \in resolved
      <4>1. c - 1 \in Calls /\ d <= c - 1 /\ c - 1 \in resolved
        BY <3>1, <3>2, NAssumption DEF Calls
      <4> QED
        BY <4>1 DEF IInv, ResolvedInOrder
    <3> QED
      BY <3>2 DEF IInv, ResolvedInOrder, Calls
  <2>3. PassedTheGate'
    BY DEF IInv, PassedTheGate, Inside
  <2> QED
    BY <2>1, <2>2, <2>3 DEF IInv
<1> QED
  BY <1>1, <1>2, <1>3 DEF Microtask

LEMMA StutterInv == IInv /\ UNCHANGED vars => IInv'
BY DEF IInv, TypeOK, Chained, ResolvedInOrder, PassedTheGate, Inside, vars

LEMMA NextInv == IInv /\ [Next]_vars => IInv'
<1> SUFFICES ASSUME IInv, [Next]_vars PROVE IInv'
  OBVIOUS
<1>1. CASE UNCHANGED vars
  BY <1>1, StutterInv
<1>2. CASE Next
  BY <1>2, CallInv, AbortInv, MicrotaskInv DEF Next
<1> QED
  BY <1>1, <1>2

\* Every reachable state of the queue satisfies the inductive invariant.
THEOREM Invariance == Spec => []IInv
<1> QED
  BY InitInv, NextInv, PTL DEF Spec

\* The variables of the queue keep their types.
THEOREM TypeCorrect == Spec => []TypeOK
<1>1. IInv => TypeOK
  BY DEF IInv
<1> QED
  BY <1>1, Invariance, PTL

\* At most one call of the client runs, for any number of calls and any
\* interleaving of arrivals, cancellations and microtasks.
THEOREM AtMostOneRuns == Spec => []OneAtATime
<1> QED
  BY InvOneAtATime, Invariance, PTL

\* A call runs only after every call made before it has left the queue.
THEOREM ServedInOrderHolds == Spec => []ServedInOrder
<1> QED
  BY InvServedInOrder, Invariance, PTL

-----------------------------------------------------------------------------
\* The refinement mapping, named.
Waiting == {c \in Calls : pc[c] = "waiting"}
Holder  == IF Inside = {} THEN 0 ELSE CHOOSE c \in Inside : TRUE

LEMMA HolderOfOne == ASSUME IInv, NEW c \in Inside PROVE Inside = {c} /\ Holder = c
<1>1. Inside = {c}
  BY InvOneAtATime DEF OneAtATime
<1> QED
  BY <1>1 DEF Holder

\* A step that leaves the places of waiting and inside calls alone.
LEMMA SameView ==
  ASSUME Waiting' = Waiting, Inside' = Inside, arrived' = arrived
  PROVE  UNCHANGED Mutex!vars
BY DEF Mutex!vars, Waiting, Holder

LEMMA RefineInit == Init => Mutex!Init
BY DEF Init, Mutex!Init, Mutex!Nobody, Inside

LEMMA RefineCall ==
  ASSUME IInv, NEW c \in Calls, Call(c)
  PROVE  Mutex!Join(c) \/ Mutex!TurnAway(c)
<1>1. pc[c] = "idle" /\ c \notin Inside /\ c = arrived + 1
  BY DEF IInv, TypeOK, Chained, Calls, Call, Inside
<1>2. Inside' = Inside
  BY <1>1 DEF IInv, TypeOK, Call, Inside
<1>3. CASE aborted[c]
  <2>1. Waiting' = Waiting
    BY <1>1, <1>3 DEF IInv, TypeOK, Call, Waiting
  <2> QED
    BY <1>1, <1>2, <2>1 DEF Mutex!TurnAway, Waiting, Holder, Call
<1>4. CASE ~aborted[c]
  <2>1. Waiting' = Waiting \union {c}
    BY <1>1, <1>4 DEF IInv, TypeOK, Call, Waiting
  <2> QED
    BY <1>1, <1>2, <2>1 DEF Mutex!Join, Waiting, Holder, Call
<1> QED
  BY <1>3, <1>4

LEMMA RefineAbort ==
  ASSUME IInv, NEW c \in Calls, Abort(c)
  PROVE  Mutex!Abandon(c) \/ UNCHANGED Mutex!vars
<1>1. Inside' = Inside /\ arrived' = arrived
  BY DEF IInv, TypeOK, Abort, Inside
<1>2. CASE pc[c] = "waiting"
  <2>1. Waiting' = Waiting \ {c} /\ c \in Waiting
    BY <1>2 DEF IInv, TypeOK, Abort, Waiting
  <2> QED
    BY <1>1, <2>1 DEF Mutex!Abandon, Waiting, Holder
<1>3. CASE pc[c] # "waiting"
  <2>1. Waiting' = Waiting
    BY <1>3 DEF IInv, TypeOK, Abort, Waiting
  <2> QED
    BY <1>1, <2>1, SameView
<1> QED
  BY <1>2, <1>3

LEMMA RefineWake ==
  ASSUME IInv, NEW c \in Calls, Wake(c)
  PROVE  Mutex!Grant(c)
<1>1. c <= arrived /\ \A d \in Calls : d < c => pc[d] = "left"
  BY EarlierCallsLeft DEF IInv, Chained, Wake
<1>2. Inside = {}
  <2> SUFFICES ASSUME NEW d \in Inside PROVE FALSE
    OBVIOUS
  <2>1. d \in Calls /\ pc[d] \in {"ready", "running"} /\ d # c /\ ~(d < c)
    BY <1>1 DEF Inside, Wake
  <2>2. c < d
    BY <2>1 DEF Calls
  <2>3. pc[c] = "left"
    BY <2>2, InvServedInOrder DEF ServedInOrder
  <2> QED
    BY <2>3 DEF Wake
<1>3. Inside' = {c} /\ Waiting' = Waiting \ {c} /\ arrived' = arrived
  BY <1>2 DEF IInv, TypeOK, Wake, Inside, Waiting
<1>4. Holder = 0 /\ Holder' = c
  BY <1>2, <1>3 DEF Holder
<1>5. c \in Waiting /\ \A u \in Waiting : c <= u
  BY <1>1 DEF Waiting, Wake, Calls
<1> QED
  BY <1>3, <1>4, <1>5 DEF Mutex!Grant, Mutex!Nobody, Waiting, Holder

LEMMA RefineFinish ==
  ASSUME IInv, NEW c \in Calls, Finish(c)
  PROVE  Mutex!Release(c)
<1>1. c \in Inside
  BY DEF Finish, Inside
<1>2. Inside = {c} /\ Holder = c
  BY <1>1, HolderOfOne
<1>3. Inside' = {} /\ Waiting' = Waiting /\ arrived' = arrived
  BY <1>2 DEF IInv, TypeOK, Finish, Inside, Waiting
<1>4. Holder' = 0
  BY <1>3 DEF Holder
<1> QED
  BY <1>2, <1>3, <1>4 DEF Mutex!Release, Mutex!Nobody, Waiting, Holder

LEMMA RefineInternal ==
  ASSUME IInv, NEW c \in Calls, Start(c) \/ GiveUp(c) \/ Done(c)
  PROVE  UNCHANGED Mutex!vars
<1>1. Waiting' = Waiting /\ Inside' = Inside /\ arrived' = arrived
  BY DEF IInv, TypeOK, Start, GiveUp, Done, Waiting, Inside
<1> QED
  BY <1>1, SameView

LEMMA RefineNext == IInv /\ [Next]_vars => [Mutex!Next]_(Mutex!vars)
<1> SUFFICES ASSUME IInv, [Next]_vars PROVE [Mutex!Next]_(Mutex!vars)
  OBVIOUS
<1>1. CASE UNCHANGED vars
  <2>1. Waiting' = Waiting /\ Inside' = Inside /\ arrived' = arrived
    BY <1>1 DEF vars, Waiting, Inside
  <2> QED
    BY <2>1, SameView
<1>2. ASSUME NEW c \in Calls, Call(c) \/ Abort(c) \/ Microtask(c) \/ Finish(c)
      PROVE  [Mutex!Next]_(Mutex!vars)
  BY <1>2, RefineCall, RefineAbort, RefineWake, RefineFinish, RefineInternal
     DEF Microtask, Mutex!Next, Mutex!Tickets, Calls
<1> QED
  BY <1>1, <1>2 DEF Next

\* Every behaviour of the promise chain is one of the FIFO mutex.
THEOREM ChainIsFifoMutex == Spec => Mutex!Spec
<1> QED
  BY InitInv, RefineInit, RefineNext, Invariance, PTL DEF Spec, Mutex!Spec
=============================================================================
