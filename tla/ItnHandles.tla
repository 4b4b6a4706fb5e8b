------------------------------ MODULE ItnHandles ------------------------------
(***************************************************************************)
(* Schedulers and their handles.  Callers of an ItnClient start payments,  *)
(* zkApp commands and account creation, under a handle of their own or one *)
(* that the daemon chooses; they list what runs, stop it, and repeat calls *)
(* with their own handle after a connection error.  The client between     *)
(* them and the daemon is that of ItnContract: a request whose caller gave *)
(* up may still run, but not once a later one has.                         *)
(*                                                                         *)
(* The daemon's part is what spec/ITN.md and the comments of ItnClient say *)
(* of handles.  Schedulers end by themselves, and with the daemon.         *)
(***************************************************************************)
EXTENDS Integers, Sequences, FiniteSets

CONSTANTS
  N,           \* number of calls, named in order of arrival
  Handles      \* UUIDs that callers choose

ASSUME NAssumption == N \in Nat \ {0}

Calls == 1..N

NoHandle == 0
\* The handle that the daemon chooses for a call is named after the call.
ASSUME HandlesAssumption == \A h \in Handles : h \notin Calls \union {NoHandle}

Names == Handles \union Calls

\* What a call asks for: schedulePayments and scheduleZkappCommands, the same
\* WithHandle, createAccounts with or without a handle,
\* stopScheduledTransactions, and scheduledTransactions.
Requests == [op : {"schedule", "list"}, handle : {NoHandle}]
            \union [op : {"scheduleWithHandle"}, handle : Handles]
            \union [op : {"createAccounts"}, handle : Handles \union {NoHandle}]
            \union [op : {"stop"}, handle : Names]
NoRequest == [op |-> "none", handle |-> NoHandle]
Starting == {"schedule", "scheduleWithHandle", "createAccounts"}

VARIABLES
  arrived, outcome, log,   \* the client, as in ItnContract
  request,                 \* what each call asks for
  served,                  \* the calls that the daemon ran without an error
  running,                 \* the schedulers, each with the call that started it
  started,                 \* ... and those that have ever run
  listed                   \* the daemon's answer to each call that lists

clientVars == <<arrived, outcome, log>>
vars == <<clientVars, request, served, running, started, listed>>

Client == INSTANCE ItnContract

Schedulers == [by : Calls, handle : Names]

TypeOK == /\ arrived \in 0..N
          /\ outcome \in [Calls -> Client!Ran \union Client!NotRun \union Client!Unknown
                                     \union {"none"}]
          /\ log \in Seq(Calls)
          /\ request \in [Calls -> Requests \union {NoRequest}]
          /\ served \subseteq Calls
          /\ running \subseteq Schedulers
          /\ started \subseteq Schedulers
          /\ listed \in [Calls -> SUBSET Names]

Init == /\ Client!Init
        /\ request = [c \in Calls |-> NoRequest]
        /\ served = {}
        /\ running = {}
        /\ started = {}
        /\ listed = [c \in Calls |-> {}]

-----------------------------------------------------------------------------
(* The callers.                                                            *)

\* The handle that the caller of a starting call has chosen, or that the
\* call returns.
HandleOf(c) == IF request[c].handle = NoHandle THEN c ELSE request[c].handle

Returned(c) == outcome[c] = "ok"

\* Callers choose a handle for one job and use it again only to repeat a call
\* after a connection error; they stop what they have named, started or seen.
MayAsk(r) ==
  /\ r.op \in Starting /\ r.handle # NoHandle =>
       \A d \in Calls : request[d].op \in Starting /\ request[d].handle = r.handle
                          => request[d] = r /\ outcome[d] = "connection"
  /\ r.op = "stop" =>
       \/ r.handle \in Handles
       \/ \E d \in Calls : Returned(d) /\ r.handle \in {d} \union listed[d]

Ask(c, r) == /\ Client!Arrive(c) \/ Client!TurnAway(c)
             /\ MayAsk(r)
             /\ request' = [request EXCEPT ![c] = r]
             /\ UNCHANGED <<served, running, started, listed>>

\* A plausible slip: createAccounts does not send its handle.
HandleForgotten(c) == IF request[c].op = "createAccounts" THEN NoHandle
                      ELSE request[c].handle

\* The handle among the variables of the request; null when the caller omits
\* it, and when the document has none.
SentHandle(c) == request[c].handle

\* A plausible slip: a call without an answer is taken for a success.
ReturnAnyway(c) == /\ c <= arrived /\ outcome[c] = "none"
                   /\ outcome' = [outcome EXCEPT ![c] = "ok"]
                   /\ UNCHANGED <<arrived, log, request, served, running, started, listed>>

\* The call settles; it returns only what a daemon that served it answered.
Settle(c) == /\ \E how \in (Client!Ran \union Client!NotRun \union Client!Unknown)
                            \ {"authenticated"} :
                  /\ how = "ok" => c \in served
                  /\ Client!Settle(c, how)
             /\ UNCHANGED <<request, served, running, started, listed>>

-----------------------------------------------------------------------------
(* The daemon.                                                             *)

Serve(c) == /\ Client!Run(c)
            /\ served' = served \union {c}
            /\ UNCHANGED request

\* The handle of a running scheduler starts nothing; a request without a
\* handle gets a new one.
ServeStart(c) ==
  LET s == [by |-> c, handle |-> IF SentHandle(c) = NoHandle THEN c ELSE SentHandle(c)]
      new == IF \E t \in running : t.handle = s.handle THEN {} ELSE {s}
  IN /\ request[c].op \in Starting
     /\ Serve(c)
     /\ running' = running \union new
     /\ started' = started \union new
     /\ UNCHANGED listed

ServeStop(c) == /\ request[c].op = "stop"
                /\ Serve(c)
                /\ running' = {s \in running : s.handle # SentHandle(c)}
                /\ UNCHANGED <<started, listed>>

ServeList(c) == /\ request[c].op = "list"
                /\ Serve(c)
                /\ listed' = [listed EXCEPT ![c] = {s.handle : s \in running}]
                /\ UNCHANGED <<running, started>>

\* The request is counted, and answered with a GraphQL error.
Reject(c) == /\ Client!Run(c)
             /\ UNCHANGED <<request, served, running, started, listed>>

\* The duration of a scheduler is over, the accounts are funded, or the
\* daemon stops.
End(s) == /\ running' = running \ {s}
          /\ UNCHANGED <<clientVars, request, served, started, listed>>

-----------------------------------------------------------------------------
Next == \/ \E c \in Calls : \/ \E r \in Requests : Ask(c, r)
                            \/ Settle(c)
                            \/ ServeStart(c) \/ ServeStop(c) \/ ServeList(c) \/ Reject(c)
        \/ \E s \in running : End(s)

Spec == Init /\ [][Next]_vars

-----------------------------------------------------------------------------
(* Properties.                                                             *)

\* After a stop has returned, nothing runs under its handle that was asked
\* for before it, not even by a request that timed out and came late.
StoppedStays ==
  \A c \in Calls : request[c].op = "stop" /\ Returned(c) =>
    \A s \in running : HandleOf(s.by) = request[c].handle => s.by > c

\* scheduledTransactions tells a caller what it has left running, whatever
\* became of its calls: what runs now and was asked for before the list was in
\* it, and what was not in it will never run.
ListIsComplete ==
  \A c \in Calls : request[c].op = "list" /\ Returned(c) =>
    \A s \in running : s.by < c => HandleOf(s.by) \in listed[c]

\* The comment before commitId: the calls with a handle may be repeated after
\* a transport error.  For one that nobody stops, a single scheduler runs.
RepeatStartsNothing ==
  \A s, t \in started :
    /\ HandleOf(s.by) = HandleOf(t.by)
    /\ \A c \in Calls : request[c].op = "stop" => request[c].handle # HandleOf(s.by)
    => s = t
=============================================================================
