------------------------ MODULE IdempotencyCache -------------------------
(***************************************************************************)
(* The Idempotency-Key middleware (api/mod.rs, idempotency): a map from    *)
(* key to the first request and its response, in the memory of one         *)
(* process.  A request reads the clock, enters the map under its lock,     *)
(* runs the handler with no lock held and enters the map again to leave    *)
(* its response.  A handler future may be dropped in between (the client   *)
(* went away, or a panic), and then the second visit never happens.        *)
(*                                                                         *)
(* A key stands for tenant:user:key of the code, and a response for the    *)
(* number of the run that produced it.  MaxRun bounds the time a request   *)
(* takes; the code has no such bound, so the instances choose it below or  *)
(* above PendingTimeout.  Other bounds: MaxTime, MaxRequests.              *)
(***************************************************************************)
EXTENDS Integers, Sequences

CONSTANTS
    Keys, Bodies, Tasks,
    TTL,             \* IDEM_TTL_SECS
    PendingTimeout,  \* IDEM_PENDING_TIMEOUT_SECS
    MaxRun, MaxTime, MaxRequests,
    None

ASSUME IdempotencyAssumption ==
    /\ PendingTimeout \in Nat
    /\ TTL \in Nat
    /\ PendingTimeout < TTL
    /\ MaxRun \in Nat
    /\ MaxTime \in Nat
    /\ MaxRequests \in Nat

Time == 0..MaxTime

\* A Done entry holds the response of a run.
Entry ==
    [ body : Bodies, state : {"Pending"}, run : Nat, expires : Nat ]
    \union [ body : Bodies, state : {"Done"}, run : Nat \ {0}, expires : Nat ]

ASSUME NoneAssumption == None \notin Entry

Task == [ pc : {"arrived", "running"}, key : Keys, body : Bodies, now : Time, run : Nat ]

\* A run of a handler: what it was asked, when it was registered and when its
\* response was stored.
Run == [ body : Bodies, start : Time, stored : Time \union {None} ]

VARIABLES
    clock,
    idem,      \* idem[k], the entry of key k, or None
    task,      \* task[h], the request task h serves, or None
    runs,      \* history: runs[k], the handler runs under key k
    arrivals   \* how many requests came in

vars == <<clock, idem, task, runs, arrivals>>

-----------------------------------------------------------------------------
\* map.retain: entries past their time are dropped, whatever their state.
Retained(now) ==
    [k \in Keys |-> IF idem[k] # None /\ idem[k].expires > now THEN idem[k] ELSE None]

\* Slip: the in-flight limit is left out.
TimedOutAtOnce(e, now) == e.state = "Pending"

\* Slip: the in-flight limit is applied to stored responses too.
TimedOutWhenDone(e, now) == now > e.expires - TTL + PendingTimeout

\* A Pending entry older than the in-flight limit counts as failed.
TimedOut(e, now) == e.state = "Pending" /\ now > e.expires - TTL + PendingTimeout

Tick ==
    /\ clock < MaxTime
    /\ \A h \in Tasks : task[h] # None => clock < task[h].now + MaxRun
    /\ clock' = clock + 1
    /\ UNCHANGED <<idem, task, runs, arrivals>>

Arrive(h, k, b) ==
    /\ task[h] = None
    /\ arrivals < MaxRequests
    /\ arrivals' = arrivals + 1
    /\ task' = [task EXCEPT ![h] =
         [pc |-> "arrived", key |-> k, body |-> b, now |-> clock, run |-> 0]]
    /\ UNCHANGED <<clock, idem, runs>>

Arrived(h) == task[h] # None /\ task[h].pc = "arrived"

\* First use of the key, or a Pending entry that timed out: the request is
\* registered as in flight and handed to the handler.
Register(h) ==
    LET t == task[h]
        e == Retained(t.now)[t.key]
    IN  /\ Arrived(h)
        /\ e # None => TimedOut(e, t.now)
        /\ idem' = [Retained(t.now) EXCEPT ![t.key] =
             [body |-> t.body, state |-> "Pending", run |-> 0, expires |-> t.now + TTL]]
        /\ runs' = [runs EXCEPT ![t.key] =
             Append(@, [body |-> t.body, start |-> clock, stored |-> None])]
        /\ task' = [task EXCEPT ![h].pc = "running", ![h].run = Len(runs[t.key]) + 1]
        /\ UNCHANGED <<clock, arrivals>>

\* The key is known: replay the stored response to the same body, or 409 for
\* another body or a request still in flight.
Answer(h) ==
    LET t == task[h]
        e == Retained(t.now)[t.key]
    IN  /\ Arrived(h)
        /\ e # None
        /\ ~TimedOut(e, t.now)
        /\ idem' = Retained(t.now)
        /\ task' = [task EXCEPT ![h] = None]
        /\ UNCHANGED <<clock, runs, arrivals>>

Stored(e, run, now) == [e EXCEPT !.state = "Done", !.run = run, !.expires = now + TTL]

\* The response goes into whatever entry the key has by now.
Complete(h) ==
    LET t == task[h] IN
    /\ t # None /\ t.pc = "running"
    /\ idem' = IF idem[t.key] # None
               THEN [idem EXCEPT ![t.key] = Stored(@, t.run, clock)]
               ELSE idem
    /\ runs' = [runs EXCEPT ![t.key][t.run].stored = clock]
    /\ task' = [task EXCEPT ![h] = None]
    /\ UNCHANGED <<clock, arrivals>>

\* The future is dropped before it stored its response.
Cancel(h) ==
    /\ task[h] # None
    /\ task' = [task EXCEPT ![h] = None]
    /\ UNCHANGED <<clock, idem, runs, arrivals>>

Init ==
    /\ clock = 0
    /\ idem = [k \in Keys |-> None]
    /\ task = [h \in Tasks |-> None]
    /\ runs = [k \in Keys |-> <<>>]
    /\ arrivals = 0

Next ==
    \/ Tick
    \/ \E h \in Tasks :
         \/ \E k \in Keys, b \in Bodies : Arrive(h, k, b)
         \/ Register(h)
         \/ Answer(h)
         \/ Complete(h)
         \/ Cancel(h)

Spec == Init /\ [][Next]_vars

-----------------------------------------------------------------------------
(* Properties.                                                             *)

TypeOK ==
    /\ clock \in Time
    /\ idem \in [Keys -> Entry \union {None}]
    /\ task \in [Tasks -> Task \union {None}]
    /\ runs \in [Keys -> Seq(Run)]
    /\ arrivals \in 0..MaxRequests

Running(h) == task[h] # None /\ task[h].pc = "running"

\* No double write: two handlers never run under one key at a time, even when
\* abandoned registrations are taken over.
SingleFlight ==
    \A g, h \in Tasks :
        Running(g) /\ Running(h) /\ task[g].key = task[h].key => g = h

\* A response that waits in the map was computed for the body it would be
\* replayed to.
ReplayIsOwn ==
    \A k \in Keys :
        idem[k] # None /\ idem[k].state = "Done"
            => runs[k][idem[k].run].body = idem[k].body

\* Once a response is stored, no retry runs the handler again for TTL.
RetriesDoNotRepeat ==
    \A k \in Keys : \A i, j \in DOMAIN runs[k] :
        i < j /\ runs[k][i].stored # None => runs[k][j].start >= runs[k][i].stored + TTL
=============================================================================
