--------------------------- MODULE Writeback ---------------------------
(***************************************************************************)
(* The return channel for rule failures (handlers_writeback.rs and the     *)
(* writeback part of the store).  An executing service delivers failure    *)
(* events, possibly several times; each is queued once.  If the consumer   *)
(* is configured, every delivery starts a task that proposes a knowledge   *)
(* candidate to a governance service over HTTP and, when that accepts,     *)
(* marks the queue row.  The call gives up after five seconds, but the     *)
(* request it sent may still be handled.  Tasks live in memory: a restart  *)
(* drops them, and may change the configuration.                           *)
(*                                                                         *)
(* An event stands for its fingerprint: everything in it but the time of   *)
(* receipt.  A failing UPDATE is not modelled; it leaves what a restart    *)
(* just before it leaves.  Bounds: MaxDeliveries, MaxRestarts, Slots.      *)
(***************************************************************************)
EXTENDS Naturals, Sequences, FiniteSets

CONSTANTS
    Events, Datasets,
    FailureType,     \* FailureType[e]: the type in e, or None if it has no failure
    Slots,           \* proposal tasks that may run at once
    MaxDeliveries, MaxRestarts,
    None

ASSUME WritebackAssumption == MaxDeliveries \in Nat /\ MaxRestarts \in Nat

Classes == {"granule", "interface", "drift", "capability_gap"}

\* classify_failure: an unknown or missing type counts as a failed run.
Classify(type) ==
    CASE type = "capability_gap"    -> "capability_gap"
      [] type = "enforce_violation" -> "interface"
      [] type = "verdict_mismatch"  -> "drift"
      [] OTHER                      -> "granule"

\* A row of writeback_events; ref is proposed_ref, set together with consumed_at.
Row == [ event : Events, class : Classes \union {None}, ref : Datasets \union {None} ]

\* A proposal task: the row it proposes, the dataset it was configured with, and
\* what came of its HTTP call so far.
Task == [ row : Nat \ {0}, dataset : Datasets, call : {"sent", "accepted"} ]

VARIABLES
    config,     \* the dataset to propose to, or None: the consumer is off
    keys,       \* the API keys that are not revoked: "receive" ours, "propose" theirs
    queue,      \* writeback_events, in the order of their ids
    audits,     \* the rows wb-<id> of llm_op_audit, by id
    task,       \* task[s], the task in slot s, or None
    stray,      \* requests under way whose sender no longer waits
    drafts,     \* candidates at the governance service: <<row, dataset>>
    accepted,   \* history: every proposal the governance service ever accepted
    deliveries, restarts

vars == <<config, keys, queue, audits, task, stray, drafts, accepted,
          deliveries, restarts>>

-----------------------------------------------------------------------------
\* Slip: the time of receipt is part of the fingerprint.
RowsOfUndeduplicated(e) == {}

\* The rows whose dedup_key is that of e.
RowsOf(e) == {i \in DOMAIN queue : queue[i].event = e}

\* record_writeback_event: the id of the row already there, or a new row
\* together with its audit row, in one transaction.
Recorded(e, id) ==
    \/ /\ id \in RowsOf(e)
       /\ UNCHANGED <<queue, audits>>
    \/ /\ RowsOf(e) = {}
       /\ id = Len(queue) + 1
       /\ queue' = Append(queue,
            [event |-> e, ref |-> None,
             class |-> IF config = None THEN None ELSE Classify(FailureType[e])])
       /\ audits' = audits \union {id}

\* get_api_key_by_hash finds the key, and it is not revoked.
Live(k) == k \in keys

\* A delivery while the consumer is off: recorded, nothing started.
Receive(e) ==
    /\ deliveries < MaxDeliveries
    /\ Live("receive")
    /\ config = None
    /\ \E id \in 1..Len(queue) + 1 : Recorded(e, id)
    /\ deliveries' = deliveries + 1
    /\ UNCHANGED <<config, keys, task, stray, drafts, accepted, restarts>>

\* A delivery while it is on: every one starts a task, a repeated one too,
\* whether or not the row is consumed.
ReceiveAndPropose(e, s) ==
    /\ deliveries < MaxDeliveries
    /\ Live("receive")
    /\ config # None
    /\ task[s] = None
    /\ \E id \in 1..Len(queue) + 1 :
         /\ Recorded(e, id)
         /\ task' = [task EXCEPT ![s] = [row |-> id, dataset |-> config, call |-> "sent"]]
    /\ deliveries' = deliveries + 1
    /\ UNCHANGED <<config, keys, stray, drafts, accepted, restarts>>

\* propose_knowledge_entry: a live key, and no such entry in the dataset yet (the
\* candidate's id is a function of the row).
Acceptable(p) == Live("propose") /\ p \notin drafts

Propose(p) ==
    /\ Acceptable(p)
    /\ drafts' = drafts \union {p}
    /\ accepted' = accepted \union {p}

\* The request arrives in time and is accepted.
Accept(s) ==
    /\ task[s] # None /\ task[s].call = "sent"
    /\ Propose(<<task[s].row, task[s].dataset>>)
    /\ task' = [task EXCEPT ![s].call = "accepted"]
    /\ UNCHANGED <<config, keys, queue, audits, stray, deliveries, restarts>>

\* It is refused (key, dataset, contents, an entry of that id), or the network
\* fails before it gets there: a warning, and the row stays as it is.
Refuse(s) ==
    /\ task[s] # None /\ task[s].call = "sent"
    /\ task' = [task EXCEPT ![s] = None]
    /\ UNCHANGED <<config, keys, queue, audits, stray, drafts, accepted, deliveries, restarts>>

\* Slip: the call has no time limit and waits for an answer.
GivesUpNever(s) == FALSE

\* Five seconds without an answer.
GivesUp(s) == task[s] # None /\ task[s].call = "sent"

TimeOut(s) ==
    /\ GivesUp(s)
    /\ stray' = stray \union {<<task[s].row, task[s].dataset>>}
    /\ task' = [task EXCEPT ![s] = None]
    /\ UNCHANGED <<config, keys, queue, audits, drafts, accepted, deliveries, restarts>>

\* A request nobody waits for is handled after all, or lost.
StrayHandled(p) ==
    /\ p \in stray
    /\ stray' = stray \ {p}
    /\ \/ Propose(p)
       \/ UNCHANGED <<drafts, accepted>>
    /\ UNCHANGED <<config, keys, queue, audits, task, deliveries, restarts>>

\* Slip: the latest proposal is kept on the row, not the first.
ConsumedLast(row, d) == [row EXCEPT !.ref = d]

\* Slip: rows received while the consumer was off, without a class, are passed over.
ConsumedIfClassified(row, d) ==
    IF row.ref = None /\ row.class # None THEN [row EXCEPT !.ref = d] ELSE row

\* mark_writeback_consumed: UPDATE ... WHERE consumed_at IS NULL.
Consumed(row, d) == IF row.ref = None THEN [row EXCEPT !.ref = d] ELSE row

\* Slip: any end of the call is taken for a success.
AnsweredAnyhow(s) == task[s] # None

Answered(s) == task[s] # None /\ task[s].call = "accepted"

Mark(s) ==
    /\ Answered(s)
    /\ queue' = [queue EXCEPT ![task[s].row] = Consumed(@, task[s].dataset)]
    /\ task' = [task EXCEPT ![s] = None]
    /\ UNCHANGED <<config, keys, audits, stray, drafts, accepted, deliveries, restarts>>

-----------------------------------------------------------------------------
\* A reviewer of the governance service deletes a draft.
Discard(p) ==
    /\ p \in drafts
    /\ drafts' = drafts \ {p}
    /\ UNCHANGED <<config, keys, queue, audits, task, stray, accepted, deliveries, restarts>>

\* An administrator has a new key made: the deliverers are given it.
CreateKey(k) ==
    /\ k \notin keys
    /\ keys' = keys \union {k}
    /\ UNCHANGED <<config, queue, audits, task, stray, drafts, accepted, deliveries, restarts>>

Revoke(k) ==
    /\ k \in keys
    /\ keys' = keys \ {k}
    /\ UNCHANGED <<config, queue, audits, task, stray, drafts, accepted, deliveries, restarts>>

\* Crash or shutdown, and start with the configuration the environment has now, which
\* may name a new key to propose with.
Restart ==
    /\ restarts < MaxRestarts
    /\ restarts' = restarts + 1
    /\ config' \in Datasets \union {None}
    /\ keys' \in {keys, keys \union {"propose"}}
    /\ stray' = stray \union
         {<<task[s].row, task[s].dataset>> :
            s \in {t \in Slots : task[t] # None /\ task[t].call = "sent"}}
    /\ task' = [s \in Slots |-> None]
    /\ UNCHANGED <<queue, audits, drafts, accepted, deliveries>>

Init ==
    /\ config \in Datasets \union {None}
    /\ keys = {"receive", "propose"}
    /\ queue = <<>>
    /\ audits = {}
    /\ task = [s \in Slots |-> None]
    /\ stray = {}
    /\ drafts = {}
    /\ accepted = {}
    /\ deliveries = 0
    /\ restarts = 0

Next ==
    \/ \E e \in Events : Receive(e)
    \/ \E e \in Events, s \in Slots : ReceiveAndPropose(e, s)
    \/ \E s \in Slots : Accept(s) \/ Refuse(s) \/ TimeOut(s) \/ Mark(s)
    \/ \E p \in stray : StrayHandled(p)
    \/ \E p \in drafts : Discard(p)
    \/ CreateKey("receive")
    \/ \E k \in keys : Revoke(k)
    \/ Restart

\* A started task goes on by itself: its call ends within the time limit, and
\* what follows an answer needs nobody else.  Nothing is assumed of deliveries,
\* of the governance service, or of restarts.
Fairness == \A s \in Slots : WF_vars(TimeOut(s)) /\ WF_vars(Mark(s))

Spec == Init /\ [][Next]_vars

FairSpec == Spec /\ Fairness

-----------------------------------------------------------------------------
TypeOK ==
    /\ config \in Datasets \union {None}
    /\ keys \subseteq {"receive", "propose"}
    /\ queue \in Seq(Row)
    /\ audits \subseteq DOMAIN queue
    /\ task \in [Slots -> Task \union {None}]
    /\ stray \subseteq (DOMAIN queue) \X Datasets
    /\ drafts \subseteq accepted
    /\ accepted \subseteq (DOMAIN queue) \X Datasets
    /\ deliveries \in 0..MaxDeliveries
    /\ restarts \in 0..MaxRestarts

\* However often an event is delivered, and whatever restarts in between, it has
\* one row in the queue, and that row its one audit row (the dedup check and both
\* inserts of record_writeback_event are one transaction).
ReceivedOnce ==
    /\ \A i, j \in DOMAIN queue : queue[i].event = queue[j].event => i = j
    /\ audits = DOMAIN queue

\* A row marked as consumed names a proposal the governance service accepted,
\* although tasks of repeated deliveries, timeouts and reconfigurations overlap.
ConsumedWasAccepted ==
    \A i \in DOMAIN queue : queue[i].ref # None => <<i, queue[i].ref>> \in accepted

\* A row never changes once it is there, but for its anchor, which is set once:
\* a later task for the same event does not move it.
AnchorFixed ==
    [][ \A i \in DOMAIN queue :
          /\ i \in DOMAIN queue'
          /\ queue'[i] = IF queue[i].ref = None
                         THEN [queue[i] EXCEPT !.ref = queue'[i].ref] ELSE queue[i] ]_vars

\* Every proposal task ends: a governance service that never answers does not
\* pile up tasks in this one.
TasksEnd == \A s \in Slots : task[s] # None ~> task[s] = None

\* An acceptance that a task saw gets to the row unless a restart intervenes;
\* rows received while the consumer was off, and proposed after it was turned on
\* and they were delivered again, are no exception.
AcceptanceIsRecorded ==
    \A i \in 1..Cardinality(Events), n \in 0..MaxRestarts :
       (restarts = n /\ \E d \in Datasets, s \in Slots :
                          task[s] = [row |-> i, dataset |-> d, call |-> "accepted"])
         ~> (restarts > n \/ (i \in DOMAIN queue /\ queue[i].ref # None))

\* What model/writeback.rs says of an empty consumed_at: no proposal for the row
\* was accepted (once no task is at work on it).  Does not hold: an answer that
\* comes late, or after a restart, is never recorded.
UnconsumedWasNotAccepted ==
    \A i \in DOMAIN queue :
       (queue[i].ref = None /\ \A s \in Slots : task[s] # None => task[s].row # i)
         => \A d \in Datasets : <<i, d>> \notin accepted
=============================================================================
