-------------------------- MODULE WritebackProofs --------------------------
(***************************************************************************)
(* Theorems of Writeback for any number of events, slots, deliveries and   *)
(* restarts.  The invariant is a conjunction of two parts: what is on      *)
(* record (RecordInv: the queue, its audit rows and what the governance    *)
(* service ever accepted) and what is under way (FlightInv: the tasks and  *)
(* the requests nobody waits for).  A task speaks of a row that is there,  *)
(* and once it was answered its proposal was accepted: this is what makes  *)
(* the mark it leaves on the row true, however late it comes.              *)
(***************************************************************************)
EXTENDS Writeback, SequenceTheorems, TLAPS

Proposals == (DOMAIN queue) \X Datasets

RecordInv ==
    /\ queue \in Seq(Row)
    /\ accepted \subseteq Proposals
    /\ drafts \subseteq accepted
    /\ ReceivedOnce
    /\ ConsumedWasAccepted

\* What a task may hold, given the proposals that speak of a row and those that
\* were accepted.
Sound(t, known, good) ==
    /\ t \in Task
    /\ <<t.row, t.dataset>> \in known
    /\ t.call = "accepted" => <<t.row, t.dataset>> \in good

FlightInv ==
    /\ task \in [Slots -> Task \union {None}]
    /\ \A s \in Slots : task[s] # None => Sound(task[s], Proposals, accepted)
    /\ stray \subseteq Proposals

ControlInv ==
    /\ config \in Datasets \union {None}
    /\ keys \subseteq {"receive", "propose"}
    /\ deliveries \in 0..MaxDeliveries
    /\ restarts \in 0..MaxRestarts

WritebackInv == RecordInv /\ FlightInv /\ ControlInv

-----------------------------------------------------------------------------
(* What is on record.                                                      *)

\* The dedup check and both inserts are one transaction: the queue keeps its rows,
\* and grows by at most one, of an event that was not there
\* (record_writeback_event).
LEMMA RecordedFacts ==
    ASSUME RecordInv, config \in Datasets \union {None}, NEW e \in Events,
           NEW id, Recorded(e, id), UNCHANGED <<accepted, drafts>>
    PROVE  /\ RecordInv'
           /\ id \in DOMAIN queue'
           /\ DOMAIN queue \subseteq DOMAIN queue'
           /\ \A i \in DOMAIN queue : queue'[i] = queue[i]
  <1>1. CASE id \in RowsOf(e) /\ UNCHANGED <<queue, audits>>
    BY <1>1 DEF RecordInv, RowsOf, Proposals, ReceivedOnce, ConsumedWasAccepted
  <1>2. CASE /\ RowsOf(e) = {}
             /\ id = Len(queue) + 1
             /\ queue' = Append(queue,
                  [event |-> e, ref |-> None,
                   class |-> IF config = None THEN None ELSE Classify(FailureType[e])])
             /\ audits' = audits \union {id}
    <2> DEFINE class == IF config = None THEN None ELSE Classify(FailureType[e])
               row == [event |-> e, ref |-> None, class |-> class]
    <2>1. class \in Classes \union {None}
      BY DEF Classify, Classes
    <2> HIDE DEF class
    <2>2. row \in Row /\ row.event = e /\ row.ref = None
      BY <2>1 DEF Row
    <2>3. queue' = Append(queue, row) /\ id = Len(queue) + 1 /\ audits' = audits \union {id}
      BY <1>2 DEF class
    <2> HIDE DEF row
    <2>4. /\ queue' \in Seq(Row)
          /\ DOMAIN queue' = DOMAIN queue \union {id}
          /\ queue'[id] = row
          /\ \A i \in DOMAIN queue : queue'[i] = queue[i]
      BY <2>2, <2>3 DEF RecordInv
    <2>5. \A i \in DOMAIN queue : queue[i].event # e
      BY <1>2 DEF RowsOf
    <2>6. ReceivedOnce'
      BY <2>2, <2>3, <2>4, <2>5 DEF RecordInv, ReceivedOnce
    <2>7. ConsumedWasAccepted'
      BY <2>2, <2>4 DEF RecordInv, ConsumedWasAccepted
    <2>8. accepted' \subseteq Proposals' /\ drafts' \subseteq accepted'
      BY <2>4 DEF RecordInv, Proposals
    <2> QED
      BY <2>4, <2>6, <2>7, <2>8 DEF RecordInv
  <1> QED
    BY <1>1, <1>2 DEF Recorded

\* A new candidate is one the governance service accepts, for a row that is there
\* (propose_knowledge_entry).
LEMMA ProposeKeepsRecord ==
    ASSUME RecordInv, NEW p \in Proposals, Propose(p), UNCHANGED <<queue, audits>>
    PROVE  RecordInv' /\ p \in accepted' /\ accepted \subseteq accepted'
  <1>1. accepted' = accepted \union {p} /\ drafts' = drafts \union {p}
    BY DEF Propose
  <1>2. ReceivedOnce' /\ ConsumedWasAccepted'
    BY <1>1 DEF RecordInv, ReceivedOnce, ConsumedWasAccepted
  <1> QED
    BY <1>1, <1>2 DEF RecordInv, Proposals

\* The record is left alone.
LEMMA RecordStays ==
    ASSUME RecordInv, UNCHANGED <<queue, audits, accepted>>, drafts' \subseteq accepted
    PROVE  RecordInv'
  BY DEF RecordInv, Proposals, ReceivedOnce, ConsumedWasAccepted

-----------------------------------------------------------------------------
(* What is under way.                                                      *)

\* A slot is given up, or taken by a task that holds what a task may hold.
LEMMA SlotTaken ==
    ASSUME FlightInv, NEW s \in Slots, NEW t,
           DOMAIN queue \subseteq DOMAIN queue', accepted \subseteq accepted',
           t = None \/ Sound(t, Proposals', accepted'), task' = [task EXCEPT ![s] = t],
           stray' \subseteq stray \union Proposals
    PROVE  FlightInv'
  <1>1. task' \in [Slots -> Task \union {None}]
    BY DEF FlightInv, Sound
  <1>2. \A u \in Slots : task'[u] = IF u = s THEN t ELSE task[u]
    BY DEF FlightInv
  <1>3. \A u \in Slots : task'[u] # None => Sound(task'[u], Proposals', accepted')
    BY <1>2 DEF FlightInv, Sound, Proposals
  <1>4. stray' \subseteq Proposals'
    BY DEF FlightInv, Proposals
  <1> QED
    BY <1>1, <1>3, <1>4 DEF FlightInv

\* Nobody's task changes.
LEMMA FlightStays ==
    ASSUME FlightInv, task' = task, stray' \subseteq stray,
           DOMAIN queue \subseteq DOMAIN queue', accepted \subseteq accepted'
    PROVE  FlightInv'
  BY DEF FlightInv, Sound, Proposals

-----------------------------------------------------------------------------
(* The steps.                                                              *)

\* A task that is there holds what a task may hold.
LEMMA TaskFacts ==
    ASSUME FlightInv, NEW s \in Slots, task[s] # None
    PROVE  /\ task[s] \in Task
           /\ task[s].row \in DOMAIN queue /\ task[s].dataset \in Datasets
           /\ task[s].call = "accepted" => <<task[s].row, task[s].dataset>> \in accepted
  BY DEF FlightInv, Sound, Proposals, Task

\* A delivery keeps the invariant, whether or not it starts a task
\* (receive_rule_failure).
LEMMA DeliveryStep ==
    ASSUME WritebackInv, NEW e \in Events,
           Receive(e) \/ \E s \in Slots : ReceiveAndPropose(e, s)
    PROVE  WritebackInv'
  <1>1. deliveries' \in 0..MaxDeliveries /\ UNCHANGED <<config, keys, restarts>>
    BY WritebackAssumption DEF Receive, ReceiveAndPropose, WritebackInv, ControlInv
  <1>2. ControlInv'
    BY <1>1 DEF WritebackInv, ControlInv
  <1>3. CASE Receive(e)
    <2>1. PICK id : Recorded(e, id)
      BY <1>3 DEF Receive
    <2>2. UNCHANGED <<task, stray, accepted, drafts>>
      BY <1>3 DEF Receive
    <2>3. RecordInv' /\ DOMAIN queue \subseteq DOMAIN queue'
      BY <2>1, <2>2, RecordedFacts DEF WritebackInv, ControlInv
    <2>4. FlightInv'
      BY <2>2, <2>3, FlightStays DEF WritebackInv
    <2> QED
      BY <1>2, <2>3, <2>4 DEF WritebackInv
  <1>4. ASSUME NEW s \in Slots, ReceiveAndPropose(e, s) PROVE WritebackInv'
    <2>1. PICK id : /\ Recorded(e, id)
                    /\ task' = [task EXCEPT ![s] =
                         [row |-> id, dataset |-> config, call |-> "sent"]]
      BY <1>4 DEF ReceiveAndPropose
    <2>2. UNCHANGED <<stray, accepted, drafts>> /\ config \in Datasets
      BY <1>4 DEF ReceiveAndPropose, WritebackInv, ControlInv
    <2>3. RecordInv' /\ DOMAIN queue \subseteq DOMAIN queue' /\ id \in DOMAIN queue'
      BY <2>1, <2>2, RecordedFacts DEF WritebackInv, ControlInv
    <2> DEFINE t == [row |-> id, dataset |-> config, call |-> "sent"]
    <2>4. Sound(t, Proposals', accepted')
      <3>1. id \in Nat \ {0}
        BY <2>3 DEF RecordInv
      <3> QED
        BY <2>2, <2>3, <3>1 DEF Sound, Task, Proposals
    <2>5. task' = [task EXCEPT ![s] = t]
      BY <2>1
    <2> HIDE DEF t
    <2>6. FlightInv'
      BY <2>2, <2>3, <2>4, <2>5, SlotTaken DEF WritebackInv
    <2> QED
      BY <1>2, <2>3, <2>6 DEF WritebackInv
  <1> QED
    BY <1>3, <1>4

\* So does everything a task does with the answer to its call, or without one
\* (post_proposal, mark_writeback_consumed).
LEMMA TaskStep ==
    ASSUME WritebackInv, NEW s \in Slots,
           Accept(s) \/ Refuse(s) \/ TimeOut(s) \/ Mark(s)
    PROVE  WritebackInv'
  <1> DEFINE t == task[s]
             p == <<t.row, t.dataset>>
  <1>1. task[s] # None
    BY DEF Accept, Refuse, TimeOut, GivesUp, Mark, Answered
  <1>2. /\ t \in Task /\ t.row \in DOMAIN queue /\ t.dataset \in Datasets
        /\ p \in Proposals
        /\ t.call = "accepted" => p \in accepted
    BY <1>1, TaskFacts DEF WritebackInv, Proposals
  <1>3. ControlInv'
    BY DEF Accept, Refuse, TimeOut, Mark, WritebackInv, ControlInv
  <1>4. CASE Accept(s)
    <2> DEFINE n == [t EXCEPT !.call = "accepted"]
    <2>1. /\ Propose(p) /\ task' = [task EXCEPT ![s] = n]
          /\ UNCHANGED <<queue, audits, stray>>
      BY <1>2, <1>4 DEF Accept, WritebackInv, FlightInv
    <2>2. n \in Task /\ n.row = t.row /\ n.dataset = t.dataset
      BY <1>2 DEF Task
    <2>3. RecordInv' /\ p \in accepted' /\ accepted \subseteq accepted'
      BY <1>2, <2>1, ProposeKeepsRecord DEF WritebackInv
    <2>4. Sound(n, Proposals', accepted')
      BY <1>2, <2>1, <2>2, <2>3 DEF Sound, Proposals
    <2> HIDE DEF n
    <2>5. FlightInv'
      BY <2>1, <2>3, <2>4, SlotTaken DEF WritebackInv
    <2> QED
      BY <1>3, <2>3, <2>5 DEF WritebackInv
  <1>5. CASE Refuse(s) \/ TimeOut(s)
    <2>1. /\ task' = [task EXCEPT ![s] = None]
          /\ stray' \subseteq stray \union Proposals
          /\ UNCHANGED <<queue, audits, drafts, accepted>>
      BY <1>2, <1>5 DEF Refuse, TimeOut
    <2>2. RecordInv'
      BY <2>1, RecordStays DEF WritebackInv, RecordInv
    <2>3. FlightInv'
      BY <2>1, SlotTaken DEF WritebackInv
    <2> QED
      BY <1>3, <2>2, <2>3 DEF WritebackInv
  <1>6. CASE Mark(s)
    <2> DEFINE row == Consumed(queue[t.row], t.dataset)
    <2>1. /\ t.call = "accepted"
          /\ queue' = [queue EXCEPT ![t.row] = row]
          /\ task' = [task EXCEPT ![s] = None]
          /\ UNCHANGED <<audits, stray, drafts, accepted>>
      BY <1>6 DEF Mark, Answered
    <2>2. queue[t.row] \in Row
      BY <1>2 DEF WritebackInv, RecordInv
    <2>3. /\ row \in Row /\ row.event = queue[t.row].event
          /\ row.ref = IF queue[t.row].ref = None THEN t.dataset ELSE queue[t.row].ref
      BY <1>2, <2>2 DEF Consumed, Row
    <2> HIDE DEF row
    <2>4. /\ queue' \in Seq(Row) /\ DOMAIN queue' = DOMAIN queue
          /\ queue'[t.row] = row
          /\ \A i \in DOMAIN queue \ {t.row} : queue'[i] = queue[i]
      BY <1>2, <2>1, <2>3 DEF WritebackInv, RecordInv
    <2>5. \A i \in DOMAIN queue : queue'[i].event = queue[i].event
      BY <2>3, <2>4
    <2>6. ReceivedOnce'
      BY <2>1, <2>4, <2>5 DEF WritebackInv, RecordInv, ReceivedOnce
    <2>7. ConsumedWasAccepted'
      BY <1>2, <2>1, <2>3, <2>4 DEF WritebackInv, RecordInv, ConsumedWasAccepted
    <2>8. RecordInv'
      BY <2>1, <2>4, <2>6, <2>7 DEF WritebackInv, RecordInv, Proposals
    <2>9. FlightInv'
      BY <2>1, <2>4, SlotTaken DEF WritebackInv
    <2> QED
      BY <1>3, <2>8, <2>9 DEF WritebackInv
  <1> QED
    BY <1>4, <1>5, <1>6

\* So does what happens at the governance service when nobody waits for it.
LEMMA ServiceStep ==
    ASSUME WritebackInv,
           \/ \E p \in stray : StrayHandled(p)
           \/ \E p \in drafts : Discard(p)
    PROVE  WritebackInv'
  <1>1. CASE \E p \in stray : StrayHandled(p)
    <2>1. PICK p \in stray : StrayHandled(p)
      BY <1>1
    <2>2. p \in Proposals
      BY DEF WritebackInv, FlightInv
    <2>3. stray' \subseteq stray /\ UNCHANGED <<config, keys, queue, audits, task, deliveries, restarts>>
      BY <2>1 DEF StrayHandled
    <2>4. RecordInv' /\ accepted \subseteq accepted'
      <3>1. CASE Propose(p)
        BY <2>2, <2>3, <3>1, ProposeKeepsRecord DEF WritebackInv
      <3>2. CASE UNCHANGED <<drafts, accepted>>
        BY <2>3, <3>2, RecordStays DEF WritebackInv, RecordInv
      <3> QED
        BY <2>1, <3>1, <3>2 DEF StrayHandled
    <2>5. FlightInv'
      BY <2>3, <2>4, FlightStays DEF WritebackInv
    <2> QED
      BY <2>3, <2>4, <2>5 DEF WritebackInv, ControlInv
  <1>2. CASE \E p \in drafts : Discard(p)
    <2>1. PICK p \in drafts : Discard(p)
      BY <1>2
    <2>2. drafts' \subseteq drafts /\ UNCHANGED <<config, keys, queue, audits, task, stray, accepted, deliveries, restarts>>
      BY <2>1 DEF Discard
    <2>3. RecordInv'
      BY <2>2, RecordStays DEF WritebackInv, RecordInv
    <2>4. FlightInv'
      BY <2>2, FlightStays DEF WritebackInv
    <2> QED
      BY <2>2, <2>3, <2>4 DEF WritebackInv, ControlInv
  <1> QED
    BY <1>1, <1>2

\* A restart forgets every task and leaves what it sent under way.
LEMMA RestartStep ==
    ASSUME WritebackInv, Restart
    PROVE  WritebackInv'
  <1>1. UNCHANGED <<queue, audits, drafts, accepted>>
    BY DEF Restart
  <1>2. RecordInv'
    BY <1>1, RecordStays DEF WritebackInv, RecordInv
  <1>3. \A s \in Slots : task[s] # None => <<task[s].row, task[s].dataset>> \in Proposals
    BY TaskFacts DEF WritebackInv, Proposals
  <1>4. stray' \subseteq Proposals
    BY <1>3 DEF Restart, WritebackInv, FlightInv
  <1>5. FlightInv'
    BY <1>1, <1>4 DEF Restart, FlightInv, Proposals
  <1>6. ControlInv'
    BY WritebackAssumption DEF Restart, WritebackInv, ControlInv
  <1> QED
    BY <1>2, <1>5, <1>6 DEF WritebackInv

\* Every step of the specification keeps the invariant.
LEMMA WritebackStep ==
    WritebackInv /\ [Next]_vars => WritebackInv'
  <1> SUFFICES ASSUME WritebackInv, [Next]_vars PROVE WritebackInv'
    OBVIOUS
  <1>1. CASE (\E e \in Events : Receive(e)) \/ (\E e \in Events, s \in Slots : ReceiveAndPropose(e, s))
    BY <1>1, DeliveryStep
  <1>2. CASE \E s \in Slots : Accept(s) \/ Refuse(s) \/ TimeOut(s) \/ Mark(s)
    BY <1>2, TaskStep
  <1>3. CASE (\E p \in stray : StrayHandled(p)) \/ (\E p \in drafts : Discard(p))
    BY <1>3, ServiceStep
  <1>4. CASE \/ CreateKey("receive")
             \/ \E k \in keys : Revoke(k)
             \/ UNCHANGED vars
    <2>1. /\ keys' \subseteq {"receive", "propose"}
          /\ UNCHANGED <<config, queue, audits, task, stray, drafts, accepted, deliveries, restarts>>
      BY <1>4 DEF CreateKey, Revoke, vars, WritebackInv, ControlInv
    <2>2. RecordInv'
      BY <2>1, RecordStays DEF WritebackInv, RecordInv
    <2>3. FlightInv'
      BY <2>1, FlightStays DEF WritebackInv
    <2> QED
      BY <2>1, <2>2, <2>3 DEF WritebackInv, ControlInv
  <1> QED
    BY <1>1, <1>2, <1>3, <1>4, RestartStep DEF Next

LEMMA WritebackInit == Init => WritebackInv
  <1> SUFFICES ASSUME Init PROVE WritebackInv
    OBVIOUS
  <1>1. RecordInv
    BY DEF Init, RecordInv, Proposals, ReceivedOnce, ConsumedWasAccepted
  <1>2. FlightInv /\ ControlInv
    BY WritebackAssumption DEF Init, FlightInv, ControlInv
  <1> QED
    BY <1>1, <1>2 DEF WritebackInv

\* The invariant holds in every state deliveries, tasks and restarts can reach.
THEOREM WritebackInvariant == Spec => []WritebackInv
  BY WritebackInit, WritebackStep, PTL DEF Spec

-----------------------------------------------------------------------------
(* The properties.                                                         *)

\* The variables keep their types; every task, stray request and proposal speaks of
\* a row of the queue.
THEOREM WritebackTypeCorrect == Spec => []TypeOK
  <1>1. WritebackInv => TypeOK
    BY DEF WritebackInv, RecordInv, FlightInv, ControlInv, Proposals, ReceivedOnce, TypeOK
  <1> QED
    BY <1>1, WritebackInvariant, PTL

\* However often an event is delivered, it has one row, and every row its audit row
\* (record_writeback_event).
THEOREM EventsAreReceivedOnce == Spec => []ReceivedOnce
  <1>1. WritebackInv => ReceivedOnce
    BY DEF WritebackInv, RecordInv
  <1> QED
    BY <1>1, WritebackInvariant, PTL

\* A row marked as consumed names a proposal that was accepted, whatever timeouts,
\* repeated deliveries and restarts came in between (mark_writeback_consumed).
THEOREM MarksAreTrue == Spec => []ConsumedWasAccepted
  <1>1. WritebackInv => ConsumedWasAccepted
    BY DEF WritebackInv, RecordInv
  <1> QED
    BY <1>1, WritebackInvariant, PTL

\* A row never changes but for its anchor, and the first proposal marked stays its
\* anchor (UPDATE ... WHERE consumed_at IS NULL).
THEOREM AnchorsStay == Spec => AnchorFixed
  <1> DEFINE Fixed == \A i \in DOMAIN queue :
               /\ i \in DOMAIN queue'
               /\ queue'[i] = IF queue[i].ref = None
                              THEN [queue[i] EXCEPT !.ref = queue'[i].ref] ELSE queue[i]
  <1>1. ASSUME WritebackInv, [Next]_vars PROVE Fixed
    <2>1. \A i \in DOMAIN queue : queue[i] \in Row
      BY <1>1 DEF WritebackInv, RecordInv
    <2>2. \A i \in DOMAIN queue : queue[i] = [queue[i] EXCEPT !.ref = queue[i].ref]
      BY <2>1 DEF Row
    <2>3. ASSUME queue' = queue PROVE Fixed
      BY <2>2, <2>3
    <2>4. ASSUME NEW e \in Events, NEW id, Recorded(e, id) PROVE Fixed
      <3>1. DOMAIN queue \subseteq DOMAIN queue' /\ \A i \in DOMAIN queue : queue'[i] = queue[i]
        BY <1>1, <2>4 DEF WritebackInv, RecordInv, Recorded
      <3> QED
        BY <2>2, <3>1
    <2>5. CASE (\E e \in Events : Receive(e)) \/ (\E e \in Events, s \in Slots : ReceiveAndPropose(e, s))
      BY <2>4, <2>5 DEF Receive, ReceiveAndPropose
    <2>6. ASSUME NEW s \in Slots, Mark(s) PROVE Fixed
      <3> DEFINE n == task[s].row
      <3>1. n \in DOMAIN queue
        BY <1>1, <2>6, TaskFacts DEF Mark, Answered, WritebackInv
      <3>2. queue' = [queue EXCEPT ![n] = Consumed(queue[n], task[s].dataset)]
        BY <2>6 DEF Mark
      <3> HIDE DEF n
      <3>3. /\ DOMAIN queue' = DOMAIN queue
            /\ queue'[n] = Consumed(queue[n], task[s].dataset)
            /\ \A i \in DOMAIN queue \ {n} : queue'[i] = queue[i]
        BY <1>1, <3>1, <3>2 DEF WritebackInv, RecordInv
      <3>4. queue'[n] = IF queue[n].ref = None
                        THEN [queue[n] EXCEPT !.ref = queue'[n].ref] ELSE queue[n]
        BY <2>1, <3>1, <3>3 DEF Consumed, Row
      <3> QED
        BY <2>2, <3>3, <3>4
    <2>7. ASSUME NEW s \in Slots, Accept(s) \/ Refuse(s) \/ TimeOut(s) PROVE Fixed
      BY <2>3, <2>7 DEF Accept, Refuse, TimeOut
    <2>8. CASE \/ \E p \in stray : StrayHandled(p)
               \/ \E p \in drafts : Discard(p)
               \/ CreateKey("receive")
               \/ \E k \in keys : Revoke(k)
               \/ Restart
               \/ UNCHANGED vars
      BY <2>3, <2>8 DEF StrayHandled, Discard, CreateKey, Revoke, Restart, vars
    <2> QED
      BY <1>1, <2>5, <2>6, <2>7, <2>8 DEF Next
  <1> QED
    BY <1>1, WritebackInvariant, PTL DEF AnchorFixed, Spec
=============================================================================
