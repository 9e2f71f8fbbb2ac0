---------------------------- MODULE CacheProofs ----------------------------
(***************************************************************************)
(* Theorems of what the service keeps in memory to answer by: the map of   *)
(* the idempotency middleware (IdempotencyCache) and the domain schemas    *)
(* (SchemaCache), for any number of keys, bodies, tasks, files, lookups    *)
(* and edits.                                                              *)
(*                                                                         *)
(* The idempotency map, for any limits, provided that no request takes     *)
(* longer than the in-flight limit (InTime): with a slower one a           *)
(* registration is taken over while its handler still runs, and none of    *)
(* the three holds.  The invariant ties the three things that know of a    *)
(* request together: the task that serves it, the entry of its key and its *)
(* run.  A running task owns the entry of its key, and a stored response   *)
(* keeps the key until its time is over.                                   *)
(*                                                                         *)
(* The schemas: a lookup answers out of the scan of another when their     *)
(* fingerprints agree.  Of each scan, stored or under way, ScanSound says  *)
(* two things: what it read is what the directory says, of all that is not *)
(* newer than its fingerprint; and a lookup that has walked past its file  *)
(* has by then a later fingerprint than the scan, or saw what it read.     *)
(***************************************************************************)
EXTENDS IdempotencyCache, SchemaCache, TLAPS

\* Every request is answered or dropped within the in-flight limit.
InTime == MaxRun <= PendingTimeout

\* A request is no older than it may take.
AgeInv ==
    \A h \in Tasks : task[h] # None =>
       task[h].now <= clock /\ clock <= task[h].now + MaxRun

\* A running task has the entry of its key, and its run is the last one under it.
Owns(h) ==
    LET t == task[h]
        e == idem[t.key] IN
    /\ e # None /\ e.state = "Pending" /\ e.body = t.body /\ e.expires = t.now + TTL
    /\ t.run = Len(runs[t.key]) /\ t.run > 0
    /\ runs[t.key][t.run].body = t.body

OwnerInv == \A h \in Tasks : Running(h) => Owns(h)

\* A Done entry names the run its response is from.
DoneInv ==
    \A k \in Keys : idem[k] # None /\ idem[k].state = "Done" =>
       /\ idem[k].run \in DOMAIN runs[k]
       /\ runs[k][idem[k].run].body = idem[k].body

\* A stored response keeps the entry e of its key for TTL.
Holds(e, now, stored) ==
    \/ now >= stored + TTL
    \/ e # None /\ e.state = "Done" /\ e.expires >= stored + TTL

StoredInv ==
    \A k \in Keys : \A i \in DOMAIN runs[k] :
       runs[k][i].stored # None => Holds(idem[k], clock, runs[k][i].stored)

CacheInv ==
    TypeOK /\ AgeInv /\ OwnerInv /\ DoneInv /\ StoredInv /\ SingleFlight /\ RetriesDoNotRepeat

-----------------------------------------------------------------------------
(* What a visit of the map keeps.                                          *)

\* The entry of a key after the eviction.
LEMMA RetainedFacts ==
    ASSUME TypeOK, NEW now \in Time
    PROVE  /\ Retained(now) \in [Keys -> Entry \union {None}]
           /\ \A k \in Keys : Retained(now)[k] \in {idem[k], None}
           /\ \A k \in Keys : idem[k] # None =>
                /\ idem[k] \in Entry /\ idem[k].expires \in Nat
                /\ idem[k].expires > now => Retained(now)[k] = idem[k]
                /\ ~(idem[k].expires > now) => Retained(now)[k] = None
  BY DEF TypeOK, Retained, Entry

\* Nobody who visits the map evicts or outwaits the entry of a running task.
LEMMA OwnedStays ==
    ASSUME InTime, CacheInv, NEW g \in Tasks, task[g] # None, NEW h \in Tasks, Running(h)
    PROVE  /\ Retained(task[g].now)[task[h].key] = idem[task[h].key]
           /\ idem[task[h].key] # None
           /\ ~TimedOut(idem[task[h].key], task[g].now)
  <1> DEFINE k == task[h].key
             e == idem[k]
             now == task[g].now
             then == task[h].now
  <1>1. /\ task[g] \in Task /\ task[h] \in Task
        /\ now \in Time /\ then \in Time /\ k \in Keys /\ clock \in Time
    BY DEF CacheInv, TypeOK, Running, Task
  <1>2. /\ now <= clock /\ clock <= then + MaxRun
    BY DEF CacheInv, AgeInv, Running
  <1>3. e # None /\ e.state = "Pending" /\ e.expires = then + TTL
    BY DEF CacheInv, OwnerInv, Owns
  <1> HIDE DEF k, now, then
  <1>4. now < then + TTL /\ ~(now > then + TTL - TTL + PendingTimeout)
    BY <1>1, <1>2, IdempotencyAssumption DEF InTime, Time
  <1>5. e.expires > now
    BY <1>1, <1>3, <1>4, IdempotencyAssumption DEF Time
  <1>6. Retained(now)[k] = e
    BY <1>1, <1>3, <1>5, RetainedFacts DEF CacheInv
  <1>7. ~TimedOut(e, now)
    <2> HIDE DEF e
    <2>1. e.expires - TTL + PendingTimeout = then + TTL - TTL + PendingTimeout
      BY <1>1, <1>3, IdempotencyAssumption DEF Time
    <2> QED
      BY <1>4, <2>1 DEF TimedOut
  <1> QED
    BY <1>3, <1>6, <1>7 DEF k, now

\* Nor that of a response stored less than TTL ago.
LEMMA StoredStays ==
    ASSUME CacheInv, NEW g \in Tasks, task[g] # None, NEW k \in Keys,
           NEW stored \in Time, Holds(idem[k], clock, stored), clock < stored + TTL
    PROVE  /\ Retained(task[g].now)[k] = idem[k]
           /\ idem[k] # None /\ idem[k].state = "Done" /\ idem[k].expires >= stored + TTL
           /\ ~TimedOut(idem[k], task[g].now)
  <1> DEFINE now == task[g].now
  <1>1. task[g] \in Task /\ now \in Time /\ clock \in Time /\ now <= clock
    BY DEF CacheInv, TypeOK, Task, AgeInv
  <1> HIDE DEF now
  <1>2. clock \in Nat /\ now \in Nat /\ stored \in Nat /\ TTL \in Nat
    BY <1>1, IdempotencyAssumption DEF Time
  <1>3. idem[k] # None /\ idem[k].state = "Done" /\ idem[k].expires >= stored + TTL
    BY <1>2 DEF Holds
  <1>4. idem[k] \in Entry /\ idem[k].expires \in Nat
    BY <1>1, <1>3, RetainedFacts DEF CacheInv
  <1>5. idem[k].expires > now
    BY <1>1, <1>2, <1>3, <1>4
  <1>6. Retained(now)[k] = idem[k]
    BY <1>1, <1>3, <1>5, RetainedFacts DEF CacheInv
  <1> QED
    BY <1>3, <1>6 DEF TimedOut, now
-----------------------------------------------------------------------------
(* The steps.                                                              *)

\* A step that changes nothing but the clock and the tasks that are not running.
LEMMA Bystanders ==
    ASSUME CacheInv, idem' = idem, runs' = runs, TypeOK', clock' >= clock,
           \A h \in Tasks : Running(h)' => Running(h) /\ task'[h] = task[h],
           AgeInv'
    PROVE  CacheInv'
  <1>1. clock \in Nat /\ clock' \in Nat /\ TTL \in Nat
    BY IdempotencyAssumption DEF CacheInv, TypeOK, Time
  <1>2. OwnerInv'
    BY DEF CacheInv, OwnerInv, Owns
  <1>3. DoneInv' /\ RetriesDoNotRepeat'
    BY DEF CacheInv, DoneInv, RetriesDoNotRepeat
  <1>4. SingleFlight'
    BY DEF CacheInv, SingleFlight
  <1>5. StoredInv'
    <2> SUFFICES ASSUME NEW k \in Keys, NEW i \in DOMAIN runs[k], runs[k][i].stored # None
                 PROVE  Holds(idem'[k], clock', runs[k][i].stored)
      BY DEF StoredInv
    <2>1. runs[k] \in Seq(Run)
      BY DEF CacheInv, TypeOK
    <2>2. runs[k][i] \in Run
      BY <2>1
    <2>3. runs[k][i].stored \in Nat
      BY <2>2, IdempotencyAssumption DEF Run, Time
    <2>4. Holds(idem[k], clock, runs[k][i].stored)
      BY DEF CacheInv, StoredInv
    <2> QED
      BY <1>1, <2>3, <2>4 DEF Holds
  <1> QED
    BY <1>2, <1>3, <1>4, <1>5 DEF CacheInv

LEMMA TickStep == CacheInv /\ Tick => CacheInv'
  <1> SUFFICES ASSUME CacheInv, Tick PROVE CacheInv'
    OBVIOUS
  <1>1. /\ clock < MaxTime /\ clock' = clock + 1 /\ clock \in Time
        /\ idem' = idem /\ task' = task /\ runs' = runs /\ arrivals' = arrivals
        /\ \A h \in Tasks : task[h] # None => clock < task[h].now + MaxRun
    BY DEF Tick, CacheInv, TypeOK
  <1>2. clock' \in Time /\ clock' >= clock
    BY <1>1, IdempotencyAssumption DEF Time
  <1>3. TypeOK'
    BY <1>1, <1>2 DEF CacheInv, TypeOK
  <1>4. AgeInv'
    <2> SUFFICES ASSUME NEW h \in Tasks, task[h] # None
                 PROVE  task[h].now <= clock' /\ clock' <= task[h].now + MaxRun
      BY <1>1 DEF AgeInv
    <2>1. task[h] \in Task /\ task[h].now \in Time
      BY DEF CacheInv, TypeOK, Task
    <2> QED
      BY <1>1, <2>1, IdempotencyAssumption DEF CacheInv, AgeInv, Time
  <1> QED
    BY <1>1, <1>2, <1>3, <1>4, Bystanders DEF Running

LEMMA ArriveStep ==
    ASSUME CacheInv, NEW h \in Tasks, NEW k \in Keys, NEW b \in Bodies, Arrive(h, k, b)
    PROVE  CacheInv'
  <1> DEFINE t == [pc |-> "arrived", key |-> k, body |-> b, now |-> clock, run |-> 0]
  <1>1. clock \in Time /\ arrivals \in 0..MaxRequests
    BY DEF CacheInv, TypeOK
  <1>2. t \in Task /\ t.pc = "arrived" /\ t.now = clock
    BY <1>1 DEF Task
  <1>3. /\ task' = [task EXCEPT ![h] = t] /\ arrivals < MaxRequests /\ arrivals' = arrivals + 1
        /\ clock' = clock /\ idem' = idem /\ runs' = runs
    BY DEF Arrive
  <1> HIDE DEF t
  <1>4. arrivals' \in 0..MaxRequests
    BY <1>1, <1>3, IdempotencyAssumption
  <1>5. TypeOK'
    BY <1>2, <1>3, <1>4 DEF CacheInv, TypeOK
  <1>6. \A g \in Tasks : task'[g] = IF g = h THEN t ELSE task[g]
    BY <1>3 DEF CacheInv, TypeOK
  <1>7. AgeInv'
    BY <1>1, <1>2, <1>3, <1>6, IdempotencyAssumption DEF CacheInv, AgeInv, Time
  <1>8. \A g \in Tasks : Running(g)' => Running(g) /\ task'[g] = task[g]
    BY <1>2, <1>6 DEF Running
  <1> QED
    BY <1>1, <1>3, <1>5, <1>7, <1>8, Bystanders DEF Time

LEMMA CancelStep ==
    ASSUME CacheInv, NEW h \in Tasks, Cancel(h)
    PROVE  CacheInv'
  <1>1. /\ task' = [task EXCEPT ![h] = None] /\ arrivals' = arrivals
        /\ clock' = clock /\ idem' = idem /\ runs' = runs /\ clock \in Time
    BY DEF Cancel, CacheInv, TypeOK
  <1>2. \A g \in Tasks : task'[g] = IF g = h THEN None ELSE task[g]
    BY <1>1 DEF CacheInv, TypeOK
  <1>3. TypeOK'
    BY <1>1 DEF CacheInv, TypeOK
  <1>4. AgeInv'
    BY <1>1, <1>2 DEF CacheInv, AgeInv
  <1>5. \A g \in Tasks : Running(g)' => Running(g) /\ task'[g] = task[g]
    BY <1>2 DEF Running
  <1> QED
    BY <1>1, <1>3, <1>4, <1>5, Bystanders DEF Time
\* A request that is registered finds no handler running under its key, and no response
\* that is still good.
LEMMA RegisterStep ==
    ASSUME InTime, CacheInv, NEW h \in Tasks, Register(h)
    PROVE  CacheInv'
  <1> DEFINE t == task[h]
             q == t.key
             now == t.now
             n == Len(runs[q]) + 1
             entry == [body |-> t.body, state |-> "Pending", run |-> 0, expires |-> now + TTL]
             run == [body |-> t.body, start |-> clock, stored |-> None]
             T == [t EXCEPT !.pc = "running", !.run = n]
  <1>1. /\ t \in Task /\ t # None /\ t.pc = "arrived" /\ clock' = clock /\ arrivals' = arrivals
        /\ idem' = [Retained(now) EXCEPT ![q] = entry]
        /\ runs' = [runs EXCEPT ![q] = Append(runs[q], run)]
        /\ task' = [task EXCEPT ![h].pc = "running", ![h].run = n]
        /\ Retained(now)[q] # None => TimedOut(Retained(now)[q], now)
    BY DEF Register, Arrived, CacheInv, TypeOK
  <1>2. /\ q \in Keys /\ now \in Time /\ clock \in Time /\ runs[q] \in Seq(Run) /\ n \in Nat /\ n > 0
    BY <1>1 DEF CacheInv, TypeOK, Task
  <1>3. /\ entry \in Entry /\ entry.state = "Pending" /\ entry.body = t.body
        /\ entry.expires = now + TTL
        /\ run \in Run /\ run.body = t.body /\ run.start = clock /\ run.stored = None
    <2>1. now + TTL \in Nat /\ t.body \in Bodies
      BY <1>1, <1>2, IdempotencyAssumption DEF Time, Task
    <2> QED
      BY <1>2, <2>1 DEF Entry, Run
  <1>4. /\ T \in Task /\ T.key = q /\ T.body = t.body /\ T.now = now /\ T.run = n
        /\ T.pc = "running"
    BY <1>1, <1>2 DEF Task
  <1>5. task' = [task EXCEPT ![h] = T]
    BY <1>1 DEF CacheInv, TypeOK, Task
  <1> HIDE DEF entry, run, T
  <1>6. \A g \in Tasks : task'[g] = IF g = h THEN T ELSE task[g]
    BY <1>5 DEF CacheInv, TypeOK
  <1>7. \A k \in Keys : idem'[k] = IF k = q THEN entry ELSE Retained(now)[k]
    BY <1>1, <1>2, RetainedFacts DEF CacheInv
  <1>8. \A k \in Keys : runs'[k] = IF k = q THEN Append(runs[q], run) ELSE runs[k]
    BY <1>1, <1>2 DEF CacheInv, TypeOK
  <1>9. /\ runs'[q] \in Seq(Run) /\ Len(runs'[q]) = n /\ runs'[q][n] = run
        /\ DOMAIN runs'[q] = 1..n /\ DOMAIN runs[q] = 1..(n - 1)
        /\ \A i \in 1..(n - 1) : runs'[q][i] = runs[q][i]
    <2>1. runs'[q] = Append(runs[q], run)
      BY <1>2, <1>8
    <2>2. Len(runs[q]) \in Nat /\ DOMAIN runs[q] = 1..Len(runs[q]) /\ n - 1 = Len(runs[q])
      BY <1>2
    <2>3. /\ Append(runs[q], run) \in Seq(Run) /\ Len(Append(runs[q], run)) = Len(runs[q]) + 1
          /\ Append(runs[q], run)[Len(runs[q]) + 1] = run
          /\ \A i \in 1..Len(runs[q]) : Append(runs[q], run)[i] = runs[q][i]
      BY <1>2, <1>3
    <2> QED
      BY <2>1, <2>2, <2>3
  <1> HIDE DEF n, q, now, t
  <1>10. TypeOK'
    <2>1. idem' \in [Keys -> Entry \union {None}]
      BY <1>1, <1>2, <1>3, RetainedFacts DEF CacheInv
    <2>2. task' \in [Tasks -> Task \union {None}]
      BY <1>4, <1>5 DEF CacheInv, TypeOK
    <2>3. runs' \in [Keys -> Seq(Run)]
      <3>1. Append(runs[q], run) \in Seq(Run)
        BY <1>2, <1>3
      <3> QED
        BY <1>1, <3>1 DEF CacheInv, TypeOK
    <2> QED
      BY <1>1, <2>1, <2>2, <2>3 DEF CacheInv, TypeOK
  <1>11. AgeInv'
    BY <1>1, <1>4, <1>6 DEF CacheInv, AgeInv, now, t
  <1>12. ASSUME NEW g \in Tasks, Running(g)
         PROVE  /\ task[g].key # q /\ Retained(now)[task[g].key] = idem[task[g].key]
                /\ task[g].key \in Keys
    <2>1. /\ Retained(now)[task[g].key] = idem[task[g].key]
          /\ idem[task[g].key] # None
          /\ ~TimedOut(idem[task[g].key], now)
      BY <1>1, <1>12, OwnedStays DEF now, t
    <2>2. task[g].key \in Keys
      BY <1>12 DEF CacheInv, TypeOK, Running, Task
    <2> QED
      BY <1>1, <2>1, <2>2
  <1>13. OwnerInv'
    <2> SUFFICES ASSUME NEW g \in Tasks, Running(g)' PROVE Owns(g)'
      BY DEF OwnerInv
    <2>1. CASE g = h
      <3>1. entry # None
        BY <1>3, NoneAssumption
      <3> QED
        BY <1>2, <1>3, <1>4, <1>6, <1>7, <1>9, <2>1, <3>1 DEF Owns
    <2>2. CASE g # h
      <3>1. Running(g) /\ task'[g] = task[g]
        BY <1>6, <2>2 DEF Running
      <3>2. idem'[task[g].key] = idem[task[g].key] /\ runs'[task[g].key] = runs[task[g].key]
        BY <1>7, <1>8, <1>12, <3>1
      <3>3. Owns(g)
        BY <3>1 DEF CacheInv, OwnerInv
      <3> QED
        BY <3>1, <3>2, <3>3 DEF Owns
    <2> QED
      BY <2>1, <2>2
  <1>14. SingleFlight'
    BY <1>4, <1>6, <1>12 DEF CacheInv, SingleFlight, Running
  <1>15. DoneInv'
    <2> SUFFICES ASSUME NEW k \in Keys, idem'[k] # None, idem'[k].state = "Done"
                 PROVE  /\ idem'[k].run \in DOMAIN runs'[k]
                        /\ runs'[k][idem'[k].run].body = idem'[k].body
      BY DEF DoneInv
    <2>1. k # q
      BY <1>3, <1>7
    <2>2. idem'[k] = idem[k] /\ runs'[k] = runs[k]
      BY <1>2, <1>7, <1>8, <2>1, RetainedFacts DEF CacheInv
    <2> QED
      BY <2>2 DEF CacheInv, DoneInv
  <1>16. ASSUME NEW k \in Keys, NEW i \in DOMAIN runs[k], runs[k][i].stored # None,
                ~(clock >= runs[k][i].stored + TTL)
         PROVE  k # q /\ Retained(now)[k] = idem[k] /\ Holds(idem[k], clock, runs[k][i].stored)
    <2> DEFINE s == runs[k][i].stored
    <2>1. s \in Time
      <3>1. runs[k] \in Seq(Run)
        BY DEF CacheInv, TypeOK
      <3>2. runs[k][i] \in Run
        BY <3>1
      <3> QED
        BY <1>16, <3>2 DEF Run
    <2>2. Holds(idem[k], clock, s)
      BY <1>16 DEF CacheInv, StoredInv
    <2>3. clock < s + TTL
      BY <1>2, <1>16, <2>1, IdempotencyAssumption DEF Time
    <2> HIDE DEF s
    <2>4. /\ Retained(now)[k] = idem[k] /\ idem[k] # None /\ ~TimedOut(idem[k], now)
      BY <1>1, <2>1, <2>2, <2>3, StoredStays DEF now, t
    <2> QED
      BY <1>1, <2>2, <2>4 DEF s
  <1>17. StoredInv'
    <2> SUFFICES ASSUME NEW k \in Keys, NEW i \in DOMAIN runs'[k], runs'[k][i].stored # None
                 PROVE  Holds(idem'[k], clock', runs'[k][i].stored)
      BY DEF StoredInv
    <2>1. i \in DOMAIN runs[k] /\ runs'[k][i] = runs[k][i]
      BY <1>2, <1>3, <1>8, <1>9
    <2>2. CASE clock >= runs[k][i].stored + TTL
      BY <1>1, <2>1, <2>2 DEF Holds
    <2>3. CASE ~(clock >= runs[k][i].stored + TTL)
      <3>1. k # q /\ Retained(now)[k] = idem[k] /\ Holds(idem[k], clock, runs[k][i].stored)
        BY <1>16, <2>1, <2>3
      <3>2. idem'[k] = idem[k]
        BY <1>7, <3>1
      <3> QED
        BY <1>1, <2>1, <3>1, <3>2 DEF Holds
    <2> QED
      BY <2>2, <2>3
  <1>18. RetriesDoNotRepeat'
    <2> SUFFICES ASSUME NEW k \in Keys, NEW i \in DOMAIN runs'[k], NEW j \in DOMAIN runs'[k],
                        i < j, runs'[k][i].stored # None
                 PROVE  runs'[k][j].start >= runs'[k][i].stored + TTL
      BY DEF RetriesDoNotRepeat
    <2>1. CASE k = q /\ j = n
      <3>1. i \in 1..(n - 1)
        BY <1>2, <1>9, <2>1
      <3>2. runs'[q][i] = runs[q][i] /\ i \in DOMAIN runs[q]
        BY <1>9, <3>1
      <3>3. clock >= runs[q][i].stored + TTL
        BY <1>2, <1>16, <2>1, <3>2
      <3> QED
        BY <1>3, <1>9, <2>1, <3>2, <3>3
    <2>2. CASE ~(k = q /\ j = n)
      <3>1. i \in DOMAIN runs[k] /\ j \in DOMAIN runs[k]
        BY <1>2, <1>8, <1>9, <2>2
      <3>2. runs'[k][i] = runs[k][i] /\ runs'[k][j] = runs[k][j]
        BY <1>8, <1>9, <3>1
      <3> QED
        BY <3>1, <3>2 DEF CacheInv, RetriesDoNotRepeat
    <2> QED
      BY <2>1, <2>2
  <1> QED
    BY <1>10, <1>11, <1>13, <1>14, <1>15, <1>17, <1>18 DEF CacheInv
\* A request that is answered from the map changes nothing that counts.
LEMMA AnswerStep ==
    ASSUME InTime, CacheInv, NEW h \in Tasks, Answer(h)
    PROVE  CacheInv'
  <1> DEFINE now == task[h].now
  <1>1. /\ task[h] \in Task /\ task[h] # None /\ now \in Time /\ clock \in Time
        /\ idem' = Retained(now) /\ task' = [task EXCEPT ![h] = None]
        /\ clock' = clock /\ runs' = runs /\ arrivals' = arrivals
    BY DEF Answer, Arrived, CacheInv, TypeOK, Task
  <1>2. \A g \in Tasks : task'[g] = IF g = h THEN None ELSE task[g]
    BY <1>1 DEF CacheInv, TypeOK
  <1>3. /\ idem' \in [Keys -> Entry \union {None}]
        /\ \A k \in Keys : idem'[k] \in {idem[k], None}
    BY <1>1, RetainedFacts DEF CacheInv
  <1>4. TypeOK'
    BY <1>1, <1>3 DEF CacheInv, TypeOK
  <1>5. AgeInv' /\ SingleFlight' /\ RetriesDoNotRepeat'
    BY <1>1, <1>2 DEF CacheInv, AgeInv, SingleFlight, RetriesDoNotRepeat, Running
  <1>6. OwnerInv'
    <2> SUFFICES ASSUME NEW g \in Tasks, Running(g)' PROVE Owns(g)'
      BY DEF OwnerInv
    <2>1. Running(g) /\ task'[g] = task[g]
      BY <1>2 DEF Running
    <2>2. idem'[task[g].key] = idem[task[g].key]
      BY <1>1, <2>1, OwnedStays
    <2> QED
      BY <1>1, <2>1, <2>2 DEF CacheInv, OwnerInv, Owns
  <1>7. DoneInv'
    BY <1>1, <1>3 DEF CacheInv, DoneInv
  <1>8. StoredInv'
    <2> SUFFICES ASSUME NEW k \in Keys, NEW i \in DOMAIN runs[k], runs[k][i].stored # None
                 PROVE  Holds(idem'[k], clock', runs[k][i].stored)
      BY <1>1 DEF StoredInv
    <2> DEFINE s == runs[k][i].stored
    <2>1. s \in Time
      <3>1. runs[k] \in Seq(Run)
        BY DEF CacheInv, TypeOK
      <3>2. runs[k][i] \in Run
        BY <3>1
      <3> QED
        BY <3>2 DEF Run
    <2>2. Holds(idem[k], clock, s)
      BY DEF CacheInv, StoredInv
    <2> HIDE DEF s
    <2>3. CASE clock >= s + TTL
      BY <1>1, <2>3 DEF Holds, s
    <2>4. CASE ~(clock >= s + TTL)
      <3>1. clock < s + TTL
        BY <1>1, <2>1, <2>4, IdempotencyAssumption DEF Time
      <3>2. idem'[k] = idem[k]
        BY <1>1, <2>1, <2>2, <3>1, StoredStays
      <3> QED
        BY <1>1, <2>2, <3>2 DEF s
    <2> QED
      BY <2>3, <2>4
  <1> QED
    BY <1>4, <1>5, <1>6, <1>7, <1>8 DEF CacheInv

\* A response is stored in the entry that its own request made.
LEMMA CompleteStep ==
    ASSUME CacheInv, NEW h \in Tasks, Complete(h)
    PROVE  CacheInv'
  <1> DEFINE t == task[h]
             q == t.key
             m == t.run
             entry == Stored(idem[q], m, clock)
             run == [runs[q][m] EXCEPT !.stored = clock]
  <1>1. /\ t \in Task /\ Running(h) /\ Owns(h) /\ clock' = clock /\ arrivals' = arrivals
        /\ task' = [task EXCEPT ![h] = None]
        /\ runs' = [runs EXCEPT ![q][m].stored = clock]
        /\ idem[q] # None => idem' = [idem EXCEPT ![q] = entry]
    BY DEF Complete, Running, CacheInv, TypeOK, OwnerInv
  <1>2. /\ q \in Keys /\ clock \in Time /\ runs[q] \in Seq(Run) /\ Len(runs[q]) \in Nat
        /\ m = Len(runs[q]) /\ m > 0 /\ m \in DOMAIN runs[q]
        /\ runs[q][m] \in Run /\ runs[q][m].body = t.body
    <2>1. q \in Keys /\ clock \in Time /\ runs[q] \in Seq(Run) /\ m \in Nat
      BY <1>1 DEF CacheInv, TypeOK, Task
    <2>2. m = Len(runs[q]) /\ m > 0 /\ runs[q][m].body = t.body
      BY <1>1 DEF Owns
    <2>3. m \in DOMAIN runs[q]
      BY <2>1, <2>2
    <2>4. runs[q][m] \in Run
      BY <2>1, <2>3
    <2> QED
      BY <2>1, <2>2, <2>3, <2>4
  <1>3. /\ idem[q] # None /\ idem[q] \in Entry /\ idem[q].state = "Pending" /\ idem[q].body = t.body
    BY <1>1, <1>2 DEF Owns, CacheInv, TypeOK
  <1>4. /\ entry \in Entry /\ entry.state = "Done" /\ entry.run = m /\ entry.body = t.body
        /\ entry.expires = clock + TTL
    <2>1. clock + TTL \in Nat /\ m \in Nat \ {0} /\ idem[q].body \in Bodies
      BY <1>2, <1>3, IdempotencyAssumption DEF Time, Entry
    <2> QED
      BY <1>3, <2>1 DEF Stored, Entry
  <1>5. /\ run \in Run /\ run.body = t.body /\ run.stored = clock /\ run.start = runs[q][m].start
    BY <1>2 DEF Run
  <1>6. /\ idem' \in [Keys -> Entry \union {None}]
        /\ \A k \in Keys : idem'[k] = IF k = q THEN entry ELSE idem[k]
    BY <1>1, <1>3, <1>4 DEF CacheInv, TypeOK
  <1> HIDE DEF entry
  <1>7. runs' = [runs EXCEPT ![q] = [runs[q] EXCEPT ![m] = run]]
    BY <1>1
  <1> HIDE DEF run
  <1>8. [runs[q] EXCEPT ![m] = run] \in Seq(Run)
    BY <1>2, <1>5
  <1>9. /\ runs' \in [Keys -> Seq(Run)]
        /\ \A k \in Keys : DOMAIN runs'[k] = DOMAIN runs[k] /\ Len(runs'[k]) = Len(runs[k])
        /\ \A k \in Keys : \A i \in DOMAIN runs[k] :
             runs'[k][i] = IF k = q /\ i = m THEN run ELSE runs[k][i]
    <2>1. /\ runs' \in [Keys -> Seq(Run)]
          /\ \A k \in Keys : runs'[k] = IF k = q THEN [runs[q] EXCEPT ![m] = run] ELSE runs[k]
      BY <1>2, <1>7, <1>8 DEF CacheInv, TypeOK
    <2>2. Len([runs[q] EXCEPT ![m] = run]) = Len(runs[q])
      BY <1>2
    <2> QED
      BY <1>2, <2>1, <2>2
  <1>10. \A g \in Tasks : task'[g] = IF g = h THEN None ELSE task[g]
    BY <1>1 DEF CacheInv, TypeOK
  <1> HIDE DEF t, q, m
  <1>11. TypeOK'
    BY <1>1, <1>6, <1>9 DEF CacheInv, TypeOK
  <1>12. AgeInv' /\ SingleFlight'
    BY <1>1, <1>10 DEF CacheInv, AgeInv, SingleFlight, Running
  <1>13. OwnerInv'
    <2> SUFFICES ASSUME NEW g \in Tasks, Running(g)' PROVE Owns(g)'
      BY DEF OwnerInv
    <2>1. Running(g) /\ task'[g] = task[g] /\ g # h
      BY <1>10 DEF Running
    <2>2. task[g].key \in Keys /\ task[g].key # q /\ Owns(g)
      BY <1>1, <2>1 DEF CacheInv, TypeOK, SingleFlight, OwnerInv, Running, Task, q, t
    <2>3. idem'[task[g].key] = idem[task[g].key]
      BY <1>6, <2>2
    <2>4. task[g].run \in DOMAIN runs[task[g].key]
      <3>1. runs[task[g].key] \in Seq(Run) /\ task[g].run \in Nat
        BY <2>1, <2>2 DEF CacheInv, TypeOK, Running, Task
      <3>2. task[g].run = Len(runs[task[g].key]) /\ task[g].run > 0
        BY <2>2 DEF Owns
      <3> QED
        BY <3>1, <3>2
    <2>5. /\ runs'[task[g].key][task[g].run] = runs[task[g].key][task[g].run]
          /\ Len(runs'[task[g].key]) = Len(runs[task[g].key])
      BY <1>9, <2>2, <2>4
    <2> QED
      BY <2>1, <2>2, <2>3, <2>5 DEF Owns
  <1>14. DoneInv'
    <2> SUFFICES ASSUME NEW k \in Keys, idem'[k] # None, idem'[k].state = "Done"
                 PROVE  /\ idem'[k].run \in DOMAIN runs'[k]
                        /\ runs'[k][idem'[k].run].body = idem'[k].body
      BY DEF DoneInv
    <2>1. CASE k = q
      BY <1>2, <1>4, <1>5, <1>6, <1>9, <2>1
    <2>2. CASE k # q
      <3>1. idem'[k] = idem[k]
        BY <1>6, <2>2
      <3>2. idem[k].run \in DOMAIN runs[k] /\ runs[k][idem[k].run].body = idem[k].body
        BY <3>1 DEF CacheInv, DoneInv
      <3> QED
        BY <1>9, <2>2, <3>1, <3>2
    <2> QED
      BY <2>1, <2>2
  <1>15. StoredInv'
    <2> SUFFICES ASSUME NEW k \in Keys, NEW i \in DOMAIN runs[k], runs'[k][i].stored # None
                 PROVE  Holds(idem'[k], clock', runs'[k][i].stored)
      BY <1>9 DEF StoredInv
    <2>1. CASE k = q /\ i = m
      <3>1. idem'[k] = entry /\ runs'[k][i] = run /\ entry # None
        BY <1>4, <1>6, <1>9, <2>1, NoneAssumption
      <3>2. clock + TTL \in Nat
        BY <1>2, IdempotencyAssumption DEF Time
      <3> QED
        BY <1>4, <1>5, <3>1, <3>2 DEF Holds
    <2>2. CASE ~(k = q /\ i = m)
      <3>1. runs'[k][i] = runs[k][i]
        BY <1>9, <2>2
      <3>2. Holds(idem[k], clock, runs[k][i].stored)
        BY <3>1 DEF CacheInv, StoredInv
      <3>3. CASE k = q
        <4>1. clock >= runs[k][i].stored + TTL
          BY <1>3, <3>2, <3>3 DEF Holds
        <4> QED
          BY <1>1, <3>1, <4>1 DEF Holds
      <3>4. CASE k # q
        BY <1>1, <1>6, <3>1, <3>2, <3>4
      <3> QED
        BY <3>3, <3>4
    <2> QED
      BY <2>1, <2>2
  <1>16. RetriesDoNotRepeat'
    <2> SUFFICES ASSUME NEW k \in Keys, NEW i \in DOMAIN runs[k], NEW j \in DOMAIN runs[k],
                        i < j, runs'[k][i].stored # None
                 PROVE  runs'[k][j].start >= runs'[k][i].stored + TTL
      BY <1>9 DEF RetriesDoNotRepeat
    <2>1. ~(k = q /\ i = m)
      <3>1. k = q => j <= m
        BY <1>2
      <3>2. i \in Int /\ j \in Int /\ m \in Int
        <4>1. runs[k] \in Seq(Run)
          BY DEF CacheInv, TypeOK
        <4> QED
          BY <1>2, <4>1
      <3> QED
        BY <3>1, <3>2
    <2>2. runs'[k][i] = runs[k][i] /\ runs'[k][j].start = runs[k][j].start
      BY <1>5, <1>9, <2>1
    <2> QED
      BY <2>2 DEF CacheInv, RetriesDoNotRepeat
  <1> QED
    BY <1>11, <1>12, <1>13, <1>14, <1>15, <1>16 DEF CacheInv

LEMMA CacheStep ==
    ASSUME InTime, CacheInv, [Next]_vars
    PROVE  CacheInv'
  <1>1. CASE UNCHANGED vars
    BY <1>1 DEF vars, CacheInv, TypeOK, AgeInv, OwnerInv, Owns, DoneInv, StoredInv, SingleFlight,
       RetriesDoNotRepeat, Running
  <1> QED
    BY <1>1, TickStep, ArriveStep, RegisterStep, AnswerStep, CompleteStep, CancelStep DEF Next

LEMMA CacheStart == Init => CacheInv
  BY IdempotencyAssumption
     DEF Init, CacheInv, TypeOK, AgeInv, OwnerInv, DoneInv, StoredInv, SingleFlight,
         RetriesDoNotRepeat, Running, Time

-----------------------------------------------------------------------------
(* The theorems.                                                           *)

\* The inductive invariant of the middleware.
THEOREM CacheInvariant == ASSUME InTime PROVE Spec => []CacheInv
  <1>1. CacheInv /\ [Next]_vars => CacheInv'
    BY CacheStep
  <1> QED
    BY <1>1, CacheStart, PTL DEF Spec

\* No double write: two handlers never run under one key at a time, abandoned registrations
\* and their takeovers included (idempotency).
THEOREM OneHandlerPerKey == ASSUME InTime PROVE Spec => []SingleFlight
  <1>1. CacheInv => SingleFlight
    BY DEF CacheInv
  <1> QED
    BY <1>1, CacheInvariant, PTL

\* A replayed response was computed for the same body.
THEOREM ReplaysAreOwn == ASSUME InTime PROVE Spec => []ReplayIsOwn
  <1>1. CacheInv => ReplayIsOwn
    BY DEF CacheInv, DoneInv, ReplayIsOwn
  <1> QED
    BY <1>1, CacheInvariant, PTL

\* For TTL after a response was stored, no retry runs the handler again.
THEOREM RetriesAreSafe == ASSUME InTime PROVE Spec => []RetriesDoNotRepeat
  <1>1. CacheInv => RetriesDoNotRepeat
    BY DEF CacheInv
  <1> QED
    BY <1>1, CacheInvariant, PTL

-----------------------------------------------------------------------------
(* The schema cache.                                                       *)

\* What a scan with fingerprint fp read of x is what the file says, unless the file, or the
\* directory it is not in, changed after the time of the fingerprint.
Agrees(map, fp, x) ==
    IF files[x] # Absent THEN files[x].time <= fp => map[x] = Says(files[x])
                       ELSE dirTime <= fp => map[x] = 0

\* A lookup l that has walked past its file will not take the scan for one of the
\* directory it walked, or has seen what the scan read.
KnowsApart(l, map, fp) ==
    l.steady /\ l.pc = "stat" /\ l.uri \notin l.todo => l.fp > fp \/ map[l.uri] \in l.seen

\* A scan that has read the files in done so far.
ScanSound(map, fp, done) ==
    /\ fp \in Nat /\ fp <= edited
    /\ \A x \in done : Agrees(map, fp, x)
    /\ \A r \in Readers : lookup[r] # Absent /\ lookup[r].uri \in done
                            => KnowsApart(lookup[r], map, fp)

DirectoryInv ==
    /\ dirTime <= edited
    /\ \A x \in Uris : files[x] # Absent => files[x].time <= edited

LookupSound(l) ==
    /\ l.steady => readable /\ l.fp # Absent
    /\ l.pc \in {"stat", "list", "read"} => l.fp # Absent /\ l.fp <= edited
    /\ l.pc = "consult" => ~l.steady /\ l.fp = Absent
    /\ l.pc \in {"stat", "list"} => l.map = [y \in Uris |-> 0]
    /\ l.pc = "stat" /\ l.steady => \A x \in l.todo : files[x] # Absent
    /\ Says(files[l.uri]) \in l.seen
    /\ l.pc = "read" /\ l.uri \notin l.todo => l.map[l.uri] \in l.seen
    /\ l.pc = "answered" /\ l.steady => l.answer \in l.seen

LookupsInv == \A r \in Readers : lookup[r] # Absent => LookupSound(lookup[r])

ScansInv ==
    /\ cache # Absent => ScanSound(cache.map, cache.fp, Uris)
    /\ \A s \in Readers : lookup[s] # Absent /\ lookup[s].pc = "read" =>
          ScanSound(lookup[s].map, lookup[s].fp, Uris \ lookup[s].todo)

SchemaInv == SchemaTypeOK /\ DirectoryInv /\ LookupsInv /\ ScansInv

-----------------------------------------------------------------------------
\* What a lookup is made of.
LEMMA LookupFacts ==
    ASSUME SchemaInv, NEW r \in Readers, lookup[r] # Absent
    PROVE  /\ lookup[r] \in Lookup /\ lookup[r].uri \in Uris
           /\ lookup[r].todo \subseteq Uris /\ lookup[r].map \in [Uris -> 0..MaxEdits]
           /\ lookup[r].fp # Absent => lookup[r].fp \in 0..MaxEdits
           /\ lookup[r].seen \subseteq 0..MaxEdits
           /\ LookupSound(lookup[r])
  <1>1. lookup[r] \in Lookup
    BY DEF SchemaInv, SchemaTypeOK
  <1> QED
    BY <1>1 DEF SchemaInv, LookupsInv, Lookup, Map, EditTime

LEMMA ZeroIsATime == 0 \in EditTime
  BY SchemaCacheAssumption DEF EditTime

LEMMA FileFacts ==
    ASSUME SchemaInv
    PROVE  /\ edited \in Nat /\ dirTime \in Nat /\ dirTime <= edited /\ MaxEdits \in Nat
           /\ edited \in 0..MaxEdits /\ dirTime \in 0..MaxEdits
           /\ \A x \in Uris : /\ files[x] # Absent => /\ files[x] \in File
                                                    /\ files[x].time \in Nat
                                                    /\ files[x].time <= edited
                             /\ Says(files[x]) \in 0..MaxEdits
  <1>1. MaxEdits \in Nat
    BY SchemaCacheAssumption
  <1>2. ASSUME NEW x \in Uris, files[x] # Absent
        PROVE  files[x] \in File /\ files[x].time \in 0..MaxEdits
    BY <1>2 DEF SchemaInv, SchemaTypeOK, File, EditTime
  <1>3. ASSUME NEW x \in Uris PROVE Says(files[x]) \in 0..MaxEdits
    BY <1>1, <1>2, <1>3 DEF Says
  <1> QED
    BY <1>1, <1>2, <1>3 DEF SchemaInv, DirectoryInv, SchemaTypeOK, EditTime

\* One lookup moves, to n, and scans stay sound: what is in the cache and what n has
\* scanned is sound, and n, if it walks, knows itself apart from the scans.
LEMMA MovesKeepScans ==
    ASSUME SchemaInv, NEW r \in Readers, NEW n,
           lookup' = [lookup EXCEPT ![r] = n], UNCHANGED <<edited, dirTime, files>>,
           cache' # Absent => ScanSound(cache'.map, cache'.fp, Uris),
           n # Absent /\ n.pc = "read" => ScanSound(n.map, n.fp, Uris \ n.todo),
           n # Absent /\ n.pc = "stat" =>
              \A m, f, d : ScanSound(m, f, d) /\ n.uri \in d => KnowsApart(n, m, f)
    PROVE  ScansInv'
  <1>1. /\ lookup'[r] = n
        /\ \A s \in Readers \ {r} : lookup'[s] = lookup[s]
    BY DEF SchemaInv, SchemaTypeOK
  <1>2. ASSUME NEW m, NEW f, NEW d, ScanSound(m, f, d) PROVE ScanSound(m, f, d)'
    <2>1. \A x \in d : Agrees(m, f, x)'
      BY <1>2 DEF ScanSound, Agrees, Says
    <2>2. ASSUME NEW q \in Readers, lookup'[q] # Absent, lookup'[q].uri \in d
          PROVE  KnowsApart(lookup'[q], m, f)
      <3>1. CASE q = r
        BY <1>1, <1>2, <2>2, <3>1 DEF KnowsApart
      <3>2. CASE q # r
        BY <1>1, <1>2, <2>2, <3>2 DEF ScanSound
      <3> QED
        BY <3>1, <3>2
    <2> QED
      BY <1>2, <2>1, <2>2 DEF ScanSound, KnowsApart
  <1>3. cache' # Absent => ScanSound(cache.map, cache.fp, Uris)'
    <2>1. SUFFICES ASSUME cache' # Absent PROVE ScanSound(cache.map, cache.fp, Uris)'
      OBVIOUS
    <2>2. PICK m, f : m = cache'.map /\ f = cache'.fp
      OBVIOUS
    <2>3. ScanSound(m, f, Uris)'
      BY <1>2, <2>1, <2>2
    <2> QED
      BY <2>2, <2>3 DEF ScanSound, Agrees, KnowsApart
  <1>4. ASSUME NEW s \in Readers, lookup'[s] # Absent, lookup'[s].pc = "read"
        PROVE  ScanSound(lookup[s].map, lookup[s].fp, Uris \ lookup[s].todo)'
    <2>1. PICK l : l = lookup'[s]
      OBVIOUS
    <2>2. l # Absent /\ l.pc = "read" /\ ScanSound(l.map, l.fp, Uris \ l.todo)
      BY <1>1, <1>4, <2>1 DEF SchemaInv, ScansInv
    <2>3. ScanSound(l.map, l.fp, Uris \ l.todo)'
      BY <1>2, <2>2
    <2> QED
      BY <2>1, <2>3 DEF ScanSound, Agrees, KnowsApart
  <1> QED
    BY <1>3, <1>4 DEF ScansInv

\* An edit has a time later than all there were, and leaves lookups what they have read.
LEMMA EditsKeepScans ==
    ASSUME SchemaInv,
           cache' \in {cache, Absent}, edited' \in Nat, edited <= edited', dirTime' \in Nat,
           dirTime' = dirTime \/ dirTime' > edited,
           \A x \in Uris : \/ files'[x] = files[x]
                           \/ files'[x] # Absent /\ files'[x].time > edited
                           \/ files'[x] = Absent /\ dirTime' > edited,
           \A x \in Uris : files'[x] # Absent => files'[x].time \in Nat,
           \A r \in Readers : lookup'[r] # Absent =>
              /\ lookup[r] # Absent
              /\ lookup'[r].uri = lookup[r].uri /\ lookup'[r].pc = lookup[r].pc
              /\ lookup'[r].fp = lookup[r].fp /\ lookup'[r].todo = lookup[r].todo
              /\ lookup'[r].map = lookup[r].map /\ lookup[r].seen \subseteq lookup'[r].seen
              /\ lookup'[r].steady => lookup[r].steady
    PROVE  ScansInv'
  <1>1. ASSUME NEW m, NEW f, NEW d, ScanSound(m, f, d), d \subseteq Uris
        PROVE  ScanSound(m, f, d)'
    <2>1. f \in Nat /\ f <= edited /\ edited \in Nat
      BY <1>1, FileFacts DEF ScanSound
    <2>2. ASSUME NEW x \in d PROVE Agrees(m, f, x)'
      <3>1. Agrees(m, f, x) /\ x \in Uris
        BY <1>1, <2>2 DEF ScanSound
      <3>2. CASE files'[x] = files[x]
        BY <2>1, <3>1, <3>2, FileFacts DEF Agrees, Says
      <3>3. CASE files'[x] # Absent /\ files'[x].time > edited
        BY <2>1, <3>1, <3>3 DEF Agrees
      <3>4. CASE files'[x] = Absent /\ dirTime' > edited
        BY <2>1, <3>1, <3>4 DEF Agrees
      <3> QED
        BY <3>1, <3>2, <3>3, <3>4
    <2>3. ASSUME NEW q \in Readers, lookup'[q] # Absent, lookup'[q].uri \in d
          PROVE  KnowsApart(lookup'[q], m, f)
      BY <1>1, <2>3 DEF ScanSound, KnowsApart
    <2> QED
      BY <2>1, <2>2, <2>3 DEF ScanSound, KnowsApart
  <1>2. cache' # Absent => ScanSound(cache.map, cache.fp, Uris)'
    <2>1. SUFFICES ASSUME cache' # Absent PROVE ScanSound(cache.map, cache.fp, Uris)'
      OBVIOUS
    <2>2. PICK m, f : m = cache'.map /\ f = cache'.fp
      OBVIOUS
    <2>3. ScanSound(m, f, Uris)'
      BY <1>1, <2>1, <2>2 DEF SchemaInv, ScansInv
    <2> QED
      BY <2>2, <2>3 DEF ScanSound, Agrees, KnowsApart
  <1>3. ASSUME NEW s \in Readers, lookup'[s] # Absent, lookup'[s].pc = "read"
        PROVE  ScanSound(lookup[s].map, lookup[s].fp, Uris \ lookup[s].todo)'
    <2>1. PICK m, f, d : m = lookup'[s].map /\ f = lookup'[s].fp /\ d = Uris \ lookup'[s].todo
      OBVIOUS
    <2>2. ScanSound(m, f, d) /\ d \subseteq Uris
      BY <1>3, <2>1 DEF SchemaInv, ScansInv
    <2>3. ScanSound(m, f, d)'
      BY <1>1, <2>2
    <2> QED
      BY <2>1, <2>3 DEF ScanSound, Agrees, KnowsApart
  <1> QED
    BY <1>2, <1>3 DEF ScansInv

\* The same with everything else a lookup's step has to keep.
LEMMA MoveKeepsSchema ==
    ASSUME SchemaInv, NEW r \in Readers, NEW n \in Lookup \union {Absent},
           lookup' = [lookup EXCEPT ![r] = n],
           UNCHANGED <<readable, edited, dirTime, files>>,
           cache' \in Cached \union {Absent},
           cache' # Absent => ScanSound(cache'.map, cache'.fp, Uris),
           n # Absent => LookupSound(n),
           n # Absent /\ n.pc = "read" => ScanSound(n.map, n.fp, Uris \ n.todo),
           n # Absent /\ n.pc = "stat" =>
              \A m, f, d : ScanSound(m, f, d) /\ n.uri \in d => KnowsApart(n, m, f)
    PROVE  SchemaInv'
  <1>1. SchemaTypeOK'
    BY DEF SchemaInv, SchemaTypeOK
  <1>2. DirectoryInv'
    BY DEF SchemaInv, DirectoryInv
  <1>3. LookupsInv'
    <2>1. SUFFICES ASSUME NEW q \in Readers, lookup'[q] # Absent PROVE LookupSound(lookup[q])'
      BY DEF LookupsInv
    <2>2. LookupSound(lookup'[q])
      <3>1. CASE q = r
        BY <2>1, <3>1 DEF SchemaInv, SchemaTypeOK
      <3>2. CASE q # r
        BY <2>1, <3>2 DEF SchemaInv, SchemaTypeOK, LookupsInv
      <3> QED
        BY <3>1, <3>2
    <2> QED
      BY <2>2 DEF LookupSound, Says
  <1>4. ScansInv'
    BY MovesKeepScans
  <1> QED
    BY <1>1, <1>2, <1>3, <1>4 DEF SchemaInv

\* The cache as it is is sound.
LEMMA CacheFacts ==
    ASSUME SchemaInv
    PROVE  /\ cache \in Cached \union {Absent}
           /\ cache # Absent => /\ ScanSound(cache.map, cache.fp, Uris)
                              /\ cache.map \in [Uris -> 0..MaxEdits] /\ cache.fp \in 0..MaxEdits
  <1>1. cache \in Cached \union {Absent}
    BY DEF SchemaInv, SchemaTypeOK
  <1> QED
    BY <1>1 DEF SchemaInv, ScansInv, Cached, Map, EditTime

-----------------------------------------------------------------------------
(* The steps of a lookup.                                                  *)

LEMMA LookupsKeeps ==
    ASSUME SchemaInv, NEW r \in Readers, NEW x \in Uris, Lookups(r, x)
    PROVE  SchemaInv'
  <1>1. PICK n : /\ n = [uri |-> x, pc |-> IF readable THEN "stat" ELSE "consult",
                         fp |-> IF readable THEN dirTime ELSE Absent, todo |-> Present,
                         map |-> [y \in Uris |-> 0], seen |-> {Says(files[x])},
                         steady |-> readable, answer |-> 0]
                /\ lookup' = [lookup EXCEPT ![r] = n]
    BY DEF Lookups
  <1>2. /\ n.uri = x /\ n.pc = (IF readable THEN "stat" ELSE "consult")
        /\ n.fp = (IF readable THEN dirTime ELSE Absent)
        /\ n.todo = Present /\ n.map = [y \in Uris |-> 0]
        /\ n.seen = {Says(files[x])} /\ n.steady = readable
    BY <1>1
  <1>3. readable \in BOOLEAN /\ Present \subseteq Uris
    BY DEF SchemaInv, SchemaTypeOK, Present
  <1>4. n \in Lookup
    <2>1. Says(files[x]) \in EditTime /\ dirTime \in EditTime /\ 0 \in EditTime
      BY FileFacts DEF EditTime
    <2>2. [y \in Uris |-> 0] \in Map
      BY <2>1 DEF Map
    <2> QED
      BY <1>1, <1>3, <2>1, <2>2 DEF Lookup
  <1>5. n # Absent
    BY <1>4, SchemaCacheAssumption DEF AbsentIsApart
  <1>6. dirTime # Absent
    BY FileFacts, SchemaCacheAssumption DEF AbsentIsApart, EditTime
  <1>7. LookupSound(n)
    <2>1. n.steady => readable /\ n.fp # Absent
      BY <1>2, <1>6
    <2>2. n.pc \in {"stat", "list", "read"} => n.fp # Absent /\ n.fp <= edited
      BY <1>2, <1>6, FileFacts
    <2>3. n.pc = "consult" => ~n.steady /\ n.fp = Absent
      BY <1>2, <1>3
    <2>4. \A y \in n.todo : files[y] # Absent
      BY <1>2 DEF Present
    <2> QED
      BY <1>2, <2>1, <2>2, <2>3, <2>4 DEF LookupSound
  <1>8. ASSUME NEW m, NEW f, NEW d, ScanSound(m, f, d), x \in d PROVE KnowsApart(n, m, f)
    <2>1. SUFFICES ASSUME readable, files[x] = Absent, ~(dirTime > f) PROVE m[x] = 0
      BY <1>2, <1>3 DEF KnowsApart, Present, Says
    <2> QED
      BY <1>8, <2>1, FileFacts DEF ScanSound, Agrees
  <1>9. cache' = cache /\ UNCHANGED <<readable, edited, dirTime, files>>
    BY DEF Lookups
  <1> QED
    BY <1>1, <1>2, <1>4, <1>7, <1>8, <1>9, CacheFacts, MoveKeepsSchema

LEMMA StatKeeps ==
    ASSUME SchemaInv, NEW r \in Readers, NEW x \in Uris, StatFile(r, x)
    PROVE  SchemaInv'
  <1>1. lookup[r] # Absent /\ lookup[r].pc = "stat" /\ x \in lookup[r].todo
    BY DEF StatFile, At
  <1>2. PICK l : l = lookup[r]
    OBVIOUS
  <1>3. /\ l \in Lookup /\ LookupSound(l) /\ l.fp \in 0..MaxEdits /\ l.pc = "stat"
        /\ l.uri \in Uris /\ l.todo \subseteq Uris /\ x \in l.todo
    BY <1>1, <1>2, LookupFacts DEF LookupSound
  <1>4. PICK n : n = [l EXCEPT !.todo = @ \ {x}, !.fp = Later(@, files[x])]
    OBVIOUS
  <1>5. lookup' = [lookup EXCEPT ![r] = n]
    BY <1>1, <1>2, <1>4 DEF StatFile, SchemaInv, SchemaTypeOK
  <1>6. PICK t : t = Later(l.fp, files[x])
    OBVIOUS
  <1>7. t \in 0..MaxEdits /\ t >= l.fp /\ t <= edited /\ (files[x] # Absent => t >= files[x].time)
    BY <1>3, <1>6, FileFacts DEF Later, LookupSound
  <1>8. n \in Lookup
    BY <1>3, <1>4, <1>6, <1>7 DEF Lookup, EditTime
  <1>9. /\ n.uri = l.uri /\ n.pc = "stat" /\ n.fp = t /\ n.todo = l.todo \ {x}
        /\ n.map = l.map /\ n.seen = l.seen /\ n.steady = l.steady
    BY <1>3, <1>4, <1>6 DEF Lookup
  <1>10. t # Absent
    BY <1>7, SchemaCacheAssumption DEF AbsentIsApart, EditTime
  <1>11. LookupSound(n)
    BY <1>3, <1>7, <1>9, <1>10 DEF LookupSound
  <1>12. ASSUME NEW m, NEW f, NEW d, ScanSound(m, f, d), n.uri \in d PROVE KnowsApart(n, m, f)
    <2>1. SUFFICES ASSUME n.steady, n.uri \notin n.todo, ~(t > f) PROVE m[n.uri] \in n.seen
      BY <1>9 DEF KnowsApart
    <2>2. f \in Nat /\ Agrees(m, f, n.uri)
      BY <1>12 DEF ScanSound
    <2>3. CASE n.uri = x
      <3>1. files[x] # Absent /\ files[x].time <= f
        BY <1>3, <1>7, <1>9, <2>1, <2>2, FileFacts DEF LookupSound
      <3> QED
        BY <1>3, <1>9, <2>2, <2>3, <3>1 DEF Agrees, LookupSound
    <2>4. CASE n.uri # x
      <3>1. KnowsApart(l, m, f)
        BY <1>1, <1>2, <1>9, <1>12 DEF ScanSound
      <3>2. l.steady /\ l.uri \notin l.todo /\ ~(l.fp > f)
        BY <1>3, <1>7, <1>9, <2>1, <2>2, <2>4
      <3> QED
        BY <1>3, <1>9, <3>1, <3>2 DEF KnowsApart
    <2> QED
      BY <2>3, <2>4
  <1>13. cache' = cache /\ UNCHANGED <<readable, edited, dirTime, files>>
    BY DEF StatFile
  <1> QED
    BY <1>5, <1>8, <1>9, <1>11, <1>12, <1>13, CacheFacts, MoveKeepsSchema

LEMMA ConsultKeeps ==
    ASSUME SchemaInv, NEW r \in Readers, Consult(r) PROVE SchemaInv'
  <1>1. PICK l : l = lookup[r]
    OBVIOUS
  <1>2. /\ l # Absent /\ (l.pc = "consult" \/ (l.pc = "stat" /\ l.todo = {}))
        /\ cache' = cache /\ UNCHANGED <<readable, edited, dirTime, files>>
    BY <1>1 DEF Consult, At
  <1>3. /\ l \in Lookup /\ LookupSound(l) /\ l.uri \in Uris
        /\ l.fp # Absent => l.fp \in 0..MaxEdits
    BY <1>1, <1>2, LookupFacts
  <1>4. CASE Hits(r)
    <2>1. cache # Absent /\ (l.fp = Absent \/ l.fp = cache.fp)
      BY <1>1, <1>4 DEF Hits
    <2>2. PICK n : n = [l EXCEPT !.pc = "answered", !.answer = cache.map[l.uri]]
      OBVIOUS
    <2>3. cache.map[l.uri] \in EditTime
      BY <1>3, <2>1, CacheFacts DEF EditTime
    <2>4. /\ n \in Lookup /\ n.pc = "answered" /\ n.answer = cache.map[l.uri]
          /\ n.uri = l.uri /\ n.fp = l.fp /\ n.seen = l.seen /\ n.steady = l.steady
      BY <1>3, <2>2, <2>3 DEF Lookup
    <2>5. l.steady => cache.map[l.uri] \in l.seen
      <3>1. SUFFICES ASSUME l.steady PROVE cache.map[l.uri] \in l.seen
        OBVIOUS
      <3>2. l.pc = "stat" /\ l.todo = {} /\ l.fp = cache.fp /\ cache.fp \in Nat
        BY <1>2, <1>3, <2>1, <3>1, FileFacts, CacheFacts DEF LookupSound
      <3>3. KnowsApart(l, cache.map, cache.fp)
        BY <1>1, <1>2, <1>3, <2>1, CacheFacts DEF ScanSound
      <3> QED
        BY <3>1, <3>2, <3>3 DEF KnowsApart
    <2>6. LookupSound(n)
      BY <1>3, <2>4, <2>5 DEF LookupSound
    <2>7. lookup' = [lookup EXCEPT ![r] = n]
      BY <1>1, <1>4, <2>2 DEF Consult, AnswerWith, SchemaInv, SchemaTypeOK
    <2> QED
      BY <1>2, <2>4, <2>6, <2>7, CacheFacts, MoveKeepsSchema
  <1>5. CASE ~Hits(r) /\ l.fp = Absent
    <2>1. PICK n : n = [l EXCEPT !.pc = "answered", !.answer = 0]
      OBVIOUS
    <2>2. /\ n \in Lookup /\ n.pc = "answered"
          /\ n.uri = l.uri /\ n.fp = l.fp /\ n.seen = l.seen /\ n.steady = l.steady
      BY <1>3, <2>1, ZeroIsATime DEF Lookup
    <2>3. LookupSound(n)
      BY <1>3, <1>5, <2>2 DEF LookupSound
    <2>4. lookup' = [lookup EXCEPT ![r] = n]
      BY <1>1, <1>5, <2>1 DEF Consult, AnswerWith, SchemaInv, SchemaTypeOK
    <2> QED
      BY <1>2, <2>2, <2>3, <2>4, CacheFacts, MoveKeepsSchema
  <1>6. CASE ~Hits(r) /\ l.fp # Absent
    <2>1. PICK n : n = [l EXCEPT !.pc = "list"]
      OBVIOUS
    <2>2. /\ n \in Lookup /\ n.pc = "list" /\ n.map = l.map
          /\ n.uri = l.uri /\ n.fp = l.fp /\ n.seen = l.seen /\ n.steady = l.steady
      BY <1>3, <2>1 DEF Lookup
    <2>3. l.pc = "stat"
      BY <1>2, <1>3, <1>6 DEF LookupSound
    <2>4. LookupSound(n)
      BY <1>3, <1>6, <2>2, <2>3 DEF LookupSound
    <2>5. lookup' = [lookup EXCEPT ![r] = n]
      BY <1>1, <1>6, <2>1 DEF Consult, SchemaInv, SchemaTypeOK
    <2> QED
      BY <1>2, <2>2, <2>4, <2>5, CacheFacts, MoveKeepsSchema
  <1> QED
    BY <1>4, <1>5, <1>6

LEMMA ListKeeps ==
    ASSUME SchemaInv, NEW r \in Readers, List(r) PROVE SchemaInv'
  <1>1. PICK l : l = lookup[r]
    OBVIOUS
  <1>2. /\ l # Absent /\ l.pc = "list"
        /\ cache' = cache /\ UNCHANGED <<readable, edited, dirTime, files>>
    BY <1>1 DEF List, At
  <1>3. /\ l \in Lookup /\ LookupSound(l) /\ l.uri \in Uris
        /\ l.map = [y \in Uris |-> 0] /\ l.fp \in 0..MaxEdits /\ l.fp <= edited
    BY <1>1, <1>2, LookupFacts DEF LookupSound
  <1>4. CASE readable
    <2>1. PICK n : n = [l EXCEPT !.pc = "read", !.todo = Present]
      OBVIOUS
    <2>2. Present \subseteq Uris /\ \A x \in Uris \ Present : files[x] = Absent
      BY DEF Present
    <2>3. /\ n \in Lookup /\ n.pc = "read" /\ n.map = l.map /\ n.todo = Present
          /\ n.uri = l.uri /\ n.fp = l.fp /\ n.seen = l.seen /\ n.steady = l.steady
      BY <1>3, <2>1, <2>2 DEF Lookup
    <2>4. l.uri \notin Present => 0 \in l.seen
      BY <1>3, <2>2 DEF LookupSound, Says
    <2>5. LookupSound(n)
      BY <1>2, <1>3, <2>3, <2>4 DEF LookupSound
    <2>6. ScanSound(n.map, n.fp, Uris \ n.todo)
      <3>1. \A x \in Uris \ n.todo : Agrees(n.map, n.fp, x)
        BY <1>3, <2>2, <2>3 DEF Agrees
      <3>2. ASSUME NEW q \in Readers, lookup[q] # Absent, lookup[q].uri \in Uris \ n.todo
            PROVE  n.map[lookup[q].uri] \in lookup[q].seen
        <4>1. Says(files[lookup[q].uri]) \in lookup[q].seen
          BY <3>2, LookupFacts DEF LookupSound
        <4> QED
          BY <1>3, <2>2, <2>3, <3>2, <4>1 DEF Says
      <3> QED
        BY <1>3, <2>3, <3>1, <3>2 DEF ScanSound, KnowsApart
    <2>7. lookup' = [lookup EXCEPT ![r] = n]
      BY <1>1, <1>4, <2>1 DEF List, SchemaInv, SchemaTypeOK
    <2> QED
      BY <1>2, <2>3, <2>5, <2>6, <2>7, CacheFacts, MoveKeepsSchema
  <1>5. CASE ~readable
    <2>1. PICK n : n = [l EXCEPT !.pc = "answered", !.answer = 0]
      OBVIOUS
    <2>2. /\ n \in Lookup /\ n.pc = "answered"
          /\ n.uri = l.uri /\ n.fp = l.fp /\ n.seen = l.seen /\ n.steady = l.steady
      BY <1>3, <2>1, ZeroIsATime DEF Lookup
    <2>3. LookupSound(n)
      BY <1>3, <1>5, <2>2 DEF LookupSound
    <2>4. lookup' = [lookup EXCEPT ![r] = n]
      BY <1>1, <1>5, <2>1 DEF List, AnswerWith, SchemaInv, SchemaTypeOK
    <2> QED
      BY <1>2, <2>2, <2>3, <2>4, CacheFacts, MoveKeepsSchema
  <1> QED
    BY <1>4, <1>5

LEMMA ReadKeeps ==
    ASSUME SchemaInv, NEW r \in Readers, NEW x \in Uris, ReadFile(r, x)
    PROVE  SchemaInv'
  <1>1. PICK l : l = lookup[r]
    OBVIOUS
  <1>2. /\ l # Absent /\ l.pc = "read" /\ x \in l.todo
        /\ cache' = cache /\ UNCHANGED <<readable, edited, dirTime, files>>
    BY <1>1 DEF ReadFile, At
  <1>3. /\ l \in Lookup /\ LookupSound(l) /\ l.uri \in Uris /\ l.todo \subseteq Uris
        /\ l.map \in [Uris -> 0..MaxEdits] /\ l.fp \in 0..MaxEdits /\ l.fp <= edited
    BY <1>1, <1>2, LookupFacts DEF LookupSound
  <1>4. PICK said : said = Says(files[x])
    OBVIOUS
  <1>5. said \in 0..MaxEdits
    BY <1>4, FileFacts
  <1>6. PICK n : n = [l EXCEPT !.todo = @ \ {x}, !.map = [l.map EXCEPT ![x] = said]]
    OBVIOUS
  <1>7. [l.map EXCEPT ![x] = said] \in Map
    BY <1>3, <1>5 DEF Map, EditTime
  <1>8. /\ n \in Lookup /\ n.pc = "read" /\ n.map = [l.map EXCEPT ![x] = said]
        /\ n.todo = l.todo \ {x}
        /\ n.uri = l.uri /\ n.fp = l.fp /\ n.seen = l.seen /\ n.steady = l.steady
    BY <1>2, <1>3, <1>6, <1>7 DEF Lookup
  <1>9. n.map[x] = said /\ \A y \in Uris \ {x} : n.map[y] = l.map[y]
    BY <1>3, <1>8
  <1>10. LookupSound(n)
    <2>1. n.uri \notin n.todo => n.map[n.uri] \in n.seen
      BY <1>2, <1>3, <1>4, <1>8, <1>9 DEF LookupSound
    <2> QED
      BY <1>2, <1>3, <1>8, <2>1 DEF LookupSound
  <1>11. ScanSound(l.map, l.fp, Uris \ l.todo)
    BY <1>1, <1>2 DEF SchemaInv, ScansInv
  <1>12. ScanSound(n.map, n.fp, Uris \ n.todo)
    <2>1. ASSUME NEW y \in Uris \ n.todo PROVE Agrees(n.map, n.fp, y)
      <3>1. CASE y = x
        BY <1>4, <1>9, <3>1 DEF Agrees, Says
      <3>2. CASE y # x
        BY <1>8, <1>9, <1>11, <2>1, <3>2 DEF ScanSound, Agrees
      <3> QED
        BY <3>1, <3>2
    <2>2. ASSUME NEW q \in Readers, lookup[q] # Absent, lookup[q].uri \in Uris \ n.todo
          PROVE  KnowsApart(lookup[q], n.map, n.fp)
      <3>1. CASE lookup[q].uri = x
        <4>1. said \in lookup[q].seen
          BY <1>4, <2>2, <3>1, LookupFacts DEF LookupSound
        <4> QED
          BY <1>9, <3>1, <4>1 DEF KnowsApart
      <3>2. CASE lookup[q].uri # x
        BY <1>8, <1>9, <1>11, <2>2, <3>2 DEF ScanSound, KnowsApart
      <3> QED
        BY <3>1, <3>2
    <2> QED
      BY <1>3, <1>8, <2>1, <2>2 DEF ScanSound
  <1>13. lookup' = [lookup EXCEPT ![r] = n]
    BY <1>1, <1>2, <1>3, <1>4, <1>6 DEF ReadFile, SchemaInv, SchemaTypeOK
  <1> QED
    BY <1>2, <1>8, <1>10, <1>12, <1>13, CacheFacts, MoveKeepsSchema

LEMMA StoreKeeps ==
    ASSUME SchemaInv, NEW r \in Readers, Store(r) PROVE SchemaInv'
  <1>1. PICK l : l = lookup[r]
    OBVIOUS
  <1>2. /\ l # Absent /\ l.pc = "read" /\ l.todo = {}
        /\ cache' = [map |-> l.map, fp |-> l.fp]
        /\ UNCHANGED <<readable, edited, dirTime, files>>
    BY <1>1 DEF Store, At, Scanned
  <1>3. /\ l \in Lookup /\ LookupSound(l) /\ l.uri \in Uris
        /\ l.map \in [Uris -> 0..MaxEdits] /\ l.fp \in 0..MaxEdits
    BY <1>1, <1>2, LookupFacts DEF LookupSound
  <1>4. PICK n : n = [l EXCEPT !.pc = "answered", !.answer = l.map[l.uri]]
    OBVIOUS
  <1>5. /\ n \in Lookup /\ n.pc = "answered" /\ n.answer = l.map[l.uri]
        /\ n.uri = l.uri /\ n.fp = l.fp /\ n.seen = l.seen /\ n.steady = l.steady
    BY <1>3, <1>4 DEF Lookup, EditTime
  <1>6. LookupSound(n)
    BY <1>2, <1>3, <1>5 DEF LookupSound
  <1>7. ScanSound(l.map, l.fp, Uris \ {}) /\ Uris \ {} = Uris
    BY <1>1, <1>2 DEF SchemaInv, ScansInv
  <1>8. cache'.map = l.map /\ cache'.fp = l.fp /\ cache' \in Cached
    BY <1>2, <1>3 DEF Cached, Map, EditTime
  <1>9. ScanSound(cache'.map, cache'.fp, Uris)
    BY <1>7, <1>8
  <1>10. lookup' = [lookup EXCEPT ![r] = n]
    BY <1>1, <1>4 DEF Store, AnswerWith, SchemaInv, SchemaTypeOK
  <1> QED
    BY <1>2, <1>5, <1>6, <1>8, <1>9, <1>10, MoveKeepsSchema

LEMMA ReturnKeeps ==
    ASSUME SchemaInv, NEW r \in Readers, Return(r) PROVE SchemaInv'
  <1>1. /\ lookup' = [lookup EXCEPT ![r] = Absent]
        /\ cache' = cache /\ UNCHANGED <<readable, edited, dirTime, files>>
    BY DEF Return
  <1> QED
    BY <1>1, CacheFacts, MoveKeepsSchema

-----------------------------------------------------------------------------
(* What happens to the directory and to the process.                       *)

\* A file is written or removed: file is what becomes of it.
LEMMA EditKeeps ==
    ASSUME SchemaInv, NEW x \in Uris, NEW file,
           edited < MaxEdits, edited' = edited + 1,
           \/ file \in File /\ file.time = edited + 1
           \/ file = Absent /\ dirTime' = edited + 1,
           files' = [files EXCEPT ![x] = file],
           dirTime' = dirTime \/ dirTime' = edited + 1,
           Remember(x, file), readable' = readable, cache' = cache
    PROVE  SchemaInv'
  <1>1. /\ files \in [Uris -> File \union {Absent}]
        /\ lookup \in [Readers -> Lookup \union {Absent}]
    BY DEF SchemaInv, SchemaTypeOK
  <1>2. /\ edited' \in 0..MaxEdits /\ dirTime' \in 0..MaxEdits /\ dirTime' <= edited'
        /\ Says(file) \in 0..MaxEdits
    BY FileFacts DEF Says
  <1>3. files' \in [Uris -> File \union {Absent}]
    BY <1>1
  <1>4. ASSUME NEW q \in Readers, lookup[q] = Absent PROVE lookup'[q] = Absent
    BY <1>4 DEF Remember
  <1>5. ASSUME NEW q \in Readers, lookup[q] # Absent
        PROVE  /\ lookup'[q] \in Lookup
               /\ lookup'[q].uri = lookup[q].uri /\ lookup'[q].pc = lookup[q].pc
               /\ lookup'[q].fp = lookup[q].fp /\ lookup'[q].todo = lookup[q].todo
               /\ lookup'[q].map = lookup[q].map /\ lookup'[q].answer = lookup[q].answer
               /\ lookup'[q].seen = (IF lookup[q].uri = x THEN lookup[q].seen \union {Says(file)}
                                                          ELSE lookup[q].seen)
               /\ lookup'[q].steady = (lookup[q].steady /\ file # Absent)
    <2>1. PICK l, said, there : l = lookup[q] /\ said = Says(file) /\ there = (file # Absent)
      OBVIOUS
    <2>2. l \in Lookup /\ said \in EditTime /\ there \in BOOLEAN
      BY <1>1, <1>2, <1>5, <2>1 DEF EditTime
    <2>3. PICK seen, steady :
            /\ seen = IF l.uri = x THEN l.seen \union {said} ELSE l.seen
            /\ steady = (l.steady /\ there)
      OBVIOUS
    <2>4. seen \in SUBSET EditTime /\ steady \in BOOLEAN
      BY <2>2, <2>3 DEF Lookup
    <2>5. lookup'[q] = [l EXCEPT !.seen = seen, !.steady = steady]
      BY <1>5, <2>1, <2>3 DEF Remember
    <2>6. /\ lookup'[q] \in Lookup
          /\ lookup'[q].uri = l.uri /\ lookup'[q].pc = l.pc /\ lookup'[q].fp = l.fp
          /\ lookup'[q].todo = l.todo /\ lookup'[q].map = l.map /\ lookup'[q].answer = l.answer
          /\ lookup'[q].seen = seen /\ lookup'[q].steady = steady
      BY <2>2, <2>4, <2>5 DEF Lookup
    <2> QED
      BY <2>1, <2>3, <2>6
  <1>6. SchemaTypeOK'
    BY <1>2, <1>3, <1>4, <1>5 DEF SchemaInv, SchemaTypeOK, EditTime, Remember
  <1>7. DirectoryInv'
    <2>1. ASSUME NEW y \in Uris, files'[y] # Absent PROVE files'[y].time <= edited'
      BY <1>1, <1>2, <2>1, FileFacts
    <2> QED
      BY <1>2, <2>1 DEF DirectoryInv
  <1>8. LookupsInv'
    <2>1. SUFFICES ASSUME NEW q \in Readers, lookup'[q] # Absent PROVE LookupSound(lookup[q])'
      BY DEF LookupsInv
    <2>2. lookup[q] # Absent
      BY <1>4, <2>1
    <2>3. LookupSound(lookup[q]) /\ lookup[q].uri \in Uris /\ lookup[q].todo \subseteq Uris
          /\ (lookup[q].fp # Absent => lookup[q].fp \in 0..MaxEdits)
      BY <2>2, LookupFacts
    <2>4. Says(files'[lookup[q].uri]) \in lookup'[q].seen
      BY <1>1, <1>5, <2>2, <2>3 DEF LookupSound
    <2>5. file # Absent => \A y \in Uris : files[y] # Absent => files'[y] # Absent
      BY <1>1
    <2>6. /\ lookup[q].seen \subseteq lookup'[q].seen
          /\ lookup'[q].steady => lookup[q].steady /\ file # Absent
      BY <1>5, <2>2
    <2>7. lookup'[q].pc \in {"stat", "list", "read"} => lookup'[q].fp # Absent /\ lookup'[q].fp <= edited'
      <3>1. lookup'[q].pc = lookup[q].pc /\ lookup'[q].fp = lookup[q].fp
        BY <1>5, <2>2
      <3>2. lookup[q].pc \in {"stat", "list", "read"}
               => lookup[q].fp # Absent /\ lookup[q].fp \in Nat /\ lookup[q].fp <= edited
        BY <2>3 DEF LookupSound
      <3>3. edited \in Nat
        BY FileFacts
      <3> QED
        BY <3>1, <3>2, <3>3
    <2> QED
      BY <1>5, <2>2, <2>3, <2>4, <2>5, <2>6, <2>7 DEF LookupSound, Says
  <1>9. ScansInv'
    <2>1. ASSUME NEW y \in Uris
          PROVE  \/ files'[y] = files[y]
                 \/ files'[y] # Absent /\ files'[y].time > edited
                 \/ files'[y] = Absent /\ dirTime' > edited
      BY <1>1, FileFacts, SchemaCacheAssumption DEF AbsentIsApart
    <2>2. \A y \in Uris : files'[y] # Absent => files'[y].time \in Nat
      BY <1>1, FileFacts
    <2>3. dirTime' = dirTime \/ dirTime' > edited
      BY FileFacts
    <2>4. edited' \in Nat /\ edited <= edited' /\ dirTime' \in Nat
      BY <1>2, FileFacts
    <2> QED
      BY <1>4, <1>5, <2>1, <2>2, <2>3, <2>4, EditsKeepScans
  <1> QED
    BY <1>6, <1>7, <1>8, <1>9 DEF SchemaInv

LEMMA WritesKeep ==
    ASSUME SchemaInv, NEW x \in Uris, WriteFile(x) PROVE SchemaInv'
  <1>1. PICK good \in BOOLEAN :
          /\ files' = [files EXCEPT ![x] = [time |-> edited + 1, good |-> good]]
          /\ Remember(x, [time |-> edited + 1, good |-> good])
    BY DEF WriteFile
  <1>2. PICK file : file = [time |-> edited + 1, good |-> good]
    OBVIOUS
  <1>3. edited < MaxEdits /\ edited' = edited + 1 /\ readable' = readable /\ cache' = cache
    BY DEF WriteFile
  <1>4. dirTime' = dirTime \/ dirTime' = edited + 1
    BY DEF WriteFile
  <1>5. file \in File /\ file.time = edited + 1
    BY <1>2, <1>3, FileFacts DEF File, EditTime
  <1>6. files' = [files EXCEPT ![x] = file] /\ Remember(x, file)
    BY <1>1, <1>2
  <1> QED
    BY <1>3, <1>4, <1>5, <1>6, EditKeeps

LEMMA RemovalsKeep ==
    ASSUME SchemaInv, NEW x \in Uris, RemoveFile(x) PROVE SchemaInv'
  <1>1. PICK file : file = Absent
    OBVIOUS
  <1> QED
    BY <1>1, EditKeeps DEF RemoveFile

LEMMA TogglesKeep ==
    ASSUME SchemaInv, Toggle PROVE SchemaInv'
  <1>1. /\ readable' = ~readable /\ UNCHANGED <<edited, dirTime, files, cache>>
        /\ lookup' = [r \in Readers |->
              IF lookup[r] # Absent THEN [lookup[r] EXCEPT !.steady = FALSE] ELSE Absent]
    BY DEF Toggle
  <1>2. ASSUME NEW q \in Readers, lookup[q] # Absent
        PROVE  /\ lookup'[q] \in Lookup /\ ~lookup'[q].steady
               /\ lookup'[q].uri = lookup[q].uri /\ lookup'[q].pc = lookup[q].pc
               /\ lookup'[q].fp = lookup[q].fp /\ lookup'[q].todo = lookup[q].todo
               /\ lookup'[q].map = lookup[q].map /\ lookup'[q].seen = lookup[q].seen
    <2>1. PICK l : l = lookup[q]
      OBVIOUS
    <2>2. l \in Lookup /\ lookup'[q] = [l EXCEPT !.steady = FALSE]
      BY <1>1, <1>2, <2>1, LookupFacts
    <2> QED
      BY <2>1, <2>2 DEF Lookup
  <1>3. \A q \in Readers : lookup[q] = Absent => lookup'[q] = Absent
    BY <1>1
  <1>4. SchemaTypeOK' /\ DirectoryInv'
    BY <1>1, <1>2, <1>3 DEF SchemaInv, SchemaTypeOK, DirectoryInv
  <1>5. LookupsInv'
    <2>1. SUFFICES ASSUME NEW q \in Readers, lookup'[q] # Absent PROVE LookupSound(lookup[q])'
      BY DEF LookupsInv
    <2>2. lookup[q] # Absent
      BY <1>3, <2>1
    <2> QED
      BY <1>1, <1>2, <2>2, LookupFacts DEF LookupSound, Says
  <1>6. ScansInv'
    BY <1>1, <1>2, <1>3, FileFacts, EditsKeepScans
  <1> QED
    BY <1>4, <1>5, <1>6 DEF SchemaInv

LEMMA RestartsKeep ==
    ASSUME SchemaInv, Restart PROVE SchemaInv'
  BY DEF Restart, SchemaInv, SchemaTypeOK, DirectoryInv, LookupsInv, ScansInv

LEMMA SchemaStep ==
    ASSUME SchemaInv, [SchemaNext]_schemaVars PROVE SchemaInv'
  <1>1. CASE \E r \in Readers : \/ Consult(r) \/ List(r)
                                \/ Store(r) \/ Return(r)
    BY <1>1, ConsultKeeps, ListKeeps, StoreKeeps, ReturnKeeps
  <1>2. CASE \E r \in Readers, x \in Uris :
               Lookups(r, x) \/ StatFile(r, x) \/ ReadFile(r, x)
    BY <1>2, LookupsKeeps, StatKeeps, ReadKeeps
  <1>3. CASE \E x \in Uris : WriteFile(x) \/ RemoveFile(x)
    BY <1>3, WritesKeep, RemovalsKeep
  <1>4. CASE Toggle \/ Restart
    BY <1>4, TogglesKeep, RestartsKeep
  <1>5. CASE UNCHANGED schemaVars
    BY <1>5 DEF schemaVars, SchemaInv, SchemaTypeOK, DirectoryInv, LookupsInv, LookupSound,
                ScansInv, ScanSound, Agrees, KnowsApart, Says
  <1> QED
    BY <1>1, <1>2, <1>3, <1>4, <1>5 DEF SchemaNext

-----------------------------------------------------------------------------
\* SchemaInv is an invariant of lookups over an edited directory.
THEOREM SchemaCacheInvariant == SchemaSpec => []SchemaInv
  <1>1. SchemaInit => SchemaInv
    BY SchemaCacheAssumption DEF SchemaInit, SchemaInv, SchemaTypeOK, EditTime, DirectoryInv,
           LookupsInv, ScansInv
  <1>2. SchemaInv /\ [SchemaNext]_schemaVars => SchemaInv'
    BY SchemaStep
  <1> QED
    BY <1>1, <1>2, PTL DEF SchemaSpec

\* lookup_domain_schema: no answer is older than its lookup, however late the scans of others
\* stored what they had read, as long as listings work and no file is removed meanwhile.
THEOREM AnswersAreFresh == SchemaSpec => []AnswerFresh
  <1>1. SchemaInv => AnswerFresh
    BY DEF SchemaInv, LookupsInv, LookupSound, AnswerFresh, At
  <1> QED
    BY <1>1, SchemaCacheInvariant, PTL
=============================================================================
