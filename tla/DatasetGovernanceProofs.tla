--------------------- MODULE DatasetGovernanceProofs ---------------------
(***************************************************************************)
(* Theorems of DatasetGovernance for any number of entries, handlers,      *)
(* versions, requests and imports.  A handler writes a copy it read        *)
(* earlier, so what holds of the row has to hold of every copy in flight:  *)
(* the copy is a row that once was, with its own lawful history, and it    *)
(* passed the check that the write now relies on.                          *)
(***************************************************************************)
EXTENDS DatasetGovernance, SequenceTheorems, TLAPS

\* What a request has in hand at each point.
Held(r) ==
    /\ r.copy # None => PathTo(r.copy.trail, r.copy.status) /\ Admitted(r, r.copy)
    /\ r.pc \in {"list", "collect"} => r.copy # None /\ r.op \in {"publish", "bump"}
    /\ r.pc = "write" /\ r.op # "create" => r.copy # None
    /\ r.op = "move" => r.arg \in LifecycleStatus
    /\ r.op \in {"create", "patch", "deps"} => r.arg \in Notes

RequestsHeld == \A h \in Handlers : req[h] # None => Held(req[h])

StoreInv ==
    /\ row \in Dataset \union {None}
    /\ entries \in [EntryIds -> Entry \union {None}]
    /\ archive \in [Version -> Listing]
    /\ LifecycleIsPath
    /\ NothingOutlivesDataset

RequestInv ==
    /\ req \in [Handlers -> Request \union {None}]
    /\ RequestsHeld

DatasetInv == StoreInv /\ RequestInv /\ begun \in Nat

-----------------------------------------------------------------------------
(* Rows, changes and trails.                                               *)

\* None is no row, no entry, no content and no request.
LEMMA NoneIsNothing ==
    /\ None \notin Dataset
    /\ None \notin Entry
    /\ None \notin Contents
    /\ None \notin Request
  BY DatasetGovernanceAssumption

\* The empty listing is a listing, and a cleared archive is an archive of them.
LEMMA NothingIsListing ==
    /\ Nothing \in Listing
    /\ Nothing \in [EntryIds -> Entry \union {None}]
    /\ Cleared \in [Version -> Listing]
  BY DEF Nothing, Listing, Cleared

\* The one change a trail gets at a time takes its path one step further
\* (Lifecycle::transition and its kin push a StateChange and set the status).
LEMMA PathGrows ==
    ASSUME NEW trail \in Seq(Change), NEW status, PathTo(trail, status),
           NEW c \in Change, LawfulChange(c), c.from = status
    PROVE  /\ Append(trail, c) \in Seq(Change)
           /\ PathTo(Append(trail, c), c.to)
  <1> DEFINE t == Append(trail, c)
  <1>1. /\ t \in Seq(Change) /\ Len(t) = Len(trail) + 1 /\ t[Len(t)] = c
        /\ Len(trail) \in Nat /\ t # <<>>
        /\ DOMAIN t = 1..Len(t) /\ DOMAIN trail = 1..Len(trail)
        /\ \A i \in 1..Len(trail) : t[i] = trail[i]
    OBVIOUS
  <1>2. trail = <<>> <=> Len(trail) = 0
    OBVIOUS
  <1> HIDE DEF t
  <1>3. ASSUME NEW i \in DOMAIN t
        PROVE  /\ LawfulChange(t[i])
               /\ t[i].from = IF i = 1 THEN "Draft" ELSE t[i - 1].to
    <2>1. CASE i \in DOMAIN trail
      BY <1>1, <2>1 DEF PathTo
    <2>2. CASE i = Len(t)
      BY <1>1, <1>2, <2>2 DEF PathTo
    <2> QED
      BY <1>1, <2>1, <2>2
  <1> QED
    BY <1>1, <1>3 DEF PathTo, t

\* A change is well typed when it names a version only if it is a publication.
LEMMA ChangeTypes ==
    ASSUME NEW from \in LifecycleStatus, NEW to \in LifecycleStatus
    PROVE  /\ \A cause \in Causes :
                [from |-> from, to |-> to, cause |-> cause, published |-> 0] \in Change
           /\ \A v \in Version :
                [from |-> from, to |-> to, cause |-> "publish", published |-> v] \in Change
  BY DEF Change

\* A lifecycle that is written from a copy with one lawful change more is a path
\* again, whatever the row had by then.
LEMMA LifecycleWritten ==
    ASSUME StoreInv, NEW copy \in Dataset, PathTo(copy.trail, copy.status),
           NEW c \in Change, LawfulChange(c), c.from = copy.status,
           SetLifecycle(copy, c), UNCHANGED <<entries, archive>>
    PROVE  StoreInv'
  <1>1. CASE row = None
    BY <1>1 DEF SetLifecycle, StoreInv, LifecycleIsPath, NothingOutlivesDataset
  <1>2. CASE row # None
    <2> DEFINE trail == Append(copy.trail, c)
    <2>1. copy.trail \in Seq(Change)
      BY DEF Dataset
    <2>2. trail \in Seq(Change) /\ PathTo(trail, c.to)
      BY <2>1, PathGrows
    <2>3. row \in Dataset /\ c.to \in LifecycleStatus
      BY <1>2 DEF StoreInv, Change
    <2> HIDE DEF trail
    <2>4. row' = [row EXCEPT !.status = c.to, !.trail = trail]
      BY <1>2 DEF SetLifecycle, trail
    <2>5. row' \in Dataset /\ row'.status = c.to /\ row'.trail = trail
      BY <2>2, <2>3, <2>4 DEF Dataset
    <2>6. row' # None
      BY <2>5, NoneIsNothing
    <2> QED
      BY <2>2, <2>5, <2>6 DEF StoreInv, LifecycleIsPath, NothingOutlivesDataset
  <1> QED
    BY <1>1, <1>2

\* The same of a row that is replaced altogether.
LEMMA RowWritten ==
    ASSUME StoreInv, NEW ds \in Dataset, PathTo(ds.trail, ds.status),
           row' = ds,
           entries' \in [EntryIds -> Entry \union {None}],
           archive' \in [Version -> Listing]
    PROVE  StoreInv'
  BY NoneIsNothing DEF StoreInv, LifecycleIsPath, NothingOutlivesDataset

\* A bump moves the copy one version on and archives what it collected.
LEMMA BumpKeepsStore ==
    ASSUME StoreInv, NEW h \in Handlers, req[h] \in Request, Held(req[h]), BumpWrite(h)
    PROVE  StoreInv'
  <1> DEFINE r == req[h]
             c == Step(r.copy, "Draft", "bump", 0)
             trail == Append(r.copy.trail, c)
  <1>1. CASE row = None
    BY <1>1 DEF BumpWrite, StoreInv, LifecycleIsPath, NothingOutlivesDataset
  <1>2. CASE row # None
    <2>1. /\ r.pc = "write" /\ r.op = "bump"
          /\ row' = [row EXCEPT !.status = "Draft", !.version = r.copy.version + 1,
                       !.trail = trail]
          /\ archive' = Archived(r.copy.version, r.found)
          /\ entries' = entries
      BY <1>2 DEF BumpWrite, Writes, At
    <2>2. r.copy \in Dataset /\ PathTo(r.copy.trail, r.copy.status) /\ Admitted(r, r.copy)
      BY <2>1 DEF Held, Request
    <2>3. r.copy.version \in Version /\ r.copy.version + 1 \in Version
      BY <2>1, <2>2, DatasetGovernanceAssumption DEF Admitted, Dataset, Version
    <2>4. r.copy.status \in LifecycleStatus /\ r.copy.trail \in Seq(Change)
      BY <2>2 DEF Dataset
    <2>5. /\ c \in Change /\ c.from = r.copy.status /\ c.to = "Draft" /\ c.cause = "bump"
      BY <2>4, ChangeTypes DEF Step, Causes, LifecycleStatus
    <2>6. LawfulChange(c)
      BY <2>5 DEF LawfulChange
    <2> HIDE DEF c
    <2>7. trail \in Seq(Change) /\ PathTo(trail, "Draft")
      BY <2>2, <2>4, <2>5, <2>6, PathGrows
    <2> HIDE DEF trail
    <2>8. row \in Dataset
      BY <1>2 DEF StoreInv
    <2>9. row' \in Dataset /\ row'.status = "Draft" /\ row'.trail = trail
      BY <2>1, <2>3, <2>7, <2>8 DEF Dataset, LifecycleStatus
    <2>10. archive' \in [Version -> Listing]
      <3>1. r.found \in Listing /\ archive \in [Version -> Listing]
        BY DEF Request, StoreInv
      <3> HIDE DEF r
      <3> QED
        BY <2>1, <3>1 DEF Archived, Listing
    <2>11. entries' \in [EntryIds -> Entry \union {None}]
      BY <2>1 DEF StoreInv
    <2> QED
      BY <2>7, <2>9, <2>10, <2>11, RowWritten
  <1> QED
    BY <1>1, <1>2

\* A bundle that is imported continues the history it finds, or begins one.
LEMMA ImportKeepsStore ==
    ASSUME StoreInv, NEW v \in Version, NEW note \in Notes, NEW listing \in Listing,
           Import(v, note, listing)
    PROVE  StoreInv'
  <1> DEFINE status == IF row = None THEN "Draft" ELSE row.status
             trail  == IF row = None THEN <<>> ELSE row.trail
             c      == [from |-> status, to |-> "Active", cause |-> "import", published |-> 0]
             longer == Append(trail, c)
             ds     == [ status |-> "Active", version |-> v, note |-> note, deps |-> note,
                         trail |-> longer ]
  <1>1. status \in LifecycleStatus /\ trail \in Seq(Change) /\ PathTo(trail, status)
    <2>1. CASE row = None
      BY <2>1 DEF PathTo, LifecycleStatus
    <2>2. CASE row # None
      BY <2>2 DEF StoreInv, LifecycleIsPath, Dataset
    <2> QED
      BY <2>1, <2>2
  <1>2. row' = ds /\ entries' = Bundled(listing) /\ archive' = Cleared
    BY DEF Import
  <1> HIDE DEF status, trail
  <1>3. c \in Change /\ c.from = status /\ c.to = "Active" /\ c.cause = "import"
    BY <1>1, ChangeTypes DEF Causes, LifecycleStatus
  <1>4. LawfulChange(c)
    BY <1>3 DEF LawfulChange
  <1> HIDE DEF c
  <1>5. longer \in Seq(Change) /\ PathTo(longer, "Active")
    BY <1>1, <1>3, <1>4, PathGrows
  <1> HIDE DEF longer
  <1>6. ds \in Dataset /\ ds.status = "Active" /\ ds.trail = longer
    BY <1>5 DEF Dataset, LifecycleStatus
  <1> HIDE DEF ds
  <1>7. entries' \in [EntryIds -> Entry \union {None}]
    BY <1>2 DEF Bundled, Entry, Listing
  <1>8. archive' \in [Version -> Listing]
    BY <1>2, NothingIsListing
  <1> QED
    BY <1>2, <1>5, <1>6, <1>7, <1>8, RowWritten

\* Every write transaction of a handler leaves the store in order.
LEMMA ServeKeepsStore ==
    ASSUME StoreInv, RequestInv, NEW h \in Handlers, Serve(h)
    PROVE  StoreInv'
  <1> DEFINE r == req[h]
  <1>1. ASSUME UNCHANGED stored PROVE StoreInv'
    BY <1>1 DEF stored, StoreInv, LifecycleIsPath, NothingOutlivesDataset
  <1>2. CASE ReadRow(h) \/ CheckFree(h) \/ TurnAway(h) \/ ListEntries(h)
    BY <1>1, <1>2 DEF ReadRow, CheckFree, TurnAway, ListEntries, stored
  <1>3. CASE \E e \in EntryIds : CollectEntry(h, e) \/ GateEntry(h, e)
    BY <1>1, <1>3 DEF CollectEntry, GateEntry, stored
  <1>4. ASSUME r # None
        PROVE  r \in Request /\ Held(r)
    BY <1>4 DEF RequestInv, RequestsHeld
  <1>5. ASSUME NEW op, Writes(h, op), op # "create"
        PROVE  /\ r \in Request /\ Held(r) /\ r.op = op /\ r.copy \in Dataset
               /\ PathTo(r.copy.trail, r.copy.status) /\ Admitted(r, r.copy)
               /\ r.copy.status \in LifecycleStatus /\ r.copy.version \in Version
    <2>1. r # None /\ r.pc = "write" /\ r.op = op
      BY <1>5 DEF Writes, At
    <2>2. r \in Request /\ Held(r)
      BY <1>4, <2>1
    <2>3. r.copy \in Dataset
      BY <1>5, <2>1, <2>2 DEF Held, Request
    <2> HIDE DEF r
    <2> QED
      BY <2>1, <2>2, <2>3, NoneIsNothing DEF Held, Dataset
  <1>6. CASE CreateWrite(h)
    <2> DEFINE ds == [status |-> "Draft", trail |-> <<>>, version |-> 1,
                      note |-> r.arg, deps |-> r.arg]
    <2>1. r # None /\ r.op = "create"
      BY <1>6 DEF CreateWrite, Writes, At
    <2>2. r.arg \in Notes
      BY <1>4, <2>1 DEF Held
    <2>3. 1 \in Version
      BY DatasetGovernanceAssumption DEF Version
    <2>4. ds \in Dataset /\ PathTo(ds.trail, ds.status)
      BY <2>2, <2>3 DEF Dataset, PathTo, LifecycleStatus
    <2>5. row' = (IF row # None THEN row ELSE ds) /\ UNCHANGED <<entries, archive>>
      BY <1>6 DEF CreateWrite
    <2> HIDE DEF ds
    <2> QED
      BY <1>1, <2>4, <2>5, RowWritten DEF stored, StoreInv
  <1>7. CASE MoveWrite(h)
    <2> DEFINE c == Step(r.copy, r.arg, "move", 0)
    <2>1. Writes(h, "move") /\ SetLifecycle(r.copy, c) /\ UNCHANGED <<entries, archive>>
      BY <1>7 DEF MoveWrite
    <2>2. /\ r.copy \in Dataset /\ PathTo(r.copy.trail, r.copy.status)
          /\ r.copy.status \in LifecycleStatus /\ r.arg \in LifecycleStatus
          /\ <<r.copy.status, r.arg>> \in DatasetMoves
      BY <1>5, <2>1 DEF Held, Admitted
    <2>3. c \in Change /\ c.from = r.copy.status /\ c.to = r.arg /\ c.cause = "move"
      BY <2>2, ChangeTypes DEF Step, Causes
    <2>4. LawfulChange(c)
      BY <2>2, <2>3 DEF LawfulChange
    <2> HIDE DEF c, r
    <2> QED
      BY <2>1, <2>2, <2>3, <2>4, LifecycleWritten
  <1>8. CASE PublishWrite(h)
    <2> DEFINE c == Step(r.copy, "Published", "publish", r.copy.version)
    <2>1. Writes(h, "publish") /\ SetLifecycle(r.copy, c) /\ UNCHANGED <<entries, archive>>
      BY <1>8 DEF PublishWrite
    <2>2. /\ r.copy \in Dataset /\ PathTo(r.copy.trail, r.copy.status)
          /\ r.copy.status \in LifecycleStatus /\ r.copy.version \in Version
          /\ Publishable(r.copy.status)
      BY <1>5, <2>1 DEF Admitted
    <2>3. c \in Change /\ c.from = r.copy.status /\ c.to = "Published" /\ c.cause = "publish"
      BY <2>2, ChangeTypes DEF Step, LifecycleStatus
    <2>4. LawfulChange(c)
      BY <2>2, <2>3 DEF LawfulChange
    <2> HIDE DEF c, r
    <2> QED
      BY <2>1, <2>2, <2>3, <2>4, LifecycleWritten
  <1>9. CASE UnpublishWrite(h)
    <2> DEFINE c == Step(r.copy, "Rejected", "unpublish", 0)
    <2>1. Writes(h, "unpublish") /\ SetLifecycle(r.copy, c) /\ UNCHANGED <<entries, archive>>
      BY <1>9 DEF UnpublishWrite
    <2>2. /\ r.copy \in Dataset /\ PathTo(r.copy.trail, r.copy.status)
          /\ r.copy.status = "Published"
      BY <1>5, <2>1 DEF Admitted
    <2>3. c \in Change /\ c.from = r.copy.status /\ c.to = "Rejected" /\ c.cause = "unpublish"
      BY <2>2, ChangeTypes DEF Step, Causes, LifecycleStatus
    <2>4. LawfulChange(c)
      BY <2>2, <2>3 DEF LawfulChange
    <2> HIDE DEF c, r
    <2> QED
      BY <2>1, <2>2, <2>3, <2>4, LifecycleWritten
  <1>10. CASE BumpWrite(h)
    BY <1>5, <1>10, BumpKeepsStore DEF BumpWrite
  <1>11. CASE PatchWrite(h) \/ DepsWrite(h)
    <2>1. PICK ds : /\ ds \in {[r.copy EXCEPT !.note = r.arg], [r.copy EXCEPT !.deps = r.arg]}
                    /\ row' = IF row = None THEN None ELSE ds
      BY <1>11 DEF PatchWrite, DepsWrite
    <2>2. UNCHANGED <<entries, archive>>
      BY <1>11 DEF PatchWrite, DepsWrite
    <2>3. /\ r.copy \in Dataset /\ PathTo(r.copy.trail, r.copy.status) /\ r.arg \in Notes
      BY <1>5, <1>11 DEF PatchWrite, DepsWrite, Held
    <2> HIDE DEF r
    <2>4. /\ ds \in Dataset /\ ds.trail = r.copy.trail /\ ds.status = r.copy.status
      BY <2>1, <2>3 DEF Dataset
    <2> QED
      BY <1>1, <2>1, <2>2, <2>3, <2>4, RowWritten DEF stored, StoreInv
  <1>12. CASE DeleteWrite(h)
    BY <1>12, NothingIsListing DEF DeleteWrite, StoreInv, LifecycleIsPath, NothingOutlivesDataset
  <1> QED
    BY <1>2, <1>3, <1>6, <1>7, <1>8, <1>9, <1>10, <1>11, <1>12 DEF Serve

\* Entries come and go only while their dataset is there.
LEMMA EditKeepsStore ==
    ASSUME StoreInv, NEW e \in EntryIds, NEW entry \in Entry \union {None}, EntryStep(e, entry)
    PROVE  StoreInv'
  BY DEF EntryStep, StoreInv, LifecycleIsPath, NothingOutlivesDataset

-----------------------------------------------------------------------------
(* The requests.                                                           *)

\* A handler that takes up a request in order, or ends its own, leaves the
\* requests in order.
LEMMA BecomesKeepsRequests ==
    ASSUME RequestInv, NEW h \in Handlers, NEW r,
           r = None \/ (r \in Request /\ Held(r)), Becomes(h, r)
    PROVE  RequestInv'
  <1>1. req' = [req EXCEPT ![h] = r]
    BY DEF Becomes
  <1>2. req' \in [Handlers -> Request \union {None}]
    BY <1>1 DEF RequestInv
  <1>3. \A g \in Handlers : req'[g] = IF g = h THEN r ELSE req[g]
    BY <1>1 DEF RequestInv
  <1>4. RequestsHeld'
    BY <1>3 DEF RequestInv, RequestsHeld
  <1> QED
    BY <1>2, <1>4 DEF RequestInv

\* A walk over the entries that goes on, or is over, changes nothing else of the
\* request.
LEMMA RemainingFacts ==
    ASSUME NEW r \in Request, Held(r), r.copy # None, r.op \in {"publish", "bump"},
           NEW todo \in SUBSET EntryIds
    PROVE  /\ Remaining(r, todo) \in Request
           /\ Held(Remaining(r, todo))
           /\ Remaining(r, todo).found = r.found
           /\ \A l \in Listing :
                /\ [Remaining(r, todo) EXCEPT !.found = l] \in Request
                /\ Held([Remaining(r, todo) EXCEPT !.found = l])
  <1> DEFINE n == Remaining(r, todo)
  <1>1. /\ n \in Request /\ n.op = r.op /\ n.arg = r.arg /\ n.copy = r.copy
        /\ n.found = r.found /\ n.pc \in {"write", "collect"}
    BY DEF Remaining, Request
  <1> HIDE DEF n
  <1>2. Held(n)
    BY <1>1 DEF Held, Admitted
  <1>3. ASSUME NEW l \in Listing
        PROVE  [n EXCEPT !.found = l] \in Request /\ Held([n EXCEPT !.found = l])
    <2> DEFINE m == [n EXCEPT !.found = l]
    <2>1. m \in Request /\ m.op = n.op /\ m.arg = n.arg /\ m.copy = n.copy /\ m.pc = n.pc
      BY <1>1 DEF Request
    <2> HIDE DEF m
    <2>2. Held(m)
      BY <1>2, <2>1 DEF Held, Admitted
    <2> QED
      BY <2>1, <2>2 DEF m
  <1> QED
    BY <1>1, <1>2, <1>3 DEF n

\* A request at some point of its work is in order.
LEMMA AtFacts ==
    ASSUME RequestInv, NEW h \in Handlers, req[h] # None
    PROVE  req[h] \in Request /\ Held(req[h])
  BY DEF RequestInv, RequestsHeld

\* Every action of a handler leaves the requests in order.
LEMMA ServeKeepsRequests ==
    ASSUME StoreInv, RequestInv, NEW h \in Handlers, Serve(h)
    PROVE  RequestInv'
  <1> DEFINE r == req[h]
  <1>1. CASE ReadRow(h)
    <2> DEFINE pc == IF r.op \in {"publish", "bump"} THEN "list" ELSE "write"
               n  == [r EXCEPT !.copy = row, !.pc = pc]
    <2>1. r # None /\ row # None /\ Admitted(r, row) /\ Becomes(h, n)
      BY <1>1 DEF ReadRow, At
    <2>2. r \in Request /\ Held(r)
      BY <2>1, AtFacts
    <2>3. row \in Dataset /\ PathTo(row.trail, row.status)
      BY <2>1 DEF StoreInv, LifecycleIsPath
    <2>4. pc \in {"list", "write"} /\ (pc = "list" => r.op \in {"publish", "bump"})
      OBVIOUS
    <2> HIDE DEF r, pc
    <2>5. /\ n \in Request /\ n.op = r.op /\ n.arg = r.arg /\ n.copy = row /\ n.pc = pc
      BY <2>2, <2>3, <2>4 DEF Request
    <2> HIDE DEF n
    <2>6. Held(n)
      BY <2>1, <2>2, <2>3, <2>4, <2>5 DEF Held, Admitted
    <2> QED
      BY <2>1, <2>5, <2>6, BecomesKeepsRequests
  <1>2. CASE CheckFree(h)
    <2> DEFINE n == [r EXCEPT !.pc = "write"]
    <2>1. r # None /\ r.op = "create" /\ Becomes(h, n)
      BY <1>2 DEF CheckFree, At
    <2>2. r \in Request /\ Held(r)
      BY <2>1, AtFacts
    <2> HIDE DEF r
    <2>3. /\ n \in Request /\ n.op = r.op /\ n.arg = r.arg /\ n.copy = r.copy /\ n.pc = "write"
      BY <2>2 DEF Request
    <2> HIDE DEF n
    <2>4. Held(n)
      BY <2>1, <2>2, <2>3 DEF Held, Admitted
    <2> QED
      BY <2>1, <2>3, <2>4, BecomesKeepsRequests
  <1>3. CASE ListEntries(h)
    <2>1. r # None /\ r.pc = "list"
      BY <1>3 DEF ListEntries, At
    <2>2. r \in Request /\ Held(r)
      BY <2>1, AtFacts
    <2>3. r.copy # None /\ r.op \in {"publish", "bump"}
      BY <2>1, <2>2 DEF Held
    <2>4. PICK todo \in SUBSET EntryIds : Becomes(h, Remaining(r, todo))
      BY <1>3 DEF ListEntries
    <2> QED
      BY <2>2, <2>3, <2>4, RemainingFacts, BecomesKeepsRequests
  <1>4. ASSUME NEW e \in EntryIds, CollectEntry(h, e) \/ GateEntry(h, e)
        PROVE  RequestInv'
    <2>1. r # None /\ r.pc = "collect"
      BY <1>4 DEF CollectEntry, GateEntry, At
    <2>2. r \in Request /\ Held(r)
      BY <2>1, AtFacts
    <2>3. r.copy # None /\ r.op \in {"publish", "bump"}
      BY <2>1, <2>2 DEF Held
    <2> DEFINE todo == r.todo \ {e}
               next == Remaining(r, todo)
               l    == [r.found EXCEPT ![e] = entries[e].content]
    <2>4. todo \in SUBSET EntryIds
      BY <2>2 DEF Request
    <2>5. next \in Request /\ Held(next) /\ next.found = r.found
      BY <2>2, <2>3, <2>4, RemainingFacts
    <2>6. CASE Becomes(h, next) \/ Becomes(h, None)
      BY <2>5, <2>6, BecomesKeepsRequests
    <2>7. CASE entries[e] # None /\ Becomes(h, [next EXCEPT !.found[e] = entries[e].content])
      <3>1. entries[e].content \in Contents
        BY <2>7 DEF StoreInv, Entry
      <3>2. r.found \in Listing
        BY <2>2 DEF Request
      <3>3. l \in Listing
        BY <3>1, <3>2 DEF Listing
      <3>4. [next EXCEPT !.found[e] = entries[e].content] = [next EXCEPT !.found = l]
        BY <2>5
      <3>5. [next EXCEPT !.found = l] \in Request /\ Held([next EXCEPT !.found = l])
        BY <2>2, <2>3, <2>4, <3>3, RemainingFacts
      <3> QED
        BY <2>7, <3>4, <3>5, BecomesKeepsRequests
    <2> QED
      BY <1>4, <2>6, <2>7 DEF CollectEntry, GateEntry, Finish
  <1>5. ASSUME Finish(h) PROVE RequestInv'
    BY <1>5, BecomesKeepsRequests DEF Finish
  <1>6. CASE TurnAway(h) \/ CreateWrite(h) \/ MoveWrite(h) \/ PublishWrite(h)
               \/ UnpublishWrite(h) \/ BumpWrite(h) \/ PatchWrite(h) \/ DepsWrite(h)
               \/ DeleteWrite(h)
    BY <1>5, <1>6 DEF TurnAway, CreateWrite, MoveWrite, PublishWrite, UnpublishWrite,
       BumpWrite, PatchWrite, DepsWrite, DeleteWrite
  <1> QED
    BY <1>1, <1>2, <1>3, <1>4, <1>6 DEF Serve

\* A request that arrives holds nothing yet but its argument.
LEMMA BeginKeepsRequests ==
    ASSUME RequestInv, NEW h \in Handlers, NEW op \in Ops, NEW arg \in Args(op),
           Begin(h, op, arg)
    PROVE  RequestInv'
  <1> DEFINE n == [op |-> op, arg |-> arg, pc |-> "read", copy |-> None,
                   todo |-> {}, found |-> Nothing]
  <1>1. op \in Operations
    BY DatasetGovernanceAssumption
  <1>2. /\ arg \in LifecycleStatus \union Notes \union {None}
        /\ op = "move" => arg \in LifecycleStatus
        /\ op \in {"create", "patch", "deps"} => arg \in Notes
    BY DEF Args, LifecycleStatus
  <1>3. n \in Request
    BY <1>1, <1>2, NothingIsListing DEF Request
  <1>4. Held(n)
    BY <1>2 DEF Held
  <1>5. Becomes(h, n)
    BY DEF Begin
  <1> HIDE DEF n
  <1> QED
    BY <1>3, <1>4, <1>5, BecomesKeepsRequests

-----------------------------------------------------------------------------
(* The invariant.                                                          *)

\* Every step of the specification keeps the invariant.
LEMMA DatasetStep == DatasetInv /\ [Next]_vars => DatasetInv'
  <1> SUFFICES ASSUME DatasetInv, [Next]_vars PROVE DatasetInv'
    OBVIOUS
  <1> USE DEF DatasetInv
  <1>1. CASE Arrive
    <2>1. PICK h \in Handlers, op \in Ops : \E arg \in Args(op) : Begin(h, op, arg)
      BY <1>1 DEF Arrive
    <2>2. PICK arg \in Args(op) : Begin(h, op, arg)
      BY <2>1
    <2>3. RequestInv'
      BY <2>2, BeginKeepsRequests
    <2>4. StoreInv' /\ begun' \in Nat
      BY <2>2 DEF Begin, stored, StoreInv, LifecycleIsPath, NothingOutlivesDataset
    <2> QED
      BY <2>3, <2>4
  <1>2. CASE Bundle
    <2>1. PICK v \in Version, note \in Notes, listing \in Listing : Import(v, note, listing)
      BY <1>2 DEF Bundle
    <2>2. StoreInv'
      BY <2>1, ImportKeepsStore
    <2>3. RequestInv' /\ begun' \in Nat
      BY <2>1 DEF Import, RequestInv, RequestsHeld
    <2> QED
      BY <2>2, <2>3
  <1>3. CASE Edit
    <2>1. PICK e \in EntryIds, entry \in Entry \union {None} : EntryStep(e, entry)
      BY <1>3 DEF Edit
    <2>2. StoreInv'
      BY <2>1, EditKeepsStore
    <2>3. RequestInv' /\ begun' \in Nat
      BY <2>1 DEF EntryStep, RequestInv, RequestsHeld
    <2> QED
      BY <2>2, <2>3
  <1>4. CASE \E h \in Handlers : Serve(h)
    <2>1. PICK h \in Handlers : Serve(h)
      BY <1>4
    <2>2. StoreInv' /\ RequestInv'
      BY <2>1, ServeKeepsStore, ServeKeepsRequests
    <2>3. begun' = begun
      BY <2>1 DEF Serve, ReadRow, CheckFree, TurnAway, ListEntries, CollectEntry, GateEntry,
         CreateWrite, MoveWrite, PublishWrite, UnpublishWrite, BumpWrite, PatchWrite,
         DepsWrite, DeleteWrite
    <2> QED
      BY <2>2, <2>3
  <1>5. CASE UNCHANGED vars
    BY <1>5 DEF vars, StoreInv, LifecycleIsPath, NothingOutlivesDataset, RequestInv, RequestsHeld
  <1> QED
    BY <1>1, <1>2, <1>3, <1>4, <1>5 DEF Next

LEMMA DatasetInit == Init => DatasetInv
  BY NothingIsListing DEF Init, DatasetInv, StoreInv, LifecycleIsPath, NothingOutlivesDataset,
     RequestInv, RequestsHeld

\* The invariant holds in every state the handlers and imports can reach.
THEOREM DatasetInvariant == Spec => []DatasetInv
  BY DatasetInit, DatasetStep, PTL DEF Spec

-----------------------------------------------------------------------------
(* The properties.                                                         *)

\* Rows, entries, archives and requests keep their types.
THEOREM DatasetTypeCorrect == Spec => []TypeOK
  <1>1. DatasetInv => TypeOK
    BY DEF DatasetInv, StoreInv, RequestInv, TypeOK
  <1> QED
    BY <1>1, DatasetInvariant, PTL

\* state_history always is a lawful path from Draft to the status, although
\* handlers overwrite it with copies and bundles are imported in between
\* (transition_dataset_status, publish_dataset_with_cause, create_dataset_version,
\* update_dataset_row_conn, import_bundle).
THEOREM HistoryExplainsStatus == Spec => []LifecycleIsPath
  <1>1. DatasetInv => LifecycleIsPath
    BY DEF DatasetInv, StoreInv
  <1> QED
    BY <1>1, DatasetInvariant, PTL

\* No handler that lost the race with a deletion leaves an entry or an archived
\* version behind (delete_dataset, create_dataset_version).
THEOREM NothingIsLeftBehind == Spec => []NothingOutlivesDataset
  <1>1. DatasetInv => NothingOutlivesDataset
    BY DEF DatasetInv, StoreInv
  <1> QED
    BY <1>1, DatasetInvariant, PTL

\* What is archived of a version stays as it is until the whole archive goes
\* (dataset_version_snapshots).
THEOREM ArchivesStay == Spec => ArchiveFixed
  <1> DEFINE Fixed == \/ \A v \in Version, e \in EntryIds :
                           archive[v][e] # None => archive'[v][e] = archive[v][e]
                      \/ \A v \in Version : archive'[v] = Nothing
  <1>1. ASSUME DatasetInv, [Next]_vars PROVE Fixed
    <2>1. ASSUME archive' = archive PROVE Fixed
      BY <2>1
    <2>2. ASSUME archive' = Cleared PROVE Fixed
      BY <2>2 DEF Cleared
    <2>3. ASSUME NEW v, NEW found, archive' = Archived(v, found) PROVE Fixed
      BY <1>1, <2>3 DEF Archived, DatasetInv, StoreInv, Listing
    <2>4. CASE Arrive \/ Edit \/ UNCHANGED vars
      BY <2>1, <2>4 DEF Arrive, Begin, stored, Edit, EntryStep, vars
    <2>5. CASE Bundle
      BY <2>2, <2>5 DEF Bundle, Import
    <2>6. ASSUME NEW h \in Handlers, Serve(h) PROVE Fixed
      <3>1. CASE BumpWrite(h)
        BY <2>1, <2>3, <3>1 DEF BumpWrite
      <3>2. CASE DeleteWrite(h)
        BY <2>2, <3>2 DEF DeleteWrite
      <3> QED
        BY <2>1, <2>6, <3>1, <3>2 DEF Serve, ReadRow, CheckFree, TurnAway, ListEntries,
           CollectEntry, GateEntry, CreateWrite, MoveWrite, PublishWrite, UnpublishWrite,
           PatchWrite, DepsWrite
    <2> QED
      BY <1>1, <2>4, <2>5, <2>6 DEF Next
  <1> QED
    BY <1>1, DatasetInvariant, PTL DEF ArchiveFixed, Spec

\* A dataset is born by its creation or by an import: the late write of a handler
\* that read it before it was deleted brings nothing back (update_dataset_row_conn
\* and its kin UPDATE by key).
THEOREM DatasetsAreBornFresh == Spec => BornFresh
  <1> DEFINE Fresh == row = None /\ row' # None =>
                \/ row'.status = "Draft" /\ row'.version = 1 /\ row'.trail = <<>>
                \/ row'.status = "Active" /\ Len(row'.trail) = 1
                   /\ row'.trail[1].cause = "import"
  <1>1. ASSUME [Next]_vars PROVE Fresh
    <2>1. CASE row # None \/ row' = None \/ row' = row
      BY <2>1
    <2>2. CASE Bundle
      <3>1. PICK v \in Version, note \in Notes, listing \in Listing : Import(v, note, listing)
        BY <2>2 DEF Bundle
      <3>2. CASE row = None
        BY <3>1, <3>2 DEF Import
      <3> QED
        BY <2>1, <3>2
    <2>3. ASSUME NEW h \in Handlers, Serve(h) PROVE Fresh
      <3>1. CASE CreateWrite(h)
        BY <2>1, <3>1 DEF CreateWrite
      <3>2. CASE ~CreateWrite(h)
        BY <2>1, <2>3, <3>2 DEF Serve, ReadRow, CheckFree, TurnAway, ListEntries,
           CollectEntry, GateEntry, MoveWrite, PublishWrite, UnpublishWrite, SetLifecycle,
           BumpWrite, PatchWrite, DepsWrite, DeleteWrite
      <3> QED
        BY <3>1, <3>2
    <2>4. CASE Arrive \/ Edit \/ UNCHANGED vars
      BY <2>1, <2>4 DEF Arrive, Begin, stored, Edit, EntryStep, vars
    <2> QED
      BY <1>1, <2>2, <2>3, <2>4 DEF Next
  <1> QED
    BY <1>1, PTL DEF BornFresh, Spec

-----------------------------------------------------------------------------
(* A client alone with the dataset: the implementation of DatasetLedger.   *)

Serial == \A g, h \in Handlers : g = h

\* The entries a publication has not to look at any more pass its gate.
Passed(r) == \A e \in EntryIds \ r.todo : entries[e] # None => ~entries[e].barred

\* A bump has found the content of every entry it has not to look at any more.
Gathered(r) ==
    \A e \in EntryIds :
      r.found[e] = IF e \in r.todo \/ entries[e] = None THEN None ELSE entries[e].content

\* What the only handler has read is still so: the row is its copy, or is not there yet,
\* and the entries are what it found.
StillSo(r) ==
    /\ r.op = "create" /\ r.pc # "read" => row = None
    /\ r.op # "create" /\ r.pc # "read" => row # None /\ r.copy = row
    /\ r.pc \in {"read", "list"} => r.found = Nothing
    /\ r.op = "publish" /\ r.pc \in {"collect", "write"} => Passed(r)
    /\ r.op = "bump" /\ r.pc \in {"collect", "write"} => Gathered(r)
    /\ r.op \in {"publish", "bump"} /\ r.pc = "write" => r.todo = {}

\* The version the dataset is in, and the later ones, have not been left.
NotYetLeft == row # None => \A v \in Version : v >= row.version => archive[v] = Nothing

SerialInv ==
    /\ DatasetInv
    /\ NotYetLeft
    /\ \A h \in Handlers : req[h] # None => StillSo(req[h])

LEMMA AloneIsNext == AloneNext => Next
  BY DEF AloneNext, Next

\* The only handler goes on with a request that is in order, or has none.
LEMMA OnlyRequest ==
    ASSUME Serial, RequestInv, NEW h \in Handlers, NEW n, Becomes(h, n),
           n # None => StillSo(n) /\ UNCHANGED <<row, entries>>
    PROVE  \A g \in Handlers : req'[g] # None => StillSo(req[g])'
  <1>1. \A g \in Handlers : req'[g] = n
    BY DEF Serial, Becomes, RequestInv
  <1> QED
    BY <1>1 DEF StillSo, Passed, Gathered

\* Each step of the only handler leaves it with a request that is still so.
LEMMA SerialServe ==
    ASSUME Serial, SerialInv, NEW h \in Handlers, Serve(h)
    PROVE  \A g \in Handlers : req'[g] # None => StillSo(req[g])'
  <1>1. RequestInv /\ StoreInv
    BY DEF SerialInv, DatasetInv
  <1>2. PICK r : r = req[h]
    OBVIOUS
  <1>3. ASSUME r # None
        PROVE  r \in Request /\ Held(r) /\ StillSo(r)
    BY <1>1, <1>2, <1>3, AtFacts DEF SerialInv
  <1>4. CASE Finish(h)
    BY <1>1, <1>4, OnlyRequest DEF Finish
  <1>5. CASE ReadRow(h)
    <2>1. /\ r # None /\ r.pc = "read" /\ r.op # "create" /\ row # None
          /\ UNCHANGED <<row, entries>>
      BY <1>2, <1>5 DEF ReadRow, At
    <2>2. PICK pc \in {"list", "write"} :
             /\ Becomes(h, [r EXCEPT !.copy = row, !.pc = pc])
             /\ r.op \in {"publish", "bump"} => pc = "list"
      BY <1>2, <1>5 DEF ReadRow
    <2>3. PICK n : n = [r EXCEPT !.copy = row, !.pc = pc]
      OBVIOUS
    <2>4. n.op = r.op /\ n.pc = pc /\ n.copy = row /\ n.found = r.found
      BY <1>3, <2>1, <2>3 DEF Request
    <2>5. StillSo(n)
      BY <1>3, <2>1, <2>2, <2>4 DEF StillSo
    <2> QED
      BY <1>1, <2>1, <2>2, <2>3, <2>5, OnlyRequest
  <1>6. CASE CheckFree(h)
    <2>1. /\ r # None /\ r.op = "create" /\ row = None /\ UNCHANGED <<row, entries>>
          /\ Becomes(h, [r EXCEPT !.pc = "write"])
      BY <1>2, <1>6 DEF CheckFree, At
    <2>2. PICK n : n = [r EXCEPT !.pc = "write"]
      OBVIOUS
    <2>3. n.op = "create" /\ n.pc = "write"
      BY <1>3, <2>1, <2>2 DEF Request
    <2>4. StillSo(n)
      BY <2>1, <2>3 DEF StillSo
    <2> QED
      BY <1>1, <2>1, <2>2, <2>4, OnlyRequest
  <1>7. ASSUME NEW todo \in SUBSET EntryIds, NEW found \in Listing, NEW n \in Request,
               r # None, r.pc \in {"list", "collect"}, UNCHANGED <<row, entries>>,
               n = [Remaining(r, todo) EXCEPT !.found = found],
               r.op = "publish" => Passed(n),
               r.op = "bump" => Gathered(n)
        PROVE  StillSo(n)
    <2>1. r \in Request /\ StillSo(r) /\ r.op \in {"publish", "bump"}
      BY <1>3, <1>7 DEF Held
    <2>2. /\ n.op = r.op /\ n.copy = r.copy /\ n.todo = todo /\ n.found = found
          /\ n.pc = IF todo = {} THEN "write" ELSE "collect"
      BY <1>7, <2>1 DEF Remaining, Request
    <2> QED
      BY <1>7, <2>1, <2>2 DEF StillSo
  <1>8. CASE ListEntries(h)
    <2>1. /\ r # None /\ r.pc = "list" /\ UNCHANGED <<row, entries>>
          /\ Becomes(h, Remaining(r, {e \in EntryIds : entries[e] # None}))
      BY <1>2, <1>8 DEF ListEntries, At
    <2>2. r \in Request /\ Held(r) /\ r.found = Nothing
      BY <1>3, <2>1 DEF StillSo
    <2>3. PICK todo \in SUBSET EntryIds : todo = {e \in EntryIds : entries[e] # None}
      OBVIOUS
    <2>4. PICK n : n = Remaining(r, todo)
      OBVIOUS
    <2>5. n \in Request /\ n.found = Nothing /\ n.todo = todo
      BY <2>1, <2>2, <2>3, <2>4 DEF Remaining, Request
    <2>6. n = [Remaining(r, todo) EXCEPT !.found = Nothing]
      BY <2>4, <2>5 DEF Request
    <2>7. Passed(n) /\ Gathered(n)
      BY <2>3, <2>5 DEF Passed, Gathered, Nothing
    <2>8. StillSo(n)
      BY <1>7, <2>1, <2>3, <2>5, <2>6, <2>7, NothingIsListing
    <2> QED
      BY <1>1, <2>1, <2>3, <2>4, <2>8, OnlyRequest
  <1>9. ASSUME NEW e \in EntryIds, CollectEntry(h, e) \/ GateEntry(h, e)
        PROVE  \A g \in Handlers : req'[g] # None => StillSo(req[g])'
    <2>1. r # None /\ r.pc = "collect" /\ e \in r.todo /\ UNCHANGED <<row, entries>>
      BY <1>2, <1>9 DEF CollectEntry, GateEntry, At
    <2>2. /\ r \in Request /\ Held(r) /\ StillSo(r)
          /\ r.todo \subseteq EntryIds /\ r.found \in Listing
      BY <1>3, <2>1 DEF Request
    <2>3. PICK todo \in SUBSET EntryIds : todo = r.todo \ {e}
      BY <2>2
    <2>4. PICK m : m = Remaining(r, todo)
      OBVIOUS
    <2>5. m \in Request /\ m.found = r.found /\ m.todo = todo /\ m.op = r.op
      BY <2>2, <2>4 DEF Remaining, Request
    <2>6. CASE r.op = "publish"
      <3>1. CASE entries[e] # None /\ entries[e].barred
        BY <1>2, <1>4, <1>9, <2>6, <3>1 DEF GateEntry, CollectEntry
      <3>2. CASE ~(entries[e] # None /\ entries[e].barred)
        <4>1. Becomes(h, m)
          BY <1>2, <1>9, <2>3, <2>4, <2>6, <3>2 DEF GateEntry, CollectEntry
        <4>2. m = [m EXCEPT !.found = r.found]
          BY <2>5 DEF Request
        <4>3. Passed(m)
          BY <2>1, <2>2, <2>3, <2>5, <2>6, <3>2 DEF Passed, StillSo
        <4>4. StillSo(m)
          BY <1>7, <2>1, <2>2, <2>4, <2>5, <2>6, <4>2, <4>3
        <4> QED
          BY <1>1, <2>1, <4>1, <4>4, OnlyRequest
      <3> QED
        BY <3>1, <3>2
    <2>7. CASE r.op = "bump"
      <3>1. PICK found \in Listing :
               /\ Becomes(h, [m EXCEPT !.found = found])
               /\ found = IF entries[e] = None THEN r.found
                          ELSE [r.found EXCEPT ![e] = entries[e].content]
        <4>1. CASE entries[e] = None
          <5>1. Becomes(h, m)
            BY <1>2, <1>9, <2>3, <2>4, <2>7, <4>1 DEF CollectEntry, GateEntry
          <5>2. m = [m EXCEPT !.found = r.found]
            BY <2>5 DEF Request
          <5> QED
            BY <2>2, <4>1, <5>1, <5>2
        <4>2. CASE entries[e] # None
          <5>1. Becomes(h, [m EXCEPT !.found[e] = entries[e].content])
            BY <1>2, <1>9, <2>3, <2>4, <2>7, <4>2 DEF CollectEntry, GateEntry
          <5>2. entries[e].content \in Contents
            BY <1>1, <4>2 DEF StoreInv, Entry
          <5>3. [r.found EXCEPT ![e] = entries[e].content] \in Listing
            BY <2>2, <5>2 DEF Listing
          <5>4. [m EXCEPT !.found[e] = entries[e].content]
                   = [m EXCEPT !.found = [r.found EXCEPT ![e] = entries[e].content]]
            BY <2>5
          <5> QED
            BY <4>2, <5>1, <5>3, <5>4
        <4> QED
          BY <4>1, <4>2
      <3>2. PICK n : n = [m EXCEPT !.found = found]
        OBVIOUS
      <3>3. n \in Request /\ n.found = found /\ n.todo = todo
        BY <2>5, <3>2 DEF Request
      <3>4. Gathered(r)
        BY <2>1, <2>2, <2>7 DEF StillSo
      <3>5. \A d \in EntryIds : found[d] = IF d = e /\ entries[e] # None
                                           THEN entries[e].content ELSE r.found[d]
        BY <2>2, <3>1 DEF Listing
      <3>6. Gathered(n)
        BY <2>1, <2>3, <3>3, <3>4, <3>5 DEF Gathered
      <3>7. StillSo(n)
        BY <1>7, <2>1, <2>4, <2>7, <3>2, <3>3, <3>6
      <3> QED
        BY <1>1, <2>1, <3>1, <3>2, <3>7, OnlyRequest
    <2> QED
      BY <1>2, <1>9, <2>6, <2>7 DEF CollectEntry, GateEntry
  <1>10. CASE TurnAway(h) \/ CreateWrite(h) \/ MoveWrite(h) \/ PublishWrite(h)
                \/ UnpublishWrite(h) \/ BumpWrite(h) \/ PatchWrite(h) \/ DepsWrite(h)
                \/ DeleteWrite(h)
    BY <1>4, <1>10 DEF TurnAway, CreateWrite, MoveWrite, PublishWrite, UnpublishWrite,
       BumpWrite, PatchWrite, DepsWrite, DeleteWrite
  <1> QED
    BY <1>5, <1>6, <1>8, <1>9, <1>10 DEF Serve

\* At its write the only handler has the row in hand, and the row admits the write.
LEMMA InHand ==
    ASSUME SerialInv, NEW h \in Handlers, NEW op, Writes(h, op), op # "create"
    PROVE  /\ req[h] \in Request /\ Held(req[h]) /\ StillSo(req[h])
           /\ req[h].op = op /\ req[h].pc = "write"
           /\ row # None /\ row \in Dataset /\ req[h].copy = row
           /\ Admitted(req[h], row)
  <1>1. req[h] # None /\ req[h].op = op /\ req[h].pc = "write"
    BY DEF Writes, At
  <1>2. req[h] \in Request /\ Held(req[h]) /\ StillSo(req[h])
    BY <1>1, AtFacts DEF SerialInv, DatasetInv
  <1>3. row # None /\ req[h].copy = row
    BY <1>1, <1>2 DEF StillSo
  <1> QED
    BY <1>1, <1>2, <1>3 DEF Held, SerialInv, DatasetInv, StoreInv

\* What is archived of the version a bump leaves is what it found.
LEMMA LeavesFirst ==
    ASSUME SerialInv, NEW h \in Handlers, Writes(h, "bump")
    PROVE  /\ req[h].found \in Listing
           /\ req[h].found = Ledger!Contained
           /\ row.version \in Version /\ row.version + 1 \in Version
           /\ archive[row.version] = Nothing
           /\ Archived(row.version, req[h].found) = [archive EXCEPT ![row.version] = Ledger!Contained]
  <1>1. PICK r : r = req[h]
    OBVIOUS
  <1>2. /\ r \in Request /\ StillSo(r) /\ r.op = "bump" /\ r.pc = "write"
        /\ row # None /\ row \in Dataset /\ Admitted(r, row)
    BY <1>1, InHand
  <1>3. Gathered(r) /\ r.todo = {} /\ r.found \in Listing
    BY <1>2 DEF StillSo, Request
  <1>4. \A e \in EntryIds : r.found[e] = IF entries[e] = None THEN None ELSE entries[e].content
    BY <1>3 DEF Gathered
  <1>5. r.found = Ledger!Contained
    BY <1>3, <1>4 DEF Listing, Ledger!Contained
  <1>6. row.version \in Version /\ row.version + 1 \in Version
    BY <1>2, DatasetGovernanceAssumption DEF Admitted, Dataset, Version
  <1>7. archive[row.version] = Nothing
    BY <1>2, <1>6 DEF SerialInv, NotYetLeft, Version
  <1>8. [e \in EntryIds |-> IF Nothing[e] # None THEN Nothing[e] ELSE r.found[e]] = r.found
    BY <1>3 DEF Nothing, Listing
  <1>9. Archived(row.version, r.found)
           = [archive EXCEPT ![row.version] =
                [e \in EntryIds |-> IF archive[row.version][e] # None THEN archive[row.version][e]
                                    ELSE r.found[e]]]
    BY <1>6 DEF Archived, SerialInv, DatasetInv, StoreInv
  <1>10. Archived(row.version, r.found) = [archive EXCEPT ![row.version] = r.found]
    BY <1>7, <1>8, <1>9
  <1> QED
    BY <1>1, <1>3, <1>5, <1>6, <1>7, <1>10

\* The versions ahead of the dataset stay unarchived.
LEMMA LeftServe ==
    ASSUME SerialInv, NEW h \in Handlers, Serve(h) PROVE NotYetLeft'
  <1>1. StoreInv /\ NotYetLeft
    BY DEF SerialInv, DatasetInv
  <1>2. CASE UNCHANGED <<row, archive>>
    BY <1>1, <1>2 DEF NotYetLeft
  <1>3. CASE row' = None
    BY <1>3 DEF NotYetLeft
  <1>4. CASE row = None /\ archive' = archive
    BY <1>1, <1>4 DEF NotYetLeft, StoreInv, NothingOutlivesDataset, Cleared
  <1>5. CASE row # None /\ row'.version = row.version /\ archive' = archive
    BY <1>1, <1>5 DEF NotYetLeft
  <1>6. CASE CreateWrite(h)
    BY <1>2, <1>4, <1>6 DEF CreateWrite
  <1>7. ASSUME NEW op, Writes(h, op), op # "create"
        PROVE  row # None /\ row \in Dataset /\ req[h].copy = row
    BY <1>7, InHand
  <1>8. CASE MoveWrite(h) \/ PublishWrite(h) \/ UnpublishWrite(h)
    <2>1. row # None /\ row \in Dataset
      BY <1>7, <1>8 DEF MoveWrite, PublishWrite, UnpublishWrite
    <2>2. PICK copy, c : SetLifecycle(copy, c) /\ archive' = archive
      BY <1>8 DEF MoveWrite, PublishWrite, UnpublishWrite
    <2>3. row'.version = row.version
      BY <2>1, <2>2 DEF SetLifecycle, Dataset
    <2> QED
      BY <1>5, <2>1, <2>2, <2>3
  <1>9. CASE PatchWrite(h) \/ DepsWrite(h)
    <2>1. row # None /\ row \in Dataset /\ req[h].copy = row
      BY <1>7, <1>9 DEF PatchWrite, DepsWrite
    <2>2. PICK note : \/ row' = [row EXCEPT !.note = note]
                      \/ row' = [row EXCEPT !.deps = note]
      BY <1>9, <2>1 DEF PatchWrite, DepsWrite
    <2>3. row'.version = row.version /\ archive' = archive
      BY <1>9, <2>1, <2>2 DEF PatchWrite, DepsWrite, Dataset
    <2> QED
      BY <1>5, <2>1, <2>3
  <1>10. CASE BumpWrite(h)
    <2>1. Writes(h, "bump")
      BY <1>10 DEF BumpWrite
    <2>2. row # None /\ row \in Dataset /\ req[h].copy = row
      BY <1>7, <2>1
    <2>3. /\ row.version \in Version /\ row.version + 1 \in Version
          /\ Archived(row.version, req[h].found) = [archive EXCEPT ![row.version] = Ledger!Contained]
      BY <2>1, LeavesFirst
    <2>4. /\ row'.version = row.version + 1
          /\ archive' = [archive EXCEPT ![row.version] = Ledger!Contained]
      BY <1>10, <2>2, <2>3 DEF BumpWrite, Dataset
    <2>5. ASSUME NEW v \in Version, v >= row'.version PROVE archive'[v] = Nothing
      <3>1. v >= row.version /\ v # row.version
        BY <2>3, <2>4, <2>5 DEF Version
      <3> QED
        BY <1>1, <2>2, <2>4, <3>1 DEF NotYetLeft, StoreInv
    <2> QED
      BY <2>5 DEF NotYetLeft
  <1>11. CASE DeleteWrite(h)
    BY <1>3, <1>11 DEF DeleteWrite
  <1>12. CASE ReadRow(h) \/ CheckFree(h) \/ TurnAway(h) \/ ListEntries(h)
                \/ \E e \in EntryIds : CollectEntry(h, e) \/ GateEntry(h, e)
    BY <1>2, <1>12 DEF ReadRow, CheckFree, TurnAway, ListEntries, CollectEntry, GateEntry
  <1> QED
    BY <1>6, <1>8, <1>9, <1>10, <1>11, <1>12 DEF Serve

LEMMA SerialStep ==
    ASSUME Serial, SerialInv, [AloneNext]_vars PROVE SerialInv'
  <1>1. DatasetInv'
    BY DatasetStep, AloneIsNext DEF SerialInv
  <1>2. RequestInv /\ StoreInv
    BY DEF SerialInv, DatasetInv
  <1>3. CASE \E h \in Handlers : Serve(h)
    BY <1>1, <1>3, SerialServe, LeftServe DEF SerialInv
  <1>4. CASE Arrive
    <2>1. PICK h \in Handlers, op \in Ops : \E arg \in Args(op) : Begin(h, op, arg)
      BY <1>4 DEF Arrive
    <2>2. PICK arg : Begin(h, op, arg)
      BY <2>1
    <2>3. PICK n : n = [op |-> op, arg |-> arg, pc |-> "read", copy |-> None,
                        todo |-> {}, found |-> Nothing]
      OBVIOUS
    <2>4. n.pc = "read" /\ n.found = Nothing
      BY <2>3
    <2>5. StillSo(n)
      BY <2>4 DEF StillSo
    <2>6. Becomes(h, n) /\ UNCHANGED <<row, entries, archive>>
      BY <2>2, <2>3 DEF Begin, stored
    <2>7. NotYetLeft'
      BY <2>6 DEF SerialInv, NotYetLeft
    <2>8. \A g \in Handlers : req'[g] # None => StillSo(req[g])'
      BY <1>2, <2>5, <2>6, OnlyRequest
    <2> QED
      BY <1>1, <2>7, <2>8 DEF SerialInv
  <1>5. CASE Idle /\ Bundle
    <2>1. req' = req /\ archive' = Cleared
      BY <1>5 DEF Bundle, Import
    <2>2. NotYetLeft'
      BY <2>1 DEF NotYetLeft, Cleared
    <2> QED
      BY <1>1, <1>5, <2>1, <2>2 DEF SerialInv, Idle
  <1>6. CASE Idle /\ Edit
    BY <1>1, <1>6 DEF Edit, EntryStep, SerialInv, Idle, NotYetLeft
  <1>7. CASE UNCHANGED vars
    BY <1>1, <1>7 DEF vars, SerialInv, NotYetLeft, StillSo, Passed, Gathered
  <1> QED
    BY <1>3, <1>4, <1>5, <1>6, <1>7 DEF AloneNext

\* The lifecycle written from the copy in hand is one more change of the ledger's dataset.
LEMMA EnterShown ==
    ASSUME NEW to, NEW cause, NEW published, row # None,
           SetLifecycle(row, Step(row, to, cause, published))
    PROVE  row' = Ledger!Enter(to, cause, published)
  BY DEF SetLifecycle, Step, Ledger!Enter

\* Every write of the only handler is a step of the ledger; nothing else it does shows.
LEMMA LedgerServe ==
    ASSUME SerialInv, NEW h \in Handlers, Serve(h)
    PROVE  [Ledger!Next]_(Ledger!vars)
  <1>1. CASE UNCHANGED stored
    BY <1>1 DEF stored, Ledger!vars
  <1>2. CASE CreateWrite(h)
    <2>1. req[h] # None /\ req[h].op = "create" /\ req[h].pc = "write"
      BY <1>2 DEF CreateWrite, Writes, At
    <2>2. Held(req[h]) /\ StillSo(req[h])
      BY <2>1, AtFacts DEF SerialInv, DatasetInv
    <2>3. req[h].arg \in Notes /\ row = None
      BY <2>1, <2>2 DEF Held, StillSo
    <2>4. Ledger!Create(req[h].arg)
      BY <1>2, <2>3 DEF CreateWrite, Ledger!Create
    <2> QED
      BY <2>3, <2>4 DEF Ledger!Next
  <1>3. CASE MoveWrite(h)
    <2>1. Writes(h, "move") /\ UNCHANGED <<entries, archive>>
      BY <1>3 DEF MoveWrite
    <2>2. /\ row # None /\ req[h].copy = row /\ req[h].op = "move"
          /\ Held(req[h]) /\ Admitted(req[h], row)
      BY <2>1, InHand
    <2>3. req[h].arg \in LifecycleStatus
      BY <2>2 DEF Held
    <2>4. <<row.status, req[h].arg>> \in DatasetMoves
      BY <2>2 DEF Admitted
    <2>5. row' = Ledger!Enter(req[h].arg, "move", 0)
      BY <1>3, <2>2, EnterShown DEF MoveWrite
    <2>6. Ledger!Move(req[h].arg)
      BY <2>1, <2>4, <2>5 DEF Ledger!Move, Ledger!DatasetMoves, DatasetMoves
    <2> QED
      BY <2>2, <2>3, <2>6 DEF Ledger!Next, Ledger!Operate, Ledger!LifecycleStatus, LifecycleStatus
  <1>4. CASE PublishWrite(h)
    <2>1. Writes(h, "publish") /\ UNCHANGED <<entries, archive>>
      BY <1>4 DEF PublishWrite
    <2>2. /\ row # None /\ req[h].copy = row /\ Publishable(row.status)
          /\ Passed(req[h]) /\ req[h].todo = {}
      BY <2>1, InHand DEF Admitted, StillSo
    <2>3. row' = Ledger!Enter("Published", "publish", row.version)
      BY <1>4, <2>2, EnterShown DEF PublishWrite
    <2>4. Ledger!Publish
      BY <2>1, <2>2, <2>3 DEF Ledger!Publish, Ledger!Publishable, Publishable, Passed
    <2> QED
      BY <2>2, <2>4 DEF Ledger!Next, Ledger!Operate
  <1>5. CASE UnpublishWrite(h)
    <2>1. Writes(h, "unpublish") /\ UNCHANGED <<entries, archive>>
      BY <1>5 DEF UnpublishWrite
    <2>2. row # None /\ req[h].copy = row /\ row.status = "Published"
      BY <2>1, InHand DEF Admitted
    <2>3. row' = Ledger!Enter("Rejected", "unpublish", 0)
      BY <1>5, <2>2, EnterShown DEF UnpublishWrite
    <2>4. Ledger!Unpublish
      BY <2>1, <2>2, <2>3 DEF Ledger!Unpublish
    <2> QED
      BY <2>2, <2>4 DEF Ledger!Next, Ledger!Operate
  <1>6. CASE BumpWrite(h)
    <2>1. Writes(h, "bump") /\ entries' = entries
      BY <1>6 DEF BumpWrite
    <2>2. row # None /\ row \in Dataset /\ req[h].copy = row
      BY <2>1, InHand
    <2>3. /\ archive[row.version] = Nothing
          /\ Archived(row.version, req[h].found) = [archive EXCEPT ![row.version] = Ledger!Contained]
      BY <2>1, LeavesFirst
    <2>4. archive' = [archive EXCEPT ![row.version] = Ledger!Contained]
      BY <1>6, <2>2, <2>3 DEF BumpWrite
    <2>5. row' = [Ledger!Enter("Draft", "bump", 0) EXCEPT !.version = @ + 1]
      BY <1>6, <2>2 DEF BumpWrite, Step, Ledger!Enter, Dataset
    <2>6. Ledger!Bump
      BY <2>1, <2>3, <2>4, <2>5 DEF Ledger!Bump, Nothing
    <2> QED
      BY <2>2, <2>6 DEF Ledger!Next, Ledger!Operate
  <1>7. CASE PatchWrite(h)
    <2>1. Writes(h, "patch") /\ UNCHANGED <<entries, archive>>
      BY <1>7 DEF PatchWrite
    <2>2. row # None /\ req[h].copy = row /\ req[h].arg \in Notes
      BY <2>1, InHand DEF Held
    <2>3. Ledger!Annotate("note", req[h].arg)
      BY <1>7, <2>1, <2>2 DEF PatchWrite, Ledger!Annotate
    <2> QED
      BY <2>2, <2>3 DEF Ledger!Next, Ledger!Operate
  <1>8. CASE DepsWrite(h)
    <2>1. Writes(h, "deps") /\ UNCHANGED <<entries, archive>>
      BY <1>8 DEF DepsWrite
    <2>2. row # None /\ req[h].copy = row /\ req[h].arg \in Notes
      BY <2>1, InHand DEF Held
    <2>3. Ledger!Annotate("deps", req[h].arg)
      BY <1>8, <2>1, <2>2 DEF DepsWrite, Ledger!Annotate
    <2> QED
      BY <2>2, <2>3 DEF Ledger!Next, Ledger!Operate
  <1>9. CASE DeleteWrite(h)
    <2>1. Writes(h, "delete")
      BY <1>9 DEF DeleteWrite
    <2>2. row # None /\ row.status \in {"Draft", "Rejected"}
      BY <2>1, InHand DEF Admitted
    <2>3. Ledger!Delete
      BY <1>9, <2>2
      DEF DeleteWrite, Nothing, Cleared, Ledger!Delete, Ledger!Empty, Ledger!Version, Version
    <2> QED
      BY <2>2, <2>3 DEF Ledger!Next, Ledger!Operate
  <1>10. CASE ReadRow(h) \/ CheckFree(h) \/ TurnAway(h) \/ ListEntries(h)
                \/ \E e \in EntryIds : CollectEntry(h, e) \/ GateEntry(h, e)
    BY <1>1, <1>10
    DEF ReadRow, CheckFree, TurnAway, ListEntries, CollectEntry, GateEntry, stored
  <1> QED
    BY <1>2, <1>3, <1>4, <1>5, <1>6, <1>7, <1>8, <1>9, <1>10 DEF Serve

\* A bundle replaces the dataset in one step, and goes on with its history.
LEMMA LedgerBundle == ASSUME StoreInv, Bundle PROVE Ledger!Import
  <1>1. PICK v \in Version, note \in Notes, listing \in Listing : Import(v, note, listing)
    BY DEF Bundle
  <1>2. archive' = Ledger!Empty
    BY <1>1 DEF Import, Cleared, Nothing, Ledger!Empty, Ledger!Version, Version
  <1>3. \A e \in EntryIds : entries'[e] # None => ~entries'[e].barred
    BY <1>1 DEF Import, Bundled
  <1>4. row' = IF row = None
               THEN [status |-> "Active", version |-> v, note |-> note, deps |-> note,
                     trail |-> <<[from |-> "Draft", to |-> "Active", cause |-> "import",
                                  published |-> 0]>>]
               ELSE [Ledger!Enter("Active", "import", 0) EXCEPT
                       !.version = v, !.note = note, !.deps = note]
    <2>1. CASE row = None
      BY <1>1, <2>1 DEF Import
    <2>2. CASE row # None
      <3>1. row \in Dataset
        BY <2>2 DEF StoreInv
      <3>2. PICK longer : longer = Append(row.trail, [from |-> row.status, to |-> "Active",
                                                      cause |-> "import", published |-> 0])
        OBVIOUS
      <3>3. row' = [status |-> "Active", version |-> v, note |-> note, deps |-> note,
                    trail |-> longer]
        BY <1>1, <2>2, <3>2 DEF Import
      <3>4. PICK new : new = [Ledger!Enter("Active", "import", 0) EXCEPT
                               !.version = v, !.note = note, !.deps = note]
        OBVIOUS
      <3>5. longer \in Seq(Change)
        <4>1. row.status \in LifecycleStatus /\ row.trail \in Seq(Change)
          BY <3>1 DEF Dataset
        <4>2. [from |-> row.status, to |-> "Active", cause |-> "import", published |-> 0] \in Change
          BY <4>1, ChangeTypes DEF Causes, LifecycleStatus
        <4> QED
          BY <3>2, <4>1, <4>2
      <3>6. /\ new \in Dataset /\ new.status = "Active" /\ new.trail = longer
            /\ new.version = v /\ new.note = note /\ new.deps = note
        BY <3>1, <3>2, <3>4, <3>5 DEF Ledger!Enter, Dataset, LifecycleStatus
      <3>7. /\ row' \in Dataset /\ row'.status = "Active" /\ row'.trail = longer
            /\ row'.version = v /\ row'.note = note /\ row'.deps = note
        BY <3>3, <3>5 DEF Dataset, LifecycleStatus
      <3>8. row' = new
        BY <3>6, <3>7 DEF Dataset
      <3> QED
        BY <2>2, <3>4, <3>8
    <2> QED
      BY <2>1, <2>2
  <1> QED
    BY <1>2, <1>3, <1>4 DEF Ledger!Import, Ledger!Version, Version

\* Served one after the other, and with bundles and edits between them only, requests act on
\* the dataset as on one that is atomic: it is published when every entry passes the gate, a
\* version is archived once, as it was left, metadata changes nothing else, and only an idle
\* dataset is deleted.
THEOREM LoneClientKeepsLedger == ASSUME Serial PROVE Alone => SerialDataset
  <1>1. Init => SerialInv
    BY DatasetInit DEF Init, SerialInv, NotYetLeft
  <1>2. SerialInv /\ [AloneNext]_vars => SerialInv'
    BY SerialStep
  <1>3. Init => Ledger!Init
    BY DEF Init, Nothing, Cleared, Ledger!Init, Ledger!Empty, Ledger!Version, Version
  <1>4. ASSUME SerialInv, [AloneNext]_vars PROVE [Ledger!Next]_(Ledger!vars)
    <2>1. CASE Idle /\ Bundle
      BY <1>4, <2>1, LedgerBundle DEF SerialInv, DatasetInv, Ledger!Next
    <2>2. CASE Idle /\ Edit
      BY <2>2 DEF Edit, EntryStep, Entry, Ledger!Edit, Ledger!Next
    <2>3. CASE Arrive \/ UNCHANGED vars
      BY <2>3 DEF Arrive, Begin, stored, vars, Ledger!vars
    <2>4. CASE \E h \in Handlers : Serve(h)
      BY <1>4, <2>4, LedgerServe
    <2> QED
      BY <1>4, <2>1, <2>2, <2>3, <2>4 DEF AloneNext
  <1> QED
    BY <1>1, <1>2, <1>3, <1>4, PTL DEF Alone, SerialDataset, Ledger!Spec
=============================================================================
