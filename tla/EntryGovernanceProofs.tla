---------------------- MODULE EntryGovernanceProofs ----------------------
(***************************************************************************)
(* Theorems of EntryGovernance for any number of entries, handlers,        *)
(* versions and requests.  The invariant is a conjunction of two parts     *)
(* that are kept apart: what the store holds (StoreInv) and what each      *)
(* request carries between its critical sections (RequestInv).  The first  *)
(* needs the second only to know that a handler that writes holds a row.   *)
(*                                                                         *)
(* The second part is about services in which nobody patches, as in the    *)
(* run entries_moves: there the audit tells every status.  The third is    *)
(* about one handler that serves one request after another: what it reads  *)
(* is still so when it writes, and the store is that of EntryLedger.       *)
(***************************************************************************)
EXTENDS EntryGovernance, SequenceTheorems, TLAPS

StoreTypes ==
    /\ rows \in [Entries -> [Version -> Row \union {None}]]
    /\ history \in [Entries -> Seq(Audit)]
    /\ snapshots \in SUBSET Contents

StoreInv == StoreTypes /\ SnapshotCoverage /\ AuditRowsHaveEntry

RequestInv ==
    /\ req \in [Handlers -> Request \union {None}]
    /\ RequestsWellFormed

EntryInv == StoreInv /\ RequestInv /\ begun \in Nat

-----------------------------------------------------------------------------
(* The store.                                                              *)

\* Replacing one row by another, or by none, keeps the type of the table and
\* leaves every other row alone.
LEMMA SetRowFacts ==
    ASSUME StoreTypes, NEW e \in Entries, NEW v \in Version,
           NEW row \in Row \union {None}, SetRow(e, v, row)
    PROVE  /\ rows' \in [Entries -> [Version -> Row \union {None}]]
           /\ rows'[e][v] = row
           /\ \A d \in Entries, w \in Version :
                d # e \/ w # v => rows'[d][w] = rows[d][w]
  BY DEF StoreTypes, SetRow

\* An audit row joins the history of one entry.
LEMMA RecordFacts ==
    ASSUME StoreTypes, NEW e \in Entries, NEW v \in Version,
           NEW from \in LifecycleStatus, NEW to \in LifecycleStatus, NEW gate \in Gate,
           Record(e, v, from, to, gate)
    PROVE  /\ history' \in [Entries -> Seq(Audit)]
           /\ \A d \in Entries \ {e} : history'[d] = history[d]
           /\ \A i \in DOMAIN history'[e] :
                \/ i \in DOMAIN history[e] /\ history'[e][i] = history[e][i]
                \/ history'[e][i].version = v
  <1> DEFINE a == [version |-> v, from |-> from, to |-> to, gate |-> gate, ratified |-> FALSE]
  <1>1. a \in Audit
    BY DEF Audit
  <1>2. history[e] \in Seq(Audit)
    BY DEF StoreTypes
  <1>3. a.version = v
    OBVIOUS
  <1>4. history' = [history EXCEPT ![e] = Append(history[e], a)]
    BY DEF Record
  <1> HIDE DEF a
  <1>5. /\ Append(history[e], a) \in Seq(Audit)
        /\ \A i \in DOMAIN Append(history[e], a) :
             \/ i \in DOMAIN history[e] /\ Append(history[e], a)[i] = history[e][i]
             \/ Append(history[e], a)[i] = a
    BY <1>1, <1>2
  <1>6. history'[e] = Append(history[e], a)
    BY <1>4 DEF StoreTypes
  <1> QED
    BY <1>3, <1>4, <1>5, <1>6 DEF StoreTypes

\* Every row of a history is an audit row.
LEMMA AuditTypes ==
    ASSUME StoreTypes, NEW e \in Entries, NEW i \in DOMAIN history[e]
    PROVE  history[e][i] \in Audit /\ history[e][i].version \in Version
  <1>1. history[e] \in Seq(Audit)
    BY DEF StoreTypes
  <1>2. history[e][i] \in Audit
    BY <1>1
  <1> QED
    BY <1>2 DEF Audit

\* A move keeps the store in order: it touches the row it found and adds the
\* audit row of that version, or does nothing (transition_entry_status).
LEMMA MoveKeepsStore ==
    ASSUME StoreInv, NEW e \in Entries, NEW v \in Version, NEW copy \in Row,
           NEW to \in LifecycleStatus, NEW gate \in Gate, Move(e, v, copy, to, gate)
    PROVE  StoreInv'
  <1>1. CASE ~Exists(e, v)
    BY <1>1 DEF Move, stored, StoreInv, StoreTypes, SnapshotCoverage, AuditRowsHaveEntry, Exists
  <1>2. CASE Exists(e, v)
    <2> DEFINE row == [rows[e][v] EXCEPT !.status = to, !.llm = copy.llm]
    <2>1. rows[e][v] \in Row
      BY <1>2 DEF StoreInv, StoreTypes, Exists
    <2>2. row \in Row /\ row.content = rows[e][v].content
      BY <2>1 DEF Row
    <2>3. row # None
      BY <2>2, EntryGovernanceAssumption
    <2>4. SetRow(e, v, row) /\ Record(e, v, copy.status, to, gate) /\ snapshots' = snapshots
      BY <1>2 DEF Move
    <2>5. copy.status \in LifecycleStatus
      BY DEF Row
    <2> HIDE DEF row
    <2>6. /\ rows' \in [Entries -> [Version -> Row \union {None}]]
          /\ rows'[e][v] = row
          /\ \A d \in Entries, w \in Version :
               d # e \/ w # v => rows'[d][w] = rows[d][w]
      BY <2>2, <2>4, SetRowFacts DEF StoreInv
    <2>7. /\ history' \in [Entries -> Seq(Audit)]
          /\ \A d \in Entries \ {e} : history'[d] = history[d]
          /\ \A i \in DOMAIN history'[e] :
               \/ i \in DOMAIN history[e] /\ history'[e][i] = history[e][i]
               \/ history'[e][i].version = v
      BY <2>4, <2>5, RecordFacts DEF StoreInv
    <2>8. StoreTypes'
      BY <2>4, <2>6, <2>7 DEF StoreInv, StoreTypes
    <2>9. SnapshotCoverage'
      BY <1>2, <2>2, <2>4, <2>6 DEF StoreInv, SnapshotCoverage, Exists
    <2>10. ASSUME NEW d \in Entries, NEW w \in Version
           PROVE  Exists(d, w) => Exists(d, w)'
      BY <2>3, <2>6 DEF Exists
    <2>11. Exists(e, v)'
      BY <2>3, <2>6 DEF Exists
    <2>12. \A d \in Entries : \A i \in DOMAIN history[d] : history[d][i].version \in Version
      BY AuditTypes DEF StoreInv
    <2>13. AuditRowsHaveEntry'
      BY <2>7, <2>10, <2>11, <2>12 DEF StoreInv, AuditRowsHaveEntry
    <2> QED
      BY <2>8, <2>9, <2>13 DEF StoreInv
  <1> QED
    BY <1>1, <1>2

\* A patch replaces a row and stores the snapshot of its content, or does
\* nothing (update_draft_entry).
LEMMA OverwriteKeepsStore ==
    ASSUME StoreInv, NEW e \in Entries, NEW v \in Version, NEW copy \in Row,
           NEW content \in Contents, Overwrite(e, v, copy, content)
    PROVE  StoreInv'
  <1>1. CASE ~Exists(e, v)
    BY <1>1 DEF Overwrite, stored, StoreInv, StoreTypes, SnapshotCoverage, AuditRowsHaveEntry,
       Exists
  <1>2. CASE Exists(e, v)
    <2> DEFINE row == [copy EXCEPT !.content = content, !.external = rows[e][v].external]
    <2>1. rows[e][v] \in Row
      BY <1>2 DEF StoreInv, StoreTypes, Exists
    <2>2. row \in Row /\ row.content = content
      BY <2>1 DEF Row
    <2>3. row # None
      BY <2>2, EntryGovernanceAssumption
    <2>4. SetRow(e, v, row) /\ snapshots' = snapshots \union {content} /\ history' = history
      BY <1>2 DEF Overwrite
    <2> HIDE DEF row
    <2>5. /\ rows' \in [Entries -> [Version -> Row \union {None}]]
          /\ rows'[e][v] = row
          /\ \A d \in Entries, w \in Version :
               d # e \/ w # v => rows'[d][w] = rows[d][w]
      BY <2>2, <2>4, SetRowFacts DEF StoreInv
    <2>6. StoreTypes'
      BY <2>4, <2>5 DEF StoreInv, StoreTypes
    <2>7. SnapshotCoverage'
      BY <2>2, <2>4, <2>5 DEF StoreInv, SnapshotCoverage, Exists
    <2>8. \A d \in Entries : \A i \in DOMAIN history[d] : history[d][i].version \in Version
      BY AuditTypes DEF StoreInv
    <2>9. AuditRowsHaveEntry'
      BY <2>3, <2>4, <2>5, <2>8 DEF StoreInv, AuditRowsHaveEntry, Exists
    <2> QED
      BY <2>6, <2>7, <2>9 DEF StoreInv
  <1> QED
    BY <1>1, <1>2

\* A new version arrives with its snapshot (add_entry).
LEMMA AddKeepsStore ==
    ASSUME StoreInv, NEW e \in Entries, NEW v \in Version, NEW content \in Contents,
           NEW origin \in Origins, AddEntry(e, v, content, origin)
    PROVE  StoreInv'
  <1> DEFINE row == [status |-> "Draft", content |-> content,
                     llm |-> origin = "llm", external |-> origin = "external"]
  <1>1. row \in Row /\ row.content = content
    BY DEF Row, LifecycleStatus
  <1>2. row # None
    BY <1>1, EntryGovernanceAssumption
  <1>3. SetRow(e, v, row) /\ snapshots' = snapshots \union {content} /\ history' = history
    BY DEF AddEntry
  <1> HIDE DEF row
  <1>4. /\ rows' \in [Entries -> [Version -> Row \union {None}]]
        /\ rows'[e][v] = row
        /\ \A d \in Entries, w \in Version :
             d # e \/ w # v => rows'[d][w] = rows[d][w]
    BY <1>1, <1>3, SetRowFacts DEF StoreInv
  <1>5. StoreTypes'
    BY <1>3, <1>4 DEF StoreInv, StoreTypes
  <1>6. SnapshotCoverage'
    BY <1>1, <1>3, <1>4 DEF StoreInv, SnapshotCoverage, Exists
  <1>7. \A d \in Entries : \A i \in DOMAIN history[d] : history[d][i].version \in Version
    BY AuditTypes DEF StoreInv
  <1>8. AuditRowsHaveEntry'
    BY <1>2, <1>3, <1>4, <1>7 DEF StoreInv, AuditRowsHaveEntry, Exists
  <1> QED
    BY <1>5, <1>6, <1>8 DEF StoreInv

\* A deletion empties the rows and the history of one entry together
\* (delete_entry).
LEMMA DeleteKeepsStore ==
    ASSUME StoreInv, NEW h \in Handlers, req[h].entry \in Entries, DeleteWrite(h)
    PROVE  StoreInv'
  <1> DEFINE e == req[h].entry
  <1>1. /\ rows' = [rows EXCEPT ![e] = [v \in Version |-> None]]
        /\ history' = [history EXCEPT ![e] = <<>>]
        /\ snapshots' = snapshots
        /\ e \in Entries
    BY DEF DeleteWrite
  <1> HIDE DEF e
  <1>2. /\ rows'[e] = [v \in Version |-> None]
        /\ \A d \in Entries \ {e} : rows'[d] = rows[d] /\ history'[d] = history[d]
        /\ DOMAIN history'[e] = {}
    BY <1>1 DEF StoreInv, StoreTypes
  <1>3. StoreTypes'
    BY <1>1 DEF StoreInv, StoreTypes
  <1>4. SnapshotCoverage'
    BY <1>1, <1>2 DEF StoreInv, SnapshotCoverage, Exists
  <1>5. AuditRowsHaveEntry'
    BY <1>2 DEF StoreInv, AuditRowsHaveEntry, Exists
  <1> QED
    BY <1>3, <1>4, <1>5 DEF StoreInv

\* Ratification marks audit rows in place (ratify_post_review).
LEMMA RatifyKeepsStore ==
    ASSUME StoreInv, NEW h \in Handlers, req[h].entry \in Entries, Ratify(h)
    PROVE  StoreInv'
  <1> DEFINE e == req[h].entry
             ratified(a) == IF Pending(a) THEN [a EXCEPT !.ratified = TRUE] ELSE a
  <1>1. /\ history' = [history EXCEPT ![e] = [i \in DOMAIN history[e] |-> ratified(history[e][i])]]
        /\ rows' = rows /\ snapshots' = snapshots
        /\ e \in Entries
    BY DEF Ratify
  <1>2. \A a \in Audit : ratified(a) \in Audit /\ ratified(a).version = a.version
    BY DEF Audit
  <1> HIDE DEF e, ratified
  <1>3. history[e] \in Seq(Audit)
    BY <1>1 DEF StoreInv, StoreTypes
  <1>4. \A i \in DOMAIN history[e] : history[e][i] \in Audit
    BY <1>3
  <1>5. [i \in DOMAIN history[e] |-> ratified(history[e][i])] \in Seq(Audit)
    BY <1>2, <1>3, <1>4
  <1>6. history' \in [Entries -> Seq(Audit)]
    BY <1>1, <1>5 DEF StoreInv, StoreTypes
  <1>7. \A d \in Entries :
          /\ DOMAIN history'[d] = DOMAIN history[d]
          /\ \A i \in DOMAIN history[d] : history'[d][i].version = history[d][i].version
    BY <1>1, <1>2, <1>4 DEF StoreInv, StoreTypes
  <1>8. StoreTypes'
    BY <1>1, <1>6 DEF StoreInv, StoreTypes
  <1>9. SnapshotCoverage'
    BY <1>1 DEF StoreInv, SnapshotCoverage, Exists
  <1>10. AuditRowsHaveEntry'
    BY <1>1, <1>7 DEF StoreInv, AuditRowsHaveEntry, Exists
  <1> QED
    BY <1>8, <1>9, <1>10 DEF StoreInv

-----------------------------------------------------------------------------
(* The requests.                                                           *)

\* A handler that takes up a well-formed request, or ends its own, leaves the
\* requests in order.
LEMMA BecomesKeepsRequests ==
    ASSUME RequestInv, NEW h \in Handlers, NEW r,
           r = None \/ (r \in Request /\ WellFormed(r)), Becomes(h, r)
    PROVE  RequestInv'
  <1>1. req' = [req EXCEPT ![h] = r]
    BY DEF Becomes
  <1>2. req' \in [Handlers -> Request \union {None}]
    BY <1>1 DEF RequestInv
  <1>3. \A g \in Handlers : req'[g] = IF g = h THEN r ELSE req[g]
    BY <1>1 DEF RequestInv
  <1>4. RequestsWellFormed'
    BY <1>3 DEF RequestInv, RequestsWellFormed
  <1> QED
    BY <1>2, <1>4 DEF RequestInv

\* A request at some point of its work is a well-formed request.
LEMMA AtFacts ==
    ASSUME RequestInv, NEW h \in Handlers, req[h] # None
    PROVE  /\ req[h] \in Request /\ WellFormed(req[h])
           /\ req[h].entry \in Entries
  BY DEF RequestInv, RequestsWellFormed, Request

\* The hops of a promotion are statuses.
LEMMA PlanType ==
    ASSUME NEW current, NEW target
    PROVE  HopPlan(current, target) \in Seq(LifecycleStatus)
  <1>1. <<"Candidate">> \in Seq(LifecycleStatus) /\ <<"Active">> \in Seq(LifecycleStatus)
    BY DEF LifecycleStatus
  <1>2. <<"Candidate", "Active">> \in Seq(LifecycleStatus) /\ <<>> \in Seq(LifecycleStatus)
    BY DEF LifecycleStatus
  <1> QED
    BY <1>1, <1>2 DEF HopPlan

\* A request that goes on to a hop of a plan is well formed: judged, with a hop
\* to make.
LEMMA NextHopFacts ==
    ASSUME NEW r \in Request, WellFormed(r), r.op = "promote",
           NEW tier \in {"T0", "T1"}, NEW plan \in Seq(LifecycleStatus), plan # <<>>
    PROVE  NextHop(r, tier, plan) \in Request /\ WellFormed(NextHop(r, tier, plan))
  <1> DEFINE n == NextHop(r, tier, plan)
  <1>1. n \in Request
    BY DEF NextHop, Request
  <1>2. n.op = r.op /\ n.pc = "version" /\ n.plan = plan /\ n.target = r.target
    BY DEF NextHop, Request
  <1> HIDE DEF n
  <1>3. WellFormed(n)
    BY <1>2 DEF WellFormed
  <1> QED
    BY <1>1, <1>3 DEF n

\* Every action of a handler leaves the requests in order.
LEMMA ServeKeepsRequests ==
    ASSUME RequestInv, StoreTypes, NEW h \in Handlers, Serve(h)
    PROVE  RequestInv'
  <1> DEFINE r == req[h]
  <1>1. CASE ReadVersion(h)
    <2>1. PICK v \in Version : Becomes(h, [r EXCEPT !.version = v, !.pc = "row"])
      BY <1>1 DEF ReadVersion
    <2>2. r \in Request /\ WellFormed(r)
      BY <1>1, AtFacts DEF ReadVersion, At
    <2> DEFINE n == [r EXCEPT !.version = v, !.pc = "row"]
    <2>3. n \in Request
      BY <2>2 DEF Request
    <2>4. /\ n.op = r.op /\ n.pc = "row" /\ n.version = v /\ n.target = r.target
          /\ n.plan = r.plan /\ n.tier = r.tier
      BY <2>2 DEF Request
    <2> HIDE DEF n, r
    <2>5. WellFormed(n)
      BY <2>2, <2>4 DEF WellFormed, Judged
    <2> QED
      BY <2>1, <2>3, <2>5, BecomesKeepsRequests DEF n
  <1>2. CASE ReadRow(h)
    <2> DEFINE row == rows[r.entry][r.version]
               pc == IF r.op = "promote" /\ ~Judged(r) THEN "probe" ELSE "write"
               n == [r EXCEPT !.copy = row, !.pc = pc]
    <2>1. Becomes(h, n) /\ row # None /\ At(h, "row")
      BY <1>2 DEF ReadRow
    <2>2. r \in Request /\ WellFormed(r) /\ r.entry \in Entries
      BY <2>1, AtFacts DEF At
    <2>3. r.version \in Version /\ r.pc = "row"
      BY <2>1, <2>2 DEF At, WellFormed
    <2>4. row \in Row
      BY <2>1, <2>2, <2>3 DEF StoreTypes
    <2> HIDE DEF row
    <2>5. pc \in {"probe", "write"}
      OBVIOUS
    <2>6. n \in Request
      BY <2>2, <2>4, <2>5 DEF Request
    <2>7. /\ n.op = r.op /\ n.pc = pc /\ n.version = r.version /\ n.target = r.target
          /\ n.plan = r.plan /\ n.tier = r.tier /\ n.copy = row
      BY <2>2 DEF Request
    <2>8. /\ pc = "probe" => r.op = "promote"
          /\ r.op = "promote" /\ pc = "write" => Judged(r)
      OBVIOUS
    <2> HIDE DEF n, pc, r
    <2>9. WellFormed(n)
      BY <2>2, <2>3, <2>4, <2>5, <2>7, <2>8 DEF WellFormed, Judged
    <2> QED
      BY <2>1, <2>6, <2>9, BecomesKeepsRequests
  <1>3. CASE Probe(h)
    <2>1. At(h, "probe")
      BY <1>3 DEF Probe
    <2>2. r \in Request /\ WellFormed(r) /\ r.op = "promote"
      BY <2>1, AtFacts DEF At, WellFormed
    <2> DEFINE plan == HopPlan(r.copy.status, r.target)
    <2>3. PICK tier : \/ MachineEvidence(tier, TRUE) /\ plan # <<>> /\ Becomes(h, NextHop(r, tier, plan))
                      \/ Becomes(h, None)
      BY <1>3 DEF Probe, Finish
    <2>4. plan \in Seq(LifecycleStatus)
      BY PlanType
    <2> HIDE DEF plan, r
    <2>5. CASE Becomes(h, None)
      BY <2>5, BecomesKeepsRequests
    <2>6. CASE MachineEvidence(tier, TRUE) /\ plan # <<>> /\ Becomes(h, NextHop(r, tier, plan))
      <3>1. tier \in {"T0", "T1"}
        BY <2>6 DEF MachineEvidence
      <3> QED
        BY <2>2, <2>4, <2>6, <3>1, NextHopFacts, BecomesKeepsRequests
    <2> QED
      BY <2>3, <2>5, <2>6
  <1>4. CASE HopWrite(h)
    <2>1. At(h, "write") /\ r.op = "promote"
      BY <1>4 DEF HopWrite
    <2>2. r \in Request /\ WellFormed(r) /\ Judged(r) /\ r.plan # <<>>
      BY <2>1, AtFacts DEF At, WellFormed
    <2>3. r.plan \in Seq(LifecycleStatus) /\ r.tier \in {"T0", "T1"}
      BY <2>2 DEF Request, Judged
    <2>4. Tail(r.plan) \in Seq(LifecycleStatus)
      BY <2>2, <2>3
    <2>5. \/ Tail(r.plan) # <<>> /\ Becomes(h, NextHop(r, r.tier, Tail(r.plan)))
          \/ Becomes(h, None)
      BY <1>4 DEF HopWrite, Finish
    <2> HIDE DEF r
    <2> QED
      BY <2>1, <2>2, <2>3, <2>4, <2>5, NextHopFacts, BecomesKeepsRequests
  <1>5. ASSUME Becomes(h, None) PROVE RequestInv'
    BY <1>5, BecomesKeepsRequests
  <1>6. CASE TurnAway(h)
    BY <1>5, <1>6 DEF TurnAway, Finish
  <1>7. CASE PatchWrite(h) \/ DeleteWrite(h) \/ MoveWrite(h) \/ Ratify(h)
    BY <1>5, <1>7 DEF PatchWrite, DeleteWrite, MoveWrite, Ratify, Finish
  <1> QED
    BY <1>1, <1>2, <1>3, <1>4, <1>6, <1>7 DEF Serve

-----------------------------------------------------------------------------
(* The steps.                                                              *)

\* A handler's action leaves the store in order.
LEMMA ServeKeepsStore ==
    ASSUME StoreInv, RequestInv, NEW h \in Handlers, Serve(h)
    PROVE  StoreInv'
  <1> DEFINE r == req[h]
  <1>1. ASSUME stored' = stored PROVE StoreInv'
    BY <1>1 DEF stored, StoreInv, StoreTypes, SnapshotCoverage, AuditRowsHaveEntry, Exists
  <1>2. CASE ReadVersion(h) \/ ReadRow(h) \/ TurnAway(h) \/ Probe(h)
    BY <1>1, <1>2 DEF ReadVersion, ReadRow, TurnAway, Probe, stored
  <1>3. ASSUME At(h, "write")
        PROVE  /\ r \in Request /\ WellFormed(r)
               /\ r.entry \in Entries /\ r.version \in Version /\ r.copy \in Row
    <2>1. r \in Request /\ WellFormed(r) /\ r.entry \in Entries /\ r.pc = "write"
      BY <1>3, AtFacts DEF At
    <2> QED
      BY <2>1 DEF WellFormed
  <1>4. CASE PatchWrite(h)
    <2>1. At(h, "write") /\ r.op = "patch" /\ Overwrite(r.entry, r.version, r.copy, r.target)
      BY <1>4 DEF PatchWrite
    <2>2. r.target \in Contents
      BY <1>3, <2>1 DEF WellFormed
    <2> QED
      BY <1>3, <2>1, <2>2, OverwriteKeepsStore
  <1>5. CASE DeleteWrite(h)
    <2>1. At(h, "write")
      BY <1>5 DEF DeleteWrite
    <2> QED
      BY <1>3, <1>5, <2>1, DeleteKeepsStore
  <1>6. CASE MoveWrite(h)
    <2>1. /\ At(h, "write") /\ r.op = "move"
          /\ Move(r.entry, r.version, r.copy, r.target, "human")
      BY <1>6 DEF MoveWrite
    <2>2. r.target \in LifecycleStatus /\ "human" \in Gate
      BY <1>3, <2>1 DEF WellFormed, Gate
    <2> QED
      BY <1>3, <2>1, <2>2, MoveKeepsStore
  <1>7. CASE HopWrite(h)
    <2>1. /\ At(h, "write") /\ r.op = "promote"
          /\ Move(r.entry, r.version, r.copy, Head(r.plan), r.tier)
      BY <1>7 DEF HopWrite
    <2>2. Judged(r) /\ r.plan # <<>> /\ r.plan \in Seq(LifecycleStatus)
      BY <1>3, <2>1 DEF WellFormed, At, Request
    <2>3. Head(r.plan) \in LifecycleStatus
      BY <2>2
    <2>4. r.tier \in Gate
      BY <1>3, <2>1, <2>2 DEF Request, Judged, Gate
    <2> QED
      BY <1>3, <2>1, <2>3, <2>4, MoveKeepsStore
  <1>8. CASE Ratify(h)
    <2>1. r.entry \in Entries
      BY <1>8, AtFacts DEF Ratify, At
    <2> QED
      BY <1>8, <2>1, RatifyKeepsStore
  <1> QED
    BY <1>2, <1>4, <1>5, <1>6, <1>7, <1>8 DEF Serve

\* A request that arrives is well formed.
LEMMA BeginKeepsRequests ==
    ASSUME RequestInv, NEW h \in Handlers, NEW op \in Ops, NEW e \in Entries,
           NEW target \in Targets(op), Begin(h, op, e, target)
    PROVE  RequestInv'
  <1> DEFINE n == [op |-> op, entry |-> e, target |-> target, pc |-> "version",
                   version |-> 0, copy |-> None, tier |-> "none", plan |-> <<>>]
  <1>1. op \in Operations
    BY EntryGovernanceAssumption
  <1>2. /\ target \in LifecycleStatus \union Contents
        /\ op = "patch" => target \in Contents
        /\ op \in {"move", "promote"} => target \in LifecycleStatus
    BY <1>1 DEF Targets, LifecycleStatus, Operations
  <1>3. n \in Request
    BY <1>1, <1>2 DEF Request
  <1>4. WellFormed(n)
    BY <1>2 DEF WellFormed, Judged
  <1>5. Becomes(h, n)
    BY DEF Begin
  <1> HIDE DEF n
  <1> QED
    BY <1>3, <1>4, <1>5, BecomesKeepsRequests

\* Every step of the specification keeps the invariant.
LEMMA EntryStep ==
    EntryInv /\ [Next]_vars => EntryInv'
  <1> SUFFICES ASSUME EntryInv, [Next]_vars PROVE EntryInv'
    OBVIOUS
  <1>1. CASE Add
    <2>1. PICK e \in Entries, v \in Version, c \in Contents, o \in Origins : AddEntry(e, v, c, o)
      BY <1>1 DEF Add
    <2>2. StoreInv'
      BY <2>1, AddKeepsStore DEF EntryInv
    <2>3. RequestInv' /\ begun' \in Nat
      BY <2>1 DEF EntryInv, RequestInv, RequestsWellFormed, AddEntry
    <2> QED
      BY <2>2, <2>3 DEF EntryInv
  <1>2. CASE Arrive
    <2>1. PICK h \in Handlers, op \in Ops, e \in Entries :
            \E target \in Targets(op) : Begin(h, op, e, target)
      BY <1>2 DEF Arrive
    <2>2. PICK target \in Targets(op) : Begin(h, op, e, target)
      BY <2>1
    <2>3. RequestInv'
      BY <2>2, BeginKeepsRequests DEF EntryInv
    <2>4. StoreInv' /\ begun' \in Nat
      BY <2>2 DEF EntryInv, Begin, stored, StoreInv, StoreTypes, SnapshotCoverage,
         AuditRowsHaveEntry, Exists
    <2> QED
      BY <2>3, <2>4 DEF EntryInv
  <1>3. CASE \E h \in Handlers : Serve(h)
    <2>1. PICK h \in Handlers : Serve(h)
      BY <1>3
    <2>2. StoreInv' /\ RequestInv'
      BY <2>1, ServeKeepsStore, ServeKeepsRequests DEF EntryInv, StoreInv
    <2>3. begun' = begun
      BY <2>1 DEF Serve, ReadVersion, ReadRow, TurnAway, Probe, PatchWrite, DeleteWrite,
         MoveWrite, HopWrite, Ratify
    <2> QED
      BY <2>2, <2>3 DEF EntryInv
  <1>4. CASE UNCHANGED vars
    BY <1>4 DEF vars, EntryInv, StoreInv, StoreTypes, SnapshotCoverage, AuditRowsHaveEntry,
       Exists, RequestInv, RequestsWellFormed
  <1> QED
    BY <1>1, <1>2, <1>3, <1>4 DEF Next

LEMMA EntryInit == Init => EntryInv
  <1> SUFFICES ASSUME Init PROVE EntryInv
    OBVIOUS
  <1>1. StoreInv
    BY DEF Init, StoreInv, StoreTypes, SnapshotCoverage, AuditRowsHaveEntry, Exists
  <1>2. RequestInv /\ begun \in Nat
    BY DEF Init, RequestInv, RequestsWellFormed
  <1> QED
    BY <1>1, <1>2 DEF EntryInv

\* The invariant holds in every state the handlers can reach.
THEOREM EntryInvariant == Spec => []EntryInv
  BY EntryInit, EntryStep, PTL DEF Spec

-----------------------------------------------------------------------------
(* The properties.                                                         *)

\* Rows, histories, snapshots and requests keep their types.
THEOREM TypeCorrect == Spec => []TypeOK
  <1>1. EntryInv => TypeOK
    BY DEF EntryInv, StoreInv, StoreTypes, RequestInv, TypeOK
  <1> QED
    BY <1>1, EntryInvariant, PTL

\* The content of every row can be found among the snapshots.
THEOREM SnapshotsCover == Spec => []SnapshotCoverage
  <1>1. EntryInv => SnapshotCoverage
    BY DEF EntryInv, StoreInv
  <1> QED
    BY <1>1, EntryInvariant, PTL

\* No audit row is left without the version it speaks of, whichever way moves
\* and deletions of the same entry interleave.
THEOREM AuditsHaveEntry == Spec => []AuditRowsHaveEntry
  <1>1. EntryInv => AuditRowsHaveEntry
    BY DEF EntryInv, StoreInv
  <1> QED
    BY <1>1, EntryInvariant, PTL

\* A version is born a draft: only add_entry creates one, because the writes of
\* the handlers touch nothing when the row is gone.
THEOREM VersionsAreBornDrafts == Spec => BornDraft
  <1> DEFINE Born == \A e \in Entries, v \in Version :
               rows[e][v] = None /\ rows'[e][v] # None => rows'[e][v].status = "Draft"
  <1>1. ASSUME EntryInv, [Next]_vars PROVE Born
    <2>1. ASSUME rows' = rows PROVE Born
      BY <2>1
    <2>2. CASE Add
      <3>1. PICK e \in Entries, v \in Version, c \in Contents, o \in Origins : AddEntry(e, v, c, o)
        BY <2>2 DEF Add
      <3> DEFINE row == [status |-> "Draft", content |-> c, llm |-> o = "llm",
                         external |-> o = "external"]
      <3>2. row.status = "Draft"
        OBVIOUS
      <3>3. rows' = [rows EXCEPT ![e][v] = row]
        BY <3>1 DEF AddEntry, SetRow
      <3> HIDE DEF row
      <3> QED
        BY <1>1, <3>2, <3>3 DEF EntryInv, StoreInv, StoreTypes
    <2>3. CASE Arrive
      BY <2>1, <2>3 DEF Arrive, Begin, stored
    <2>4. ASSUME NEW h \in Handlers, Serve(h) PROVE Born
      <3> DEFINE r == req[h]
      <3>1. CASE ReadVersion(h) \/ ReadRow(h) \/ TurnAway(h) \/ Probe(h) \/ Ratify(h)
        BY <2>1, <3>1 DEF ReadVersion, ReadRow, TurnAway, Probe, Ratify
      <3>2. ASSUME r.entry \in Entries, r.version \in Version, NEW row,
                   Exists(r.entry, r.version), SetRow(r.entry, r.version, row)
            PROVE  Born
        BY <1>1, <3>2 DEF Exists, SetRow, EntryInv, StoreInv, StoreTypes
      <3>3. ASSUME At(h, "write") PROVE r.entry \in Entries /\ r.version \in Version
        <4>1. WellFormed(r) /\ r.entry \in Entries /\ r.pc = "write"
          BY <1>1, <3>3, AtFacts DEF At, EntryInv
        <4> QED
          BY <4>1 DEF WellFormed
      <3>4. CASE PatchWrite(h)
        <4>1. At(h, "write")
          BY <3>4 DEF PatchWrite
        <4> QED
          BY <2>1, <3>2, <3>3, <3>4, <4>1 DEF PatchWrite, Overwrite, stored
      <3>5. CASE MoveWrite(h) \/ HopWrite(h)
        <4>1. At(h, "write")
          BY <3>5 DEF MoveWrite, HopWrite
        <4> QED
          BY <2>1, <3>2, <3>3, <3>5, <4>1 DEF MoveWrite, HopWrite, Move, stored
      <3>6. CASE DeleteWrite(h)
        <4> DEFINE d == req[h].entry
        <4>1. rows' = [rows EXCEPT ![d] = [v \in Version |-> None]] /\ d \in Entries
          BY <1>1, <3>6, AtFacts DEF DeleteWrite, At, EntryInv
        <4> HIDE DEF d
        <4> QED
          BY <1>1, <4>1 DEF EntryInv, StoreInv, StoreTypes
      <3> QED
        BY <2>4, <3>1, <3>4, <3>5, <3>6 DEF Serve
    <2>5. CASE UNCHANGED vars
      BY <2>1, <2>5 DEF vars
    <2> QED
      BY <1>1, <2>2, <2>3, <2>4, <2>5 DEF Next
  <1> QED
    BY <1>1, EntryInvariant, PTL DEF BornDraft, Spec
\* Audit is memory: moves append, a ratification marks, and only a deletion of the
\* whole entry erases (entry_state_history, delete_entry).
THEOREM AuditIsMemory == Spec => AuditAppendOnly
  <1> DEFINE Keeps(e) ==
               /\ Len(history'[e]) >= Len(history[e])
               /\ \A i \in DOMAIN history[e] : SameButRatified(history[e][i], history'[e][i])
             Memory == \A e \in Entries :
               \/ /\ Len(history'[e]) >= Len(history[e])
                  /\ \A i \in DOMAIN history[e] : SameButRatified(history[e][i], history'[e][i])
               \/ /\ history'[e] = <<>>
                  /\ \A v \in Version : rows'[e][v] = None
  <1>1. ASSUME EntryInv, [Next]_vars PROVE Memory
    <2>1. ASSUME NEW e \in Entries, history'[e] = history[e] PROVE Keeps(e)
      <3>1. history[e] \in Seq(Audit) /\ Len(history[e]) \in Nat
        BY <1>1 DEF EntryInv, StoreInv, StoreTypes
      <3> QED
        BY <2>1, <3>1 DEF SameButRatified
    <2>2. ASSUME history' = history PROVE Memory
      BY <2>1, <2>2
    <2>3. ASSUME NEW e \in Entries, NEW v \in Version, NEW copy, NEW to, NEW gate,
                 Move(e, v, copy, to, gate)
          PROVE  Memory
      <3>1. CASE ~Exists(e, v)
        BY <2>2, <2>3, <3>1 DEF Move, stored
      <3>2. CASE Exists(e, v)
        <4> DEFINE a == [version |-> v, from |-> copy.status, to |-> to, gate |-> gate,
                         ratified |-> FALSE]
        <4>1. history' = [history EXCEPT ![e] = Append(history[e], a)]
          BY <2>3, <3>2 DEF Move, Record
        <4> HIDE DEF a
        <4>2. history \in [Entries -> Seq(Audit)] /\ history[e] \in Seq(Audit)
          BY <1>1 DEF EntryInv, StoreInv, StoreTypes
        <4>3. history'[e] = Append(history[e], a)
          BY <4>1, <4>2
        <4>4. /\ Len(history'[e]) = Len(history[e]) + 1 /\ Len(history[e]) \in Nat
              /\ \A i \in DOMAIN history[e] : history'[e][i] = history[e][i]
          BY <4>2, <4>3
        <4>5. Keeps(e)
          <5>1. \A b : SameButRatified(b, b)
            BY DEF SameButRatified
          <5>2. Len(history'[e]) >= Len(history[e])
            BY <4>4
          <5> QED
            BY <4>4, <5>1, <5>2
        <4>6. \A d \in Entries \ {e} : history'[d] = history[d]
          BY <4>1, <4>2
        <4> QED
          BY <2>1, <4>5, <4>6
      <3> QED
        BY <3>1, <3>2
    <2>4. ASSUME NEW h \in Handlers, Serve(h) PROVE Memory
      <3> DEFINE r == req[h]
      <3>1. CASE ReadVersion(h) \/ ReadRow(h) \/ TurnAway(h) \/ Probe(h) \/ PatchWrite(h)
        BY <2>2, <3>1 DEF ReadVersion, ReadRow, TurnAway, Probe, PatchWrite, Overwrite, stored
      <3>2. CASE MoveWrite(h) \/ HopWrite(h)
        <4>1. At(h, "write")
          BY <3>2 DEF MoveWrite, HopWrite
        <4>2. WellFormed(r) /\ r.entry \in Entries /\ r.pc = "write"
          BY <1>1, <4>1, AtFacts DEF At, EntryInv
        <4>3. r.version \in Version
          BY <4>2 DEF WellFormed
        <4> QED
          BY <2>3, <3>2, <4>2, <4>3 DEF MoveWrite, HopWrite
      <3>3. CASE DeleteWrite(h)
        <4> DEFINE d == req[h].entry
        <4>1. /\ rows' = [rows EXCEPT ![d] = [v \in Version |-> None]] /\ d \in Entries
              /\ history' = [history EXCEPT ![d] = <<>>]
          BY <1>1, <3>3, AtFacts DEF DeleteWrite, At, EntryInv
        <4> HIDE DEF d
        <4>2. /\ history'[d] = <<>> /\ \A v \in Version : rows'[d][v] = None
              /\ \A e \in Entries \ {d} : history'[e] = history[e]
          BY <1>1, <4>1 DEF EntryInv, StoreInv, StoreTypes
        <4> QED
          BY <2>1, <4>2
      <3>4. CASE Ratify(h)
        <4> DEFINE d == req[h].entry
                   ratified(a) == IF Pending(a) THEN [a EXCEPT !.ratified = TRUE] ELSE a
        <4>1. /\ history' = [history EXCEPT ![d] =
                               [i \in DOMAIN history[d] |-> ratified(history[d][i])]]
              /\ d \in Entries
          BY <1>1, <3>4, AtFacts DEF Ratify, At, EntryInv
        <4>2. \A a \in Audit : SameButRatified(a, ratified(a))
          BY DEF Audit, SameButRatified, Pending
        <4> HIDE DEF d, ratified
        <4>3. history \in [Entries -> Seq(Audit)] /\ history[d] \in Seq(Audit)
          BY <1>1, <4>1 DEF EntryInv, StoreInv, StoreTypes
        <4>4. \A i \in DOMAIN history[d] : history[d][i] \in Audit
          BY <4>3
        <4>5. history'[d] = [i \in DOMAIN history[d] |-> ratified(history[d][i])]
          BY <4>1, <4>3
        <4>6. Len(history'[d]) = Len(history[d]) /\ Len(history[d]) \in Nat
          <5>1. DOMAIN history[d] = 1..Len(history[d]) /\ Len(history[d]) \in Nat
            BY <4>3
          <5>2. DOMAIN history'[d] = 1..Len(history[d])
            BY <4>5, <5>1
          <5>3. \A a \in Audit : ratified(a) \in Audit
            BY DEF ratified, Audit
          <5>4. history'[d] \in Seq(Audit)
            BY <4>3, <4>4, <4>5, <5>3
          <5> QED
            BY <5>1, <5>2, <5>4
        <4>7. Keeps(d)
          BY <4>2, <4>4, <4>5, <4>6
        <4>8. \A e \in Entries \ {d} : history'[e] = history[e]
          BY <4>1, <4>3
        <4> QED
          BY <2>1, <4>7, <4>8
      <3> QED
        BY <2>4, <3>1, <3>2, <3>3, <3>4 DEF Serve
    <2>5. CASE Add \/ Arrive \/ UNCHANGED vars
      BY <2>2, <2>5 DEF Add, AddEntry, Arrive, Begin, stored, vars
    <2> QED
      BY <1>1, <2>4, <2>5 DEF Next
  <1> QED
    BY <1>1, EntryInvariant, PTL DEF AuditAppendOnly, Spec
-----------------------------------------------------------------------------
(* Without patches.  A patch writes the status and the origin of its copy  *)
(* back, which may be those of a version that is gone (see the comments of *)
(* the two properties); everything else keeps them.                        *)

NoPatches == \A h \in Handlers : req[h] # None => req[h].op # "patch"

\* A person who is about to release a version has a copy of one that is not by an LLM.
HumanReleasesHeld ==
    \A h \in Handlers :
       req[h] # None /\ req[h].op = "move" /\ req[h].pc = "write" /\ req[h].copy.llm
         => req[h].target \notin {"Candidate", "Active"}

MovesInv ==
    EntryInv /\ NoPatches /\ HumanReleasesHeld /\ AuditMatchesStatus /\ LlmPromotedOnlyByMachine

\* A move leaves the status it records, and one that releases a version by an LLM was let
\* through by the gate.
LEMMA MoveKeepsRecords ==
    ASSUME MovesInv, NEW e \in Entries, NEW v \in Version, NEW copy \in Row,
           NEW to \in LifecycleStatus, NEW gate \in Gate, Move(e, v, copy, to, gate),
           copy.llm /\ to \in {"Candidate", "Active"} => gate # "human"
    PROVE  AuditMatchesStatus' /\ LlmPromotedOnlyByMachine'
  <1>1. CASE ~Exists(e, v)
    BY <1>1 DEF Move, stored, MovesInv, AuditMatchesStatus, LlmPromotedOnlyByMachine, Exists
  <1>2. CASE Exists(e, v)
    <2> DEFINE row == [rows[e][v] EXCEPT !.status = to, !.llm = copy.llm]
               a == [version |-> v, from |-> copy.status, to |-> to, gate |-> gate,
                     ratified |-> FALSE]
               n == Len(history[e])
    <2>1. rows[e][v] \in Row
      BY <1>2 DEF MovesInv, EntryInv, StoreInv, StoreTypes, Exists
    <2>2. /\ row \in Row /\ row.status = to /\ row.llm = copy.llm
          /\ a.version = v /\ a.to = to /\ a.gate = gate
      BY <2>1 DEF Row
    <2>3. row # None
      BY <2>2, EntryGovernanceAssumption
    <2>4. SetRow(e, v, row) /\ history' = [history EXCEPT ![e] = Append(history[e], a)]
      BY <1>2 DEF Move, Record
    <2> HIDE DEF row, a
    <2>5. /\ rows'[e][v] = row
          /\ \A d \in Entries, w \in Version :
               d # e \/ w # v => rows'[d][w] = rows[d][w]
      BY <2>2, <2>4, SetRowFacts DEF MovesInv, EntryInv, StoreInv
    <2>6. /\ history \in [Entries -> Seq(Audit)] /\ history[e] \in Seq(Audit)
      BY DEF MovesInv, EntryInv, StoreInv, StoreTypes
    <2>7. /\ n \in Nat /\ DOMAIN history[e] = 1..n /\ DOMAIN history'[e] = 1..(n + 1)
          /\ history'[e][n + 1] = a
          /\ \A i \in 1..n : history'[e][i] = history[e][i]
      <3>1. history'[e] = Append(history[e], a)
        BY <2>4, <2>6
      <3> QED
        BY <2>6, <3>1
    <2>8. \A d \in Entries \ {e} : history'[d] = history[d]
      BY <2>4, <2>6
    <2>9. \A d \in Entries : \A i \in DOMAIN history[d] : history[d][i].version \in Version
      BY AuditTypes DEF MovesInv, EntryInv, StoreInv
    <2> HIDE DEF n
    <2>10. ASSUME NEW d \in Entries, NEW i \in DOMAIN history'[d],
                  \A j \in DOMAIN history'[d] :
                     history'[d][j].version = history'[d][i].version => j <= i
           PROVE  /\ rows'[d][history'[d][i].version] # None
                  /\ rows'[d][history'[d][i].version].status = history'[d][i].to
      <3>1. CASE d # e
        <4>1. history'[d] = history[d]
          BY <2>8, <3>1
        <4>2. /\ history[d][i].version \in Version
              /\ rows'[d][history[d][i].version] = rows[d][history[d][i].version]
          BY <2>5, <2>9, <2>10, <3>1, <4>1
        <4> QED
          BY <2>10, <4>1, <4>2 DEF MovesInv, AuditMatchesStatus, Exists
      <3>2. CASE d = e /\ i = n + 1
        BY <2>2, <2>3, <2>5, <2>7, <3>2
      <3>3. CASE d = e /\ i # n + 1
        <4>1. i \in 1..n /\ n + 1 \in 1..(n + 1) /\ ~(n + 1 <= i)
          BY <2>7, <2>10, <3>3
        <4>2. history'[e][i] = history[e][i] /\ history[e][i].version # v
          BY <2>2, <2>7, <2>10, <3>3, <4>1
        <4>3. ASSUME NEW j \in 1..n, history[e][j].version = history[e][i].version
              PROVE  j <= i
          <5>1. j \in 1..(n + 1)
            BY <2>7
          <5>2. j \in DOMAIN history'[d] /\ history'[d][j] = history[e][j]
            BY <2>7, <3>3, <5>1
          <5>3. history'[d][i] = history[e][i]
            BY <3>3, <4>2
          <5> QED
            BY <2>10, <4>3, <5>2, <5>3
        <4>4. Exists(e, history[e][i].version) /\ rows[e][history[e][i].version].status = history[e][i].to
          BY <2>7, <4>1, <4>3 DEF MovesInv, AuditMatchesStatus
        <4>5. rows'[e][history[e][i].version] = rows[e][history[e][i].version]
          BY <2>5, <2>7, <2>9, <4>1, <4>2
        <4> QED
          BY <3>3, <4>2, <4>4, <4>5 DEF Exists
      <3> QED
        BY <3>1, <3>2, <3>3
    <2>11. AuditMatchesStatus'
      BY <2>10 DEF AuditMatchesStatus, Exists
    <2>12. ASSUME NEW d \in Entries, NEW w \in Version, rows'[d][w] # None, rows'[d][w].llm,
                  rows'[d][w].status \in {"Candidate", "Active"}
           PROVE  \E i \in DOMAIN history'[d] :
                    /\ history'[d][i].version = w
                    /\ history'[d][i].to = rows'[d][w].status
                    /\ history'[d][i].gate # "human"
      <3>1. CASE d = e /\ w = v
        <4>1. n + 1 \in DOMAIN history'[e]
          BY <2>7
        <4> QED
          BY <2>2, <2>5, <2>7, <2>12, <3>1, <4>1
      <3>2. CASE d # e \/ w # v
        <4>1. rows'[d][w] = rows[d][w]
          BY <2>5, <3>2
        <4>2. PICK i \in DOMAIN history[d] :
                 /\ history[d][i].version = w
                 /\ history[d][i].to = rows[d][w].status
                 /\ history[d][i].gate # "human"
          BY <2>12, <4>1 DEF MovesInv, LlmPromotedOnlyByMachine, Exists
        <4>3. i \in DOMAIN history'[d] /\ history'[d][i] = history[d][i]
          BY <2>7, <2>8
        <4> QED
          BY <4>1, <4>2, <4>3
      <3> QED
        BY <3>1, <3>2
    <2>13. LlmPromotedOnlyByMachine'
      BY <2>12 DEF LlmPromotedOnlyByMachine, Exists
    <2> QED
      BY <2>11, <2>13
  <1> QED
    BY <1>1, <1>2

\* A handler that takes up a request that is no patch, and no human release of a version by
\* an LLM, keeps the requests so.
LEMMA BecomesKeepsReleases ==
    ASSUME MovesInv, NEW h \in Handlers, NEW r, Becomes(h, r),
           r # None => /\ r.op # "patch"
                       /\ r.op = "move" /\ r.pc = "write" /\ r.copy.llm
                            => r.target \notin {"Candidate", "Active"}
    PROVE  NoPatches' /\ HumanReleasesHeld'
  <1>1. \A g \in Handlers : req'[g] = IF g = h THEN r ELSE req[g]
    BY DEF Becomes, MovesInv, EntryInv, RequestInv
  <1> QED
    BY <1>1 DEF MovesInv, NoPatches, HumanReleasesHeld
\* Every step keeps them, if nobody patches.
LEMMA MovesStep ==
    ASSUME "patch" \notin Ops, MovesInv, [Next]_vars
    PROVE  MovesInv'
  <1>1. EntryInv'
    BY EntryStep DEF MovesInv
  <1>2. StoreTypes /\ AuditRowsHaveEntry /\ RequestInv
    BY DEF MovesInv, EntryInv, StoreInv
  <1>3. ASSUME rows' = rows, history' = history
        PROVE  AuditMatchesStatus' /\ LlmPromotedOnlyByMachine'
    BY <1>3 DEF MovesInv, AuditMatchesStatus, LlmPromotedOnlyByMachine, Exists
  <1>4. ASSUME req' = req PROVE NoPatches' /\ HumanReleasesHeld'
    BY <1>4 DEF MovesInv, NoPatches, HumanReleasesHeld
  <1>5. CASE Add
    <2>1. PICK e \in Entries, v \in Version, c \in Contents, o \in Origins : AddEntry(e, v, c, o)
      BY <1>5 DEF Add
    <2> DEFINE row == [status |-> "Draft", content |-> c, llm |-> o = "llm",
                       external |-> o = "external"]
    <2>2. row.status = "Draft"
      OBVIOUS
    <2>3. /\ rows' = [rows EXCEPT ![e][v] = row] /\ history' = history /\ req' = req
          /\ ~Exists(e, v)
      BY <2>1 DEF AddEntry, SetRow
    <2> HIDE DEF row
    <2>4. /\ rows'[e][v] = row
          /\ \A d \in Entries, w \in Version : d # e \/ w # v => rows'[d][w] = rows[d][w]
      BY <1>2, <2>3 DEF StoreTypes
    <2>5. AuditMatchesStatus'
      <3>1. \A d \in Entries : \A i \in DOMAIN history[d] :
              /\ history[d][i].version \in Version
              /\ rows[d][history[d][i].version] # None
        BY <1>2, AuditTypes DEF AuditRowsHaveEntry, Exists
      <3>2. \A d \in Entries : \A i \in DOMAIN history[d] :
              rows'[d][history[d][i].version] = rows[d][history[d][i].version]
        BY <2>3, <2>4, <3>1 DEF Exists
      <3> QED
        BY <2>3, <3>2 DEF MovesInv, AuditMatchesStatus, Exists
    <2>6. LlmPromotedOnlyByMachine'
      BY <2>2, <2>3, <2>4 DEF MovesInv, LlmPromotedOnlyByMachine, Exists
    <2> QED
      BY <1>1, <1>4, <2>3, <2>5, <2>6 DEF MovesInv
  <1>6. CASE Arrive
    <2>1. PICK h \in Handlers, op \in Ops, e \in Entries :
            \E target \in Targets(op) : Begin(h, op, e, target)
      BY <1>6 DEF Arrive
    <2>2. PICK target \in Targets(op) : Begin(h, op, e, target)
      BY <2>1
    <2> DEFINE n == [op |-> op, entry |-> e, target |-> target, pc |-> "version",
                     version |-> 0, copy |-> None, tier |-> "none", plan |-> <<>>]
    <2>3. Becomes(h, n) /\ rows' = rows /\ history' = history
      BY <2>2 DEF Begin, stored
    <2>4. n.op # "patch" /\ n.pc # "write"
      OBVIOUS
    <2> HIDE DEF n
    <2>5. NoPatches' /\ HumanReleasesHeld'
      BY <2>3, <2>4, BecomesKeepsReleases
    <2> QED
      BY <1>1, <1>3, <2>3, <2>5 DEF MovesInv
  <1>7. ASSUME NEW h \in Handlers, Serve(h) PROVE MovesInv'
    <2> DEFINE r == req[h]
    <2>1. ASSUME req[h] # None
          PROVE  r \in Request /\ WellFormed(r) /\ r.entry \in Entries /\ r.op # "patch"
      BY <1>2, <2>1, AtFacts DEF MovesInv, NoPatches
    <2>2. ASSUME Becomes(h, None) PROVE NoPatches' /\ HumanReleasesHeld'
      BY <2>2, BecomesKeepsReleases
    <2>3. CASE ReadVersion(h)
      <3>1. PICK v \in Version : Becomes(h, [r EXCEPT !.version = v, !.pc = "row"])
        BY <2>3 DEF ReadVersion
      <3>2. req[h] # None /\ rows' = rows /\ history' = history
        BY <2>3 DEF ReadVersion, At
      <3> DEFINE n == [r EXCEPT !.version = v, !.pc = "row"]
      <3>3. n.op = r.op /\ n.pc = "row"
        BY <2>1, <3>2 DEF Request
      <3> HIDE DEF n
      <3>4. NoPatches' /\ HumanReleasesHeld'
        BY <2>1, <3>1, <3>2, <3>3, BecomesKeepsReleases DEF n
      <3> QED
        BY <1>1, <1>3, <3>2, <3>4 DEF MovesInv
    <2>4. CASE ReadRow(h)
      <3> DEFINE row == rows[r.entry][r.version]
                 pc == IF r.op = "promote" /\ ~Judged(r) THEN "probe" ELSE "write"
                 n == [r EXCEPT !.copy = row, !.pc = pc]
      <3>1. /\ Becomes(h, n) /\ Admitted(r, row)
            /\ req[h] # None /\ rows' = rows /\ history' = history
        BY <2>4 DEF ReadRow, At
      <3>2. n.op = r.op /\ n.copy = row /\ n.target = r.target
        BY <2>1, <3>1 DEF Request
      <3>3. r.op = "move" /\ row.llm => r.target \notin {"Candidate", "Active"}
        BY <3>1 DEF Admitted, Judged, MoveAdmitted, LlmBoundary
      <3> HIDE DEF n, row, pc
      <3>4. NoPatches' /\ HumanReleasesHeld'
        BY <2>1, <3>1, <3>2, <3>3, BecomesKeepsReleases
      <3> QED
        BY <1>1, <1>3, <3>1, <3>4 DEF MovesInv
    <2>5. ASSUME NEW tier, NEW plan, req[h] # None, Becomes(h, NextHop(r, tier, plan))
          PROVE  NoPatches' /\ HumanReleasesHeld'
      <3>1. NextHop(r, tier, plan).op = r.op /\ NextHop(r, tier, plan).pc = "version"
        BY <2>1, <2>5 DEF NextHop, Request
      <3> QED
        BY <2>1, <2>5, <3>1, BecomesKeepsReleases
    <2>6. CASE Probe(h)
      <3>1. req[h] # None /\ rows' = rows /\ history' = history
        BY <2>6 DEF Probe, At
      <3>2. NoPatches' /\ HumanReleasesHeld'
        BY <2>2, <2>5, <2>6, <3>1 DEF Probe, Finish
      <3> QED
        BY <1>1, <1>3, <3>1, <3>2 DEF MovesInv
    <2>7. CASE TurnAway(h)
      BY <1>1, <1>3, <2>2, <2>7 DEF TurnAway, Finish, MovesInv
    <2>8. CASE PatchWrite(h)
      BY <2>1, <2>8 DEF PatchWrite, At
    <2>9. CASE DeleteWrite(h)
      <3> DEFINE d == req[h].entry
      <3>1. /\ rows' = [rows EXCEPT ![d] = [v \in Version |-> None]] /\ d \in Entries
            /\ history' = [history EXCEPT ![d] = <<>>] /\ Becomes(h, None)
        BY <2>1, <2>9 DEF DeleteWrite, At, Finish
      <3> HIDE DEF d
      <3>2. /\ DOMAIN history'[d] = {} /\ \A v \in Version : rows'[d][v] = None
            /\ \A e \in Entries \ {d} : history'[e] = history[e] /\ rows'[e] = rows[e]
        BY <1>2, <3>1 DEF StoreTypes
      <3>3. AuditMatchesStatus' /\ LlmPromotedOnlyByMachine'
        BY <3>2 DEF MovesInv, AuditMatchesStatus, LlmPromotedOnlyByMachine, Exists
      <3> QED
        BY <1>1, <2>2, <3>1, <3>3 DEF MovesInv
    <2>10. ASSUME At(h, "write")
           PROVE  r.version \in Version /\ r.copy \in Row /\ r.pc = "write"
      BY <2>1, <2>10 DEF At, WellFormed
    <2>11. CASE MoveWrite(h)
      <3>1. /\ At(h, "write") /\ r.op = "move" /\ Becomes(h, None)
            /\ Move(r.entry, r.version, r.copy, r.target, "human")
        BY <2>11 DEF MoveWrite, Finish
      <3>2. r.target \in LifecycleStatus /\ "human" \in Gate /\ req[h] # None
        BY <2>1, <3>1 DEF WellFormed, Gate, At
      <3>3. r.copy.llm => r.target \notin {"Candidate", "Active"}
        BY <2>10, <3>1, <3>2 DEF MovesInv, HumanReleasesHeld
      <3>4. AuditMatchesStatus' /\ LlmPromotedOnlyByMachine'
        BY <2>1, <2>10, <3>1, <3>2, <3>3, MoveKeepsRecords
      <3> QED
        BY <1>1, <2>2, <3>1, <3>4 DEF MovesInv
    <2>12. CASE HopWrite(h)
      <3>1. /\ At(h, "write") /\ r.op = "promote" /\ req[h] # None
            /\ Move(r.entry, r.version, r.copy, Head(r.plan), r.tier)
        BY <2>12 DEF HopWrite, At
      <3>2. Judged(r) /\ r.plan # <<>> /\ r.plan \in Seq(LifecycleStatus)
        BY <2>1, <2>10, <3>1 DEF WellFormed, Request
      <3>3. Head(r.plan) \in LifecycleStatus
        BY <3>2
      <3>4. r.tier \in Gate /\ r.tier # "human"
        BY <2>1, <3>1, <3>2 DEF Request, Judged, Gate
      <3>5. AuditMatchesStatus' /\ LlmPromotedOnlyByMachine'
        BY <2>1, <2>10, <3>1, <3>3, <3>4, MoveKeepsRecords
      <3>6. Becomes(h, NextHop(r, r.tier, Tail(r.plan))) \/ Becomes(h, None)
        BY <2>12 DEF HopWrite, Finish
      <3> QED
        BY <1>1, <2>2, <2>5, <3>1, <3>5, <3>6 DEF MovesInv
    <2>13. CASE Ratify(h)
      <3> DEFINE d == req[h].entry
                 ratified(a) == IF Pending(a) THEN [a EXCEPT !.ratified = TRUE] ELSE a
      <3>1. /\ history' = [history EXCEPT ![d] =
                             [i \in DOMAIN history[d] |-> ratified(history[d][i])]]
            /\ d \in Entries /\ rows' = rows /\ Becomes(h, None)
        BY <2>1, <2>13 DEF Ratify, At, Finish
      <3>2. \A a \in Audit : /\ ratified(a).version = a.version /\ ratified(a).to = a.to
                             /\ ratified(a).gate = a.gate
        BY DEF Audit
      <3> HIDE DEF d, ratified
      <3>3. \A i \in DOMAIN history[d] : history[d][i] \in Audit
        BY <1>2, <3>1, AuditTypes
      <3>4. \A e \in Entries :
              /\ DOMAIN history'[e] = DOMAIN history[e]
              /\ \A i \in DOMAIN history[e] : /\ history'[e][i].version = history[e][i].version
                                              /\ history'[e][i].to = history[e][i].to
                                              /\ history'[e][i].gate = history[e][i].gate
        BY <1>2, <3>1, <3>2, <3>3 DEF StoreTypes
      <3>5. ASSUME NEW e \in Entries, NEW i \in DOMAIN history'[e],
                   \A j \in DOMAIN history'[e] :
                      history'[e][j].version = history'[e][i].version => j <= i
            PROVE  /\ rows'[e][history'[e][i].version] # None
                   /\ rows'[e][history'[e][i].version].status = history'[e][i].to
        <4>1. /\ i \in DOMAIN history[e]
              /\ \A j \in DOMAIN history[e] :
                   history[e][j].version = history[e][i].version => j <= i
          BY <3>4, <3>5
        <4>2. /\ rows[e][history[e][i].version] # None
              /\ rows[e][history[e][i].version].status = history[e][i].to
          BY <4>1 DEF MovesInv, AuditMatchesStatus, Exists
        <4> QED
          BY <3>1, <3>4, <4>1, <4>2
      <3>6. AuditMatchesStatus'
        BY <3>5 DEF AuditMatchesStatus, Exists
      <3>7. ASSUME NEW e \in Entries, NEW v \in Version, rows'[e][v] # None, rows'[e][v].llm,
                   rows'[e][v].status \in {"Candidate", "Active"}
            PROVE  \E i \in DOMAIN history'[e] :
                     /\ history'[e][i].version = v
                     /\ history'[e][i].to = rows'[e][v].status
                     /\ history'[e][i].gate # "human"
        <4>1. PICK i \in DOMAIN history[e] :
                 /\ history[e][i].version = v
                 /\ history[e][i].to = rows[e][v].status
                 /\ history[e][i].gate # "human"
          BY <3>1, <3>7 DEF MovesInv, LlmPromotedOnlyByMachine, Exists
        <4> QED
          BY <3>1, <3>4, <4>1
      <3>8. LlmPromotedOnlyByMachine'
        BY <3>7 DEF LlmPromotedOnlyByMachine, Exists
      <3> QED
        BY <1>1, <2>2, <3>1, <3>6, <3>8 DEF MovesInv
    <2> QED
      BY <1>7, <2>3, <2>4, <2>6, <2>7, <2>8, <2>9, <2>11, <2>12, <2>13 DEF Serve
  <1>8. CASE UNCHANGED vars
    BY <1>1, <1>3, <1>4, <1>8 DEF vars, MovesInv
  <1> QED
    BY <1>5, <1>6, <1>7, <1>8 DEF Next

LEMMA MovesInit == Init => MovesInv
  <1> SUFFICES ASSUME Init PROVE MovesInv
    OBVIOUS
  <1>1. NoPatches /\ HumanReleasesHeld /\ AuditMatchesStatus /\ LlmPromotedOnlyByMachine
    BY DEF Init, NoPatches, HumanReleasesHeld, AuditMatchesStatus, LlmPromotedOnlyByMachine,
       Exists
  <1> QED
    BY <1>1, EntryInit DEF MovesInv

\* Where nobody patches, the audit tells the status of every version that was ever moved,
\* however moves, promotions and deletions interleave (transition_entry_status).
THEOREM AuditTellsStatus ==
    ASSUME "patch" \notin Ops PROVE Spec => []AuditMatchesStatus
  <1>1. MovesInv => AuditMatchesStatus
    BY DEF MovesInv
  <1>2. MovesInv /\ [Next]_vars => MovesInv'
    BY MovesStep
  <1> QED
    BY <1>1, <1>2, MovesInit, PTL DEF Spec

\* Where nobody patches, what an LLM generated is a Candidate or Active only through the
\* machine gate, and the audit says so (validate_llm_boundary_gated).
THEOREM MachinesReleaseLlmEntries ==
    ASSUME "patch" \notin Ops PROVE Spec => []LlmPromotedOnlyByMachine
  <1>1. MovesInv => LlmPromotedOnlyByMachine
    BY DEF MovesInv
  <1>2. MovesInv /\ [Next]_vars => MovesInv'
    BY MovesStep
  <1> QED
    BY <1>1, <1>2, MovesInit, PTL DEF Spec

-----------------------------------------------------------------------------
(* One request at a time: the implementation of EntryLedger.               *)

Serial == \A g, h \in Handlers : g = h

\* What the only handler has read is still so: the version it is about is there, any later
\* one is a draft, the status is that of its copy, and the copy was admitted.
StillSo(r) ==
    /\ r.pc \in {"row", "probe", "write"} =>
         /\ Exists(r.entry, r.version)
         /\ \A w \in Version : Exists(r.entry, w) /\ w > r.version
                                 => rows[r.entry][w].status = "Draft"
    /\ r.pc \in {"probe", "write"} => r.copy.status = rows[r.entry][r.version].status
    /\ r.pc = "write" => Admitted(r, r.copy)

SerialInv == EntryInv /\ \A h \in Handlers : req[h] # None => StillSo(req[h])

\* A row is written, and the ledger shows it.
LEMMA RowShown ==
    ASSUME StoreTypes, NEW e \in Entries, NEW v \in Version, NEW row \in Row, SetRow(e, v, row)
    PROVE  ShownRows' = [ShownRows EXCEPT ![e][v] = [status |-> row.status, content |-> row.content]]
  <1>1. /\ rows'[e][v] = row /\ row # None
        /\ \A d \in Entries, w \in Version : d # e \/ w # v => rows'[d][w] = rows[d][w]
    BY SetRowFacts, EntryGovernanceAssumption
  <1>2. PICK new : new = [status |-> row.status, content |-> row.content]
    OBVIOUS
  <1> DEFINE F == [w \in Version |-> IF w = v THEN new ELSE ShownRows[e][w]]
  <1>3. ShownRows'[e] = F /\ \A d \in Entries \ {e} : ShownRows'[d] = ShownRows[d]
    BY <1>1, <1>2 DEF ShownRows, Exists
  <1>4. F = [ShownRows[e] EXCEPT ![v] = new]
    BY DEF ShownRows
  <1> HIDE DEF F
  <1> QED
    BY <1>2, <1>3, <1>4 DEF ShownRows

LEMMA RowsShown == ASSUME rows' = rows PROVE ShownRows' = ShownRows
  BY DEF ShownRows, Exists

LEMMA ShownType ==
    ASSUME StoreTypes, NEW e \in Entries, NEW v \in Version
    PROVE  /\ Exists(e, v) <=> ShownRows[e][v] # None
           /\ Exists(e, v) =>
                /\ rows[e][v] \in Row
                /\ ShownRows[e][v] = [status |-> rows[e][v].status, content |-> rows[e][v].content]
                /\ ShownRows[e][v].status = rows[e][v].status
                /\ ShownRows[e][v].content = rows[e][v].content
  <1>1. CASE Exists(e, v)
    <2>1. rows[e][v] \in Row
      BY <1>1 DEF StoreTypes, Exists
    <2>2. ShownRows[e][v] = [status |-> rows[e][v].status, content |-> rows[e][v].content]
      BY <1>1 DEF ShownRows
    <2>3. ShownRows[e][v] \in Shown
      BY <2>1, <2>2 DEF Row, Shown
    <2> QED
      BY <1>1, <2>1, <2>2, <2>3, EntryGovernanceAssumption
  <1>2. CASE ~Exists(e, v)
    BY <1>2 DEF ShownRows
  <1> QED
    BY <1>1, <1>2

\* An audit row joins the history, and the ledger shows its line.
LEMMA LineShown ==
    ASSUME StoreTypes, NEW e \in Entries, NEW v \in Version,
           NEW from \in LifecycleStatus, NEW to \in LifecycleStatus, NEW gate \in Gate,
           Record(e, v, from, to, gate)
    PROVE  ShownLines' = [ShownLines EXCEPT ![e] =
               Append(ShownLines[e], [version |-> v, from |-> from, to |-> to])]
  <1>1. PICK a : a = [version |-> v, from |-> from, to |-> to, gate |-> gate, ratified |-> FALSE]
    OBVIOUS
  <1>2. a.version = v /\ a.from = from /\ a.to = to /\ a \in Audit
    BY <1>1 DEF Audit
  <1>3. PICK H : H = history[e]
    OBVIOUS
  <1>4. H \in Seq(Audit)
    BY <1>3 DEF StoreTypes
  <1>5. /\ history'[e] = Append(H, a)
        /\ \A d \in Entries \ {e} : history'[d] = history[d]
    BY <1>1, <1>3 DEF Record, StoreTypes
  <1> DEFINE line(b) == [version |-> b.version, from |-> b.from, to |-> b.to]
             L == [i \in DOMAIN H |-> line(H[i])]
  <1>6. L \in Seq(Line)
    <2>1. \A i \in DOMAIN H : H[i] \in Audit
      BY <1>4
    <2>2. \A i \in DOMAIN H : line(H[i]) \in Line
      BY <2>1 DEF Audit, Line
    <2>3. DOMAIN H = 1..Len(H) /\ Len(H) \in Nat
      BY <1>4
    <2> QED
      BY <2>2, <2>3
  <1>7. Len(L) = Len(H) /\ \A i \in 1..Len(H) : L[i] = line(H[i])
    BY <1>4
  <1>8. [i \in DOMAIN Append(H, a) |-> line(Append(H, a)[i])] = Append(L, line(a))
    <2>1. /\ DOMAIN Append(H, a) = 1..(Len(H) + 1) /\ Len(H) \in Nat
          /\ \A i \in 1..Len(H) : Append(H, a)[i] = H[i]
          /\ Append(H, a)[Len(H) + 1] = a
      BY <1>2, <1>4
    <2>2. PICK x \in Line : x = line(a)
      BY <1>2 DEF Line
    <2>3. PICK q : q = Append(L, x)
      OBVIOUS
    <2>4. q \in Seq(Line) /\ Len(q) = Len(H) + 1
      BY <1>6, <1>7, <2>3
    <2>5. q[Len(H) + 1] = x /\ \A i \in 1..Len(H) : q[i] = L[i]
      BY <1>6, <1>7, <2>1, <2>3
    <2> HIDE DEF L
    <2>6. \A i \in 1..(Len(H) + 1) : line(Append(H, a)[i]) = q[i]
      BY <1>7, <2>1, <2>2, <2>5
    <2>7. q = [i \in 1..(Len(H) + 1) |-> q[i]]
      BY <2>4
    <2> HIDE DEF line
    <2> QED
      BY <2>1, <2>2, <2>3, <2>6, <2>7
  <1>9. ShownLines[e] = L
    BY <1>3 DEF ShownLines
  <1>10. ShownLines'[e] = Append(L, line(a))
    BY <1>5, <1>8 DEF ShownLines
  <1>11. \A d \in Entries \ {e} : ShownLines'[d] = ShownLines[d]
    BY <1>5 DEF ShownLines
  <1>12. line(a) = [version |-> v, from |-> from, to |-> to]
    BY <1>2
  <1> HIDE DEF line, L
  <1> QED
    BY <1>9, <1>10, <1>11, <1>12 DEF ShownLines

LEMMA LinesShown == ASSUME history' = history PROVE ShownLines' = ShownLines
  BY DEF ShownLines

\* A ratification changes nothing the ledger shows.
LEMMA RatifyShown ==
    ASSUME StoreTypes, NEW h \in Handlers, Ratify(h), req[h].entry \in Entries
    PROVE  ShownRows' = ShownRows /\ ShownLines' = ShownLines
  <1> DEFINE e == req[h].entry
             ratified == [i \in DOMAIN history[e] |->
                IF Pending(history[e][i]) THEN [history[e][i] EXCEPT !.ratified = TRUE] ELSE history[e][i]]
  <1>1. history' = [history EXCEPT ![e] = ratified] /\ rows' = rows
    BY DEF Ratify
  <1>2. \A i \in DOMAIN history[e] : history[e][i] \in Audit
    BY DEF StoreTypes
  <1>3. \A i \in DOMAIN history[e] :
           /\ ratified[i].version = history[e][i].version
           /\ ratified[i].from = history[e][i].from /\ ratified[i].to = history[e][i].to
    BY <1>2 DEF Audit
  <1>4. DOMAIN ratified = DOMAIN history[e]
    OBVIOUS
  <1>5. history'[e] = ratified /\ \A d \in Entries \ {e} : history'[d] = history[d]
    BY <1>1 DEF StoreTypes
  <1> HIDE DEF ratified, e
  <1>6. ShownLines' = ShownLines
    BY <1>3, <1>4, <1>5 DEF ShownLines
  <1> QED
    BY <1>1, <1>6, RowsShown

\* A handler that ends its request, or goes on to look for the version, has read nothing.
LEMMA AfreshKeeps ==
    ASSUME Serial, NEW h \in Handlers, NEW r, RequestInv, Becomes(h, r),
           r = None \/ r.pc = "version"
    PROVE  \A g \in Handlers : req'[g] # None => StillSo(req[g])'
  <1>1. SUFFICES ASSUME NEW g \in Handlers, req'[g] # None PROVE StillSo(req[g])'
    OBVIOUS
  <1>2. g = h
    BY DEF Serial
  <1>3. req'[g] = r
    BY <1>2 DEF Becomes, RequestInv
  <1> QED
    BY <1>1, <1>3 DEF StillSo

LEMMA SerialServe ==
    ASSUME Serial, SerialInv, NEW h \in Handlers, Serve(h)
    PROVE  \A g \in Handlers : req'[g] # None => StillSo(req[g])'
  <1>1. RequestInv /\ StoreTypes
    BY DEF SerialInv, EntryInv, StoreInv
  <1>2. CASE ReadVersion(h)
    <2>1. PICK r : r = req[h]
      OBVIOUS
    <2>2. r # None /\ r \in Request /\ r.pc = "version"
      BY <1>1, <1>2, <2>1, AtFacts DEF ReadVersion, At
    <2>3. PICK v \in Version : IsLatest(r.entry, v)
                              /\ Becomes(h, [r EXCEPT !.version = v, !.pc = "row"])
      BY <1>2, <2>1 DEF ReadVersion
    <2>4. PICK n : n = [r EXCEPT !.version = v, !.pc = "row"]
      OBVIOUS
    <2>5. n.pc = "row" /\ n.version = v /\ n.entry = r.entry
      BY <2>2, <2>4 DEF Request
    <2>6. \A w \in Version : Exists(r.entry, w) => ~(w > v)
      BY <2>3 DEF IsLatest, Version
    <2>7. StillSo(n)
      BY <2>3, <2>5, <2>6 DEF StillSo, IsLatest
    <2>8. rows' = rows /\ \A g \in Handlers : req'[g] = n
      BY <1>1, <1>2, <2>3, <2>4 DEF ReadVersion, Becomes, RequestInv, Serial
    <2> QED
      BY <2>7, <2>8 DEF StillSo, Exists
  <1>3. CASE ReadRow(h)
    <2>1. PICK r, row : r = req[h] /\ row = rows[r.entry][r.version]
      OBVIOUS
    <2>2. /\ r # None /\ r \in Request /\ r.pc = "row" /\ WellFormed(r) /\ StillSo(r)
          /\ Admitted(r, row)
      BY <1>1, <1>3, <2>1, AtFacts DEF ReadRow, At, SerialInv
    <2>3. PICK pc \in {"probe", "write"} :
             Becomes(h, [r EXCEPT !.copy = row, !.pc = pc])
      BY <1>3, <2>1 DEF ReadRow
    <2>4. PICK n : n = [r EXCEPT !.copy = row, !.pc = pc]
      OBVIOUS
    <2>5. /\ n.pc = pc /\ n.version = r.version /\ n.entry = r.entry /\ n.copy = row
          /\ n.op = r.op /\ n.target = r.target /\ n.tier = r.tier /\ n.plan = r.plan
      BY <2>2, <2>4 DEF Request
    <2>6. Admitted(n, row)
      BY <2>2, <2>5 DEF Admitted, Judged
    <2>7. StillSo(n)
      BY <2>1, <2>2, <2>5, <2>6 DEF StillSo
    <2>8. rows' = rows /\ \A g \in Handlers : req'[g] = n
      BY <1>1, <1>3, <2>3, <2>4 DEF ReadRow, Becomes, RequestInv, Serial
    <2> QED
      BY <2>7, <2>8 DEF StillSo, Exists
  <1>4. CASE Becomes(h, None)
    BY <1>1, <1>4, AfreshKeeps
  <1>5. CASE \E tier, plan : Becomes(h, NextHop(req[h], tier, plan)) /\ req[h] # None
    <2>1. PICK n, tier, plan : n = NextHop(req[h], tier, plan) /\ Becomes(h, n) /\ req[h] # None
      BY <1>5
    <2>2. n.pc = "version"
      BY <1>1, <2>1, AtFacts DEF NextHop, Request
    <2> QED
      BY <1>1, <2>1, <2>2, AfreshKeeps
  <1>6. \/ ReadVersion(h) \/ ReadRow(h) \/ Becomes(h, None)
        \/ \E tier, plan : Becomes(h, NextHop(req[h], tier, plan)) /\ req[h] # None
    <2>1. CASE TurnAway(h) \/ PatchWrite(h) \/ DeleteWrite(h) \/ MoveWrite(h) \/ Ratify(h)
      BY <2>1 DEF TurnAway, PatchWrite, DeleteWrite, MoveWrite, Ratify, Finish
    <2>2. CASE Probe(h)
      BY <2>2 DEF Probe, Finish, At
    <2>3. CASE HopWrite(h)
      BY <2>3 DEF HopWrite, Finish, At
    <2> QED
      BY <2>1, <2>2, <2>3 DEF Serve
  <1> QED
    BY <1>2, <1>3, <1>4, <1>5, <1>6

\* Whoever adds a version adds a draft where there was none.
LEMMA SerialAdd ==
    ASSUME SerialInv, Add
    PROVE  \A g \in Handlers : req'[g] # None => StillSo(req[g])'
  <1>1. PICK e \in Entries, v \in Version, row \in Row :
           ~Exists(e, v) /\ row.status = "Draft" /\ SetRow(e, v, row) /\ req' = req
    <2>1. PICK e \in Entries, v \in Version, c \in Contents, o \in Origins : AddEntry(e, v, c, o)
      BY DEF Add
    <2>2. PICK row : row = [status |-> "Draft", content |-> c, llm |-> o = "llm", external |-> o = "external"]
      OBVIOUS
    <2>3. row \in Row /\ row.status = "Draft"
      BY <2>2 DEF Row, LifecycleStatus
    <2> QED
      BY <2>1, <2>2, <2>3 DEF AddEntry
  <1>2. StoreTypes
    BY DEF SerialInv, EntryInv, StoreInv
  <1>3. /\ rows'[e][v] = row /\ row # None
        /\ \A d \in Entries, w \in Version : d # e \/ w # v => rows'[d][w] = rows[d][w]
    BY <1>1, <1>2, SetRowFacts, EntryGovernanceAssumption
  <1>4. SUFFICES ASSUME NEW g \in Handlers, req[g] # None PROVE StillSo(req[g])'
    BY <1>1
  <1>5. PICK r : r = req[g] /\ StillSo(r) /\ WellFormed(r) /\ r.entry \in Entries
    BY <1>4, AtFacts DEF SerialInv, EntryInv
  <1>6. ASSUME r.pc \in {"row", "probe", "write"}
        PROVE  /\ rows'[r.entry][r.version] = rows[r.entry][r.version]
               /\ rows[r.entry][r.version] # None
    <2>1. r.version \in Version /\ Exists(r.entry, r.version)
      BY <1>5, <1>6 DEF WellFormed, StillSo
    <2> QED
      BY <1>1, <1>3, <1>5, <2>1 DEF Exists
  <1>7. ASSUME NEW w \in Version, rows'[r.entry][w] # None, w > r.version,
               r.pc \in {"row", "probe", "write"}
        PROVE  rows'[r.entry][w].status = "Draft"
    BY <1>1, <1>3, <1>5, <1>7 DEF StillSo, Exists
  <1>8. /\ r.pc \in {"row", "probe", "write"} =>
              /\ rows'[r.entry][r.version] # None
              /\ \A w \in Version : rows'[r.entry][w] # None /\ w > r.version
                                     => rows'[r.entry][w].status = "Draft"
        /\ r.pc \in {"probe", "write"} => r.copy.status = rows'[r.entry][r.version].status
        /\ r.pc = "write" => Admitted(r, r.copy)
    BY <1>5, <1>6, <1>7 DEF StillSo
  <1>9. req'[g] = r
    BY <1>1, <1>5
  <1> QED
    BY <1>8, <1>9 DEF StillSo, Exists

LEMMA SerialStep ==
    ASSUME Serial, SerialInv, [Next]_vars PROVE SerialInv'
  <1>1. EntryInv'
    BY EntryStep DEF SerialInv
  <1>2. CASE Add
    BY <1>1, <1>2, SerialAdd DEF SerialInv
  <1>3. CASE Arrive
    <2>1. PICK h \in Handlers, op \in Ops, e \in Entries :
             \E target \in Targets(op) : Begin(h, op, e, target)
      BY <1>3 DEF Arrive
    <2>2. PICK target : Begin(h, op, e, target)
      BY <2>1
    <2>3. PICK n : n = [op |-> op, entry |-> e, target |-> target, pc |-> "version",
                        version |-> 0, copy |-> None, tier |-> "none", plan |-> <<>>]
      OBVIOUS
    <2>4. Becomes(h, n) /\ n.pc = "version"
      BY <2>2, <2>3 DEF Begin
    <2> QED
      BY <1>1, <2>4, AfreshKeeps DEF SerialInv, EntryInv
  <1>4. CASE \E h \in Handlers : Serve(h)
    BY <1>1, <1>4, SerialServe DEF SerialInv
  <1>5. CASE UNCHANGED vars
    BY <1>1, <1>5 DEF SerialInv, StillSo, Exists, vars
  <1> QED
    BY <1>2, <1>3, <1>4, <1>5 DEF Next

\* A move of an admitted copy that is still so is one step of the ledger.
LEMMA AdvanceShown ==
    ASSUME StoreTypes, NEW e \in Entries, NEW v \in Version, NEW copy \in Row,
           NEW to \in LifecycleStatus, NEW gate \in Gate, Move(e, v, copy, to, gate),
           Exists(e, v), copy.status = rows[e][v].status, <<copy.status, to>> \in EntryMoves
    PROVE  Ledger!Advance(e, v, to)
  <1>1. /\ rows[e][v] \in Row /\ ShownRows[e][v] # None
        /\ ShownRows[e][v] = [status |-> rows[e][v].status, content |-> rows[e][v].content]
        /\ ShownRows[e][v].status = copy.status
    BY ShownType
  <1>2. PICK row : row = [rows[e][v] EXCEPT !.status = to, !.llm = copy.llm]
    OBVIOUS
  <1>3. row \in Row /\ row.status = to /\ row.content = rows[e][v].content
    BY <1>1, <1>2 DEF Row
  <1>4. SetRow(e, v, row) /\ Record(e, v, copy.status, to, gate)
    BY <1>2 DEF Move
  <1>5. ShownRows' = [ShownRows EXCEPT ![e][v] = [status |-> row.status, content |-> row.content]]
    BY <1>3, <1>4, RowShown
  <1>6. [status |-> row.status, content |-> row.content] = [ShownRows[e][v] EXCEPT !.status = to]
    BY <1>1, <1>3
  <1>7. ShownRows' = [ShownRows EXCEPT ![e][v].status = to]
    BY <1>5, <1>6 DEF ShownRows
  <1>8. copy.status \in LifecycleStatus
    BY DEF Row
  <1>9. ShownLines' = [ShownLines EXCEPT ![e] =
            Append(@, [version |-> v, from |-> ShownRows[e][v].status, to |-> to])]
    BY <1>1, <1>4, <1>8, LineShown DEF ShownLines
  <1> QED
    BY <1>1, <1>7, <1>9 DEF Ledger!Advance, Ledger!EntryMoves, EntryMoves

LEMMA LedgerServe ==
    ASSUME Serial, SerialInv, NEW h \in Handlers, Serve(h)
    PROVE  [Ledger!Next]_(Ledger!vars)
  <1>1. RequestInv /\ StoreTypes
    BY DEF SerialInv, EntryInv, StoreInv
  <1>2. CASE rows' = rows /\ history' = history
    BY <1>2, RowsShown, LinesShown DEF Ledger!vars
  <1>3. CASE Ratify(h)
    BY <1>1, <1>3, AtFacts, RatifyShown DEF Ratify, At, Ledger!vars
  <1>4. PICK r : r = req[h]
    OBVIOUS
  <1>5. ASSUME r # None, r.pc = "write"
        PROVE  /\ r \in Request /\ WellFormed(r) /\ r.entry \in Entries /\ r.version \in Version
               /\ r.copy \in Row /\ Exists(r.entry, r.version)
               /\ r.copy.status = rows[r.entry][r.version].status
               /\ \A w \in Version : Exists(r.entry, w) /\ w > r.version
                                       => rows[r.entry][w].status = "Draft"
               /\ Admitted(r, r.copy)
    BY <1>1, <1>4, <1>5, AtFacts DEF SerialInv, StillSo, WellFormed
  <1>6. CASE PatchWrite(h)
    <2>1. r # None /\ r.pc = "write" /\ r.op = "patch"
      BY <1>4, <1>6 DEF PatchWrite, At
    <2>2. ~Frozen(r.copy.status) /\ r.target \in Contents
      BY <1>5, <2>1 DEF Admitted, PatchAdmitted, Judged, WellFormed
    <2>3. /\ rows[r.entry][r.version] \in Row /\ ShownRows[r.entry][r.version] # None
          /\ ShownRows[r.entry][r.version] = [status |-> rows[r.entry][r.version].status,
                                               content |-> rows[r.entry][r.version].content]
          /\ ShownRows[r.entry][r.version].status = r.copy.status
      BY <1>1, <1>5, <2>1, ShownType
    <2>4. PICK row : row = [r.copy EXCEPT !.content = r.target,
                                          !.external = rows[r.entry][r.version].external]
      OBVIOUS
    <2>5. row \in Row /\ row.status = r.copy.status /\ row.content = r.target
      BY <1>5, <2>1, <2>2, <2>3, <2>4 DEF Row
    <2>6. SetRow(r.entry, r.version, row) /\ history' = history
      BY <1>4, <1>5, <1>6, <2>1, <2>4 DEF PatchWrite, Overwrite
    <2>7. ShownRows' = [ShownRows EXCEPT ![r.entry][r.version] =
                          [status |-> row.status, content |-> row.content]]
      BY <1>1, <1>5, <2>1, <2>5, <2>6, RowShown
    <2>8. [status |-> row.status, content |-> row.content]
             = [ShownRows[r.entry][r.version] EXCEPT !.content = r.target]
      BY <1>5, <2>1, <2>3, <2>5
    <2>9. ShownRows' = [ShownRows EXCEPT ![r.entry][r.version].content = r.target]
      BY <2>7, <2>8 DEF ShownRows
    <2>10. Ledger!Edit(r.entry, r.version, r.target)
      BY <2>2, <2>3, <2>6, <2>9, LinesShown DEF Ledger!Edit, Ledger!Frozen, Frozen
    <2> QED
      BY <1>5, <2>1, <2>2, <2>10 DEF Ledger!Next, Ledger!Version, Version
  <1>7. CASE DeleteWrite(h)
    <2>1. r # None /\ r.pc = "write" /\ r.op = "delete"
      BY <1>4, <1>7 DEF DeleteWrite, At
    <2>2. r.copy.status = "Draft"
      BY <1>5, <2>1 DEF Admitted, DeleteAdmitted, Judged
    <2>3. ASSUME NEW v \in Version, Ledger!IsLatest(r.entry, v)
          PROVE  ShownRows[r.entry][v].status = "Draft"
      <3>1. Exists(r.entry, v) /\ ShownRows[r.entry][v].status = rows[r.entry][v].status
        BY <1>1, <1>5, <2>1, <2>3, ShownType DEF Ledger!IsLatest
      <3>2. ShownRows[r.entry][r.version] # None
        BY <1>1, <1>5, <2>1, ShownType
      <3>3. r.version <= v /\ r.version \in Int /\ v \in Int
        BY <1>5, <2>1, <2>3, <3>2 DEF Ledger!IsLatest, Ledger!Version, Version
      <3>4. v = r.version \/ v > r.version
        BY <3>3
      <3> QED
        BY <1>5, <2>1, <2>2, <3>1, <3>4
    <2>4. \E v \in Version : ShownRows[r.entry][v] # None
      BY <1>1, <1>5, <2>1, ShownType
    <2>5. ShownRows' = [ShownRows EXCEPT ![r.entry] = [v \in Version |-> None]]
      <3>1. rows' = [rows EXCEPT ![r.entry] = [v \in Version |-> None]]
        BY <1>4, <1>7 DEF DeleteWrite
      <3>2. \A v \in Version : rows'[r.entry][v] = None
        BY <1>1, <1>5, <2>1, <3>1 DEF StoreTypes
      <3>3. \A d \in Entries \ {r.entry} : rows'[d] = rows[d]
        BY <1>1, <3>1 DEF StoreTypes
      <3>4. ShownRows'[r.entry] = [v \in Version |-> None]
        BY <1>5, <2>1, <3>2 DEF ShownRows, Exists
      <3>5. \A d \in Entries \ {r.entry} : ShownRows'[d] = ShownRows[d]
        BY <3>3 DEF ShownRows, Exists
      <3> QED
        BY <3>4, <3>5 DEF ShownRows
    <2>6. ShownLines' = [ShownLines EXCEPT ![r.entry] = <<>>]
      <3>1. history' = [history EXCEPT ![r.entry] = <<>>]
        BY <1>4, <1>7 DEF DeleteWrite
      <3>2. history'[r.entry] = <<>> /\ \A d \in Entries \ {r.entry} : history'[d] = history[d]
        BY <1>1, <1>5, <2>1, <3>1 DEF StoreTypes
      <3>3. ShownLines'[r.entry] = <<>>
        BY <1>5, <2>1, <3>2 DEF ShownLines
      <3>4. \A d \in Entries \ {r.entry} : ShownLines'[d] = ShownLines[d]
        BY <3>2 DEF ShownLines
      <3> QED
        BY <3>3, <3>4 DEF ShownLines
    <2>7. Ledger!Discard(r.entry)
      BY <2>3, <2>4, <2>5, <2>6 DEF Ledger!Discard, Ledger!Version, Version
    <2> QED
      BY <1>5, <2>1, <2>7 DEF Ledger!Next
  <1>8. CASE MoveWrite(h)
    <2>1. /\ r # None /\ r.pc = "write" /\ r.op = "move"
          /\ Move(r.entry, r.version, r.copy, r.target, "human")
      BY <1>4, <1>8 DEF MoveWrite, At
    <2>2. r.target \in LifecycleStatus /\ <<r.copy.status, r.target>> \in EntryMoves
      BY <1>5, <2>1 DEF Admitted, MoveAdmitted, Judged, WellFormed
    <2>3. Ledger!Advance(r.entry, r.version, r.target)
      BY <1>1, <1>5, <2>1, <2>2, AdvanceShown DEF Gate
    <2> QED
      BY <1>5, <2>1, <2>2, <2>3
      DEF Ledger!Next, Ledger!Version, Version, Ledger!LifecycleStatus, LifecycleStatus
  <1>9. CASE HopWrite(h)
    <2>1. /\ r # None /\ r.pc = "write" /\ r.op = "promote"
          /\ Move(r.entry, r.version, r.copy, Head(r.plan), r.tier)
      BY <1>4, <1>9 DEF HopWrite, At
    <2>2. Judged(r) /\ r.plan # <<>> /\ r.plan \in Seq(LifecycleStatus) /\ r.tier \in Gate
      BY <1>5, <2>1 DEF WellFormed, Judged, Request, Gate
    <2>3. Head(r.plan) \in LifecycleStatus
      BY <2>2
    <2>4. <<r.copy.status, Head(r.plan)>> \in EntryMoves
      BY <1>5, <2>1, <2>2 DEF Admitted, MoveAdmitted
    <2>5. Ledger!Advance(r.entry, r.version, Head(r.plan))
      BY <1>1, <1>5, <2>1, <2>2, <2>3, <2>4, AdvanceShown
    <2> QED
      BY <1>5, <2>1, <2>3, <2>5
      DEF Ledger!Next, Ledger!Version, Version, Ledger!LifecycleStatus, LifecycleStatus
  <1>10. CASE ReadVersion(h) \/ ReadRow(h) \/ TurnAway(h) \/ Probe(h)
    BY <1>2, <1>10 DEF ReadVersion, ReadRow, TurnAway, Probe
  <1> QED
    BY <1>3, <1>6, <1>7, <1>8, <1>9, <1>10 DEF Serve

LEMMA LedgerStep ==
    ASSUME Serial, SerialInv, [Next]_vars PROVE [Ledger!Next]_(Ledger!vars)
  <1>1. CASE Add
    <2>1. PICK e \in Entries, v \in Version, c \in Contents, o \in Origins : AddEntry(e, v, c, o)
      BY <1>1 DEF Add
    <2>2. PICK row : row = [status |-> "Draft", content |-> c, llm |-> o = "llm", external |-> o = "external"]
      OBVIOUS
    <2>3. row \in Row /\ row.status = "Draft" /\ row.content = c
      BY <2>2 DEF Row, LifecycleStatus
    <2>4. SetRow(e, v, row) /\ ~Exists(e, v) /\ history' = history
      BY <2>1, <2>2 DEF AddEntry
    <2>5. StoreTypes
      BY DEF SerialInv, EntryInv, StoreInv
    <2>6. ShownRows[e][v] = None
      BY <2>4, <2>5, ShownType
    <2>7. ShownRows' = [ShownRows EXCEPT ![e][v] = [status |-> "Draft", content |-> c]]
      BY <2>3, <2>4, <2>5, RowShown
    <2>8. Ledger!Create(e, v, c)
      BY <2>4, <2>6, <2>7, LinesShown DEF Ledger!Create
    <2> QED
      BY <2>8 DEF Ledger!Next, Ledger!Version, Version
  <1>2. CASE Arrive \/ UNCHANGED vars
    BY <1>2, RowsShown, LinesShown DEF Arrive, Begin, stored, vars, Ledger!vars
  <1>3. CASE \E h \in Handlers : Serve(h)
    BY <1>3, LedgerServe
  <1> QED
    BY <1>1, <1>2, <1>3 DEF Next

\* Served one after the other, requests act on the store as on one that is atomic: versions
\* are drafted, edited until they freeze, moved along the table with a line of audit each,
\* and discarded while the latest is a draft.
THEOREM OneHandlerKeepsLedger == ASSUME Serial PROVE Spec => SerialLedger
  <1>1. Init => SerialInv
    BY EntryInit DEF Init, SerialInv
  <1>2. SerialInv /\ [Next]_vars => SerialInv'
    BY SerialStep
  <1>3. Init => Ledger!Init
    BY DEF Init, Ledger!Init, Ledger!Version, Version, ShownRows, ShownLines, Exists
  <1>4. SerialInv /\ [Next]_vars => [Ledger!Next]_(Ledger!vars)
    BY LedgerStep
  <1> QED
    BY <1>1, <1>2, <1>3, <1>4, PTL DEF Spec, SerialLedger, Ledger!Spec
=============================================================================
