------------------------- MODULE EntryGovernance -------------------------
(***************************************************************************)
(* The entries of one dataset under concurrent API handlers.               *)
(*                                                                         *)
(* A handler runs on its own thread and shares with the others one SQLite  *)
(* connection behind a mutex (RuleStore.conn).  Every method of the store  *)
(* takes that mutex once per statement or transaction, so the actions      *)
(* below are the critical sections: a handler asks for the latest version  *)
(* of an entry, reads the row of that version, validates the copy it got   *)
(* with no lock held, and writes the copy back.  Whatever other handlers   *)
(* do between two of these steps is an interleaving of this module.        *)
(*                                                                         *)
(* The rule tables and the knowledge tables are parallel and the methods   *)
(* on them are twins; Kind says which ones an instance is about.           *)
(*                                                                         *)
(* Bounds: MaxVersion on version numbers, MaxRequests on requests begun.   *)
(***************************************************************************)
EXTENDS GovernanceRules, FiniteSets

CONSTANTS
    Entries,      \* entry ids of the dataset
    Contents,     \* rule bodies or payloads, one per content hash
    Handlers,     \* the tasks serving requests
    Kind,         \* "rule" or "knowledge"
    Origins,      \* who adds entries: a subset of EntryOrigins
    Ops,          \* what the handlers serve: a subset of Operations
    MaxVersion,
    MaxRequests,
    None          \* no row; no request

EntryOrigins == {"human", "llm", "external"}

Operations == {"patch", "delete", "move", "promote", "ratify"}

Version == 1..MaxVersion

\* llm is the flag in the governance column; external stands for a
\* trust_level of the form external:*.
Row == [ status : LifecycleStatus, content : Contents,
         llm : BOOLEAN, external : BOOLEAN ]

\* One line of entry_state_history or knowledge_state_history.  gate is the
\* tier of a machine-gated move, or "human".
Gate == {"human", "T0", "T1"}
Audit == [ version : Version, from : LifecycleStatus, to : LifecycleStatus,
           gate : Gate, ratified : BOOLEAN ]

\* target is the status asked for, or the content a patch brings.
Request == [ op : Operations, entry : Entries,
             target : LifecycleStatus \union Contents,
             pc : {"version", "row", "probe", "write"},
             version : Version \union {0}, copy : Row \union {None},
             tier : {"none", "T0", "T1"}, plan : Seq(LifecycleStatus) ]

\* What the ledger of EntryLedger shows of a row and of an audit row.
Shown == [status : LifecycleStatus, content : Contents]
Line == [version : Version, from : LifecycleStatus, to : LifecycleStatus]

ASSUME EntryGovernanceAssumption ==
    /\ Kind \in {"rule", "knowledge"}
    /\ Origins \subseteq EntryOrigins
    /\ Ops \subseteq Operations
    /\ MaxVersion \in Nat
    /\ MaxRequests \in Nat
    /\ None \notin Row
    /\ None \notin Request
    /\ None \notin Shown

VARIABLES
    rows,       \* rows[e][v], the row of version v of entry e, or None
    history,    \* history[e], the audit rows of e in the order inserted
    snapshots,  \* the contents in entry_snapshots or knowledge_snapshots
    req,        \* req[h], the request h serves, or None
    begun       \* how many requests were begun

vars == <<rows, history, snapshots, req, begun>>

stored == <<rows, history, snapshots>>

-----------------------------------------------------------------------------
(* Reading.                                                                *)

Exists(e, v) == rows[e][v] # None

Present(e) == \E v \in Version : Exists(e, v)

IsLatest(e, v) == Exists(e, v) /\ \A w \in Version : Exists(e, w) => w <= v

\* Entries with a row, and those with an Active row of this content.
EntryCount == Cardinality({e \in Entries : Present(e)})

ActiveTwins(e, content) ==
    Cardinality({d \in Entries \ {e} : \E v \in Version :
        /\ Exists(d, v)
        /\ rows[d][v].status = "Active"
        /\ rows[d][v].content = content})

-----------------------------------------------------------------------------
(* Writing.                                                                *)

SetRow(e, v, row) == rows' = [rows EXCEPT ![e][v] = row]

Record(e, v, from, to, gate) ==
    history' = [history EXCEPT ![e] = Append(@,
        [version |-> v, from |-> from, to |-> to, gate |-> gate, ratified |-> FALSE])]

\* Slip: the history table loses its foreign key.
MoveWithoutForeignKey(e, v, copy, to, gate) ==
    /\ IF Exists(e, v)
       THEN SetRow(e, v, [rows[e][v] EXCEPT !.status = to, !.llm = copy.llm])
       ELSE UNCHANGED rows
    /\ Record(e, v, copy.status, to, gate)
    /\ UNCHANGED snapshots

\* Slip: machine-gated moves leave no audit row.
MoveWithoutMachineAudit(e, v, copy, to, gate) ==
    IF Exists(e, v)
    THEN /\ SetRow(e, v, [rows[e][v] EXCEPT !.status = to, !.llm = copy.llm])
         /\ IF gate = "human" THEN Record(e, v, copy.status, to, gate)
                              ELSE UNCHANGED history
         /\ UNCHANGED snapshots
    ELSE UNCHANGED stored

\* UPDATE of status and governance from the handler's copy, then INSERT of
\* the audit row, in one transaction.  The foreign key of the history table
\* makes the INSERT fail, and the transaction roll back, when the version is
\* gone.
Move(e, v, copy, to, gate) ==
    IF Exists(e, v)
    THEN /\ SetRow(e, v, [rows[e][v] EXCEPT !.status = to, !.llm = copy.llm])
         /\ Record(e, v, copy.status, to, gate)
         /\ UNCHANGED snapshots
    ELSE UNCHANGED stored

\* Slip: the snapshot is not written when the row is updated.
OverwriteWithoutSnapshot(e, v, copy, content) ==
    /\ IF Exists(e, v) THEN SetRow(e, v, [copy EXCEPT !.content = content])
                       ELSE UNCHANGED rows
    /\ UNCHANGED <<history, snapshots>>

\* Slip: INSERT OR REPLACE in place of UPDATE.
OverwriteOrInsert(e, v, copy, content) ==
    /\ SetRow(e, v, [copy EXCEPT !.content = content])
    /\ snapshots' = snapshots \union {content}
    /\ UNCHANGED history

\* The INSERT of the snapshot and the UPDATE of a patch: status, governance
\* and content come from the handler's copy, trust_level stays as it is.  An
\* UPDATE that hits no row rolls the snapshot back.
Overwrite(e, v, copy, content) ==
    IF Exists(e, v)
    THEN /\ SetRow(e, v, [copy EXCEPT !.content = content,
                                     !.external = rows[e][v].external])
         /\ snapshots' = snapshots \union {content}
         /\ UNCHANGED history
    ELSE UNCHANGED stored

-----------------------------------------------------------------------------
(* Requests.                                                               *)

Targets(op) ==
    CASE op = "patch"   -> Contents
      [] op = "move"    -> {"Candidate", "Active", "Rejected"}
      [] op = "promote" -> {"Candidate", "Active"}
      [] OTHER          -> {"Draft"}

Becomes(h, r) == req' = [req EXCEPT ![h] = r]

Finish(h) == Becomes(h, None)

At(h, pc) == req[h] # None /\ req[h].pc = pc

\* A single transaction of add_rule_entry_conn or add_knowledge_entry_conn.
\* Every API path adds drafts, in any version whose row is free.
AddEntry(e, v, content, origin) ==
    /\ ~Exists(e, v)
    /\ origin \in {"llm", "external"} => Kind = "knowledge"
    /\ SetRow(e, v, [status |-> "Draft", content |-> content,
                     llm |-> origin = "llm", external |-> origin = "external"])
    /\ snapshots' = snapshots \union {content}
    /\ UNCHANGED <<history, req, begun>>

Begin(h, op, e, target) ==
    /\ req[h] = None
    /\ begun < MaxRequests
    /\ begun' = begun + 1
    /\ Becomes(h, [op |-> op, entry |-> e, target |-> target, pc |-> "version",
                   version |-> 0, copy |-> None, tier |-> "none", plan |-> <<>>])
    /\ UNCHANGED stored

\* SELECT MAX(version): the first half of get_latest_entry.
ReadVersion(h) ==
    /\ At(h, "version")
    /\ req[h].op # "ratify"
    /\ \E v \in Version :
         /\ IsLatest(req[h].entry, v)
         /\ Becomes(h, [req[h] EXCEPT !.version = v, !.pc = "row"])
    /\ UNCHANGED <<rows, history, snapshots, begun>>

\* Slip: no check that the row is not frozen.
PatchAdmittedFrozen(row) == Kind = "rule" => LlmBoundary(row.llm, row.status, FALSE)

\* What the row read must satisfy for the request to go on.
PatchAdmitted(row) ==
    /\ ~Frozen(row.status)
    /\ Kind = "rule" => LlmBoundary(row.llm, row.status, FALSE)

\* Slip: the LLM boundary is not asked.
MoveAdmittedWithoutBoundary(row, to, evidence) == <<row.status, to>> \in EntryMoves

DeleteAdmitted(row) == row.status = "Draft"

MoveAdmitted(row, to, evidence) ==
    /\ LlmBoundary(row.llm, to, evidence)
    /\ <<row.status, to>> \in EntryMoves

LocateAdmitted(row) == ~row.external

\* A promotion reads the entry once to judge it and once more for each hop.
Judged(r) == r.op = "promote" /\ r.tier # "none"

Admitted(r, row) ==
    \/ r.op = "patch" /\ PatchAdmitted(row)
    \/ r.op = "delete" /\ DeleteAdmitted(row)
    \/ r.op = "move" /\ MoveAdmitted(row, r.target, FALSE)
    \/ r.op = "promote" /\ ~Judged(r) /\ LocateAdmitted(row)
    \/ Judged(r) /\ MoveAdmitted(row, Head(r.plan), MachineEvidence(r.tier, TRUE))

\* SELECT of the row: the second half of get_latest_entry, and the checks
\* made on the copy before the next lock is taken.
ReadRow(h) ==
    LET r   == req[h]
        row == rows[r.entry][r.version]
    IN  /\ At(h, "row")
        /\ row # None
        /\ Admitted(r, row)
        /\ Becomes(h, [r EXCEPT !.copy = row,
             !.pc = IF r.op = "promote" /\ ~Judged(r) THEN "probe" ELSE "write"])
        /\ UNCHANGED <<rows, history, snapshots, begun>>

\* Early returns: not found, frozen, not deletable, illegal transition, the
\* LLM boundary, an external source; or a patch whose content does not pass
\* the symbol, schema or credential checks.
TurnAway(h) ==
    LET r == req[h] IN
    /\ \/ At(h, "version") /\ ~Present(r.entry)
       \/ /\ At(h, "row")
          /\ Exists(r.entry, r.version) => ~Admitted(r, rows[r.entry][r.version])
       \/ At(h, "write") /\ r.op = "patch"
    /\ Finish(h)
    /\ UNCHANGED <<rows, history, snapshots, begun>>

-----------------------------------------------------------------------------
(* The machine gate.                                                       *)

\* What run_machine_gate collects: gate_probe_rule or gate_probe_knowledge
\* under one lock, the verdict of the validators on the copy (M1) and the
\* tenant's LLM failures (M5), both left open here.
Facts(r, schemaOk, llmFailed) ==
    LET prev == IF r.version > 1 THEN rows[r.entry][r.version - 1] ELSE None IN
    [ schemaOk     |-> schemaOk,
      version      |-> r.version,
      prevRow      |-> prev # None,
      prevSnapshot |-> prev # None /\ prev.content \in snapshots,
      sameHash     |-> ActiveTwins(r.entry, r.copy.content),
      entryCount   |-> EntryCount,
      bindings     |-> 0,
      llmTotal     |-> LlmMinSamples,
      llmFailed    |-> llmFailed ]

\* The request goes on to the next hop of its plan; the row it read last is
\* forgotten.
NextHop(r, tier, plan) ==
    [r EXCEPT !.tier = tier, !.plan = plan, !.pc = "version", !.version = 0, !.copy = None]

Probe(h) ==
    LET r == req[h] IN
    /\ At(h, "probe")
    /\ \E schemaOk \in BOOLEAN, llmFailed \in {0, LlmMinSamples} :
         LET tier == GateTier(Facts(r, schemaOk, llmFailed))
             plan == HopPlan(r.copy.status, r.target)
         IN  IF MachineEvidence(tier, TRUE) /\ plan # <<>>
             THEN Becomes(h, NextHop(r, tier, plan))
             ELSE Finish(h)
    /\ UNCHANGED <<rows, history, snapshots, begun>>

-----------------------------------------------------------------------------
(* The write transactions.                                                 *)

PatchWrite(h) ==
    LET r == req[h] IN
    /\ At(h, "write")
    /\ r.op = "patch"
    /\ Overwrite(r.entry, r.version, r.copy, r.target)
    /\ Finish(h)
    /\ UNCHANGED begun

\* Slip: the rows are deleted by version, the history by entry.
DeleteWriteByVersion(h) ==
    LET r == req[h] IN
    /\ At(h, "write")
    /\ r.op = "delete"
    /\ SetRow(r.entry, r.version, None)
    /\ history' = [history EXCEPT ![r.entry] = <<>>]
    /\ Finish(h)
    /\ UNCHANGED <<snapshots, begun>>

\* Both DELETEs name the entry and no version.
DeleteWrite(h) ==
    LET r == req[h] IN
    /\ At(h, "write")
    /\ r.op = "delete"
    /\ rows' = [rows EXCEPT ![r.entry] = [v \in Version |-> None]]
    /\ history' = [history EXCEPT ![r.entry] = <<>>]
    /\ Finish(h)
    /\ UNCHANGED <<snapshots, begun>>

MoveWrite(h) ==
    LET r == req[h] IN
    /\ At(h, "write")
    /\ r.op = "move"
    /\ Move(r.entry, r.version, r.copy, r.target, "human")
    /\ Finish(h)
    /\ UNCHANGED begun

\* One hop of a promotion; a failed hop ends the request with the hops made
\* so far in place.
HopWrite(h) ==
    LET r == req[h] IN
    /\ At(h, "write")
    /\ r.op = "promote"
    /\ Move(r.entry, r.version, r.copy, Head(r.plan), r.tier)
    /\ IF Exists(r.entry, r.version) /\ Tail(r.plan) # <<>>
       THEN Becomes(h, NextHop(r, r.tier, Tail(r.plan)))
       ELSE Finish(h)
    /\ UNCHANGED begun

\* Review after the fact: every unratified T1 activation of the entry.
Pending(a) == a.to = "Active" /\ a.gate = "T1" /\ ~a.ratified

Ratify(h) ==
    LET r == req[h] IN
    /\ At(h, "version")
    /\ r.op = "ratify"
    /\ history' = [history EXCEPT ![r.entry] = [i \in DOMAIN @ |->
         IF Pending(@[i]) THEN [@[i] EXCEPT !.ratified = TRUE] ELSE @[i]]]
    /\ Finish(h)
    /\ UNCHANGED <<rows, snapshots, begun>>

-----------------------------------------------------------------------------
Init ==
    /\ rows = [e \in Entries |-> [v \in Version |-> None]]
    /\ history = [e \in Entries |-> <<>>]
    /\ snapshots = {}
    /\ req = [h \in Handlers |-> None]
    /\ begun = 0

Add == \E e \in Entries, v \in Version, c \in Contents, o \in Origins : AddEntry(e, v, c, o)

Arrive ==
    \E h \in Handlers, op \in Ops, e \in Entries :
        \E target \in Targets(op) : Begin(h, op, e, target)

Serve(h) ==
    \/ ReadVersion(h)
    \/ ReadRow(h)
    \/ TurnAway(h)
    \/ Probe(h)
    \/ PatchWrite(h)
    \/ DeleteWrite(h)
    \/ MoveWrite(h)
    \/ HopWrite(h)
    \/ Ratify(h)

Next == Add \/ Arrive \/ \E h \in Handlers : Serve(h)

Spec == Init /\ [][Next]_vars

-----------------------------------------------------------------------------
(* What an atomic store would show.                                        *)

ShownRows ==
    [e \in Entries |-> [v \in Version |->
        IF Exists(e, v) THEN [status |-> rows[e][v].status, content |-> rows[e][v].content]
                        ELSE None]]

ShownLines ==
    [e \in Entries |-> [i \in DOMAIN history[e] |->
        [version |-> history[e][i].version,
         from |-> history[e][i].from, to |-> history[e][i].to]]]

Ledger == INSTANCE EntryLedger WITH ledger <- ShownRows, trail <- ShownLines

-----------------------------------------------------------------------------
(* Properties.                                                             *)

\* With a single handler every step of the store is a step of the ledger or
\* changes nothing in it: the read and the write of a request act as one.
SerialLedger == Ledger!Spec

TypeOK ==
    /\ rows \in [Entries -> [Version -> Row \union {None}]]
    /\ history \in [Entries -> Seq(Audit)]
    /\ snapshots \in SUBSET Contents
    /\ req \in [Handlers -> Request \union {None}]
    /\ begun \in Nat

\* What a request has in hand at each point: the version and the copy it
\* read, a target fit for its operation, a tier and a hop left once judged.
WellFormed(r) ==
    /\ r.pc \in {"row", "probe", "write"} => r.version \in Version
    /\ r.pc \in {"probe", "write"} => r.copy \in Row
    /\ r.pc = "probe" => r.op = "promote"
    /\ r.op = "patch" => r.target \in Contents
    /\ r.op \in {"move", "promote"} => r.target \in LifecycleStatus
    /\ Judged(r) => r.plan # <<>>
    /\ r.op = "promote" /\ r.pc = "write" => Judged(r)

RequestsWellFormed == \A h \in Handlers : req[h] # None => WellFormed(req[h])

\* Every content a row holds can be found among the content-addressed
\* snapshots, whichever handler wrote it last (the snapshot INSERT and the row
\* write of add_entry and update_draft_entry share a transaction).
SnapshotCoverage ==
    \A e \in Entries, v \in Version : Exists(e, v) => rows[e][v].content \in snapshots

\* No audit row outlives, or precedes, the version it speaks of: a move that
\* loses a race with a deletion leaves nothing behind (transition_entry_status
\* against delete_entry).
AuditRowsHaveEntry ==
    \A e \in Entries : \A i \in DOMAIN history[e] : Exists(e, history[e][i].version)

\* The last audit row of a version names the status the version has, however
\* moves, promotions and deletions interleave.  True as long as nobody patches:
\* a patch writes the status of its copy back.
AuditMatchesStatus ==
    \A e \in Entries : \A i \in DOMAIN history[e] :
        LET v == history[e][i].version IN
        (\A j \in DOMAIN history[e] : history[e][j].version = v => j <= i)
            => Exists(e, v) /\ rows[e][v].status = history[e][i].to

\* An LLM-generated version in Candidate or Active got there by a
\* machine-gated move that is on record, whatever human moves, deletions and
\* new drafts run beside it (validate_llm_boundary_gated).  Patches are left
\* out here too: one that read a Candidate and outlives its deletion writes
\* Candidate over the new draft, and no move is on record.
LlmPromotedOnlyByMachine ==
    \A e \in Entries, v \in Version :
        Exists(e, v) /\ rows[e][v].llm /\ rows[e][v].status \in {"Candidate", "Active"}
            => \E i \in DOMAIN history[e] :
                 /\ history[e][i].version = v
                 /\ history[e][i].to = rows[e][v].status
                 /\ history[e][i].gate # "human"

\* The same move, but for the ratification of a T1 activation.
SameButRatified(a, b) ==
    /\ [a EXCEPT !.ratified = TRUE] = [b EXCEPT !.ratified = TRUE]
    /\ a.ratified => b.ratified
    /\ a # b => a.to = "Active" /\ a.gate = "T1"

\* Audit is memory: a step may append to the history of an entry or ratify
\* rows of it, and erases it only with every version of the entry
\* (entry_state_history, delete_entry).
AuditAppendOnly ==
    [][\A e \in Entries :
          \/ /\ Len(history'[e]) >= Len(history[e])
             /\ \A i \in DOMAIN history[e] : SameButRatified(history[e][i], history'[e][i])
          \/ /\ history'[e] = <<>>
             /\ \A v \in Version : rows'[e][v] = None]_vars

\* A version comes into being as a Draft: no late write of a handler brings a
\* deleted version back (n == 0 in update_draft_entry).
BornDraft ==
    [][\A e \in Entries, v \in Version :
          rows[e][v] = None /\ rows'[e][v] # None => rows'[e][v].status = "Draft"]_vars

-----------------------------------------------------------------------------
(* What the documentation promises and concurrent handlers do not keep:    *)
(* none of these is in a run.                                              *)

\* "An entry that went Active or Published is not modified in place" (model/
\* entry.rs:6): the freeze is checked on the copy, not in the transaction.
FrozenContent ==
    [][\A e \in Entries, v \in Version :
          rows[e][v] # None /\ rows'[e][v] # None /\ Frozen(rows[e][v].status)
              => rows'[e][v].content = rows[e][v].content]_vars

\* Statuses move along the table of transition_entry_status only
\* (store/mod.rs:3337).
LegalStatusSteps ==
    [][\A e \in Entries, v \in Version :
          rows[e][v] # None /\ rows'[e][v] # None /\ rows'[e][v].status # rows[e][v].status
              => <<rows[e][v].status, rows'[e][v].status>> \in EntryMoves]_vars

\* A status change has its audit row in the same transaction, so that the
\* chain never breaks (store/mod.rs:3391).
StatusChangesAreAudited ==
    [][\A e \in Entries, v \in Version :
          rows[e][v] # None /\ rows'[e][v] # None /\ rows'[e][v].status # rows[e][v].status
              => history'[e] # history[e]]_vars

\* An entry of an external source is never released by the machine gate, only
\* by a person (api/handlers_entries.rs:495).
ExternalNeverMachinePromoted ==
    \A e \in Entries : \A i \in DOMAIN history[e] :
        LET a == history[e][i] IN
        a.gate # "human" => ~(Exists(e, a.version) /\ rows[e][a.version].external)

\* M3 keeps the machine gate from activating the content of an entry that is
\* Active already (gate/mod.rs:8).
MachineNeverDuplicates ==
    \A d, e \in Entries, v, w \in Version :
        /\ Exists(d, v) /\ rows[d][v].status = "Active"
        /\ Exists(e, w) /\ rows[e][w].status = "Active"
        /\ rows[d][v].content = rows[e][w].content
        => d = e

\* "Only in the Draft state" (store/mod.rs:3306): a deletion removes drafts.
OnlyDraftsAreDeleted ==
    [][\A e \in Entries, v \in Version :
          rows[e][v] # None /\ rows'[e][v] = None => rows[e][v].status = "Draft"]_vars
=============================================================================
