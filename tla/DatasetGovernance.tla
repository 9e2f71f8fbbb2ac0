------------------------ MODULE DatasetGovernance ------------------------
(***************************************************************************)
(* The row of one dataset under concurrent API handlers.                   *)
(*                                                                         *)
(* Every method of the store on a dataset reads the whole row under the    *)
(* connection mutex, decides on its copy with no lock held, and writes     *)
(* columns of the copy back under the mutex again: the lifecycle column    *)
(* (status and state_history) for moves and publication, the versioning    *)
(* and lifecycle columns for a new version, all of them for PATCH and for  *)
(* the dependencies.  Publication and versioning read the entries one by   *)
(* one in between.  The actions are the critical sections.                 *)
(*                                                                         *)
(* An entry is seen here as its latest version: a content, and whether the *)
(* publication gate bars it (LLM-generated, or a T1 activation that nobody *)
(* ratified).  EntryGovernance has the steps behind EntryStep.             *)
(*                                                                         *)
(* Bounds: MaxVersion on version numbers, MaxRequests on requests begun.   *)
(***************************************************************************)
EXTENDS GovernanceRules

CONSTANTS
    EntryIds, Contents,
    Notes,        \* values of the metadata and dependency columns
    Handlers,
    Ops,          \* what the handlers serve: a subset of Operations
    Imports,      \* whether bundles are imported
    MaxVersion, MaxRequests, None

Operations == {"create", "move", "publish", "unpublish", "bump", "patch", "deps", "delete"}

Version == 1..MaxVersion

\* One StateChange of state_history.  published is the version in
\* published_as, 0 where there is none.
Causes == {"move", "unpublish", "bump", "import"}
Change ==
    [ from : LifecycleStatus, to : LifecycleStatus, cause : Causes, published : {0} ]
    \union [ from : LifecycleStatus, to : LifecycleStatus, cause : {"publish"},
             published : Version ]

\* The version chain is 1..version: a bump appends the next version to it.
\* note stands for the columns PATCH changes, deps for data_dependencies.
Dataset == [ status : LifecycleStatus, trail : Seq(Change), version : Version,
             note : Notes, deps : Notes ]

Entry == [ content : Contents, barred : BOOLEAN ]

\* The content of each entry, None for one that is not there.
Listing == [EntryIds -> Contents \union {None}]
Nothing == [e \in EntryIds |-> None]
Cleared == [v \in Version |-> Nothing]

\* todo holds the entries still to be read, found what a bump has read.
Request == [ op : Operations, arg : LifecycleStatus \union Notes \union {None},
             pc : {"read", "list", "collect", "write"}, copy : Dataset \union {None},
             todo : SUBSET EntryIds, found : Listing ]

ASSUME DatasetGovernanceAssumption ==
    /\ Ops \subseteq Operations
    /\ Imports \in BOOLEAN
    /\ MaxVersion \in Nat \ {0}
    /\ MaxRequests \in Nat
    /\ None \notin Dataset \union Entry \union Contents \union Request

VARIABLES
    row,      \* the row of the dataset, or None
    entries,  \* entries[e], the latest version of entry e, or None
    archive,  \* archive[v], dataset_version_snapshots of version v
    req,      \* req[h], the request h serves, or None
    begun     \* how many requests and imports were begun

vars == <<row, entries, archive, req, begun>>

stored == <<row, entries, archive>>

-----------------------------------------------------------------------------
(* Requests.                                                               *)

Args(op) ==
    CASE op = "move"                       -> {"Candidate", "Active", "Rejected"}
      [] op \in {"create", "patch", "deps"} -> Notes
      [] OTHER                             -> {None}

Becomes(h, r) == req' = [req EXCEPT ![h] = r]

Finish(h) == Becomes(h, None)

At(h, pc) == req[h] # None /\ req[h].pc = pc

Begin(h, op, arg) ==
    /\ req[h] = None
    /\ begun < MaxRequests
    /\ begun' = begun + 1
    /\ Becomes(h, [op |-> op, arg |-> arg, pc |-> "read", copy |-> None,
                   todo |-> {}, found |-> Nothing])
    /\ UNCHANGED stored

\* Whether the row a request reads lets it go on.
Admitted(r, ds) ==
    CASE r.op = "move"      -> <<ds.status, r.arg>> \in DatasetMoves
      [] r.op = "publish"   -> Publishable(ds.status)
      [] r.op = "unpublish" -> ds.status = "Published"
      [] r.op = "delete"    -> ds.status \in {"Draft", "Rejected"}
      [] r.op = "bump"      -> ds.version < MaxVersion
      [] OTHER              -> TRUE

\* get_dataset, and the checks on the copy.
ReadRow(h) ==
    LET r == req[h] IN
    /\ At(h, "read")
    /\ r.op # "create"
    /\ row # None
    /\ Admitted(r, row)
    /\ Becomes(h, [r EXCEPT !.copy = row,
         !.pc = IF r.op \in {"publish", "bump"} THEN "list" ELSE "write"])
    /\ UNCHANGED <<row, entries, archive, begun>>

\* create_dataset looks for the identifier before it takes the lock again.
CheckFree(h) ==
    /\ At(h, "read")
    /\ req[h].op = "create"
    /\ row = None
    /\ Becomes(h, [req[h] EXCEPT !.pc = "write"])
    /\ UNCHANGED <<row, entries, archive, begun>>

\* Early returns: not found or there already, not admitted, or refused by a
\* check on the copy (effective basis, service names, credentials).
TurnAway(h) ==
    LET r == req[h] IN
    /\ At(h, "read")
    /\ \/ r.op = "create" /\ row # None
       \/ r.op # "create" /\ (row # None => ~Admitted(r, row))
       \/ r.op \in {"patch", "deps", "publish"}
    /\ Finish(h)
    /\ UNCHANGED <<row, entries, archive, begun>>

\* list_entries: the entry ids first, then the latest version of each.
Remaining(r, todo) == [r EXCEPT !.todo = todo, !.pc = IF todo = {} THEN "write" ELSE "collect"]

ListEntries(h) ==
    /\ At(h, "list")
    /\ Becomes(h, Remaining(req[h], {e \in EntryIds : entries[e] # None}))
    /\ UNCHANGED <<row, entries, archive, begun>>

CollectEntry(h, e) ==
    LET r    == req[h]
        next == Remaining(r, r.todo \ {e})
    IN  /\ At(h, "collect")
        /\ r.op = "bump"
        /\ e \in r.todo
        /\ Becomes(h, IF entries[e] = None THEN next
                      ELSE [next EXCEPT !.found[e] = entries[e].content])
        /\ UNCHANGED <<row, entries, archive, begun>>

\* Slip: the entry is read and not judged.
GateEntryOpen(h, e) ==
    LET r == req[h] IN
    /\ At(h, "collect")
    /\ r.op = "publish"
    /\ e \in r.todo
    /\ Becomes(h, Remaining(r, r.todo \ {e}))
    /\ UNCHANGED <<row, entries, archive, begun>>

\* The publication gate on one entry: no LLM flag and no pending review.
GateEntry(h, e) ==
    LET r == req[h] IN
    /\ At(h, "collect")
    /\ r.op = "publish"
    /\ e \in r.todo
    /\ IF entries[e] # None /\ entries[e].barred
       THEN Finish(h)
       ELSE Becomes(h, Remaining(r, r.todo \ {e}))
    /\ UNCHANGED <<row, entries, archive, begun>>

-----------------------------------------------------------------------------
(* The write transactions.                                                 *)

Writes(h, op) == At(h, "write") /\ req[h].op = op

\* The lifecycle of a copy after one more change.
Step(copy, to, cause, published) ==
    [from |-> copy.status, to |-> to, cause |-> cause, published |-> published]

\* UPDATE of the lifecycle column; no row, no effect.
SetLifecycle(copy, change) ==
    row' = IF row = None THEN None
           ELSE [row EXCEPT !.status = change.to, !.trail = Append(copy.trail, change)]

\* INSERT: the key keeps a second row out.
CreateWrite(h) ==
    /\ Writes(h, "create")
    /\ row' = IF row # None THEN row
              ELSE [status |-> "Draft", trail |-> <<>>, version |-> 1,
                    note |-> req[h].arg, deps |-> req[h].arg]
    /\ Finish(h)
    /\ UNCHANGED <<entries, archive, begun>>

MoveWrite(h) ==
    LET r == req[h] IN
    /\ Writes(h, "move")
    /\ SetLifecycle(r.copy, Step(r.copy, r.arg, "move", 0))
    /\ Finish(h)
    /\ UNCHANGED <<entries, archive, begun>>

PublishWrite(h) ==
    LET r == req[h] IN
    /\ Writes(h, "publish")
    /\ SetLifecycle(r.copy, Step(r.copy, "Published", "publish", r.copy.version))
    /\ Finish(h)
    /\ UNCHANGED <<entries, archive, begun>>

UnpublishWrite(h) ==
    LET r == req[h] IN
    /\ Writes(h, "unpublish")
    /\ SetLifecycle(r.copy, Step(r.copy, "Rejected", "unpublish", 0))
    /\ Finish(h)
    /\ UNCHANGED <<entries, archive, begun>>

\* Slip: ON CONFLICT DO UPDATE.
ArchivedAgain(v, found) ==
    [archive EXCEPT ![v] = [e \in EntryIds |-> IF found[e] # None THEN found[e] ELSE @[e]]]

\* INSERT ... ON CONFLICT DO NOTHING: what is archived stays.
Archived(v, found) ==
    [archive EXCEPT ![v] = [e \in EntryIds |-> IF @[e] # None THEN @[e] ELSE found[e]]]

\* Slip: the snapshot table has no foreign key on the dataset.
BumpWriteWithoutForeignKey(h) ==
    LET r == req[h] IN
    /\ Writes(h, "bump")
    /\ row' = IF row = None THEN None
              ELSE [row EXCEPT !.status = "Draft", !.version = r.copy.version + 1,
                      !.trail = Append(r.copy.trail, Step(r.copy, "Draft", "bump", 0))]
    /\ archive' = Archived(r.copy.version, r.found)
    /\ Finish(h)
    /\ UNCHANGED <<entries, begun>>

\* The UPDATE of versioning and lifecycle, and the archive of the version
\* left, in one transaction.  The foreign key of the archive fails it when the
\* dataset is gone and there is something to archive; with nothing to archive
\* it commits and changes nothing.
BumpWrite(h) ==
    LET r == req[h] IN
    /\ Writes(h, "bump")
    /\ IF row = None THEN UNCHANGED <<row, archive>>
       ELSE /\ row' = [row EXCEPT !.status = "Draft", !.version = r.copy.version + 1,
                         !.trail = Append(r.copy.trail, Step(r.copy, "Draft", "bump", 0))]
            /\ archive' = Archived(r.copy.version, r.found)
    /\ Finish(h)
    /\ UNCHANGED <<entries, begun>>

\* Slip: INSERT OR REPLACE in place of UPDATE.
PatchWriteOrInsert(h) ==
    LET r == req[h] IN
    /\ Writes(h, "patch")
    /\ row' = [r.copy EXCEPT !.note = r.arg]
    /\ Finish(h)
    /\ UNCHANGED <<entries, archive, begun>>

\* update_dataset: every column of the copy is written.
PatchWrite(h) ==
    LET r == req[h] IN
    /\ Writes(h, "patch")
    /\ row' = IF row = None THEN None ELSE [r.copy EXCEPT !.note = r.arg]
    /\ Finish(h)
    /\ UNCHANGED <<entries, archive, begun>>

DepsWrite(h) ==
    LET r == req[h] IN
    /\ Writes(h, "deps")
    /\ row' = IF row = None THEN None ELSE [r.copy EXCEPT !.deps = r.arg]
    /\ Finish(h)
    /\ UNCHANGED <<entries, archive, begun>>

DeleteWrite(h) ==
    /\ Writes(h, "delete")
    /\ row' = None
    /\ entries' = Nothing
    /\ archive' = Cleared
    /\ Finish(h)
    /\ UNCHANGED begun

\* import_bundle puts each entry in as Active, in version 1.
Bundled(listing) ==
    [e \in EntryIds |-> IF listing[e] = None THEN None
                        ELSE [content |-> listing[e], barred |-> FALSE]]

\* Slip: the previous status is formatted after it was overwritten.
ImportForgettingStatus(v, note, listing) ==
    /\ Imports /\ begun < MaxRequests
    /\ begun' = begun + 1
    /\ row' =
         [ status  |-> "Active", version |-> v, note |-> note, deps |-> note,
           trail   |-> IF row = None
                       THEN <<[from |-> "Draft", to |-> "Active", cause |-> "import", published |-> 0]>>
                       ELSE Append(row.trail, [from |-> "Active", to |-> "Active",
                                               cause |-> "import", published |-> 0]) ]
    /\ entries' = Bundled(listing)
    /\ archive' = Cleared
    /\ UNCHANGED req

\* import_bundle reads, replaces and fills the dataset in one transaction:
\* the bundle brings versions, dependencies and Active entries, the archive
\* and the audit of the old entries go, the dataset becomes Active.
Import(v, note, listing) ==
    /\ Imports /\ begun < MaxRequests
    /\ begun' = begun + 1
    /\ row' =
         LET status == IF row = None THEN "Draft" ELSE row.status
             trail  == IF row = None THEN <<>> ELSE row.trail
         IN  [ status |-> "Active", version |-> v, note |-> note, deps |-> note,
               trail  |-> Append(trail, [from |-> status, to |-> "Active",
                                         cause |-> "import", published |-> 0]) ]
    /\ entries' = Bundled(listing)
    /\ archive' = Cleared
    /\ UNCHANGED req

\* Whatever entry handlers may do to the latest version of an entry.  The
\* foreign key keeps entries out of a dataset that is not there.
EntryStep(e, entry) ==
    /\ row # None
    /\ entries' = [entries EXCEPT ![e] = entry]
    /\ UNCHANGED <<row, archive, req, begun>>

-----------------------------------------------------------------------------
Init ==
    /\ row = None
    /\ entries = Nothing
    /\ archive = Cleared
    /\ req = [h \in Handlers |-> None]
    /\ begun = 0

Arrive == \E h \in Handlers, op \in Ops : \E arg \in Args(op) : Begin(h, op, arg)

Bundle == \E v \in Version, note \in Notes, listing \in Listing : Import(v, note, listing)

Edit == \E e \in EntryIds, entry \in Entry \union {None} : EntryStep(e, entry)

Serve(h) ==
    \/ ReadRow(h)
    \/ CheckFree(h)
    \/ TurnAway(h)
    \/ ListEntries(h)
    \/ \E e \in EntryIds : CollectEntry(h, e) \/ GateEntry(h, e)
    \/ CreateWrite(h)
    \/ MoveWrite(h)
    \/ PublishWrite(h)
    \/ UnpublishWrite(h)
    \/ BumpWrite(h)
    \/ PatchWrite(h)
    \/ DepsWrite(h)
    \/ DeleteWrite(h)

Next == Arrive \/ Bundle \/ Edit \/ \E h \in Handlers : Serve(h)

Spec == Init /\ [][Next]_vars

-----------------------------------------------------------------------------
(* Properties.                                                             *)

TypeOK ==
    /\ row \in Dataset \union {None}
    /\ entries \in [EntryIds -> Entry \union {None}]
    /\ archive \in [Version -> Listing]
    /\ req \in [Handlers -> Request \union {None}]
    /\ begun \in Nat

\* The changes each cause may make.
LawfulChange(c) ==
    CASE c.cause = "move"      -> <<c.from, c.to>> \in DatasetMoves
      [] c.cause = "publish"   -> Publishable(c.from) /\ c.to = "Published"
      [] c.cause = "unpublish" -> c.from = "Published" /\ c.to = "Rejected"
      [] c.cause = "bump"      -> c.to = "Draft"
      [] c.cause = "import"    -> c.to = "Active"

\* A trail is a path of lawful changes from Draft to the status.
PathTo(trail, status) ==
    /\ \A i \in DOMAIN trail :
         /\ LawfulChange(trail[i])
         /\ trail[i].from = IF i = 1 THEN "Draft" ELSE trail[i - 1].to
    /\ status = IF trail = <<>> THEN "Draft" ELSE trail[Len(trail)].to

\* The audit of a dataset always explains its status: state_history is a
\* lawful path from Draft to the status, so that Published, in particular, is
\* only ever entered through publish_dataset, whichever handlers overwrite one
\* another and whichever bundles are imported between their reads and writes.
LifecycleIsPath == row # None => PathTo(row.trail, row.status)

\* Nothing outlives the dataset: a handler that lost the race with a deletion
\* leaves no entry and no archived version behind (the foreign keys, and the
\* transaction of create_dataset_version).
NothingOutlivesDataset ==
    row = None => entries = Nothing /\ archive = Cleared

\* An archived entry of a version is never rewritten, not even by a second
\* bump from the same version: it goes only with the whole archive.
ArchiveFixed ==
    [][\/ \A v \in Version, e \in EntryIds :
            archive[v][e] # None => archive'[v][e] = archive[v][e]
       \/ \A v \in Version : archive'[v] = Nothing]_vars

\* A dataset comes into being as a fresh draft or by an import: no late write
\* of a handler brings a deleted dataset back (update_dataset_row_conn).
BornFresh ==
    [][row = None /\ row' # None =>
          \/ row'.status = "Draft" /\ row'.version = 1 /\ row'.trail = <<>>
          \/ row'.status = "Active" /\ Len(row'.trail) = 1
             /\ row'.trail[1].cause = "import"]_vars

-----------------------------------------------------------------------------
(* A client that is alone with the dataset: while a request is served, no  *)
(* bundle is imported and no entry changes.                                *)

Idle == \A h \in Handlers : req[h] = None

AloneNext == (Idle /\ (Bundle \/ Edit)) \/ Arrive \/ \E h \in Handlers : Serve(h)

Alone == Init /\ [][AloneNext]_vars

Ledger == INSTANCE DatasetLedger WITH dataset <- row

\* With a single handler each request acts on the store in one step: what it
\* judged at its first read still holds at its write.
SerialDataset == Ledger!Spec

-----------------------------------------------------------------------------
(* What the documentation promises and concurrent handlers do not keep:    *)
(* none of these is in a run.                                              *)

\* "state_history is only appended to" (model/dataset.rs:5).
HistoryAppendOnly ==
    [][row # None /\ row' # None =>
          /\ Len(row'.trail) >= Len(row.trail)
          /\ SubSeq(row'.trail, 1, Len(row.trail)) = row.trail]_vars

\* "The version chain and the lifecycle are managed by methods of their own
\* and not changed here" (update_dataset, store/mod.rs:1200).
PatchLeavesLifecycle ==
    [][\A h \in Handlers :
          PatchWrite(h) /\ row # None
              => row'.trail = row.trail /\ row'.version = row.version]_vars

\* "published_as = {dataset_id}@{current_version}: what is published is a
\* version of the dataset" (store/mod.rs:2928).
PublishedVersionIsCurrent ==
    row # None /\ row.status = "Published"
        => row.trail[Len(row.trail)].published = row.version

\* "An entry has an unratified machine release: publication is forbidden"
\* (I17, store/mod.rs:2979).
NoPendingAtPublication ==
    [][\A h \in Handlers :
          PublishWrite(h) /\ row # None
              => \A e \in EntryIds : entries[e] # None => ~entries[e].barred]_vars

\* "The chain is only appended to and a version number is not used twice"
\* (store/mod.rs:1390).
VersionsNotReused ==
    [][\A h \in Handlers :
          BumpWrite(h) /\ row # None => row'.version > row.version]_vars

\* "Draft and Rejected only" (delete_dataset, store/mod.rs:1243).
OnlyIdleDeleted ==
    [][row # None /\ row' = None => row.status \in {"Draft", "Rejected"}]_vars

\* "Archived at the moment of the bump, the same as the content then"
\* (store/mod.rs:3203).
ArchiveIsTheMoment ==
    [][\A h \in Handlers :
          BumpWrite(h) /\ row # None =>
              \A e \in EntryIds :
                  archive'[req[h].copy.version][e] =
                      IF entries[e] = None THEN None ELSE entries[e].content]_vars
=============================================================================
