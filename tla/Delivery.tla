----------------------------- MODULE Delivery -----------------------------
(***************************************************************************)
(* What readers are given of a dataset while it is governed.  An export, a *)
(* pull by another tenant, a client that pages through a list, a search, a *)
(* diff of versions and the history of an entry all visit the store many   *)
(* times (the row of the dataset, the entry ids, then for each id its      *)
(* latest version number and the row of that version), each time under the *)
(* lock and with nothing held between.                                     *)
(*                                                                         *)
(* What goes on meanwhile is in single steps here, a superset of what the  *)
(* handlers of EntryGovernance and DatasetGovernance do in several: a      *)
(* write may be to an older version, or after the check that admitted it.  *)
(* No bundle is imported over the dataset: DatasetGovernance has that.     *)
(*                                                                         *)
(* Bounds: MaxVersion, MaxEntryVersion and MaxWrites.                      *)
(***************************************************************************)
EXTENDS Naturals, Sequences, FiniteSets, Functions

CONSTANTS
    EntryIds,         \* numbers: the tables are read in the order of their keys
    Kinds,            \* a subset of DatasetKinds
    Limit,            \* the page size, 20 by default and at most 100 in the code
    Matching,         \* the contents in which searchers find what they look for
    MaxVersion,       \* of the dataset
    MaxEntryVersion,
    MaxWrites,
    None

\* mcp_servers is the knowledge dataset that lists the servers to start.
DatasetKinds == {"rule_set", "knowledge", "mcp_servers"}

ASSUME DeliveryAssumption ==
    /\ EntryIds \subseteq Nat /\ IsFiniteSet(EntryIds)
    /\ MaxVersion \in Nat \ {0} /\ MaxEntryVersion \in Nat \ {0} /\ MaxWrites \in Nat
    /\ Kinds \subseteq DatasetKinds
    /\ Limit \in Nat \ {0}

VARIABLES
    dataset,  \* its kind, whether it is public and Published, and its version; or None
    rows,     \* rows[e], the versions of e: content, and whether it is approved
    archive,  \* archive[v], dataset_version_snapshots and dataset_versions
    writes,   \* writes so far; the content a write brings is its number
    reader    \* the request at work, with its answer at the end; or None

vars == <<dataset, rows, archive, writes, reader>>

Present == {e \in EntryIds : rows[e] # <<>>}

Item(e, v) == [entry |-> e, version |-> v, row |-> rows[e][v]]

LatestItems == {Item(e, Len(rows[e])) : e \in Present}

Contents(items) == {i.row.content : i \in items}

Matches(row) == row.content \in Matching

Open == dataset # None /\ dataset.public /\ dataset.published

-----------------------------------------------------------------------------
(* What a reader lived through, for the properties only: which items there *)
(* were and in which version of the dataset, which of them were the latest *)
(* of their entry, and what was so all the time.                           *)

AllItems == UNION {{Item(e, v) : v \in DOMAIN rows[e]} : e \in EntryIds}

Current == IF dataset = None THEN 0 ELSE dataset.version

Approved == {i.entry : i \in {j \in LatestItems : j.row.approved}}

Witness == [ seen |-> {<<Current, Open, i>> : i \in AllItems},
             latest |-> {<<i.entry, i.version>> : i \in LatestItems},
             steady |-> Present, approved |-> Approved, kept |-> Contents(LatestItems),
             deleted |-> FALSE, shrank |-> FALSE, grew |-> FALSE ]

\* Every step that writes is seen by the reader at work.
Lived(w) ==
    [ seen |-> w.seen \union {<<Current', Open', i>> : i \in AllItems'},
      latest |-> w.latest \union {<<i.entry, i.version>> : i \in LatestItems'},
      steady |-> w.steady \intersect Present',
      approved |-> w.approved \intersect Approved',
      kept |-> w.kept \intersect Contents(LatestItems'),
      deleted |-> w.deleted \/ dataset' = None,
      shrank |-> w.shrank \/ ~(Present \subseteq Present'),
      grew |-> w.grew \/ ~(Present' \subseteq Present) ]

Seen == reader' = IF reader = None THEN None
                  ELSE [reader EXCEPT !.witness = Lived(reader.witness)]

-----------------------------------------------------------------------------
(* Writers.                                                                *)

Write == writes < MaxWrites /\ writes' = writes + 1

Row(c) == [content |-> c, approved |-> FALSE]

CreateDataset ==
    /\ Write
    /\ dataset = None
    /\ \E k \in Kinds :
         dataset' = [kind |-> k, public |-> FALSE, published |-> FALSE, version |-> 1]
    /\ UNCHANGED <<rows, archive>>
    /\ Seen

\* The foreign keys: nothing of it stays.
DeleteDataset ==
    /\ Write
    /\ dataset # None /\ ~dataset.published
    /\ dataset' = None
    /\ rows' = [e \in EntryIds |-> <<>>]
    /\ archive' = [v \in 1..MaxVersion |-> {}]
    /\ Seen

PublishDataset ==
    /\ Write
    /\ dataset # None
    /\ dataset' = [dataset EXCEPT !.published = ~@]
    /\ UNCHANGED <<rows, archive>>
    /\ Seen

SetVisibility ==
    /\ Write
    /\ dataset # None
    /\ dataset' = [dataset EXCEPT !.public = ~@]
    /\ UNCHANGED <<rows, archive>>
    /\ Seen

\* The latest version of every entry is archived under the version that is left.
NewDatasetVersion ==
    /\ Write
    /\ dataset # None /\ dataset.version < MaxVersion
    /\ dataset' = [dataset EXCEPT !.version = @ + 1, !.published = FALSE]
    /\ archive' = [archive EXCEPT ![dataset.version] = LatestItems]
    /\ UNCHANGED rows
    /\ Seen

\* What the import and its dry run demand alike.
Importable(S) == dataset # None /\ dataset.kind # "rule_set" /\ \A e \in S : rows[e] = <<>>

\* import_knowledge_entries: all of them, as first versions, or none.
ImportKnowledge(S) ==
    /\ Write
    /\ Importable(S)
    /\ rows' = [e \in EntryIds |-> IF e \in S THEN <<Row(writes)>> ELSE rows[e]]
    /\ UNCHANGED <<dataset, archive>>
    /\ Seen

NewEntryVersion(e) ==
    /\ Write
    /\ dataset # None
    /\ Len(rows[e]) < MaxEntryVersion
    /\ rows' = [rows EXCEPT ![e] = Append(@, Row(writes))]
    /\ UNCHANGED <<dataset, archive>>
    /\ Seen

EditEntry(e, v) ==
    /\ Write
    /\ v \in DOMAIN rows[e] /\ ~rows[e][v].approved
    /\ rows' = [rows EXCEPT ![e][v].content = writes]
    /\ UNCHANGED <<dataset, archive>>
    /\ Seen

ApproveEntry(e, v) ==
    /\ Write
    /\ v \in DOMAIN rows[e] /\ ~rows[e][v].approved
    /\ rows' = [rows EXCEPT ![e][v].approved = TRUE]
    /\ UNCHANGED <<dataset, archive>>
    /\ Seen

\* All versions of it.
DeleteEntry(e) ==
    /\ Write
    /\ rows[e] # <<>>
    /\ rows' = [rows EXCEPT ![e] = <<>>]
    /\ UNCHANGED <<dataset, archive>>
    /\ Seen

-----------------------------------------------------------------------------
(* Readers.  label is the version in the answer, base the version a diff   *)
(* starts from.  What is still to read, todo, are entries with a version   *)
(* of theirs, or with 0 where the latest is to be looked up.               *)

\* The operations on a dataset, and on one entry.
EntryOps == {"entry", "versions", "payload", "entry_diff"}
Ops == {"browse", "discover", "search", "export", "pull", "page", "version", "diff"}
       \union EntryOps

FirstStep(op) ==
    CASE op \in {"pull", "page"}   -> "pullable"
      [] op \in {"export", "version", "diff"} -> "chain"
      [] op = "search"             -> "hits"
      [] op \in {"browse", "discover"} -> "datasets"
      [] op = "entry"              -> "own"
      [] OTHER                     -> "locate"

Arrive(op, foreign, base, label) ==
    /\ reader = None
    /\ op \in {"pull", "page", "browse", "discover"} \/ ~foreign
    /\ IF op \in {"diff", "entry_diff"} THEN base < label ELSE base = 1
    /\ op \in {"export", "version", "diff", "payload", "entry_diff"} \/ label = 1
    /\ reader' = [ op |-> op, foreign |-> foreign, base |-> base, label |-> label,
                   pc |-> FirstStep(op), kind |-> "rule_set", live |-> FALSE,
                   todo |-> <<>>, found |-> <<>>, given |-> {}, kept |-> EntryIds,
                   hits |-> {}, from |-> {}, to |-> {},
                   offset |-> 0, got |-> {}, repeated |-> FALSE, witness |-> Witness ]
    /\ UNCHANGED <<dataset, rows, archive, writes>>

At(pc) == reader # None /\ reader.pc = pc

Goes(r) == reader' = r /\ UNCHANGED <<dataset, rows, archive, writes>>

\* Not found, not admitted, or nothing archived.
Refused == Goes(None)

\* The dataset is the caller's own, or public and Published at this moment.  Of a
\* dataset of others a list shows nothing otherwise, and so ends.
CheckPullable ==
    /\ At("pullable")
    /\ IF dataset # None /\ (reader.foreign => Open)
       THEN Goes([reader EXCEPT !.pc = IF reader.op = "pull" THEN "row" ELSE "list"])
       ELSE Refused

\* export_bundle_at and version_diff: the versions asked for are in the chain, and
\* the one is current, or is not.  For get_version that is the answer.
CheckChain ==
    /\ At("chain")
    /\ IF dataset = None \/ reader.label > Current THEN Refused
       ELSE LET r == [reader EXCEPT !.live = (reader.label = Current), !.kind = dataset.kind] IN
            Goes([r EXCEPT !.pc = CASE r.op = "diff"    -> "list"
                                    [] r.op = "version" -> "done"
                                    [] OTHER -> IF r.live THEN "row" ELSE "archive"])

\* export_bundle reads the row again, whatever was asked for; the catalogue is read
\* next and is Platform's.
ReadDataset ==
    /\ At("row")
    /\ IF dataset = None THEN Refused
       ELSE Goes([reader EXCEPT !.label = Current, !.kind = dataset.kind, !.live = TRUE,
                                !.pc = "list"])

\* The full-text index of a knowledge dataset: entries whose latest version matches.
\* The query compares the latest number with that of any one of the versions that
\* match, so an entry with an older match as well is in or is not.  Rules, and words
\* of less than three characters, are looked for in the walk.
FindHits ==
    /\ At("hits")
    /\ LET matched == {i.entry : i \in {j \in LatestItems : Matches(j.row)}}
           sure == {e \in matched : \A v \in 1..(Len(rows[e]) - 1) : ~Matches(rows[e][v])} IN
       \/ \E H \in SUBSET matched :
            /\ sure \subseteq H
            /\ Goes([reader EXCEPT !.hits = H, !.kind = "knowledge", !.pc = "datasets"])
       \/ Goes([reader EXCEPT !.pc = "datasets"])

\* The ids of the datasets of a tenant, for browsing also of those that are public
\* (list_datasets_browsable), for search_datasets of all; ...
ListDatasets ==
    /\ At("datasets")
    /\ LET hidden == reader.foreign /\ reader.op = "browse" /\ ~dataset.public IN
       Goes([reader EXCEPT !.pc = IF dataset = None \/ hidden THEN "done" ELSE "listed"])

\* ... then their rows: one that is gone is an error.  Of others, only what is open.
ReadListed ==
    /\ At("listed")
    /\ IF dataset = None THEN Refused
       ELSE Goes([reader EXCEPT
              !.live = ~reader.foreign \/ Open,
              !.pc = IF reader.op = "search" THEN "list" ELSE "done"])

\* The dataset of the caller, and in it the latest version of the entry.
CheckOwn(e) ==
    /\ At("own")
    /\ IF dataset = None THEN Refused
       ELSE Goes([reader EXCEPT !.todo = <<<<e, 0>>>>, !.pc = "read"])

\* The versions of an entry that are asked for by number.
Wanted(e) == (IF reader.op = "entry_diff" THEN <<<<e, reader.base>>>> ELSE <<>>)
             \o <<<<e, reader.label>>>>

\* The dataset of the caller in which the entry is.
LocateEntry(e) ==
    /\ At("locate")
    /\ IF rows[e] = <<>> THEN Refused
       ELSE Goes(IF reader.op = "versions" THEN [reader EXCEPT !.hits = {e}, !.pc = "numbers"]
                 ELSE [reader EXCEPT !.todo = Wanted(e), !.pc = "read"])

\* Slip: the newest first.
NumbersFalling(e) == [k \in DOMAIN rows[e] |-> <<e, Len(rows[e]) + 1 - k>>]

\* In rising order.
Numbers(e) == [k \in DOMAIN rows[e] |-> <<e, k>>]

\* list_entry_versions: the numbers first.
ListVersions ==
    /\ At("numbers")
    /\ \E e \in reader.hits : Goes([reader EXCEPT !.todo = Numbers(e), !.pc = "read"])

\* All of a set of ids, in rising order: one sequence.
InOrder(S) ==
    {ids \in [1..Cardinality(S) -> S] :
        Range(ids) = S /\ \A i, j \in DOMAIN ids : i < j => ids[i] < ids[j]}

\* list_entries: the ids first; version_diff lists the rules only, whatever the kind.
ListIds ==
    /\ At("list")
    /\ \E ids \in InOrder(Present) :
         Goes([reader EXCEPT
           !.todo = IF reader.op = "diff" /\ reader.kind # "rule_set" THEN <<>>
                    ELSE [i \in DOMAIN ids |-> <<ids[i], 0>>],
           !.found = <<>>, !.pc = "read"])

\* One that is gone is left out of a list; alone, it is not found.
Missing ==
    IF reader.op \in {"entry", "payload", "entry_diff"} THEN Refused
    ELSE Goes([reader EXCEPT !.todo = Tail(@)])

\* get_latest_entry: the number of the latest version, ...
ReadVersion ==
    /\ At("read") /\ reader.todo # <<>>
    /\ Head(reader.todo)[2] = 0
    /\ LET e == Head(reader.todo)[1] IN
       IF rows[e] # <<>> THEN Goes([reader EXCEPT !.todo = <<<<e, Len(rows[e])>>>> \o Tail(@)])
       ELSE Missing

\* ... and the row of that version.
ReadEntry ==
    /\ At("read") /\ reader.todo # <<>>
    /\ LET e == Head(reader.todo)[1]
           v == Head(reader.todo)[2] IN
       /\ v # 0
       /\ IF v \in DOMAIN rows[e]
          THEN Goes([reader EXCEPT !.todo = Tail(@), !.found = Append(@, Item(e, v))])
          ELSE Missing

AllRead(ops) == At("read") /\ reader.todo = <<>> /\ reader.op \in ops

\* Slip: the words are looked for in the hits of the index and in the walk.
FoundTwice(r) == {i \in Range(r.found) : i.entry \in r.hits /\ Matches(i.row)}

\* By the index as it was, or by what was read.
FoundBy(r) ==
    {i \in Range(r.found) : IF r.kind = "knowledge" THEN i.entry \in r.hits ELSE Matches(i.row)}

FinishSearch == AllRead({"search"}) /\ Goes([reader EXCEPT !.given = FoundBy(reader), !.pc = "done"])

FinishVersions ==
    /\ AllRead({"entry", "versions", "payload"})
    /\ Goes([reader EXCEPT !.given = Range(reader.found), !.pc = "done"])

\* entry_content_diff: two contents are compared by their hashes, then key by key.
FinishEntryDiff ==
    /\ AllRead({"entry_diff"})
    /\ Goes([reader EXCEPT !.from = {reader.found[1].row.content},
                           !.to = {reader.found[2].row.content}, !.pc = "done"])

\* Slip: every kind of dataset is retained like the list of servers.
RetainedAlways(r) == {i \in Range(r.found) : i.row.approved}

\* Slip: nothing is held back.
RetainedAll(r) == Range(r.found)

\* Of the list of servers an export gives the approved ones only.
Retained(r) ==
    {i \in Range(r.found) : r.kind = "mcp_servers" => i.row.approved}

\* Slip: the label is taken when all has been read.
ExportedAsCurrent(r) == [r EXCEPT !.given = Retained(r), !.label = Current, !.pc = "done"]

Exported(r) == [r EXCEPT !.given = Retained(r), !.pc = "done"]

FinishExport ==
    /\ AllRead({"export", "pull"})
    /\ Goes(Exported(reader))

PageOf(r) ==
    {r.found[k].entry : k \in {j \in DOMAIN r.found : r.offset < j /\ j <= r.offset + Limit}}

\* The client comes back with next_cursor if there is one.
PagedOn(r, more) ==
    [r EXCEPT !.offset = @ + Limit, !.got = @ \union PageOf(r),
              !.repeated = @ \/ PageOf(r) \intersect r.got # {},
              !.pc = IF more THEN "pullable" ELSE "done"]

\* Slip: one entry after the page is taken for none.
PagedOffByOne(r) == PagedOn(r, r.offset + Limit + 1 < Len(r.found))

\* paginate.
Paged(r) == PagedOn(r, r.offset + Limit < Len(r.found))

FinishPage ==
    /\ AllRead({"page"})
    /\ Goes(Paged(reader))

\* A historic version, from the archive: an empty one is not told from a missing one.
ReadArchive ==
    /\ At("archive")
    /\ IF archive[reader.label] = {} THEN Refused
       ELSE Goes([reader EXCEPT !.given = archive[reader.label], !.pc = "done"])

\* dataset_version_hashes of the version the diff starts from.
FinishDiffList ==
    /\ AllRead({"diff"})
    /\ Goes([reader EXCEPT !.from = Contents(archive[reader.base]), !.pc = "to"])

\* Slip: the hashes of the current version are looked up as well.
HashesArchived(r) == Contents(archive[r.label])

\* Those of the current version are those of the entries it has listed.
Hashes(r) == IF r.live THEN Contents(Range(r.found)) ELSE Contents(archive[r.label])

FinishDiff ==
    /\ At("to")
    /\ Goes([reader EXCEPT !.to = Hashes(reader), !.pc = "done"])

\* export_with_tests: what a filter by ids, tag or domain leaves, which may not be
\* nothing (BundleTrimmer).
Trim(S) ==
    /\ At("done") /\ reader.op = "export" /\ reader.kept = EntryIds
    /\ LET left == {i \in reader.given : i.entry \in S} IN
       IF left = {} THEN Refused ELSE Goes([reader EXCEPT !.given = left, !.kept = S])

Leave == At("done") /\ Goes(None)

Init ==
    /\ dataset = None
    /\ rows = [e \in EntryIds |-> <<>>]
    /\ archive = [v \in 1..MaxVersion |-> {}]
    /\ writes = 0
    /\ reader = None

Next ==
    \/ CreateDataset \/ DeleteDataset \/ PublishDataset \/ SetVisibility \/ NewDatasetVersion
    \/ \E S \in SUBSET EntryIds \ {{}} : ImportKnowledge(S)
    \/ \E e \in EntryIds : NewEntryVersion(e) \/ DeleteEntry(e)
    \/ \E e \in EntryIds, v \in 1..MaxEntryVersion : EditEntry(e, v) \/ ApproveEntry(e, v)
    \/ \E op \in Ops, foreign \in BOOLEAN, base, label \in 1..MaxVersion :
         Arrive(op, foreign, base, label)
    \/ CheckPullable \/ CheckChain \/ ReadDataset \/ FindHits \/ ListDatasets \/ ReadListed
    \/ \E e \in EntryIds : LocateEntry(e) \/ CheckOwn(e)
    \/ ListVersions \/ ListIds \/ ReadVersion \/ ReadEntry
    \/ FinishSearch \/ FinishVersions \/ FinishEntryDiff \/ FinishExport \/ FinishPage
    \/ ReadArchive \/ FinishDiffList \/ FinishDiff
    \/ \E S \in SUBSET EntryIds \ {EntryIds} : Trim(S)
    \/ Leave

Spec == Init /\ [][Next]_vars

-----------------------------------------------------------------------------
(* Properties.                                                             *)

Done(ops) == reader # None /\ reader.pc = "done" /\ reader.op \in ops

TypeOK ==
    /\ dataset # None =>
         dataset \in [kind : Kinds, public : BOOLEAN, published : BOOLEAN, version : 1..MaxVersion]
    /\ \A e \in EntryIds : Len(rows[e]) <= MaxEntryVersion
    /\ \A v \in 1..MaxVersion : \A i \in archive[v] : i.entry \in EntryIds
    /\ writes \in 0..MaxWrites
    /\ reader # None => reader.op \in Ops

\* A walk over the entries is as good as it can be without a lock (list_entries,
\* get_latest_entry): each item was in the store like that while the reader was at
\* work, under a number that was the latest then, and no entry that was there all the
\* time is left out, but for the servers that are not approved and what is trimmed.
WalkIsRegular ==
    Done({"export", "pull", "search", "entry"}) /\ (reader.op \in {"search", "entry"} \/ reader.live) =>
       LET w == reader.witness
           ids == {i.entry : i \in reader.given} IN
       /\ \A i \in reader.given : /\ i \in {s[3] : s \in w.seen}
                                  /\ <<i.entry, i.version>> \in w.latest
       /\ reader.op \in {"export", "pull"} =>
            (IF reader.kind = "mcp_servers" THEN w.approved ELSE w.steady) \intersect reader.kept
              \subseteq ids

\* What matches, and is there all the time, is found by a search that looks at what it
\* reads (search_entries).
SearchFindsKept ==
    Done({"search"}) /\ reader.live /\ reader.kind # "knowledge"
       => reader.witness.kept \intersect Matching \subseteq Contents(reader.given)

\* The same by the index.  Does not hold: an entry whose older version matches too may
\* be no hit.
IndexFindsKept ==
    Done({"search"}) /\ reader.live
       => reader.witness.kept \intersect Matching \subseteq Contents(reader.given)

\* The history of an entry has no holes: the versions from the first to one that was
\* the latest while it was read, each like it was, although a version may be added or
\* edited at every step (list_entry_versions).
HistoryIsWhole ==
    Done({"versions"}) =>
       /\ \A i \in reader.given : i \in {s[3] : s \in reader.witness.seen}
       /\ reader.hits \subseteq reader.witness.steady =>
            \E n \in 1..MaxEntryVersion :
               /\ [k \in DOMAIN reader.found |-> reader.found[k].version] = [k \in 1..n |-> k]
               /\ <<reader.found[1].entry, n>> \in reader.witness.latest

\* The servers in the list that is delivered were approved, whatever was proposed while
\* it was read (export_bundle, "only approved entries").
ApprovedServersOnly ==
    Done({"export", "pull"}) /\ reader.live /\ reader.kind = "mcp_servers"
       => \A i \in reader.given : i.row.approved

\* Nothing in a bundle was gone before the version it names began: what a new version
\* dropped is never delivered under its name (export_bundle reads the row first).
LabelNotNewer ==
    Done({"export", "pull"}) /\ reader.live /\ ~reader.witness.deleted
       => \A i \in reader.given : \E s \in reader.witness.seen : s[3] = i /\ s[1] >= reader.label

\* That each is from the version it names (export_bundle_at).  Does not hold: a new
\* version made between the row and the entries is delivered under the old name.
LabelIsTrue ==
    Done({"export", "pull"}) /\ reader.live /\ ~reader.witness.deleted
       => \A i \in reader.given : \E s \in reader.witness.seen : s[3] = i /\ s[1] = reader.label

\* A client that follows the cursor over a list that changes under it misses an entry
\* only if one was deleted meanwhile, and is given one twice only if one was added
\* (paginate).  Under a filter by status, an approval is a deletion.
PagesDrift ==
    Done({"page"}) =>
       /\ ~reader.witness.shrank => reader.witness.steady \subseteq reader.got
       /\ reader.repeated => reader.witness.grew

\* What stays in all the time is not reported as removed, when a version is compared
\* with the current one of a rule set (version_diff).
DiffKeepsKept ==
    Done({"diff"}) /\ reader.live /\ reader.kind = "rule_set"
       => reader.from \intersect reader.witness.kept \subseteq reader.to

\* The same of all datasets.  Does not hold: of the others, no entry is listed.
DiffKeepsKeptOfAll ==
    Done({"diff"}) /\ reader.live => reader.from \intersect reader.witness.kept \subseteq reader.to

\* What is given to others was in the dataset while it was open to them
\* (is_publicly_pullable).  Does not hold: it is withdrawn and edited after the check.
OthersSeePublished ==
    Done({"pull"}) /\ reader.foreign
       => \A i \in reader.given : \E s \in reader.witness.seen : s[3] = i /\ s[2]
=============================================================================
