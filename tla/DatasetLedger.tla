-------------------------- MODULE DatasetLedger --------------------------
(***************************************************************************)
(* What dataset governance promises a client that is alone with a dataset: *)
(* a lifecycle that explains itself, publication of datasets whose entries *)
(* all pass the gate, versions that are archived as they were left, and    *)
(* metadata that changes nothing else.  Each operation is one step.        *)
(***************************************************************************)
EXTENDS GovernanceRules

CONSTANTS EntryIds, Contents, Notes, MaxVersion, None

VARIABLES
    dataset,  \* status, trail, version, note and deps, or None
    entries,  \* entries[e], content and barred, or None
    archive   \* archive[v], the contents version v was left with

vars == <<dataset, entries, archive>>

Version == 1..MaxVersion

Contained == [e \in EntryIds |-> IF entries[e] = None THEN None ELSE entries[e].content]

Empty == [v \in Version |-> [e \in EntryIds |-> None]]

Init ==
    /\ dataset = None
    /\ entries = [e \in EntryIds |-> None]
    /\ archive = Empty

Enter(to, cause, published) ==
    [dataset EXCEPT !.status = to,
       !.trail = Append(@, [from |-> dataset.status, to |-> to, cause |-> cause,
                            published |-> published])]

Create(note) ==
    /\ dataset = None
    /\ dataset' = [status |-> "Draft", trail |-> <<>>, version |-> 1, note |-> note, deps |-> note]
    /\ UNCHANGED <<entries, archive>>

Move(to) ==
    /\ <<dataset.status, to>> \in DatasetMoves
    /\ dataset' = Enter(to, "move", 0)
    /\ UNCHANGED <<entries, archive>>

Publish ==
    /\ Publishable(dataset.status)
    /\ \A e \in EntryIds : entries[e] # None => ~entries[e].barred
    /\ dataset' = Enter("Published", "publish", dataset.version)
    /\ UNCHANGED <<entries, archive>>

Unpublish ==
    /\ dataset.status = "Published"
    /\ dataset' = Enter("Rejected", "unpublish", 0)
    /\ UNCHANGED <<entries, archive>>

\* A version is left once: its archive was empty.
Bump ==
    /\ archive[dataset.version] = [e \in EntryIds |-> None]
    /\ dataset' = [Enter("Draft", "bump", 0) EXCEPT !.version = @ + 1]
    /\ archive' = [archive EXCEPT ![dataset.version] = Contained]
    /\ UNCHANGED entries

Annotate(field, note) ==
    /\ dataset' = [dataset EXCEPT ![field] = note]
    /\ UNCHANGED <<entries, archive>>

Delete ==
    /\ dataset.status \in {"Draft", "Rejected"}
    /\ dataset' = None
    /\ entries' = [e \in EntryIds |-> None]
    /\ archive' = Empty

Import ==
    /\ \E v \in Version, note \in Notes :
         dataset' =
           IF dataset = None
           THEN [status |-> "Active", version |-> v, note |-> note, deps |-> note,
                 trail |-> <<[from |-> "Draft", to |-> "Active", cause |-> "import",
                              published |-> 0]>>]
           ELSE [Enter("Active", "import", 0) EXCEPT !.version = v, !.note = note, !.deps = note]
    /\ \A e \in EntryIds : entries'[e] # None => ~entries'[e].barred
    /\ archive' = Empty

\* The entry API at work.
Edit ==
    /\ dataset # None
    /\ \E e \in EntryIds : \E entry \in [content : Contents, barred : BOOLEAN] \union {None} :
         entries' = [entries EXCEPT ![e] = entry]
    /\ UNCHANGED <<dataset, archive>>

Operate ==
    /\ dataset # None
    /\ \/ \E to \in LifecycleStatus : Move(to)
       \/ Publish \/ Unpublish \/ Bump \/ Delete
       \/ \E field \in {"note", "deps"}, note \in Notes : Annotate(field, note)

Next == (\E note \in Notes : Create(note)) \/ Operate \/ Import \/ Edit

Spec == Init /\ [][Next]_vars
=============================================================================
