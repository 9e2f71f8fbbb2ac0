--------------------------- MODULE EntryLedger ---------------------------
(***************************************************************************)
(* What entry governance promises a client that is alone with an entry:    *)
(* versions are created as drafts, edited until they freeze, moved along   *)
(* the lifecycle with one audit line per move, and discarded, with the     *)
(* audit of the entry, while the latest one is a draft.  Each is one step. *)
(***************************************************************************)
EXTENDS GovernanceRules

CONSTANTS Entries, Contents, MaxVersion, None

VARIABLES
    ledger,  \* ledger[e][v], the status and content of a version, or None
    trail    \* trail[e], the moves made, oldest first

vars == <<ledger, trail>>

Version == 1..MaxVersion

IsLatest(e, v) ==
    /\ ledger[e][v] # None
    /\ \A w \in Version : ledger[e][w] # None => w <= v

Init ==
    /\ ledger = [e \in Entries |-> [v \in Version |-> None]]
    /\ trail = [e \in Entries |-> <<>>]

Create(e, v, content) ==
    /\ ledger[e][v] = None
    /\ ledger' = [ledger EXCEPT ![e][v] = [status |-> "Draft", content |-> content]]
    /\ UNCHANGED trail

Edit(e, v, content) ==
    /\ ledger[e][v] # None
    /\ ~Frozen(ledger[e][v].status)
    /\ ledger' = [ledger EXCEPT ![e][v].content = content]
    /\ UNCHANGED trail

Advance(e, v, to) ==
    /\ ledger[e][v] # None
    /\ <<ledger[e][v].status, to>> \in EntryMoves
    /\ ledger' = [ledger EXCEPT ![e][v].status = to]
    /\ trail' = [trail EXCEPT ![e] =
         Append(@, [version |-> v, from |-> ledger[e][v].status, to |-> to])]

Discard(e) ==
    /\ \E v \in Version : ledger[e][v] # None
    /\ \A v \in Version : IsLatest(e, v) => ledger[e][v].status = "Draft"
    /\ ledger' = [ledger EXCEPT ![e] = [v \in Version |-> None]]
    /\ trail' = [trail EXCEPT ![e] = <<>>]

Next ==
    \E e \in Entries :
        \/ \E v \in Version, c \in Contents : Create(e, v, c) \/ Edit(e, v, c)
        \/ \E v \in Version, to \in LifecycleStatus : Advance(e, v, to)
        \/ Discard(e)

Spec == Init /\ [][Next]_vars
=============================================================================
