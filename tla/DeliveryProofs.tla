--------------------------- MODULE DeliveryProofs ---------------------------
(***************************************************************************)
(* Theorems of Delivery for any number of entries, versions and writes and *)
(* any page size.  A reader and the store change in turn: a write changes  *)
(* the store and, of the reader, the witness; a step of the reader changes *)
(* the reader only.  So each part of the invariant is a relation between a *)
(* reader r and the rows rs, and has one lemma for a write (rs becomes     *)
(* another) and one for each step of a walk (r becomes another).           *)
(***************************************************************************)
EXTENDS Delivery, FiniteSetTheorems, TLAPS

RowSet == [content : Nat, approved : BOOLEAN]
Tables == [EntryIds -> Seq(RowSet)]
Items == [entry : EntryIds, version : Nat, row : RowSet]

Witnesses ==
    [ seen : SUBSET (Nat \X BOOLEAN \X Items), latest : SUBSET (EntryIds \X Nat),
      steady : SUBSET EntryIds, approved : SUBSET EntryIds, kept : SUBSET Nat,
      deleted : BOOLEAN, shrank : BOOLEAN, grew : BOOLEAN ]

Places ==
    {"pullable", "chain", "hits", "datasets", "listed", "own", "locate", "row", "archive",
     "list", "numbers", "read", "to", "done"}

Readers ==
    [ op : Ops, foreign : BOOLEAN, base : 1..MaxVersion, label : 1..MaxVersion,
      pc : Places, kind : DatasetKinds, live : BOOLEAN,
      todo : Seq(EntryIds \X Nat), found : Seq(Items), given : SUBSET Items,
      kept : SUBSET EntryIds, hits : SUBSET EntryIds, from : SUBSET Nat, to : SUBSET Nat,
      offset : Nat, got : SUBSET EntryIds, repeated : BOOLEAN, witness : Witnesses ]

Datasets == [kind : Kinds, public : BOOLEAN, published : BOOLEAN, version : 1..MaxVersion]

StoreInv ==
    /\ dataset # None => dataset \in Datasets
    /\ rows \in Tables
    /\ \A e \in EntryIds : Len(rows[e]) <= MaxEntryVersion
    /\ \A e \in EntryIds : \A v \in 1..Len(rows[e]) : rows[e][v].content < writes
    /\ archive \in [1..MaxVersion -> SUBSET Items]
    /\ writes \in 0..MaxWrites

-----------------------------------------------------------------------------
(* What a reader knows.                                                    *)

Newest(q) == q[Len(q)]
ItemOf(rs, e, v) == [entry |-> e, version |-> v, row |-> rs[e][v]]

\* Where each operation can be, and when an answer is not yet of the current version.
Placed(r) ==
    /\ r.pc = "pullable" => r.op \in {"pull", "page"}
    /\ r.pc = "chain"    => r.op \in {"export", "version", "diff"}
    /\ r.pc = "hits"     => r.op = "search"
    /\ r.pc \in {"datasets", "listed"} => r.op \in {"search", "browse", "discover"}
    /\ r.pc = "own"      => r.op = "entry"
    /\ r.pc = "locate"   => r.op \in {"versions", "payload", "entry_diff"}
    /\ r.pc = "row"      => r.op \in {"pull", "export"}
    /\ r.pc = "archive"  => r.op = "export" /\ ~r.live
    /\ r.pc = "list"     => r.op \in {"pull", "page", "export", "search", "diff"}
    /\ r.pc = "numbers"  => r.op = "versions" /\ \E e \in EntryIds : r.hits = {e}
    /\ r.pc = "read"     => r.op \notin {"version", "browse", "discover"}
    /\ r.pc = "to"       => r.op = "diff"
    /\ r.pc \in {"pullable", "chain", "hits", "datasets", "listed", "own", "locate"} => ~r.live
    /\ r.op = "page"     => ~r.live
    /\ r.pc \notin {"read", "to", "done"} /\ r.op # "page" => r.found = <<>>
    /\ r.pc # "done"     => r.given = {}

\* The witness w knows the rows rs as they are, in the version cur of a dataset that is open.
Knows(w, rs, cur, open) ==
    /\ \A e \in EntryIds : \A v \in 1..Len(rs[e]) : <<cur, open, ItemOf(rs, e, v)>> \in w.seen
    /\ \A e \in EntryIds : rs[e] # <<>> => <<e, Len(rs[e])>> \in w.latest
    /\ \A e \in w.steady : rs[e] # <<>>
    /\ \A e \in w.approved : rs[e] # <<>> /\ Newest(rs[e]).approved
    /\ \A c \in w.kept : \E e \in EntryIds : rs[e] # <<>> /\ Newest(rs[e]).content = c

\* Operations that look the latest version of each entry up.
Walks == {"export", "pull", "search", "page", "diff", "entry"}

ToRead(r) == {r.todo[k][1] : k \in DOMAIN r.todo}

\* A version that is to be read is there, and the latest, as far as the witness can tell.
TodoFits(r, rs) ==
    r.pc = "read" /\ r.op \in Walks \union {"versions"} =>
       \A k \in DOMAIN r.todo : r.todo[k][2] # 0 =>
          /\ \/ r.todo[k][1] \in r.witness.steady
             \/ ~r.witness.shrank
             \/ ~r.witness.grew /\ rs[r.todo[k][1]] # <<>>
             => r.todo[k][2] <= Len(rs[r.todo[k][1]])
          /\ r.op \in Walks => r.todo[k] \in r.witness.latest
          /\ r.op \in Walks /\ r.todo[k][1] \in r.witness.approved
               => r.todo[k][2] = Len(rs[r.todo[k][1]])

\* The version of the dataset that an export names has begun.
Labelled(r) == r.op \in {"export", "pull"} /\ r.live /\ ~r.witness.deleted

Begun(r, cur) == Labelled(r) => cur >= r.label

WasSeen(r, i) ==
    /\ \E s \in r.witness.seen : s[3] = i
    /\ Labelled(r) => \E s \in r.witness.seen : s[3] = i /\ s[1] >= r.label

FoundWasSeen(r) ==
    r.pc = "read" =>
       \A k \in DOMAIN r.found :
          /\ WasSeen(r, r.found[k])
          /\ r.op \in Walks => <<r.found[k].entry, r.found[k].version>> \in r.witness.latest

\* Of an export, what was there all the time is read or to be read, ...
NoneLost(r) ==
    r.pc = "read" /\ r.op \in {"export", "pull"} =>
       /\ \A e \in r.witness.steady :
            e \in ToRead(r) \/ \E k \in DOMAIN r.found : r.found[k].entry = e
       /\ \A e \in r.witness.approved :
            e \in ToRead(r) \/ \E k \in DOMAIN r.found : r.found[k].entry = e /\ r.found[k].row.approved

\* ... and of a search or a diff each entry that holds content that was there all the time.
NoContentLost(r, rs) ==
    r.pc = "read" /\ (r.op = "diff" => r.kind = "rule_set") /\ r.op \in {"search", "diff"} =>
       \A e \in EntryIds : rs[e] # <<>> /\ Newest(rs[e]).content \in r.witness.kept =>
          \/ \E k \in DOMAIN r.todo : r.todo[k][1] = e /\ r.todo[k][2] \in {0, Len(rs[e])}
          \/ \E k \in DOMAIN r.found :
               r.found[k].entry = e /\ r.found[k].row.content = Newest(rs[e]).content

KeptToCompare(r) ==
    r.pc = "to" /\ r.kind = "rule_set" =>
       \A c \in r.witness.kept : \E k \in DOMAIN r.found : r.found[k].row.content = c

\* The numbers of a history of n versions of e: those read, then those to be read.
Counted(r, e, n) ==
    /\ <<e, n>> \in r.witness.latest
    /\ Len(r.found) + Len(r.todo) = n
    /\ r.pc = "done" => r.todo = <<>>
    /\ \A k \in DOMAIN r.found : r.found[k].entry = e /\ r.found[k].version = k
    /\ \A k \in DOMAIN r.todo : r.todo[k] = <<e, Len(r.found) + k>>

Numbered(r) ==
    r.pc \in {"read", "done"} /\ r.op = "versions" =>
       \E e \in EntryIds :
          /\ r.hits = {e}
          /\ e \in r.witness.steady => \E n \in 1..MaxEntryVersion : Counted(r, e, n)

\* Two versions of an entry are read one after the other.
BothRead(r) == r.pc = "read" /\ r.op = "entry_diff" => Len(r.found) + Len(r.todo) = 2

\* What has been answered.
Answered(r) ==
    r.pc = "done" =>
       /\ r.op \in {"search", "entry", "versions"} \/ (r.op \in {"export", "pull"} /\ r.live)
            => \A i \in r.given : WasSeen(r, i)
       /\ r.op \in {"search", "entry"} \/ (r.op \in {"export", "pull"} /\ r.live)
            => \A i \in r.given : <<i.entry, i.version>> \in r.witness.latest
       /\ r.op \in {"export", "pull"} /\ r.live =>
            /\ r.kind # "mcp_servers"
                 => \A e \in r.witness.steady \intersect r.kept : \E i \in r.given : i.entry = e
            /\ \A e \in r.witness.approved \intersect r.kept : \E i \in r.given : i.entry = e
            /\ r.kind = "mcp_servers" => \A i \in r.given : i.row.approved
       /\ r.op = "search" /\ r.live /\ r.kind # "knowledge" =>
            \A c \in r.witness.kept \intersect Matching : \E i \in r.given : i.row.content = c
       /\ r.op = "diff" /\ r.live /\ r.kind = "rule_set" => r.witness.kept \subseteq r.to

-----------------------------------------------------------------------------
(* A write.                                                                *)

\* What a write makes of rows rs: entries go, come, get another version or new content, which
\* is c.
Grows(rs, rs2, c) ==
    \A e \in EntryIds :
       \/ rs2[e] = <<>>
       \/ /\ rs2[e] # <<>>
          /\ \/ rs[e] = <<>> /\ Newest(rs2[e]).content = c
             \/ /\ rs[e] # <<>> /\ Len(rs2[e]) = Len(rs[e])
                /\ Newest(rs2[e]).content \in {Newest(rs[e]).content, c}
             \/ /\ rs[e] # <<>> /\ Len(rs2[e]) = Len(rs[e]) + 1
                /\ Newest(rs2[e]).content = c /\ ~Newest(rs2[e]).approved

\* What it makes of a witness w.
Lives(w, w2, rs, rs2) ==
    /\ w \in Witnesses /\ w2 \in Witnesses
    /\ w.seen \subseteq w2.seen /\ w.latest \subseteq w2.latest
    /\ w2.steady \subseteq w.steady /\ w2.approved \subseteq w.approved
    /\ w2.kept \subseteq w.kept
    /\ w.deleted => w2.deleted
    /\ w.shrank => w2.shrank
    /\ w.grew => w2.grew
    /\ ~w2.shrank => \A e \in EntryIds : rs[e] # <<>> => rs2[e] # <<>>
    /\ ~w2.grew => \A e \in EntryIds : rs2[e] # <<>> => rs[e] # <<>>

LEMMA CurrentFacts ==
    /\ StoreInv => Current \in Nat /\ Open \in BOOLEAN
    /\ StoreInv' => Current' \in Nat /\ Open' \in BOOLEAN
  BY DEF StoreInv, Datasets, Current, Open

\* A witness that has lived through a step.
LEMMA LivedFacts ==
    ASSUME StoreInv, StoreInv', NEW w \in Witnesses
    PROVE  /\ Lives(w, Lived(w), rows, rows')
           /\ Knows(Lived(w), rows', Current', Open')
           /\ ~Lived(w).deleted => dataset' # None
  <1>1. Current' \in Nat /\ Open' \in BOOLEAN
    BY CurrentFacts
  <1>2. rows' \in Tables /\ rows \in Tables
    BY DEF StoreInv
  <1>3. \A e \in EntryIds : \A v \in 1..Len(rows'[e]) :
           /\ ItemOf(rows', e, v) \in Items
           /\ ItemOf(rows', e, v) \in AllItems'
    BY <1>2 DEF ItemOf, Items, AllItems, Item, Tables
  <1>4. AllItems' \subseteq Items
    BY <1>2 DEF Items, AllItems, Item, Tables
  <1>5. \A e \in EntryIds : /\ rows'[e] # <<>> <=> e \in Present'
                            /\ rows[e] # <<>> <=> e \in Present
    BY DEF Present
  <1>6. \A e \in EntryIds : rows'[e] # <<>> =>
           Len(rows'[e]) \in Nat \ {0} /\ Newest(rows'[e]) \in RowSet
    BY <1>2 DEF Tables, Newest
  <1>7. LatestItems' = {ItemOf(rows', e, Len(rows'[e])) : e \in Present'}
    BY DEF LatestItems, Item, ItemOf
  <1>8. \A i \in LatestItems' : i \in Items /\ rows'[i.entry] # <<>> /\ i.version = Len(rows'[i.entry])
                                /\ i.row = Newest(rows'[i.entry])
    <2>1. ASSUME NEW e \in Present'
          PROVE  LET i == ItemOf(rows', e, Len(rows'[e])) IN
                 /\ i \in Items /\ i.entry = e /\ i.version = Len(rows'[e]) /\ i.row = Newest(rows'[e])
                 /\ rows'[e] # <<>>
      <3>1. e \in EntryIds /\ rows'[e] # <<>>
        BY DEF Present
      <3>2. Len(rows'[e]) \in 1..Len(rows'[e])
        BY <1>6, <3>1
      <3> QED
        BY <1>3, <3>1, <3>2 DEF ItemOf, Newest
    <2> QED
      BY <1>7, <2>1
  <1>9. Lived(w) \in Witnesses
    BY <1>1, <1>4, <1>8 DEF Lived, Witnesses, Items, Contents
  <1>10. Lives(w, Lived(w), rows, rows')
    BY <1>5, <1>9 DEF Lives, Lived, Witnesses
  <1>11. Knows(Lived(w), rows', Current', Open')
    <2>1. \A e \in EntryIds : \A v \in 1..Len(rows'[e]) :
            <<Current', Open', ItemOf(rows', e, v)>> \in Lived(w).seen
      BY <1>3 DEF Lived
    <2>2. \A e \in EntryIds : rows'[e] # <<>> => <<e, Len(rows'[e])>> \in Lived(w).latest
      <3>1. ASSUME NEW e \in EntryIds, rows'[e] # <<>>
            PROVE  \E i \in LatestItems' : i.entry = e /\ i.version = Len(rows'[e])
        <4>1. ItemOf(rows', e, Len(rows'[e])) \in LatestItems'
          BY <1>5, <1>7, <3>1
        <4> QED
          BY <4>1 DEF ItemOf
      <3> QED
        BY <3>1 DEF Lived
    <2>3. \A e \in Lived(w).steady : rows'[e] # <<>>
      BY <1>5, <1>9 DEF Lived, Witnesses, Present
    <2>4. \A e \in Lived(w).approved : rows'[e] # <<>> /\ Newest(rows'[e]).approved
      BY <1>8 DEF Lived, Approved
    <2>5. \A c \in Lived(w).kept : \E e \in EntryIds : rows'[e] # <<>> /\ Newest(rows'[e]).content = c
      BY <1>8 DEF Lived, Contents, Items
    <2> QED
      BY <2>1, <2>2, <2>3, <2>4, <2>5 DEF Knows
  <1>12. ~Lived(w).deleted => dataset' # None
    BY DEF Lived
  <1> QED
    BY <1>10, <1>11, <1>12
\* Nothing of what a witness is asked about an item is forgotten.
LEMMA StillSeen ==
    ASSUME NEW r \in Readers, NEW w2, NEW rs, NEW rs2, Lives(r.witness, w2, rs, rs2),
           NEW r2, r2 = [r EXCEPT !.witness = w2], NEW i, WasSeen(r, i)
    PROVE  WasSeen(r2, i)
  BY DEF Readers, Lives, WasSeen, Labelled

\* A write leaves a reader where it is.
LEMMA WitnessOnly ==
    ASSUME NEW r \in Readers, NEW w2 \in Witnesses, NEW r2, r2 = [r EXCEPT !.witness = w2]
    PROVE  /\ r2 \in Readers /\ r2.witness = w2
           /\ r2.op = r.op /\ r2.pc = r.pc /\ r2.label = r.label /\ r2.kind = r.kind
           /\ r2.live = r.live /\ r2.todo = r.todo /\ r2.found = r.found /\ r2.given = r.given
           /\ r2.kept = r.kept /\ r2.hits = r.hits /\ r2.from = r.from /\ r2.to = r.to
           /\ r2.offset = r.offset /\ r2.got = r.got /\ r2.repeated = r.repeated
           /\ (Placed(r) => Placed(r2)) /\ (BothRead(r) => BothRead(r2))
  BY DEF Readers, Placed, BothRead

LEMMA WriteKeepsTodo ==
    ASSUME NEW r \in Readers, NEW w2, NEW rs \in Tables, NEW rs2 \in Tables, NEW c,
           Lives(r.witness, w2, rs, rs2), Grows(rs, rs2, c),
           NEW cur, NEW open, Knows(r.witness, rs, cur, open),
           NEW cur2, NEW open2, Knows(w2, rs2, cur2, open2),
           NEW r2, r2 = [r EXCEPT !.witness = w2], TodoFits(r, rs)
    PROVE  TodoFits(r2, rs2)
  <1>1. /\ r2.pc = r.pc /\ r2.op = r.op /\ r2.todo = r.todo /\ r2.witness = w2
    BY WitnessOnly DEF Lives
  <1> SUFFICES ASSUME r.pc = "read", r.op \in Walks \union {"versions"},
                      NEW k \in DOMAIN r.todo, r.todo[k][2] # 0
               PROVE  /\ \/ r.todo[k][1] \in w2.steady
                         \/ ~w2.shrank
                         \/ ~w2.grew /\ rs2[r.todo[k][1]] # <<>>
                         => r.todo[k][2] <= Len(rs2[r.todo[k][1]])
                      /\ r.op \in Walks => r.todo[k] \in w2.latest
                      /\ r.op \in Walks /\ r.todo[k][1] \in w2.approved
                           => r.todo[k][2] = Len(rs2[r.todo[k][1]])
    BY <1>1 DEF TodoFits
  <1>2. PICK e \in EntryIds, v \in Nat : r.todo[k] = <<e, v>> /\ v # 0
    BY DEF Readers
  <1>3. Len(rs[e]) \in Nat /\ Len(rs2[e]) \in Nat
    BY DEF Tables
  <1>4. (rs[e] = <<>> => Len(rs[e]) = 0) /\ (rs2[e] = <<>> => Len(rs2[e]) = 0)
    OBVIOUS
  <1>5. /\ e \in r.witness.steady \/ ~r.witness.shrank \/ (~r.witness.grew /\ rs[e] # <<>>)
             => v <= Len(rs[e])
        /\ r.op \in Walks => <<e, v>> \in r.witness.latest
        /\ r.op \in Walks /\ e \in r.witness.approved => v = Len(rs[e])
    BY <1>2 DEF TodoFits
  <1>6. \/ rs2[e] = <<>>
        \/ rs2[e] # <<>> /\ rs[e] = <<>>
        \/ rs2[e] # <<>> /\ rs[e] # <<>> /\ Len(rs2[e]) = Len(rs[e])
        \/ rs2[e] # <<>> /\ rs[e] # <<>> /\ Len(rs2[e]) = Len(rs[e]) + 1 /\ ~Newest(rs2[e]).approved
    BY DEF Grows
  <1>7. e \in w2.steady \/ ~w2.shrank \/ (~w2.grew /\ rs2[e] # <<>>) => v <= Len(rs2[e])
    <2>1. CASE e \in w2.steady
      BY <1>3, <1>5, <1>6, <2>1 DEF Lives, Knows
    <2>2. CASE ~w2.shrank
      <3>1. v <= Len(rs[e])
        BY <1>5, <2>2 DEF Lives
      <3>2. rs[e] # <<>> => rs2[e] # <<>>
        BY <2>2 DEF Lives
      <3> QED
        BY <1>2, <1>3, <1>4, <1>6, <3>1, <3>2
    <2>3. CASE ~w2.grew /\ rs2[e] # <<>>
      <3>1. rs[e] # <<>> /\ v <= Len(rs[e])
        BY <1>5, <2>3 DEF Lives
      <3> QED
        BY <1>3, <1>6, <2>3, <3>1
    <2> QED
      BY <2>1, <2>2, <2>3
  <1>8. r.op \in Walks => <<e, v>> \in w2.latest
    BY <1>5 DEF Lives
  <1>9. r.op \in Walks /\ e \in w2.approved => v = Len(rs2[e])
    BY <1>5, <1>6 DEF Lives, Knows
  <1> QED
    BY <1>2, <1>7, <1>8, <1>9

LEMMA WriteKeepsFound ==
    ASSUME NEW r \in Readers, NEW w2, NEW rs, NEW rs2, Lives(r.witness, w2, rs, rs2),
           NEW r2, r2 = [r EXCEPT !.witness = w2], FoundWasSeen(r)
    PROVE  FoundWasSeen(r2)
  <1>1. r2.pc = r.pc /\ r2.op = r.op /\ r2.found = r.found /\ r2.witness = w2
    BY WitnessOnly DEF Lives
  <1>2. \A i : WasSeen(r, i) => WasSeen(r2, i)
    BY StillSeen
  <1> QED
    BY <1>1, <1>2 DEF FoundWasSeen, Lives

LEMMA WriteLosesNone ==
    ASSUME NEW r \in Readers, NEW w2, NEW rs, NEW rs2, Lives(r.witness, w2, rs, rs2),
           NEW r2, r2 = [r EXCEPT !.witness = w2], NoneLost(r)
    PROVE  NoneLost(r2)
  <1>1. r2.pc = r.pc /\ r2.op = r.op /\ r2.found = r.found /\ r2.todo = r.todo /\ r2.witness = w2
    BY WitnessOnly DEF Lives
  <1> QED
    BY <1>1 DEF NoneLost, ToRead, Lives

LEMMA WriteLosesNoContent ==
    ASSUME NEW r \in Readers, NEW w2, NEW rs \in Tables, NEW rs2 \in Tables, NEW c,
           Lives(r.witness, w2, rs, rs2), Grows(rs, rs2, c), c \notin r.witness.kept,
           NEW r2, r2 = [r EXCEPT !.witness = w2], NoContentLost(r, rs)
    PROVE  NoContentLost(r2, rs2)
  <1>1. /\ r2.pc = r.pc /\ r2.op = r.op /\ r2.found = r.found /\ r2.todo = r.todo
        /\ r2.kind = r.kind /\ r2.witness = w2
    BY WitnessOnly DEF Lives
  <1> SUFFICES ASSUME r.pc = "read", r.op = "diff" => r.kind = "rule_set",
                      r.op \in {"search", "diff"},
                      NEW e \in EntryIds, rs2[e] # <<>>, Newest(rs2[e]).content \in w2.kept
               PROVE  \/ \E k \in DOMAIN r.todo : r.todo[k][1] = e /\ r.todo[k][2] \in {0, Len(rs2[e])}
                      \/ \E k \in DOMAIN r.found :
                           r.found[k].entry = e /\ r.found[k].row.content = Newest(rs2[e]).content
    BY <1>1 DEF NoContentLost
  <1>2. Newest(rs2[e]).content \in r.witness.kept /\ Newest(rs2[e]).content # c
    BY DEF Lives
  <1>3. rs[e] # <<>> /\ Len(rs2[e]) = Len(rs[e]) /\ Newest(rs2[e]).content = Newest(rs[e]).content
    BY <1>2 DEF Grows
  <1> QED
    BY <1>2, <1>3 DEF NoContentLost

LEMMA WriteKeepsRest ==
    ASSUME NEW r \in Readers, NEW w2, NEW rs, NEW rs2, Lives(r.witness, w2, rs, rs2),
           NEW r2, r2 = [r EXCEPT !.witness = w2]
    PROVE  /\ KeptToCompare(r) => KeptToCompare(r2)
           /\ Numbered(r) => Numbered(r2)
           /\ Answered(r) => Answered(r2)
  <1>1. /\ r2.pc = r.pc /\ r2.op = r.op /\ r2.found = r.found /\ r2.todo = r.todo
        /\ r2.kind = r.kind /\ r2.hits = r.hits /\ r2.live = r.live /\ r2.given = r.given
        /\ r2.kept = r.kept /\ r2.to = r.to /\ r2.witness = w2
    BY WitnessOnly DEF Lives
  <1>2. \A i : WasSeen(r, i) => WasSeen(r2, i)
    BY StillSeen
  <1>3. KeptToCompare(r) => KeptToCompare(r2)
    BY <1>1 DEF KeptToCompare, Lives
  <1>4. ASSUME Numbered(r), r.pc \in {"read", "done"}, r.op = "versions" PROVE Numbered(r2)
    <2>1. PICK e \in EntryIds :
            /\ r.hits = {e}
            /\ e \in r.witness.steady => \E n \in 1..MaxEntryVersion : Counted(r, e, n)
      BY <1>4 DEF Numbered
    <2>2. e \in w2.steady => e \in r.witness.steady
      BY DEF Lives
    <2>3. \A n \in 1..MaxEntryVersion : Counted(r, e, n) => Counted(r2, e, n)
      <3> SUFFICES ASSUME NEW n \in 1..MaxEntryVersion, Counted(r, e, n) PROVE Counted(r2, e, n)
        OBVIOUS
      <3>1. <<e, n>> \in w2.latest
        BY DEF Counted, Lives
      <3> QED
        BY <1>1, <3>1 DEF Counted
    <2> QED
      BY <1>1, <2>1, <2>2, <2>3 DEF Numbered
  <1>4a. ~(r.pc \in {"read", "done"} /\ r.op = "versions") => Numbered(r2)
    BY <1>1 DEF Numbered
  <1>5. ASSUME Answered(r), r.pc = "done" PROVE Answered(r2)
    <2>1. r.op \in {"search", "entry", "versions"} \/ (r.op \in {"export", "pull"} /\ r.live)
            => \A i \in r.given : WasSeen(r2, i)
      BY <1>2, <1>5 DEF Answered
    <2>2. r.op \in {"search", "entry"} \/ (r.op \in {"export", "pull"} /\ r.live)
            => \A i \in r.given : <<i.entry, i.version>> \in w2.latest
      BY <1>5 DEF Answered, Lives
    <2>3. r.op \in {"export", "pull"} /\ r.live =>
            /\ r.kind # "mcp_servers"
                 => \A e \in w2.steady \intersect r.kept : \E i \in r.given : i.entry = e
            /\ \A e \in w2.approved \intersect r.kept : \E i \in r.given : i.entry = e
            /\ r.kind = "mcp_servers" => \A i \in r.given : i.row.approved
      BY <1>5 DEF Answered, Lives
    <2>4. r.op = "search" /\ r.live /\ r.kind # "knowledge" =>
            \A c \in w2.kept \intersect Matching : \E i \in r.given : i.row.content = c
      BY <1>5 DEF Answered, Lives
    <2>5. r.op = "diff" /\ r.live /\ r.kind = "rule_set" => w2.kept \subseteq r.to
      BY <1>5 DEF Answered, Lives
    <2> HIDE DEF WasSeen
    <2> QED
      BY <1>1, <2>1, <2>2, <2>3, <2>4, <2>5 DEF Answered
  <1>6. r.pc # "done" => Answered(r2)
    BY <1>1 DEF Answered
  <1> QED
    BY <1>3, <1>4, <1>4a, <1>5, <1>6
-----------------------------------------------------------------------------
(* Pages: how many entries there are before one.                           *)

Below(S, x) == {y \in S : y < x}
UpTo(S, x) == {y \in S : y <= x}

LEMMA CountsOrdered ==
    ASSUME NEW T \in SUBSET EntryIds, NEW S \in SUBSET T, NEW x \in EntryIds
    PROVE  /\ Cardinality(Below(S, x)) \in Nat /\ Cardinality(Below(T, x)) \in Nat
           /\ Cardinality(Below(S, x)) <= Cardinality(Below(T, x))
           /\ Cardinality(UpTo(S, x)) \in Nat /\ Cardinality(UpTo(T, x)) \in Nat
           /\ Cardinality(UpTo(S, x)) <= Cardinality(UpTo(T, x))
  <1>1. x \in Nat /\ T \subseteq Nat
    BY DeliveryAssumption
  <1>2. IsFiniteSet(0..x)
    BY <1>1, FS_Interval
  <1>3. Below(T, x) \in SUBSET (0..x) /\ UpTo(T, x) \in SUBSET (0..x)
    <2>1. \A y \in T : y <= x => y \in 0..x
      BY <1>1
    <2>2. \A y \in T : y < x => y <= x
      BY <1>1
    <2>3. Below(T, x) \subseteq 0..x /\ UpTo(T, x) \subseteq 0..x
      BY <2>1, <2>2 DEF Below, UpTo
    <2> QED
      BY <2>3
  <1>4. IsFiniteSet(Below(T, x)) /\ IsFiniteSet(UpTo(T, x))
    BY <1>2, <1>3, FS_Subset
  <1>5. Below(S, x) \in SUBSET Below(T, x) /\ UpTo(S, x) \in SUBSET UpTo(T, x)
    BY DEF Below, UpTo
  <1>6. IsFiniteSet(Below(S, x)) /\ IsFiniteSet(UpTo(S, x))
    BY <1>4, <1>5, FS_Subset
  <1> QED
    BY <1>4, <1>5, <1>6, FS_Subset, FS_CardinalityType

\* In a rising sequence the elements up to the one at place j are those at the places to j.
LEMMA CountsInLine ==
    ASSUME NEW n \in Nat, NEW q \in [1..n -> EntryIds],
           \A i, j \in 1..n : i < j => q[i] < q[j],
           NEW j \in 1..n
    PROVE  LET S == {q[i] : i \in 1..n} IN
           Cardinality(Below(S, q[j])) = j - 1 /\ Cardinality(UpTo(S, q[j])) = j
  <1> DEFINE S == {q[i] : i \in 1..n}
  <1>1. \A i \in 1..n : q[i] \in Nat
    BY DeliveryAssumption
  <1>2. \A i, k \in 1..n : (q[i] < q[k] <=> i < k) /\ (q[i] <= q[k] <=> i <= k) /\ (q[i] = q[k] => i = k)
    BY <1>1
  <1>3. ASSUME NEW m \in 0..n
        PROVE  Cardinality({q[i] : i \in 1..m}) = m
    <2> DEFINE f == [i \in 1..m |-> q[i]]
               T == {q[i] : i \in 1..m}
    <2>1. f \in Injection(1..m, T) /\ f \in Surjection(1..m, T)
      BY <1>2 DEF Injection, Surjection, IsInjective
    <2>2. m \in Nat /\ IsFiniteSet(1..m) /\ Cardinality(1..m) = m
      BY FS_Interval
    <2>3. ExistsBijection(1..m, T)
      BY <2>1 DEF ExistsBijection, Bijection
    <2> HIDE DEF f, T
    <2>4. Cardinality(T) = m
      BY <2>2, <2>3, FS_CountingElements
    <2> QED
      BY <2>4 DEF T
  <1>4. Below(S, q[j]) = {q[i] : i \in 1..(j-1)}
    BY <1>2 DEF Below
  <1>5. UpTo(S, q[j]) = {q[i] : i \in 1..j}
    BY <1>2 DEF UpTo
  <1>6. Cardinality({q[i] : i \in 1..(j-1)}) = j - 1
    <2>1. j - 1 \in 0..n
      OBVIOUS
    <2> QED
      BY <1>3, <2>1
  <1>7. Cardinality({q[i] : i \in 1..j}) = j
    <2>1. j \in 0..n
      OBVIOUS
    <2> QED
      BY <1>3, <2>1
  <1> QED
    BY <1>4, <1>5, <1>6, <1>7

There(rs) == {e \in EntryIds : rs[e] # <<>>}

Listed(r) == ToRead(r) \union {r.found[k].entry : k \in DOMAIN r.found}

\* What is read, then what is to be read, in rising order.
InLine(r) ==
    /\ \A i, j \in DOMAIN r.found : i < j => r.found[i].entry < r.found[j].entry
    /\ \A i, j \in DOMAIN r.todo : i < j => r.todo[i][1] < r.todo[j][1]
    /\ \A i \in DOMAIN r.found, j \in DOMAIN r.todo : r.found[i].entry < r.todo[j][1]

\* A set S of entries against the pages so far: if nothing went, what was missed is not
\* among the first offset of them; if nothing came, what was given is.
PagesFit(r, S) ==
    /\ ~r.witness.shrank =>
         \A e \in r.witness.steady \ r.got : Cardinality(Below(S, e)) >= r.offset
    /\ ~r.witness.grew => \A x \in r.got \intersect S : Cardinality(UpTo(S, x)) <= r.offset

\* The entries of a list are those that are there, if nothing went or nothing came.
ListFits(r, S) ==
    /\ ~r.witness.shrank => Listed(r) \subseteq S /\ r.witness.steady \subseteq Listed(r)
    /\ ~r.witness.grew => S \subseteq Listed(r)

Paging(r, rs) ==
    r.op = "page" =>
       /\ r.repeated => r.witness.grew
       /\ r.pc = "done" /\ ~r.witness.shrank => r.witness.steady \subseteq r.got
       /\ r.pc \in {"pullable", "list"} => PagesFit(r, There(rs))
       /\ r.pc = "read" => InLine(r) /\ PagesFit(r, Listed(r)) /\ ListFits(r, There(rs))

LEMMA WriteKeepsPages ==
    ASSUME NEW r \in Readers, NEW w2, NEW rs, NEW rs2, Lives(r.witness, w2, rs, rs2),
           NEW r2, r2 = [r EXCEPT !.witness = w2], Paging(r, rs)
    PROVE  Paging(r2, rs2)
  <1>1. /\ r2.pc = r.pc /\ r2.op = r.op /\ r2.found = r.found /\ r2.todo = r.todo
        /\ r2.offset = r.offset /\ r2.got = r.got /\ r2.repeated = r.repeated /\ r2.witness = w2
    BY WitnessOnly DEF Lives
  <1> DEFINE S == There(rs)
             S2 == There(rs2)
  <1>2. S \subseteq EntryIds /\ S2 \subseteq EntryIds
    BY DEF There
  <1>3. (~w2.shrank => S \subseteq S2) /\ (~w2.grew => S2 \subseteq S)
    BY DEF Lives, There
  <1>4. /\ w2.steady \subseteq r.witness.steady /\ r.witness.steady \subseteq EntryIds
        /\ r.got \subseteq EntryIds /\ r.offset \in Nat
        /\ ~w2.shrank => ~r.witness.shrank
        /\ ~w2.grew => ~r.witness.grew
    BY DEF Lives, Witnesses, Readers
  <1> HIDE DEF S, S2
  <1>5. ASSUME r.op = "page", r.pc \in {"pullable", "list"} PROVE PagesFit(r2, S2)
    <2>1. PagesFit(r, S)
      BY <1>5 DEF Paging, S
    <2>2. ASSUME ~w2.shrank, NEW e \in w2.steady \ r.got PROVE Cardinality(Below(S2, e)) >= r.offset
      <3>1. Cardinality(Below(S, e)) >= r.offset
        BY <1>4, <2>1, <2>2 DEF PagesFit
      <3>2. /\ Cardinality(Below(S, e)) <= Cardinality(Below(S2, e))
            /\ Cardinality(Below(S, e)) \in Nat /\ Cardinality(Below(S2, e)) \in Nat
        BY <1>2, <1>3, <1>4, <2>2, CountsOrdered
      <3> QED
        BY <1>4, <3>1, <3>2
    <2>3. ASSUME ~w2.grew, NEW x \in r.got \intersect S2 PROVE Cardinality(UpTo(S2, x)) <= r.offset
      <3>1. Cardinality(UpTo(S, x)) <= r.offset
        BY <1>3, <1>4, <2>1, <2>3 DEF PagesFit
      <3>2. /\ Cardinality(UpTo(S2, x)) <= Cardinality(UpTo(S, x))
            /\ Cardinality(UpTo(S2, x)) \in Nat /\ Cardinality(UpTo(S, x)) \in Nat
        BY <1>2, <1>3, <1>4, <2>3, CountsOrdered
      <3> QED
        BY <1>4, <3>1, <3>2
    <2> QED
      BY <1>1, <2>2, <2>3 DEF PagesFit
  <1>6. ASSUME r.op = "page", r.pc = "read"
        PROVE  InLine(r2) /\ PagesFit(r2, Listed(r2)) /\ ListFits(r2, S2)
    <2>1. Listed(r2) = Listed(r)
      BY <1>1 DEF Listed, ToRead
    <2>2. InLine(r) /\ PagesFit(r, Listed(r)) /\ ListFits(r, S)
      BY <1>6 DEF Paging, S
    <2>3. InLine(r2)
      BY <1>1, <2>2 DEF InLine
    <2>4. PagesFit(r2, Listed(r2))
      BY <1>1, <1>4, <2>1, <2>2 DEF PagesFit
    <2>5. ListFits(r2, S2)
      BY <1>1, <1>3, <1>4, <2>1, <2>2 DEF ListFits
    <2> QED
      BY <2>3, <2>4, <2>5
  <1>7. r.op = "page" => /\ r.repeated => w2.grew
                         /\ r.pc = "done" /\ ~w2.shrank => w2.steady \subseteq r.got
    BY <1>4 DEF Paging, Lives
  <1> QED
    BY <1>1, <1>5, <1>6, <1>7 DEF Paging, S2
-----------------------------------------------------------------------------
(* The invariant, and the writers.                                         *)

Good(r, rs, cur, open) ==
    /\ r \in Readers /\ Placed(r) /\ BothRead(r)
    /\ Knows(r.witness, rs, cur, open) /\ Begun(r, cur)
    /\ TodoFits(r, rs) /\ FoundWasSeen(r)
    /\ NoneLost(r) /\ NoContentLost(r, rs) /\ KeptToCompare(r)
    /\ Numbered(r) /\ Answered(r) /\ Paging(r, rs)

ReaderInv == reader # None => Good(reader, rows, Current, Open)

DeliveryInv == StoreInv /\ ReaderInv

\* The newest row is one of the rows.
LEMMA NewestFacts ==
    ASSUME NEW q \in Seq(RowSet), q # <<>>
    PROVE  Len(q) \in Nat /\ Len(q) \in 1..Len(q) /\ Newest(q) = q[Len(q)] /\ Newest(q) \in RowSet
  BY DEF Newest

\* A write keeps what a reader knows, if it is one to the rows and the dataset goes on.
LEMMA WriteKeeps ==
    ASSUME DeliveryInv, StoreInv', Seen, Grows(rows, rows', writes),
           dataset # None /\ dataset' # None => dataset'.version >= dataset.version
    PROVE  ReaderInv'
  <1> SUFFICES ASSUME reader' # None PROVE Good(reader', rows', Current', Open')
    BY DEF ReaderInv
  <1>1. reader # None /\ reader' = [reader EXCEPT !.witness = Lived(reader.witness)]
    BY DEF Seen
  <1>2. StoreInv /\ Good(reader, rows, Current, Open)
    BY <1>1 DEF DeliveryInv, ReaderInv
  <1>3. PICK r \in Readers : r = reader
    BY <1>2 DEF Good
  <1>4. r.witness \in Witnesses
    BY DEF Readers
  <1>5. /\ Lives(r.witness, Lived(r.witness), rows, rows')
        /\ Knows(Lived(r.witness), rows', Current', Open')
        /\ ~Lived(r.witness).deleted => dataset' # None
    BY <1>2, <1>4, LivedFacts
  <1>6. PICK w2 \in Witnesses : w2 = Lived(r.witness)
    BY <1>5 DEF Lives
  <1>7. PICK r2 : r2 = [r EXCEPT !.witness = w2]
    OBVIOUS
  <1>8. reader' = r2
    BY <1>1, <1>3, <1>6, <1>7
  <1>9. Lives(r.witness, w2, rows, rows') /\ Knows(w2, rows', Current', Open')
    BY <1>5, <1>6
  <1>10. Good(r, rows, Current, Open)
    BY <1>2, <1>3
  <1>11. rows \in Tables /\ rows' \in Tables
    BY <1>2 DEF StoreInv
  <1>12. writes \notin r.witness.kept
    <2> SUFFICES ASSUME writes \in r.witness.kept PROVE FALSE
      OBVIOUS
    <2>1. PICK e \in EntryIds : rows[e] # <<>> /\ Newest(rows[e]).content = writes
      BY <1>10 DEF Good, Knows
    <2>2. rows[e] \in Seq(RowSet)
      BY <1>11 DEF Tables
    <2>3. Newest(rows[e]).content < writes
      BY <1>2, <2>1, <2>2, NewestFacts DEF StoreInv
    <2> QED
      BY <1>2, <2>1, <2>3 DEF StoreInv
  <1>13. /\ r2 \in Readers /\ r2.witness = w2 /\ r2.op = r.op /\ r2.live = r.live
         /\ r2.label = r.label /\ Placed(r2) /\ BothRead(r2)
    BY <1>7, <1>10, WitnessOnly DEF Good
  <1>14. Begun(r2, Current')
    <2> SUFFICES ASSUME Labelled(r2) PROVE Current' >= r2.label
      BY DEF Begun
    <2>1. Labelled(r) /\ ~w2.deleted
      BY <1>9, <1>13 DEF Labelled, Lives
    <2>2. Current >= r.label /\ r.label \in 1..MaxVersion
      BY <1>10, <2>1 DEF Good, Begun, Readers
    <2>3. dataset # None /\ dataset' # None
      BY <1>5, <1>6, <2>1, <2>2 DEF Current
    <2>4. Current' >= Current /\ Current' \in Nat /\ Current \in Nat
      BY <1>2, <2>3, CurrentFacts DEF Current
    <2> QED
      BY <1>13, <2>2, <2>4
  <1>15. TodoFits(r2, rows')
    BY <1>7, <1>9, <1>10, <1>11, WriteKeepsTodo DEF Good
  <1>16. FoundWasSeen(r2) /\ NoneLost(r2)
    BY <1>7, <1>9, <1>10, WriteKeepsFound, WriteLosesNone DEF Good
  <1>17. NoContentLost(r2, rows')
    BY <1>7, <1>9, <1>10, <1>11, <1>12, WriteLosesNoContent DEF Good
  <1>18. KeptToCompare(r2) /\ Numbered(r2) /\ Answered(r2)
    BY <1>7, <1>9, <1>10, WriteKeepsRest DEF Good
  <1>19. Paging(r2, rows')
    BY <1>7, <1>9, <1>10, WriteKeepsPages DEF Good
  <1> QED
    BY <1>8, <1>9, <1>13, <1>14, <1>15, <1>16, <1>17, <1>18, <1>19 DEF Good

\* Rows as they were are a case of growing.
LEMMA NothingGrows == ASSUME NEW rs, NEW c PROVE Grows(rs, rs, c)
  BY DEF Grows

\* One entry changes.
LEMMA OneGrows ==
    ASSUME NEW rs \in Tables, NEW e \in EntryIds, NEW q, NEW c,
           \/ q = <<>>
           \/ q # <<>> /\ rs[e] = <<>> /\ Newest(q).content = c
           \/ q # <<>> /\ rs[e] # <<>> /\ Len(q) = Len(rs[e])
              /\ Newest(q).content \in {Newest(rs[e]).content, c}
           \/ q # <<>> /\ rs[e] # <<>> /\ Len(q) = Len(rs[e]) + 1
              /\ Newest(q).content = c /\ ~Newest(q).approved
    PROVE  Grows(rs, [rs EXCEPT ![e] = q], c)
  BY DEF Grows, Tables

\* The rows of one entry change, in the numbers of writes.
LEMMA OneKeepsStore ==
    ASSUME StoreInv, NEW e \in EntryIds, NEW q \in Seq(RowSet), Len(q) <= MaxEntryVersion,
           \A v \in 1..Len(q) : q[v].content <= writes,
           Write, rows' = [rows EXCEPT ![e] = q], UNCHANGED <<dataset, archive>>
    PROVE  StoreInv'
  <1>1. \A g \in EntryIds : rows'[g] = IF g = e THEN q ELSE rows[g]
    BY DEF StoreInv, Tables
  <1>2. rows' \in Tables
    BY DEF StoreInv, Tables
  <1>3. \A g \in EntryIds : Len(rows'[g]) <= MaxEntryVersion
    BY <1>1 DEF StoreInv
  <1>4. writes' = writes + 1 /\ writes \in Nat /\ writes' \in 0..MaxWrites
    BY DeliveryAssumption DEF Write, StoreInv
  <1>5. ASSUME NEW g \in EntryIds, NEW v \in 1..Len(rows'[g]) PROVE rows'[g][v].content < writes'
    <2>1. rows'[g] \in Seq(RowSet)
      BY <1>2 DEF Tables
    <2>1a. rows'[g][v] \in RowSet
      BY <2>1
    <2>2. rows'[g][v].content \in Nat
      BY <2>1a DEF RowSet
    <2>3. rows'[g][v].content <= writes
      <3>1. CASE g = e
        BY <1>1, <1>5, <3>1
      <3>2. CASE g # e
        BY <1>1, <1>4, <1>5, <2>2, <3>2 DEF StoreInv
      <3> QED
        BY <3>1, <3>2
    <2> QED
      BY <1>4, <2>2, <2>3
  <1> QED
    BY <1>2, <1>3, <1>4, <1>5 DEF StoreInv
\* A row of a sequence is replaced, or one is added.
LEMMA ReplacedFacts ==
    ASSUME NEW q \in Seq(RowSet), NEW v \in DOMAIN q, NEW x \in RowSet
    PROVE  LET p == [q EXCEPT ![v] = x] IN
           /\ p \in Seq(RowSet) /\ Len(p) = Len(q) /\ q # <<>> /\ p # <<>>
           /\ \A k \in 1..Len(q) : p[k] = IF k = v THEN x ELSE q[k]
  <1> DEFINE p == [q EXCEPT ![v] = x]
  <1>1. q \in [1..Len(q) -> RowSet] /\ Len(q) \in Nat /\ v \in 1..Len(q)
    OBVIOUS
  <1>2. p \in [1..Len(q) -> RowSet]
    BY <1>1
  <1>3. p \in Seq(RowSet) /\ Len(p) = Len(q)
    BY <1>1, <1>2
  <1>4. q # <<>> /\ p # <<>>
    BY <1>1, <1>3
  <1> QED
    BY <1>1, <1>3, <1>4

LEMMA AppendedFacts ==
    ASSUME NEW q \in Seq(RowSet), NEW x \in RowSet
    PROVE  LET p == Append(q, x) IN
           /\ p \in Seq(RowSet) /\ Len(p) = Len(q) + 1 /\ p # <<>> /\ Newest(p) = x
           /\ \A k \in 1..Len(p) : p[k] = IF k = Len(q) + 1 THEN x ELSE q[k]
  BY DEF Newest

LEMMA LatestTyped ==
    ASSUME StoreInv PROVE LatestItems \subseteq Items
  <1> SUFFICES ASSUME NEW e \in Present PROVE Item(e, Len(rows[e])) \in Items
    BY DEF LatestItems
  <1>1. e \in EntryIds /\ rows[e] # <<>> /\ rows[e] \in Seq(RowSet)
    BY DEF Present, StoreInv, Tables
  <1>2. Len(rows[e]) \in Nat /\ rows[e][Len(rows[e])] \in RowSet
    BY <1>1, NewestFacts
  <1> QED
    BY <1>1, <1>2 DEF Item, Items

LEMMA OneMore ==
    ASSUME StoreInv, Write
    PROVE  writes' = writes + 1 /\ writes \in Nat /\ writes' \in 0..MaxWrites
  BY DeliveryAssumption DEF Write, StoreInv

\* The row of the dataset is written.
LEMMA DatasetKeeps ==
    ASSUME DeliveryInv, CreateDataset \/ PublishDataset \/ SetVisibility \/ NewDatasetVersion
    PROVE  DeliveryInv'
  <1>1. StoreInv /\ Write /\ Seen /\ rows' = rows
    BY DEF DeliveryInv, CreateDataset, PublishDataset, SetVisibility, NewDatasetVersion
  <1>1a. archive' \in [1..MaxVersion -> SUBSET Items]
    <2>1. CASE NewDatasetVersion
      BY <1>1, <2>1, LatestTyped DEF NewDatasetVersion, StoreInv
    <2>2. CASE ~NewDatasetVersion
      BY <1>1, <2>2 DEF CreateDataset, PublishDataset, SetVisibility, StoreInv
    <2> QED
      BY <2>1, <2>2
  <1>2. dataset' # None => dataset' \in Datasets
    <2>1. CASE CreateDataset
      BY <2>1, DeliveryAssumption DEF CreateDataset, Datasets
    <2>2. CASE PublishDataset \/ SetVisibility
      BY <1>1, <2>2 DEF PublishDataset, SetVisibility, StoreInv, Datasets
    <2>3. CASE NewDatasetVersion
      <3>1. dataset \in Datasets /\ dataset.version \in 1..MaxVersion
        BY <1>1, <2>3 DEF NewDatasetVersion, StoreInv, Datasets
      <3>2. dataset.version + 1 \in 1..MaxVersion
        BY <2>3, <3>1, DeliveryAssumption DEF NewDatasetVersion
      <3> QED
        BY <2>3, <3>1, <3>2 DEF NewDatasetVersion, Datasets
    <2> QED
      BY <2>1, <2>2, <2>3
  <1>3. dataset # None /\ dataset' # None => dataset'.version >= dataset.version
    <2>1. CASE CreateDataset
      BY <2>1 DEF CreateDataset
    <2>2. CASE PublishDataset \/ SetVisibility
      BY <1>1, <2>2 DEF PublishDataset, SetVisibility, StoreInv, Datasets
    <2>3. CASE NewDatasetVersion
      BY <1>1, <2>3 DEF NewDatasetVersion, StoreInv, Datasets
    <2> QED
      BY <2>1, <2>2, <2>3
  <1>4. StoreInv'
    <2>1. \A e \in EntryIds : \A v \in 1..Len(rows'[e]) : rows'[e][v].content < writes'
      <3> SUFFICES ASSUME NEW e \in EntryIds, NEW v \in 1..Len(rows[e])
                   PROVE  rows[e][v].content < writes + 1
        BY <1>1, OneMore
      <3>1. rows[e] \in Seq(RowSet) /\ rows[e][v].content < writes
        BY <1>1 DEF StoreInv, Tables
      <3>2. rows[e][v] \in RowSet
        BY <3>1
      <3>3. rows[e][v].content \in Nat
        BY <3>2 DEF RowSet
      <3> QED
        BY <1>1, <3>1, <3>3, OneMore
    <2> QED
      BY <1>1, <1>1a, <1>2, <2>1, OneMore DEF StoreInv
  <1>5. Grows(rows, rows', writes)
    BY <1>1, NothingGrows
  <1> QED
    BY <1>1, <1>3, <1>4, <1>5, WriteKeeps DEF DeliveryInv

\* The dataset is deleted, with all that is in it.
LEMMA DeletionKeeps ==
    ASSUME DeliveryInv, DeleteDataset PROVE DeliveryInv'
  <1>1. StoreInv /\ Write /\ Seen /\ dataset' = None
        /\ rows' = [e \in EntryIds |-> <<>>] /\ archive' = [v \in 1..MaxVersion |-> {}]
    BY DEF DeliveryInv, DeleteDataset
  <1>2. <<>> \in Seq(RowSet) /\ Len(<<>>) = 0
    OBVIOUS
  <1>3. rows' \in Tables /\ \A e \in EntryIds : rows'[e] = <<>>
    BY <1>1, <1>2 DEF Tables
  <1>4. StoreInv'
    BY <1>1, <1>2, <1>3, OneMore, DeliveryAssumption DEF StoreInv
  <1>5. Grows(rows, rows', writes)
    BY <1>3 DEF Grows
  <1> QED
    BY <1>1, <1>4, <1>5, WriteKeeps DEF DeliveryInv

\* Entries are imported.
LEMMA ImportKeeps ==
    ASSUME DeliveryInv, NEW S \in SUBSET EntryIds, ImportKnowledge(S) PROVE DeliveryInv'
  <1>1. StoreInv /\ Write /\ Seen /\ dataset' = dataset /\ archive' = archive
        /\ rows' = [e \in EntryIds |-> IF e \in S THEN <<Row(writes)>> ELSE rows[e]]
        /\ \A e \in S : rows[e] = <<>>
    BY DEF DeliveryInv, ImportKnowledge, Importable
  <1>2. Row(writes) \in RowSet /\ Row(writes).content = writes
    BY <1>1, OneMore DEF Row, RowSet
  <1> DEFINE q == <<Row(writes)>>
  <1>3. q \in Seq(RowSet) /\ Len(q) = 1 /\ q # <<>> /\ q[1] = Row(writes) /\ Newest(q) = Row(writes)
    BY <1>2 DEF Newest
  <1> HIDE DEF q
  <1>4. \A e \in EntryIds : rows'[e] = IF e \in S THEN q ELSE rows[e]
    BY <1>1 DEF q
  <1>5. rows' \in Tables
    BY <1>1, <1>3 DEF StoreInv, Tables, q
  <1>6. \A e \in EntryIds : Len(rows'[e]) <= MaxEntryVersion
    BY <1>1, <1>3, <1>4, DeliveryAssumption DEF StoreInv
  <1>7. ASSUME NEW e \in EntryIds, NEW v \in 1..Len(rows'[e]) PROVE rows'[e][v].content < writes'
    <2>1. CASE e \in S
      <3>1. v = 1 /\ rows'[e][v] = Row(writes)
        BY <1>3, <1>4, <1>7, <2>1
      <3> QED
        BY <1>1, <1>2, <3>1, OneMore
    <2>2. CASE e \notin S
      <3>1. rows'[e] = rows[e] /\ rows[e] \in Seq(RowSet) /\ rows[e][v].content < writes
        BY <1>1, <1>4, <1>7, <2>2 DEF StoreInv, Tables
      <3>2. rows[e][v] \in RowSet
        BY <1>7, <3>1
      <3>3. rows[e][v].content \in Nat
        BY <3>2 DEF RowSet
      <3> QED
        BY <1>1, <3>1, <3>3, OneMore
    <2> QED
      BY <2>1, <2>2
  <1>8. StoreInv'
    BY <1>1, <1>5, <1>6, <1>7, OneMore DEF StoreInv, Datasets
  <1>9. Grows(rows, rows', writes)
    BY <1>1, <1>2, <1>3, <1>4 DEF Grows
  <1>10. dataset # None /\ dataset' # None => dataset'.version >= dataset.version
    BY <1>1 DEF StoreInv, Datasets
  <1> QED
    BY <1>1, <1>8, <1>9, <1>10, WriteKeeps DEF DeliveryInv

\* The rows of one entry are written.
LEMMA RowsKeep ==
    ASSUME DeliveryInv, NEW e \in EntryIds, NEW v,
           NewEntryVersion(e) \/ DeleteEntry(e) \/ EditEntry(e, v) \/ ApproveEntry(e, v)
    PROVE  DeliveryInv'
  <1>1. StoreInv /\ Write /\ Seen /\ dataset' = dataset /\ archive' = archive
    BY DEF DeliveryInv, NewEntryVersion, DeleteEntry, EditEntry, ApproveEntry
  <1>2. rows \in Tables /\ rows[e] \in Seq(RowSet) /\ Len(rows[e]) \in Nat
        /\ Len(rows[e]) <= MaxEntryVersion /\ writes \in Nat
    BY <1>1, OneMore DEF StoreInv, Tables
  <1>3. \A k \in 1..Len(rows[e]) : rows[e][k] \in RowSet /\ rows[e][k].content <= writes
    <2> SUFFICES ASSUME NEW k \in 1..Len(rows[e])
                 PROVE  rows[e][k] \in RowSet /\ rows[e][k].content <= writes
      OBVIOUS
    <2>1. rows[e][k] \in RowSet
      BY <1>2
    <2>2. rows[e][k].content \in Nat
      BY <2>1 DEF RowSet
    <2>3. rows[e][k].content < writes
      BY <1>1 DEF StoreInv
    <2> QED
      BY <1>2, <2>1, <2>2, <2>3
  <1> DEFINE Fits(q) ==
        /\ q \in Seq(RowSet) /\ Len(q) <= MaxEntryVersion
        /\ \A k \in 1..Len(q) : q[k].content <= writes
        /\ \/ q = <<>>
           \/ q # <<>> /\ rows[e] = <<>> /\ Newest(q).content = writes
           \/ q # <<>> /\ rows[e] # <<>> /\ Len(q) = Len(rows[e])
              /\ Newest(q).content \in {Newest(rows[e]).content, writes}
           \/ q # <<>> /\ rows[e] # <<>> /\ Len(q) = Len(rows[e]) + 1
              /\ Newest(q).content = writes /\ ~Newest(q).approved
  <1>4. ASSUME NEW q, Fits(q), rows' = [rows EXCEPT ![e] = q] PROVE DeliveryInv'
    <2>1. StoreInv'
      BY <1>1, <1>4, OneKeepsStore
    <2>2. Grows(rows, rows', writes)
      BY <1>2, <1>4, OneGrows
    <2>3. dataset # None /\ dataset' # None => dataset'.version >= dataset.version
      BY <1>1 DEF StoreInv, Datasets
    <2> QED
      BY <1>1, <2>1, <2>2, <2>3, WriteKeeps DEF DeliveryInv
  <1>5. CASE NewEntryVersion(e)
    <2> DEFINE q == Append(rows[e], Row(writes))
    <2>1. Row(writes) \in RowSet /\ Row(writes).content = writes /\ ~Row(writes).approved
      BY <1>2 DEF Row, RowSet
    <2>2. /\ q \in Seq(RowSet) /\ Len(q) = Len(rows[e]) + 1 /\ q # <<>> /\ Newest(q) = Row(writes)
          /\ \A k \in 1..Len(q) : q[k] = IF k = Len(rows[e]) + 1 THEN Row(writes) ELSE rows[e][k]
      BY <1>2, <2>1, AppendedFacts
    <2>3. rows' = [rows EXCEPT ![e] = q] /\ Len(rows[e]) < MaxEntryVersion
      BY <1>5 DEF NewEntryVersion
    <2> HIDE DEF q
    <2>4. \A k \in 1..Len(q) : q[k].content <= writes
      <3> SUFFICES ASSUME NEW k \in 1..Len(q) PROVE q[k].content <= writes
        OBVIOUS
      <3>1. CASE k = Len(rows[e]) + 1
        BY <1>2, <2>1, <2>2, <3>1
      <3>2. CASE k # Len(rows[e]) + 1
        BY <1>2, <1>3, <2>2, <3>2
      <3> QED
        BY <3>1, <3>2
    <2>5. Fits(q)
      BY <1>2, <2>1, <2>2, <2>3, <2>4, DeliveryAssumption
    <2> HIDE DEF Fits
    <2> QED
      BY <1>4, <2>3, <2>5
  <1>6. CASE DeleteEntry(e)
    <2>1. Fits(<<>>)
      BY DeliveryAssumption
    <2> HIDE DEF Fits
    <2> QED
      BY <1>4, <1>6, <2>1 DEF DeleteEntry
  <1>7. ASSUME NEW x, v \in DOMAIN rows[e], x \in RowSet, x.content \in {rows[e][v].content, writes},
               rows' = [rows EXCEPT ![e] = [rows[e] EXCEPT ![v] = x]]
        PROVE  DeliveryInv'
    <2> DEFINE q == [rows[e] EXCEPT ![v] = x]
    <2>1. /\ q \in Seq(RowSet) /\ Len(q) = Len(rows[e]) /\ rows[e] # <<>> /\ q # <<>>
          /\ \A k \in 1..Len(rows[e]) : q[k] = IF k = v THEN x ELSE rows[e][k]
      BY <1>2, <1>7, ReplacedFacts
    <2>2. Len(rows[e]) \in 1..Len(rows[e]) /\ v \in 1..Len(rows[e])
      BY <1>2, <1>7, <2>1
    <2> HIDE DEF q
    <2>3. \A k \in 1..Len(q) : q[k].content <= writes
      BY <1>2, <1>3, <1>7, <2>1, <2>2
    <2>4. Newest(q).content \in {Newest(rows[e]).content, writes}
      BY <1>7, <2>1, <2>2 DEF Newest
    <2>5. Fits(q)
      BY <1>2, <2>1, <2>3, <2>4
    <2> HIDE DEF Fits
    <2> QED
      BY <1>4, <1>7, <2>5 DEF q
  <1>8. CASE EditEntry(e, v)
    <2> DEFINE x == [rows[e][v] EXCEPT !.content = writes]
    <2>1. v \in DOMAIN rows[e] /\ rows[e][v] \in RowSet
      BY <1>2, <1>3, <1>8 DEF EditEntry
    <2>2. x \in RowSet /\ x.content = writes
      BY <1>2, <2>1 DEF RowSet
    <2>3. rows' = [rows EXCEPT ![e] = [rows[e] EXCEPT ![v] = x]]
      BY <1>2, <1>8 DEF EditEntry, Tables
    <2> HIDE DEF x
    <2> QED
      BY <1>7, <2>1, <2>2, <2>3
  <1>9. CASE ApproveEntry(e, v)
    <2> DEFINE x == [rows[e][v] EXCEPT !.approved = TRUE]
    <2>1. v \in DOMAIN rows[e] /\ rows[e][v] \in RowSet
      BY <1>2, <1>3, <1>9 DEF ApproveEntry
    <2>2. x \in RowSet /\ x.content = rows[e][v].content
      BY <1>2, <2>1 DEF RowSet
    <2>3. rows' = [rows EXCEPT ![e] = [rows[e] EXCEPT ![v] = x]]
      BY <1>2, <1>9 DEF ApproveEntry, Tables
    <2> HIDE DEF x
    <2> QED
      BY <1>7, <2>1, <2>2, <2>3
  <1> QED
    BY <1>5, <1>6, <1>8, <1>9
-----------------------------------------------------------------------------
(* The steps of a reader.                                                  *)

\* A step of the reader is good if the reader it leaves is.
LEMMA ReaderMoves ==
    ASSUME DeliveryInv, NEW n, Goes(n), n # None => Good(n, rows, Current, Open)
    PROVE  DeliveryInv'
  <1>1. reader' = n /\ dataset' = dataset /\ rows' = rows /\ archive' = archive /\ writes' = writes
    BY DEF Goes
  <1>2. Current' = Current /\ Open' = Open
    BY <1>1 DEF Current, Open
  <1>3. StoreInv'
    BY <1>1 DEF DeliveryInv, StoreInv, Datasets
  <1>4. ReaderInv'
    BY <1>1, <1>2 DEF ReaderInv
  <1> QED
    BY <1>3, <1>4 DEF DeliveryInv

LEMMA ReaderFacts ==
    ASSUME DeliveryInv, reader # None
    PROVE  StoreInv /\ reader \in Readers /\ Good(reader, rows, Current, Open) /\ Current \in Nat
  BY CurrentFacts DEF DeliveryInv, ReaderInv, Good

\* A step that neither reads an entry nor answers.
LEMMA Moved ==
    ASSUME NEW r, NEW n \in Readers, NEW rs, NEW cur, NEW open, Good(r, rs, cur, open),
           n.op = r.op, n.witness = r.witness, n.pc \notin {"read", "to", "done"},
           Placed(n), Begun(n, cur), Paging(n, rs)
    PROVE  Good(n, rs, cur, open)
  BY DEF Good, BothRead, TodoFits, FoundWasSeen, NoneLost, NoContentLost, KeptToCompare, Numbered,
         Answered

\* Nothing is answered.
LEMMA Ended ==
    ASSUME NEW r, NEW n \in Readers, NEW rs, NEW cur, NEW open, Good(r, rs, cur, open),
           n.op = r.op, n.witness = r.witness, n.pc = "done", n.given = {},
           n.op \in {"browse", "discover", "version"} \/ (n.op = "search" /\ ~n.live),
           Placed(n)
    PROVE  Good(n, rs, cur, open)
  BY DEF Good, BothRead, TodoFits, FoundWasSeen, NoneLost, NoContentLost, KeptToCompare, Numbered,
         Answered, Begun, Labelled, Paging

LEMMA PullableKeeps == ASSUME DeliveryInv, CheckPullable PROVE DeliveryInv'
  <1>1. reader # None /\ reader.pc = "pullable"
    BY DEF CheckPullable, At
  <1>2. PICK r \in Readers : r = reader
    BY <1>1, ReaderFacts
  <1>3. Good(r, rows, Current, Open) /\ r.pc = "pullable" /\ Placed(r)
    BY <1>1, <1>2, ReaderFacts DEF Good
  <1>4. Goes(None) \/ Goes([r EXCEPT !.pc = IF r.op = "pull" THEN "row" ELSE "list"])
    BY <1>2 DEF CheckPullable, Refused
  <1>5. PICK n : n = [r EXCEPT !.pc = IF r.op = "pull" THEN "row" ELSE "list"]
    OBVIOUS
  <1>6. /\ n \in Readers /\ n.op = r.op /\ n.witness = r.witness /\ n.live = r.live /\ n.label = r.label
        /\ n.pc = (IF r.op = "pull" THEN "row" ELSE "list") /\ n.found = r.found /\ n.given = r.given
        /\ n.offset = r.offset /\ n.got = r.got /\ n.repeated = r.repeated
    BY <1>5, ZenonT(60) DEF Readers, Places
  <1>7. Placed(n)
    BY <1>3, <1>6 DEF Placed
  <1>8. Begun(n, Current)
    BY <1>3, <1>6 DEF Good, Begun, Labelled
  <1>9. Paging(n, rows)
    BY <1>3, <1>6 DEF Good, Paging, PagesFit
  <1>10. Good(n, rows, Current, Open)
    BY <1>3, <1>6, <1>7, <1>8, <1>9, Moved
  <1> QED
    BY <1>4, <1>5, <1>10, ReaderMoves

LEMMA ChainKeeps == ASSUME DeliveryInv, CheckChain PROVE DeliveryInv'
  <1>1. reader # None /\ reader.pc = "chain"
    BY DEF CheckChain, At
  <1>2. PICK r \in Readers : r = reader
    BY <1>1, ReaderFacts
  <1>3. StoreInv /\ Good(r, rows, Current, Open) /\ r.pc = "chain" /\ Placed(r) /\ Current \in Nat
    BY <1>1, <1>2, ReaderFacts DEF Good
  <1> DEFINE live == r.label = Current
             pc == CASE r.op = "diff"    -> "list"
                     [] r.op = "version" -> "done"
                     [] OTHER -> IF live THEN "row" ELSE "archive"
  <1>4. Goes(None) \/ (dataset # None
                        /\ Goes([r EXCEPT !.live = live, !.kind = dataset.kind, !.pc = pc]))
    BY <1>2 DEF CheckChain, Refused, Readers
  <1>4a. /\ live \in BOOLEAN /\ (live => r.label = Current)
         /\ r.op = "version" => pc = "done"
         /\ r.op = "diff" => pc = "list"
         /\ r.op = "export" => pc = "row" \/ (pc = "archive" /\ ~live)
    OBVIOUS
  <1> HIDE DEF live, pc
  <1>5. ASSUME dataset # None, NEW n, n = [r EXCEPT !.live = live, !.kind = dataset.kind, !.pc = pc]
        PROVE  Good(n, rows, Current, Open)
    <2>1. dataset.kind \in DatasetKinds
      BY <1>3, <1>5, DeliveryAssumption DEF StoreInv, Datasets
    <2>2. r.op \in {"export", "version", "diff"}
      BY <1>3 DEF Placed
    <2>3. /\ n \in Readers /\ n.op = r.op /\ n.witness = r.witness /\ n.live = live /\ n.label = r.label
          /\ n.pc = pc /\ n.found = r.found /\ n.given = r.given
      BY <1>4a, <1>5, <2>1, <2>2, ZenonT(60) DEF Readers, Places
    <2>4. Placed(n)
      BY <1>3, <1>4a, <2>2, <2>3 DEF Placed
    <2>5. Begun(n, Current)
      BY <1>3, <1>4a, <2>3 DEF Begun, Labelled
    <2>6. Paging(n, rows)
      BY <2>2, <2>3 DEF Paging
    <2>7. CASE r.op = "version"
      <3>1. n.given = {} /\ n.pc = "done" /\ n.op = "version"
        BY <1>3, <1>4a, <2>3, <2>7 DEF Placed
      <3>2. n.op \in {"browse", "discover", "version"} \/ (n.op = "search" /\ ~n.live)
        BY <3>1
      <3> QED
        BY <1>3, <2>3, <2>4, <3>1, <3>2, Ended
    <2>8. CASE r.op # "version"
      <3>1. n.pc \notin {"read", "to", "done"}
        BY <1>4a, <2>2, <2>3, <2>8
      <3> QED
        BY <1>3, <2>3, <2>4, <2>5, <2>6, <3>1, Moved
    <2> QED
      BY <2>7, <2>8
  <1> QED
    BY <1>4, <1>5, ReaderMoves

LEMMA DatasetReadKeeps == ASSUME DeliveryInv, ReadDataset PROVE DeliveryInv'
  <1>1. reader # None /\ reader.pc = "row"
    BY DEF ReadDataset, At
  <1>2. PICK r \in Readers : r = reader
    BY <1>1, ReaderFacts
  <1>3. StoreInv /\ Good(r, rows, Current, Open) /\ r.pc = "row" /\ Placed(r) /\ Current \in Nat
    BY <1>1, <1>2, ReaderFacts DEF Good
  <1>4. Goes(None) \/ (dataset # None /\ Goes([r EXCEPT !.label = Current, !.kind = dataset.kind,
                                                        !.live = TRUE, !.pc = "list"]))
    BY <1>2 DEF ReadDataset, Refused
  <1>5. ASSUME dataset # None, NEW n,
               n = [r EXCEPT !.label = Current, !.kind = dataset.kind, !.live = TRUE, !.pc = "list"]
        PROVE  Good(n, rows, Current, Open)
    <2>1. dataset.kind \in DatasetKinds /\ Current \in 1..MaxVersion
      BY <1>3, <1>5, DeliveryAssumption DEF StoreInv, Datasets, Current
    <2>2. r.op \in {"export", "pull"}
      BY <1>3 DEF Placed
    <2>3. /\ n \in Readers /\ n.op = r.op /\ n.witness = r.witness /\ n.live /\ n.label = Current
          /\ n.pc = "list" /\ n.found = r.found /\ n.given = r.given
      BY <1>5, <2>1 DEF Readers, Places
    <2>4. Placed(n)
      BY <1>3, <2>2, <2>3 DEF Placed
    <2>5. Begun(n, Current)
      BY <1>3, <2>3 DEF Begun
    <2>6. Paging(n, rows)
      BY <2>2, <2>3 DEF Paging
    <2> QED
      BY <1>3, <2>3, <2>4, <2>5, <2>6, Moved
  <1> QED
    BY <1>4, <1>5, ReaderMoves

LEMMA HitsKeep == ASSUME DeliveryInv, FindHits PROVE DeliveryInv'
  <1>1. reader # None /\ reader.pc = "hits"
    BY DEF FindHits, At
  <1>2. PICK r \in Readers : r = reader
    BY <1>1, ReaderFacts
  <1>3. StoreInv /\ Good(r, rows, Current, Open) /\ r.pc = "hits" /\ Placed(r) /\ Current \in Nat
    BY <1>1, <1>2, ReaderFacts DEF Good
  <1> DEFINE matched == {i.entry : i \in {j \in LatestItems : Matches(j.row)}}
  <1>4. matched \subseteq EntryIds
    BY <1>3, LatestTyped DEF Items
  <1>5. \E H \in SUBSET matched :
          \/ Goes([r EXCEPT !.hits = H, !.kind = "knowledge", !.pc = "datasets"])
          \/ Goes([r EXCEPT !.pc = "datasets"])
    BY <1>2 DEF FindHits
  <1> HIDE DEF matched
  <1>6. PICK H \in SUBSET EntryIds :
          \/ Goes([r EXCEPT !.hits = H, !.kind = "knowledge", !.pc = "datasets"])
          \/ Goes([r EXCEPT !.pc = "datasets"])
    BY <1>4, <1>5
  <1>7. ASSUME NEW n, n \in {[r EXCEPT !.hits = H, !.kind = "knowledge", !.pc = "datasets"],
                             [r EXCEPT !.pc = "datasets"]}
        PROVE  Good(n, rows, Current, Open)
    <2>1. /\ n \in Readers /\ n.op = r.op /\ n.witness = r.witness /\ n.live = r.live
          /\ n.label = r.label /\ n.pc = "datasets" /\ n.found = r.found /\ n.given = r.given
      <3>1. CASE n = [r EXCEPT !.hits = H, !.kind = "knowledge", !.pc = "datasets"]
        BY <3>1, ZenonT(60) DEF Readers, Places, DatasetKinds
      <3>2. CASE n = [r EXCEPT !.pc = "datasets"]
        BY <3>2, ZenonT(60) DEF Readers, Places
      <3> QED
        BY <1>7, <3>1, <3>2
    <2>2. n.op = "search" /\ Placed(n)
      BY <1>3, <2>1 DEF Placed
    <2>3. Begun(n, Current) /\ Paging(n, rows)
      BY <2>2 DEF Begun, Labelled, Paging
    <2> QED
      BY <1>3, <2>1, <2>2, <2>3, Moved
  <1> QED
    BY <1>6, <1>7, ReaderMoves

LEMMA DatasetsKeep == ASSUME DeliveryInv, ListDatasets PROVE DeliveryInv'
  <1>1. reader # None /\ reader.pc = "datasets"
    BY DEF ListDatasets, At
  <1>2. PICK r \in Readers : r = reader
    BY <1>1, ReaderFacts
  <1>3. Good(r, rows, Current, Open) /\ r.pc = "datasets" /\ Placed(r) /\ Current \in Nat
    BY <1>1, <1>2, ReaderFacts DEF Good
  <1>4. \E pc \in {"done", "listed"} : Goes([r EXCEPT !.pc = pc])
    BY <1>2 DEF ListDatasets
  <1>5. ASSUME NEW pc \in {"done", "listed"}, NEW n, n = [r EXCEPT !.pc = pc]
        PROVE  Good(n, rows, Current, Open)
    <2>1. /\ n \in Readers /\ n.op = r.op /\ n.witness = r.witness /\ n.live = r.live
          /\ n.label = r.label /\ n.pc = pc /\ n.found = r.found /\ n.given = r.given
      BY <1>5 DEF Readers, Places
    <2>2. n.op \in {"search", "browse", "discover"} /\ ~n.live /\ n.given = {} /\ Placed(n)
      BY <1>3, <2>1 DEF Placed
    <2>3. Begun(n, Current) /\ Paging(n, rows)
      BY <2>2 DEF Begun, Labelled, Paging
    <2>4. n.op \in {"browse", "discover", "version"} \/ (n.op = "search" /\ ~n.live)
      BY <2>2
    <2>5. CASE pc = "done"
      BY <1>3, <2>1, <2>2, <2>4, <2>5, Ended
    <2>6. CASE pc = "listed"
      <3>1. n.pc \notin {"read", "to", "done"}
        BY <2>1, <2>6
      <3> QED
        BY <1>3, <2>1, <2>2, <2>3, <3>1, Moved
    <2> QED
      BY <2>5, <2>6
  <1> QED
    BY <1>4, <1>5, ReaderMoves

LEMMA ListedKeeps == ASSUME DeliveryInv, ReadListed PROVE DeliveryInv'
  <1>1. reader # None /\ reader.pc = "listed"
    BY DEF ReadListed, At
  <1>2. PICK r \in Readers : r = reader
    BY <1>1, ReaderFacts
  <1>3. Good(r, rows, Current, Open) /\ r.pc = "listed" /\ Placed(r) /\ Current \in Nat
    BY <1>1, <1>2, ReaderFacts DEF Good
  <1>4. Goes(None) \/ \E live \in BOOLEAN :
           Goes([r EXCEPT !.live = live, !.pc = IF r.op = "search" THEN "list" ELSE "done"])
    BY <1>2 DEF ReadListed, Refused
  <1>5. ASSUME NEW live \in BOOLEAN, NEW n,
               n = [r EXCEPT !.live = live, !.pc = IF r.op = "search" THEN "list" ELSE "done"]
        PROVE  Good(n, rows, Current, Open)
    <2>0. PICK pc \in {"list", "done"} : pc = IF r.op = "search" THEN "list" ELSE "done"
      OBVIOUS
    <2>0a. n = [r EXCEPT !.live = live, !.pc = pc]
      BY <1>5, <2>0
    <2>1. /\ n \in Readers /\ n.op = r.op /\ n.witness = r.witness
          /\ n.pc = pc /\ n.found = r.found /\ n.given = r.given
      BY <2>0a, ZenonT(60) DEF Readers, Places
    <2>2. n.op \in {"search", "browse", "discover"} /\ n.given = {} /\ Placed(n)
      BY <1>3, <2>0, <2>1 DEF Placed
    <2>3. Begun(n, Current) /\ Paging(n, rows)
      BY <2>2 DEF Begun, Labelled, Paging
    <2>4. CASE r.op = "search"
      <3>1. n.pc \notin {"read", "to", "done"}
        BY <2>0, <2>1, <2>4
      <3> QED
        BY <1>3, <2>1, <2>2, <2>3, <3>1, Moved
    <2>5. CASE r.op # "search"
      <3>1. n.pc = "done" /\ n.op \in {"browse", "discover", "version"}
        BY <2>0, <2>1, <2>2, <2>5
      <3> QED
        BY <1>3, <2>1, <2>2, <3>1, Ended
    <2> QED
      BY <2>4, <2>5
  <1> QED
    BY <1>4, <1>5, ReaderMoves

\* A reader that begins to read.
LEMMA Begins ==
    ASSUME NEW r, NEW n \in Readers, NEW rs, NEW cur, NEW open, Good(r, rs, cur, open),
           n.op = r.op, n.witness = r.witness, n.live = r.live, n.label = r.label,
           n.pc = "read", n.found = <<>>, Placed(n),
           TodoFits(n, rs), NoneLost(n), NoContentLost(n, rs), Numbered(n), BothRead(n),
           Paging(n, rs)
    PROVE  Good(n, rs, cur, open)
  BY DEF Good, Begun, Labelled, FoundWasSeen, KeptToCompare, Answered

LEMMA OwnKeeps == ASSUME DeliveryInv, NEW e \in EntryIds, CheckOwn(e) PROVE DeliveryInv'
  <1>1. reader # None /\ reader.pc = "own"
    BY DEF CheckOwn, At
  <1>2. PICK r \in Readers : r = reader
    BY <1>1, ReaderFacts
  <1>3. Good(r, rows, Current, Open) /\ r.pc = "own" /\ Placed(r)
    BY <1>1, <1>2, ReaderFacts DEF Good
  <1>4. Goes(None) \/ Goes([r EXCEPT !.todo = <<<<e, 0>>>>, !.pc = "read"])
    BY <1>2 DEF CheckOwn, Refused
  <1>5. ASSUME NEW n, n = [r EXCEPT !.todo = <<<<e, 0>>>>, !.pc = "read"]
        PROVE  Good(n, rows, Current, Open)
    <2> DEFINE q == <<<<e, 0>>>>
    <2>1. q \in Seq(EntryIds \X Nat) /\ DOMAIN q = {1} /\ q[1][2] = 0
      OBVIOUS
    <2> HIDE DEF q
    <2>2. /\ n \in Readers /\ n.op = r.op /\ n.witness = r.witness /\ n.live = r.live
          /\ n.label = r.label /\ n.pc = "read" /\ n.found = r.found /\ n.given = r.given
          /\ n.todo = q
      BY <1>5, <2>1 DEF Readers, Places, q
    <2>3. n.op = "entry" /\ n.found = <<>> /\ Placed(n)
      BY <1>3, <2>2 DEF Placed
    <2>4. TodoFits(n, rows)
      BY <2>1, <2>2 DEF TodoFits
    <2>5. /\ NoneLost(n) /\ NoContentLost(n, rows) /\ Numbered(n) /\ BothRead(n)
          /\ Paging(n, rows)
      BY <2>3 DEF NoneLost, NoContentLost, Numbered, BothRead, Paging
    <2> QED
      BY <1>3, <2>2, <2>3, <2>4, <2>5, Begins
  <1> QED
    BY <1>4, <1>5, ReaderMoves

LEMMA OneOrTwo ==
    ASSUME NEW S, NEW a \in S, NEW b \in S
    PROVE  /\ <<a>> \o <<b>> \in Seq(S) /\ Len(<<a>> \o <<b>>) = 2
           /\ <<>> \o <<b>> \in Seq(S) /\ Len(<<>> \o <<b>>) = 1
  OBVIOUS

LEMMA LocationKeeps == ASSUME DeliveryInv, NEW e \in EntryIds, LocateEntry(e) PROVE DeliveryInv'
  <1>1. reader # None /\ reader.pc = "locate"
    BY DEF LocateEntry, At
  <1>2. PICK r \in Readers : r = reader
    BY <1>1, ReaderFacts
  <1>3. Good(r, rows, Current, Open) /\ r.pc = "locate" /\ Placed(r)
    BY <1>1, <1>2, ReaderFacts DEF Good
  <1> DEFINE q == (IF r.op = "entry_diff" THEN <<<<e, r.base>>>> ELSE <<>>) \o <<<<e, r.label>>>>
  <1>4. \/ Goes(None)
        \/ r.op = "versions" /\ Goes([r EXCEPT !.hits = {e}, !.pc = "numbers"])
        \/ r.op # "versions" /\ Goes([r EXCEPT !.todo = q, !.pc = "read"])
    BY <1>2 DEF LocateEntry, Refused, Wanted
  <1>5. ASSUME r.op = "versions", NEW n, n = [r EXCEPT !.hits = {e}, !.pc = "numbers"]
        PROVE  Good(n, rows, Current, Open)
    <2>1. /\ n \in Readers /\ n.op = r.op /\ n.witness = r.witness /\ n.live = r.live
          /\ n.pc = "numbers" /\ n.found = r.found /\ n.given = r.given /\ n.hits = {e}
      BY <1>5 DEF Readers, Places
    <2>2. Placed(n)
      BY <1>3, <1>5, <2>1 DEF Placed
    <2>3. Begun(n, Current) /\ Paging(n, rows)
      BY <1>5, <2>1 DEF Begun, Labelled, Paging
    <2> QED
      BY <1>3, <2>1, <2>2, <2>3, Moved
  <1>6. ASSUME r.op # "versions", NEW n, n = [r EXCEPT !.todo = q, !.pc = "read"]
        PROVE  Good(n, rows, Current, Open)
    <2>1. /\ q \in Seq(EntryIds \X Nat) /\ Len(q) \in Nat
          /\ r.op = "entry_diff" => Len(q) = 2
      <3>1. <<e, r.base>> \in EntryIds \X Nat /\ <<e, r.label>> \in EntryIds \X Nat
        BY DeliveryAssumption DEF Readers
      <3>2. PICK a \in EntryIds \X Nat, b \in EntryIds \X Nat : a = <<e, r.base>> /\ b = <<e, r.label>>
        BY <3>1
      <3> DEFINE two == <<a>> \o <<b>>
                 one == <<>> \o <<b>>
      <3>3. q = IF r.op = "entry_diff" THEN two ELSE one
        BY <3>2
      <3>4. /\ two \in Seq(EntryIds \X Nat) /\ Len(two) = 2
            /\ one \in Seq(EntryIds \X Nat) /\ Len(one) = 1
        BY OneOrTwo
      <3> HIDE DEF q, two, one
      <3> QED
        BY <3>3, <3>4
    <2> HIDE DEF q
    <2>2. /\ n \in Readers /\ n.op = r.op /\ n.witness = r.witness /\ n.live = r.live
          /\ n.label = r.label /\ n.pc = "read" /\ n.found = r.found /\ n.given = r.given
          /\ n.todo = q
      BY <1>6, <2>1 DEF Readers, Places
    <2>3. n.op \in {"payload", "entry_diff"} /\ n.found = <<>> /\ Placed(n)
      BY <1>3, <1>6, <2>2 DEF Placed
    <2>4. TodoFits(n, rows)
      BY <2>3 DEF TodoFits, Walks
    <2>5. /\ NoneLost(n) /\ NoContentLost(n, rows) /\ Numbered(n) /\ Paging(n, rows)
      BY <2>3 DEF NoneLost, NoContentLost, Numbered, Paging
    <2>6. BothRead(n)
      BY <2>1, <2>2, <2>3 DEF BothRead
    <2> QED
      BY <1>3, <2>2, <2>3, <2>4, <2>5, <2>6, Begins
  <1> HIDE DEF q
  <1> QED
    BY <1>4, <1>5, <1>6, ReaderMoves
LEMMA NumbersKeep == ASSUME DeliveryInv, ListVersions PROVE DeliveryInv'
  <1>1. reader # None /\ reader.pc = "numbers"
    BY DEF ListVersions, At
  <1>2. PICK r \in Readers : r = reader
    BY <1>1, ReaderFacts
  <1>3. StoreInv /\ Good(r, rows, Current, Open) /\ r.pc = "numbers" /\ Placed(r)
    BY <1>1, <1>2, ReaderFacts DEF Good
  <1>4. PICK e \in EntryIds : r.hits = {e} /\ Goes([r EXCEPT !.todo = Numbers(e), !.pc = "read"])
    BY <1>2, <1>3 DEF ListVersions, Placed
  <1>5. PICK q : q = Numbers(e)
    OBVIOUS
  <1>6. /\ q \in Seq(EntryIds \X Nat) /\ Len(q) = Len(rows[e]) /\ Len(q) \in Nat
        /\ \A k \in DOMAIN q : q[k] = <<e, k>> /\ k \in 1..Len(rows[e])
    <2>1. rows[e] \in Seq(RowSet) /\ DOMAIN rows[e] = 1..Len(rows[e]) /\ Len(rows[e]) \in Nat
      BY <1>3 DEF StoreInv, Tables
    <2> DEFINE m == Len(rows[e])
    <2>2. q = [k \in 1..m |-> <<e, k>>] /\ m \in Nat
      BY <1>5, <2>1 DEF Numbers
    <2> HIDE DEF m
    <2>3. q \in Seq(EntryIds \X Nat) /\ Len(q) = m /\ DOMAIN q = 1..m
      BY <2>2
    <2> QED
      BY <2>2, <2>3 DEF m
  <1>7. PICK n : n = [r EXCEPT !.todo = q, !.pc = "read"]
    OBVIOUS
  <1>8. /\ n \in Readers /\ n.op = r.op /\ n.witness = r.witness /\ n.live = r.live
        /\ n.label = r.label /\ n.pc = "read" /\ n.found = r.found /\ n.given = r.given
        /\ n.todo = q /\ n.hits = r.hits
    BY <1>6, <1>7 DEF Readers, Places
  <1>9. n.op = "versions" /\ n.found = <<>> /\ Placed(n)
    BY <1>3, <1>8 DEF Placed
  <1>10. TodoFits(n, rows)
    <2> SUFFICES ASSUME NEW k \in DOMAIN q
                 PROVE  q[k][2] <= Len(rows[q[k][1]])
      BY <1>8, <1>9 DEF TodoFits, Walks
    <2>1. q[k] = <<e, k>> /\ k \in 1..Len(rows[e])
      BY <1>6
    <2> QED
      BY <1>6, <2>1
  <1>11. Numbered(n)
    <2> SUFFICES ASSUME e \in n.witness.steady
                 PROVE  \E m \in 1..MaxEntryVersion : Counted(n, e, m)
      BY <1>4, <1>8 DEF Numbered
    <2>1. rows[e] # <<>> /\ <<e, Len(rows[e])>> \in n.witness.latest
      BY <1>3, <1>8 DEF Good, Knows
    <2>2. Len(rows[e]) \in 1..MaxEntryVersion
      <3>1. rows[e] \in Seq(RowSet) /\ Len(rows[e]) <= MaxEntryVersion
        BY <1>3 DEF StoreInv, Tables
      <3> QED
        BY <2>1, <3>1, NewestFacts, DeliveryAssumption
    <2>3. DOMAIN n.found = {} /\ Len(n.found) = 0
      BY <1>9
    <2>4. Counted(n, e, Len(rows[e]))
      BY <1>6, <1>8, <2>1, <2>3 DEF Counted
    <2> QED
      BY <2>2, <2>4
  <1>12. /\ NoneLost(n) /\ NoContentLost(n, rows) /\ BothRead(n) /\ Paging(n, rows)
    BY <1>9 DEF NoneLost, NoContentLost, BothRead, Paging
  <1>13. Good(n, rows, Current, Open)
    BY <1>3, <1>8, <1>9, <1>10, <1>11, <1>12, Begins
  <1> QED
    BY <1>4, <1>5, <1>7, <1>13, ReaderMoves

\* The ids of a list are those of the entries that are there, in rising order.
LEMMA IdsFacts ==
    ASSUME StoreInv, NEW ids \in InOrder(Present), NEW q, q = [i \in DOMAIN ids |-> <<ids[i], 0>>]
    PROVE  /\ q \in Seq(EntryIds \X Nat)
           /\ \A k \in DOMAIN q : q[k][1] \in There(rows) /\ q[k][2] = 0
           /\ \A e \in There(rows) : \E k \in DOMAIN q : q[k] = <<e, 0>>
           /\ \A i, j \in DOMAIN q : i < j => q[i][1] < q[j][1]
  <1> DEFINE m == Cardinality(Present)
  <1>1. Present \subseteq EntryIds /\ There(rows) = Present
    BY DEF Present, There
  <1>2. m \in Nat
    BY <1>1, DeliveryAssumption, FS_Subset, FS_CardinalityType
  <1>3. /\ ids \in [1..m -> Present] /\ \A i, j \in DOMAIN ids : i < j => ids[i] < ids[j]
        /\ \A e \in Present : \E k \in 1..m : ids[k] = e
    BY DEF InOrder, Range
  <1> HIDE DEF m
  <1>4. q = [i \in 1..m |-> <<ids[i], 0>>] /\ DOMAIN ids = 1..m
    BY <1>3
  <1>5. q \in Seq(EntryIds \X Nat) /\ DOMAIN q = 1..m
    BY <1>1, <1>2, <1>3, <1>4
  <1>6. \A k \in 1..m : q[k] = <<ids[k], 0>> /\ q[k][1] = ids[k] /\ q[k][2] = 0
    BY <1>4
  <1>7. \A k \in DOMAIN q : q[k][1] \in There(rows) /\ q[k][2] = 0
    BY <1>1, <1>3, <1>5, <1>6
  <1>8. \A e \in There(rows) : \E k \in DOMAIN q : q[k] = <<e, 0>>
    BY <1>1, <1>3, <1>5, <1>6
  <1>9. \A i, j \in DOMAIN q : i < j => q[i][1] < q[j][1]
    <2> SUFFICES ASSUME NEW i \in 1..m, NEW j \in 1..m, i < j PROVE q[i][1] < q[j][1]
      BY <1>5
    <2>1. ids[i] < ids[j]
      BY <1>3, <1>4
    <2> QED
      BY <1>6, <2>1
  <1> QED
    BY <1>5, <1>7, <1>8, <1>9

LEMMA IdsKeep == ASSUME DeliveryInv, ListIds PROVE DeliveryInv'
  <1>1. reader # None /\ reader.pc = "list"
    BY DEF ListIds, At
  <1>2. PICK r \in Readers : r = reader
    BY <1>1, ReaderFacts
  <1>3. StoreInv /\ Good(r, rows, Current, Open) /\ r.pc = "list" /\ Placed(r)
        /\ Knows(r.witness, rows, Current, Open) /\ Paging(r, rows)
    BY <1>1, <1>2, ReaderFacts DEF Good
  <1>4. PICK ids \in InOrder(Present) :
          Goes([r EXCEPT !.todo = IF r.op = "diff" /\ r.kind # "rule_set" THEN <<>>
                                  ELSE [i \in DOMAIN ids |-> <<ids[i], 0>>],
                         !.found = <<>>, !.pc = "read"])
    BY <1>2 DEF ListIds
  <1>5. PICK q : q = [i \in DOMAIN ids |-> <<ids[i], 0>>]
    OBVIOUS
  <1>6. /\ q \in Seq(EntryIds \X Nat)
        /\ \A k \in DOMAIN q : q[k][1] \in There(rows) /\ q[k][2] = 0
        /\ \A e \in There(rows) : \E k \in DOMAIN q : q[k] = <<e, 0>>
        /\ \A i, j \in DOMAIN q : i < j => q[i][1] < q[j][1]
    BY <1>3, <1>5, IdsFacts
  <1>7. PICK todo \in Seq(EntryIds \X Nat) :
          todo = IF r.op = "diff" /\ r.kind # "rule_set" THEN <<>> ELSE q
    <2>1. <<>> \in Seq(EntryIds \X Nat)
      OBVIOUS
    <2>2. CASE r.op = "diff" /\ r.kind # "rule_set"
      BY <2>1, <2>2
    <2>3. CASE ~(r.op = "diff" /\ r.kind # "rule_set")
      BY <1>6, <2>3
    <2> QED
      BY <2>2, <2>3
  <1>8. PICK nil \in Seq(Items) : nil = <<>>
    <2>1. <<>> \in Seq(Items)
      OBVIOUS
    <2> QED
      BY <2>1
  <1>8a. PICK n : n = [r EXCEPT !.todo = todo, !.found = nil, !.pc = "read"]
    OBVIOUS
  <1>9. /\ n \in Readers /\ n.op = r.op /\ n.witness = r.witness /\ n.live = r.live
        /\ n.label = r.label /\ n.pc = "read" /\ n.found = nil /\ n.given = r.given
        /\ n.todo = todo /\ n.kind = r.kind
        /\ n.offset = r.offset /\ n.got = r.got /\ n.repeated = r.repeated
    BY <1>8a DEF Readers, Places
  <1>10. n.op \in {"pull", "page", "export", "search", "diff"} /\ Placed(n) /\ DOMAIN n.found = {}
    BY <1>3, <1>8, <1>9 DEF Placed
  <1>11. \A k \in DOMAIN todo : todo[k][2] = 0
    BY <1>6, <1>7
  <1>12. TodoFits(n, rows)
    BY <1>9, <1>11 DEF TodoFits
  <1>13. (n.op = "diff" => n.kind = "rule_set") =>
             todo = q /\ \A e \in There(rows) : \E k \in DOMAIN todo : todo[k] = <<e, 0>>
    BY <1>6, <1>7, <1>9
  <1>14. NoneLost(n)
    <2> SUFFICES ASSUME n.op \in {"export", "pull"}
                 PROVE  \A e \in n.witness.steady \union n.witness.approved : e \in ToRead(n)
      BY DEF NoneLost
    <2>1. \A e \in n.witness.steady \union n.witness.approved : e \in There(rows)
      BY <1>3, <1>9 DEF Knows, There, Readers, Witnesses
    <2> QED
      BY <1>9, <1>13, <2>1 DEF ToRead
  <1>15. NoContentLost(n, rows)
    <2> SUFFICES ASSUME n.op = "diff" => n.kind = "rule_set", NEW e \in EntryIds, rows[e] # <<>>
                 PROVE  \E k \in DOMAIN todo : todo[k][1] = e /\ todo[k][2] \in {0, Len(rows[e])}
      BY <1>9 DEF NoContentLost
    <2>1. e \in There(rows)
      BY DEF There
    <2> QED
      BY <1>13, <2>1
  <1>16. Numbered(n) /\ BothRead(n)
    BY <1>10 DEF Numbered, BothRead
  <1>17. Paging(n, rows)
    <2> SUFFICES ASSUME r.op = "page"
                 PROVE  /\ r.repeated => r.witness.grew
                        /\ InLine(n) /\ PagesFit(n, Listed(n)) /\ ListFits(n, There(rows))
      BY <1>9 DEF Paging
    <2>1. todo = q
      BY <1>7
    <2>3. ToRead(n) = There(rows)
      BY <1>6, <1>9, <2>1 DEF ToRead
    <2>4. Listed(n) = There(rows)
      BY <1>10, <2>3 DEF Listed
    <2>5. InLine(n)
      BY <1>6, <1>9, <1>10, <2>1 DEF InLine
    <2>6. PagesFit(n, There(rows)) /\ (r.repeated => r.witness.grew)
      BY <1>3, <1>9 DEF Paging, PagesFit
    <2>7. ListFits(n, There(rows))
      BY <1>3, <1>9, <2>4 DEF ListFits, Knows, There, Readers, Witnesses
    <2> QED
      BY <2>4, <2>5, <2>6, <2>7
  <1>18. Good(n, rows, Current, Open)
    BY <1>3, <1>8, <1>9, <1>10, <1>12, <1>14, <1>15, <1>16, <1>17, Begins
  <1> QED
    BY <1>4, <1>5, <1>7, <1>8, <1>8a, <1>18, ReaderMoves
-----------------------------------------------------------------------------
(* A walk: the first of what is to be read gets its number, is read, or is *)
(* found to be gone.                                                       *)

\* What is left of q, and with a first one x.
Rest(t, q) ==
    /\ Len(q) \in Nat \ {0} /\ 1 \in DOMAIN q /\ Len(t) \in Nat /\ Len(q) = Len(t) + 1
    /\ \A k \in DOMAIN t : k \in Nat \ {0} /\ k + 1 \in DOMAIN q /\ t[k] = q[k + 1]
    /\ \A k \in DOMAIN q : k = 1 \/ \E j \in DOMAIN t : k = j + 1

WithFirst(p, x, q) ==
    /\ Len(p) = Len(q) /\ DOMAIN p = DOMAIN q /\ 1 \in DOMAIN q /\ p[1] = x
    /\ \A k \in DOMAIN q : k # 1 => p[k] = q[k]

LEMMA RestFacts ==
    ASSUME NEW S, NEW q \in Seq(S), q # <<>>
    PROVE  Head(q) = q[1] /\ q[1] \in S /\ Tail(q) \in Seq(S) /\ Rest(Tail(q), q)
  <1>1. Len(q) \in Nat \ {0} /\ DOMAIN q = 1..Len(q) /\ Head(q) = q[1] /\ q[1] \in S
    OBVIOUS
  <1>2. /\ Tail(q) \in Seq(S) /\ Len(Tail(q)) = Len(q) - 1
        /\ \A k \in 1..(Len(q) - 1) : Tail(q)[k] = q[k + 1]
    BY <1>1
  <1>3. DOMAIN Tail(q) = 1..(Len(q) - 1)
    BY <1>2
  <1>4. \A k \in DOMAIN q : k = 1 \/ k - 1 \in DOMAIN Tail(q)
    BY <1>1, <1>3
  <1>5. \A k \in DOMAIN q : k = (k - 1) + 1
    BY <1>1
  <1> QED
    BY <1>1, <1>2, <1>3, <1>4, <1>5 DEF Rest

LEMMA WithFirstFacts ==
    ASSUME NEW S, NEW q \in Seq(S), q # <<>>, NEW x \in S
    PROVE  <<x>> \o Tail(q) \in Seq(S) /\ WithFirst(<<x>> \o Tail(q), x, q)
  <1>1. PICK t \in Seq(S) : t = Tail(q) /\ Rest(t, q)
    BY RestFacts
  <1>2. <<x>> \o t \in Seq(S) /\ Len(<<x>> \o t) = 1 + Len(t)
    OBVIOUS
  <1>3. (<<x>> \o t)[1] = x /\ \A k \in 1..Len(t) : (<<x>> \o t)[k + 1] = t[k]
    OBVIOUS
  <1>4. Len(<<x>> \o t) = Len(q) /\ DOMAIN (<<x>> \o t) = DOMAIN q
    BY <1>1, <1>2 DEF Rest
  <1>5. \A k \in DOMAIN q : k # 1 => (<<x>> \o t)[k] = q[k]
    BY <1>1, <1>3 DEF Rest
  <1> QED
    BY <1>1, <1>2, <1>3, <1>4, <1>5 DEF Rest, WithFirst

\* A reader n in a walk that r was in.
Walked(r, n) ==
    /\ n.op = r.op /\ n.witness = r.witness /\ n.live = r.live /\ n.label = r.label
    /\ n.kind = r.kind /\ n.hits = r.hits /\ n.pc = "read" /\ r.pc = "read" /\ n.given = r.given
    /\ n.offset = r.offset /\ n.got = r.got /\ n.repeated = r.repeated

LEMMA WalksOn ==
    ASSUME NEW r \in Readers, NEW n \in Readers, NEW rs, NEW cur, NEW open,
           Good(r, rs, cur, open), Walked(r, n),
           TodoFits(n, rs), FoundWasSeen(n), NoneLost(n), NoContentLost(n, rs), Numbered(n),
           BothRead(n), Paging(n, rs)
    PROVE  Good(n, rs, cur, open)
  BY DEF Good, Walked, Placed, Begun, Labelled, KeptToCompare, Answered

LEMMA NumberRead ==
    ASSUME NEW r \in Readers, NEW n \in Readers, NEW rs \in Tables, NEW cur, NEW open,
           Good(r, rs, cur, open), Walked(r, n), n.found = r.found,
           NEW e \in EntryIds, r.todo[1] = <<e, 0>>, rs[e] # <<>>,
           WithFirst(n.todo, <<e, Len(rs[e])>>, r.todo)
    PROVE  Good(n, rs, cur, open)
  <1>1. Knows(r.witness, rs, cur, open) /\ TodoFits(r, rs) /\ FoundWasSeen(r) /\ NoneLost(r)
        /\ NoContentLost(r, rs) /\ Numbered(r) /\ BothRead(r) /\ Paging(r, rs)
    BY DEF Good
  <1>2. Len(rs[e]) \in Nat /\ Len(rs[e]) # 0
    BY DEF Tables
  <1>3. /\ Len(n.todo) = Len(r.todo) /\ DOMAIN n.todo = DOMAIN r.todo /\ 1 \in DOMAIN r.todo
        /\ n.todo[1] = <<e, Len(rs[e])>>
        /\ \A k \in DOMAIN r.todo : k # 1 => n.todo[k] = r.todo[k]
    BY DEF WithFirst
  <1>4. \A k \in DOMAIN r.todo : n.todo[k][1] = r.todo[k][1]
    BY <1>3
  <1>5. ToRead(n) = ToRead(r) /\ Listed(n) = Listed(r)
    BY <1>3, <1>4 DEF ToRead, Listed
  <1>6. TodoFits(n, rs)
    <2> SUFFICES ASSUME r.op \in Walks \union {"versions"}, NEW k \in DOMAIN r.todo, n.todo[k][2] # 0
                 PROVE  /\ \/ n.todo[k][1] \in n.witness.steady
                           \/ ~n.witness.shrank
                           \/ ~n.witness.grew /\ rs[n.todo[k][1]] # <<>>
                           => n.todo[k][2] <= Len(rs[n.todo[k][1]])
                        /\ r.op \in Walks => n.todo[k] \in n.witness.latest
                        /\ r.op \in Walks /\ n.todo[k][1] \in n.witness.approved
                             => n.todo[k][2] = Len(rs[n.todo[k][1]])
      BY <1>3 DEF TodoFits, Walked
    <2>1. CASE k = 1
      <3>1. n.todo[k] = <<e, Len(rs[e])>> /\ <<e, Len(rs[e])>> \in n.witness.latest
        BY <1>1, <1>3, <2>1 DEF Knows, Walked
      <3> QED
        BY <1>2, <3>1
    <2>2. CASE k # 1
      BY <1>1, <1>3, <2>2 DEF TodoFits, Walked
    <2> QED
      BY <2>1, <2>2
  <1>7. FoundWasSeen(n)
    BY <1>1 DEF FoundWasSeen, WasSeen, Labelled, Walked
  <1>8. NoneLost(n)
    BY <1>1, <1>5 DEF NoneLost, Walked
  <1>9. NoContentLost(n, rs)
    <2> SUFFICES ASSUME r.op = "diff" => r.kind = "rule_set", r.op \in {"search", "diff"},
                        NEW g \in EntryIds, rs[g] # <<>>, Newest(rs[g]).content \in r.witness.kept
                 PROVE  \/ \E k \in DOMAIN n.todo : n.todo[k][1] = g /\ n.todo[k][2] \in {0, Len(rs[g])}
                        \/ \E k \in DOMAIN n.found :
                             n.found[k].entry = g /\ n.found[k].row.content = Newest(rs[g]).content
      BY DEF NoContentLost, Walked
    <2>1. CASE \E k \in DOMAIN r.found :
                 r.found[k].entry = g /\ r.found[k].row.content = Newest(rs[g]).content
      BY <2>1
    <2>2. CASE \E k \in DOMAIN r.todo : r.todo[k][1] = g /\ r.todo[k][2] \in {0, Len(rs[g])}
      <3>1. PICK k \in DOMAIN r.todo : r.todo[k][1] = g /\ r.todo[k][2] \in {0, Len(rs[g])}
        BY <2>2
      <3>2. n.todo[k][1] = g /\ n.todo[k][2] \in {0, Len(rs[g])}
        BY <1>3, <3>1
      <3> QED
        BY <1>3, <3>2
    <2> QED
      BY <1>1, <2>1, <2>2 DEF NoContentLost, Walked
  <1>10. Numbered(n)
    <2> SUFFICES ASSUME r.op = "versions" PROVE Numbered(n)
      BY DEF Numbered, Walked
    <2>1. PICK g \in EntryIds :
            r.hits = {g} /\ (g \in r.witness.steady => \E m \in 1..MaxEntryVersion : Counted(r, g, m))
      BY <1>1 DEF Numbered, Walked
    <2>2. g \notin r.witness.steady
      <3> SUFFICES ASSUME NEW m \in 1..MaxEntryVersion, Counted(r, g, m) PROVE FALSE
        BY <2>1
      <3>1. r.todo[1] = <<g, Len(r.found) + 1>> /\ Len(r.found) \in Nat
        BY <1>3 DEF Counted, Readers
      <3> QED
        BY <3>1
    <2> QED
      BY <2>1, <2>2 DEF Numbered, Walked
  <1>11. BothRead(n)
    BY <1>1, <1>3 DEF BothRead, Walked
  <1>12. Paging(n, rs)
    <2>1. InLine(r) => InLine(n)
      BY <1>3, <1>4 DEF InLine
    <2>2. PagesFit(r, Listed(r)) => PagesFit(n, Listed(n))
      BY <1>5 DEF PagesFit, Walked
    <2>3. ListFits(r, There(rs)) => ListFits(n, There(rs))
      BY <1>5 DEF ListFits, Walked
    <2> QED
      BY <1>1, <2>1, <2>2, <2>3 DEF Paging, Walked
  <1> QED
    BY <1>6, <1>7, <1>8, <1>9, <1>10, <1>11, <1>12, WalksOn
\* An item is put at the end.
WithLast(p, x, q) ==
    /\ Len(q) \in Nat /\ Len(p) = Len(q) + 1 /\ Len(p) \in DOMAIN p /\ p[Len(p)] = x
    /\ \A k \in DOMAIN q : k \in DOMAIN p /\ p[k] = q[k] /\ k < Len(p)
    /\ \A k \in DOMAIN p : k \in Nat /\ (k = Len(p) \/ (k < Len(p) /\ k \in DOMAIN q))

LEMMA WithLastFacts ==
    ASSUME NEW S, NEW q \in Seq(S), NEW x \in S
    PROVE  Append(q, x) \in Seq(S) /\ WithLast(Append(q, x), x, q)
  <1>1. PICK p \in Seq(S) : p = Append(q, x)
    <2>1. Append(q, x) \in Seq(S)
      OBVIOUS
    <2> QED
      BY <2>1
  <1>2. Len(q) \in Nat /\ DOMAIN q = 1..Len(q) /\ Len(p) = Len(q) + 1 /\ DOMAIN p = 1..(Len(q) + 1)
    BY <1>1
  <1>3. p[Len(q) + 1] = x /\ \A k \in 1..Len(q) : p[k] = q[k]
    BY <1>1
  <1> QED
    BY <1>1, <1>2, <1>3 DEF WithLast

LEMMA EntryRead ==
    ASSUME NEW r \in Readers, NEW n \in Readers, NEW rs \in Tables, NEW cur \in Nat, NEW open,
           Good(r, rs, cur, open), Walked(r, n),
           NEW e \in EntryIds, NEW v \in 1..Len(rs[e]), r.todo[1] = <<e, v>>,
           Rest(n.todo, r.todo), n.found = Append(r.found, ItemOf(rs, e, v))
    PROVE  Good(n, rs, cur, open)
  <1>1. Knows(r.witness, rs, cur, open) /\ TodoFits(r, rs) /\ FoundWasSeen(r) /\ NoneLost(r)
        /\ NoContentLost(r, rs) /\ Numbered(r) /\ BothRead(r) /\ Paging(r, rs) /\ Begun(r, cur)
    BY DEF Good
  <1>2. Len(rs[e]) \in Nat /\ Len(rs[e]) # 0 /\ rs[e] # <<>> /\ v # 0 /\ v \in Nat
    BY DEF Tables
  <1>3. /\ 1 \in DOMAIN r.todo
        /\ \A k \in DOMAIN n.todo : k \in Nat \ {0} /\ k + 1 \in DOMAIN r.todo /\ n.todo[k] = r.todo[k + 1]
        /\ \A k \in DOMAIN r.todo : k = 1 \/ \E j \in DOMAIN n.todo : k = j + 1
    BY DEF Rest
  <1>4. PICK x \in Items : x = ItemOf(rs, e, v) /\ x.entry = e /\ x.version = v /\ x.row = rs[e][v]
    <2>1. rs[e][v] \in RowSet
      BY DEF Tables
    <2> QED
      BY <1>2, <2>1 DEF ItemOf, Items
  <1>5. WithLast(n.found, x, r.found)
    BY <1>4, WithLastFacts DEF Readers
  <1>5a. /\ Len(n.found) \in DOMAIN n.found /\ n.found[Len(n.found)] = x
         /\ \A k \in DOMAIN r.found : k \in DOMAIN n.found /\ n.found[k] = r.found[k] /\ k < Len(n.found)
         /\ \A k \in DOMAIN n.found :
              k \in Nat /\ (k = Len(n.found) \/ (k < Len(n.found) /\ k \in DOMAIN r.found))
    BY <1>5 DEF WithLast
  <1> DEFINE m == Len(n.found)
             l == Len(r.found)
             a == Len(n.todo)
             b == Len(r.todo)
  <1>5b. m = l + 1 /\ b = a + 1 /\ l \in Nat /\ a \in Nat
    BY <1>5 DEF WithLast, Rest
  <1> HIDE DEF m, l, a, b
  <1>6a. <<cur, open, x>> \in r.witness.seen
    BY <1>1, <1>4 DEF Knows
  <1>6. /\ r.op \in Walks => <<e, v>> \in r.witness.latest
        /\ r.op \in Walks /\ e \in r.witness.approved => v = Len(rs[e])
    <2>1. r.todo[1][1] = e /\ r.todo[1][2] = v
      OBVIOUS
    <2> QED
      BY <1>1, <1>2, <1>3, <2>1 DEF TodoFits, Walked
  <1>7. \A g : g \in ToRead(r) <=> (g = e \/ g \in ToRead(n))
    <2>1. r.todo[1][1] = e
      OBVIOUS
    <2> QED
      BY <1>3, <2>1 DEF ToRead
  <1>8. TodoFits(n, rs)
    <2> SUFFICES ASSUME r.op \in Walks \union {"versions"}, NEW k \in DOMAIN n.todo, n.todo[k][2] # 0
                 PROVE  /\ \/ n.todo[k][1] \in n.witness.steady
                           \/ ~n.witness.shrank
                           \/ ~n.witness.grew /\ rs[n.todo[k][1]] # <<>>
                           => n.todo[k][2] <= Len(rs[n.todo[k][1]])
                        /\ r.op \in Walks => n.todo[k] \in n.witness.latest
                        /\ r.op \in Walks /\ n.todo[k][1] \in n.witness.approved
                             => n.todo[k][2] = Len(rs[n.todo[k][1]])
      BY DEF TodoFits, Walked
    <2>1. PICK j \in DOMAIN r.todo : r.todo[j] = n.todo[k]
      BY <1>3
    <2> QED
      BY <1>1, <2>1 DEF TodoFits, Walked
  <1>9. FoundWasSeen(n)
    <2>1. WasSeen(n, x)
      <3>1. <<cur, open, x>>[3] = x /\ <<cur, open, x>>[1] = cur
        OBVIOUS
      <3> QED
        BY <1>1, <1>6a, <3>1 DEF WasSeen, Labelled, Begun, Walked
    <2>2. \A i : WasSeen(r, i) => WasSeen(n, i)
      BY DEF WasSeen, Labelled, Walked
    <2>3. \A k \in DOMAIN r.found :
            /\ WasSeen(r, r.found[k])
            /\ r.op \in Walks => <<r.found[k].entry, r.found[k].version>> \in r.witness.latest
      BY <1>1 DEF FoundWasSeen, Walked
    <2> SUFFICES ASSUME NEW k \in DOMAIN n.found
                 PROVE  /\ WasSeen(n, n.found[k])
                        /\ r.op \in Walks => <<n.found[k].entry, n.found[k].version>> \in r.witness.latest
      BY DEF FoundWasSeen, Walked
    <2> HIDE DEF WasSeen
    <2>4. CASE k = Len(n.found)
      BY <1>4, <1>5a, <1>6, <2>1, <2>4
    <2>5. CASE k \in DOMAIN r.found
      <3>1. PICK i : i = r.found[k] /\ i = n.found[k]
        BY <1>5a, <2>5
      <3>2. WasSeen(r, i) /\ (r.op \in Walks => <<i.entry, i.version>> \in r.witness.latest)
        BY <2>3, <2>5, <3>1
      <3>3. WasSeen(n, i)
        BY <2>2, <3>2
      <3> QED
        BY <3>1, <3>2, <3>3
    <2> QED
      BY <1>5a, <2>4, <2>5
  <1>10. NoneLost(n)
    <2> SUFFICES ASSUME r.op \in {"export", "pull"}
                 PROVE  /\ \A g \in r.witness.steady :
                             g \in ToRead(n) \/ \E k \in DOMAIN n.found : n.found[k].entry = g
                        /\ \A g \in r.witness.approved :
                             g \in ToRead(n) \/ \E k \in DOMAIN n.found : n.found[k].entry = g
                                                                          /\ n.found[k].row.approved
      BY DEF NoneLost, Walked
    <2>1. /\ \A g \in r.witness.steady :
               g \in ToRead(r) \/ \E k \in DOMAIN r.found : r.found[k].entry = g
          /\ \A g \in r.witness.approved :
               g \in ToRead(r) \/ \E k \in DOMAIN r.found : r.found[k].entry = g
                                                            /\ r.found[k].row.approved
      BY <1>1 DEF NoneLost, Walked
    <2>2. e \in r.witness.approved => x.row.approved
      BY <1>1, <1>4, <1>6 DEF Knows, Walks, Newest
    <2>3. \A g \in r.witness.steady :
               g \in ToRead(n) \/ \E k \in DOMAIN n.found : n.found[k].entry = g
      BY <1>4, <1>5a, <1>7, <2>1
    <2>4. \A g \in r.witness.approved :
               g \in ToRead(n) \/ \E k \in DOMAIN n.found : n.found[k].entry = g
                                                            /\ n.found[k].row.approved
      BY <1>4, <1>5a, <1>7, <2>1, <2>2
    <2> QED
      BY <2>3, <2>4
  <1>11. NoContentLost(n, rs)
    <2> SUFFICES ASSUME r.op = "diff" => r.kind = "rule_set", r.op \in {"search", "diff"},
                        NEW g \in EntryIds, rs[g] # <<>>, Newest(rs[g]).content \in r.witness.kept
                 PROVE  \/ \E k \in DOMAIN n.todo : n.todo[k][1] = g /\ n.todo[k][2] \in {0, Len(rs[g])}
                        \/ \E k \in DOMAIN n.found :
                             n.found[k].entry = g /\ n.found[k].row.content = Newest(rs[g]).content
      BY DEF NoContentLost, Walked
    <2>1. CASE \E k \in DOMAIN r.found :
                 r.found[k].entry = g /\ r.found[k].row.content = Newest(rs[g]).content
      BY <1>5a, <2>1
    <2>2. CASE \E k \in DOMAIN r.todo : r.todo[k][1] = g /\ r.todo[k][2] \in {0, Len(rs[g])}
      <3>1. PICK k \in DOMAIN r.todo : r.todo[k][1] = g /\ r.todo[k][2] \in {0, Len(rs[g])}
        BY <2>2
      <3>2. CASE k = 1
        <4>1. g = e /\ v = Len(rs[e])
          BY <1>2, <3>1, <3>2
        <4> QED
          BY <1>4, <1>5a, <4>1 DEF Newest
      <3>3. CASE k # 1
        <4>1. PICK j \in DOMAIN n.todo : n.todo[j] = r.todo[k]
          BY <1>3, <3>3
        <4> QED
          BY <3>1, <4>1
      <3> QED
        BY <3>2, <3>3
    <2> QED
      BY <1>1, <2>1, <2>2 DEF NoContentLost, Walked
  <1>12. Numbered(n)
    <2> SUFFICES ASSUME r.op = "versions" PROVE Numbered(n)
      BY DEF Numbered, Walked
    <2>1. PICK g \in EntryIds :
            r.hits = {g} /\ (g \in r.witness.steady => \E c \in 1..MaxEntryVersion : Counted(r, g, c))
      BY <1>1 DEF Numbered, Walked
    <2>2. ASSUME NEW c \in 1..MaxEntryVersion, Counted(r, g, c) PROVE Counted(n, g, c)
      <3>1. /\ <<g, c>> \in n.witness.latest
            /\ Len(r.found) + Len(r.todo) = c
            /\ \A k \in DOMAIN r.found : r.found[k].entry = g /\ r.found[k].version = k
            /\ \A k \in DOMAIN r.todo : r.todo[k] = <<g, Len(r.found) + k>>
        BY <2>2 DEF Counted, Walked
      <3>2. e = g /\ v = m
        <4>1. <<e, v>> = <<g, l + 1>>
          BY <1>3, <3>1 DEF l
        <4> QED
          BY <1>5b, <4>1
      <3>3. m + a = c
        <4>1. l + b = c
          BY <3>1 DEF l, b
        <4> QED
          BY <1>5b, <4>1
      <3>4. \A k \in DOMAIN n.found : n.found[k].entry = g /\ n.found[k].version = k
        BY <1>4, <1>5a, <3>1, <3>2 DEF m
      <3>5. \A k \in DOMAIN n.todo : n.todo[k] = <<g, Len(n.found) + k>>
        <4> SUFFICES ASSUME NEW k \in DOMAIN n.todo PROVE n.todo[k] = <<g, Len(n.found) + k>>
          OBVIOUS
        <4>1. n.todo[k] = <<g, l + (k + 1)>> /\ k \in Nat
          BY <1>3, <3>1 DEF l
        <4>2. l + (k + 1) = m + k
          BY <1>5b, <4>1
        <4> QED
          BY <4>1, <4>2 DEF m
      <3> QED
        BY <3>1, <3>3, <3>4, <3>5 DEF Counted, Walked, m, a
    <2> QED
      BY <2>1, <2>2 DEF Numbered, Walked
  <1>13. BothRead(n)
    <2>1. l + b = m + a
      BY <1>5b
    <2> QED
      BY <1>1, <2>1 DEF BothRead, Walked, l, b, m, a
  <1>14. Paging(n, rs)
    <2>1. Listed(n) = Listed(r)
      <3>1. \A g : (\E k \in DOMAIN n.found : n.found[k].entry = g) <=>
                   (g = e \/ \E k \in DOMAIN r.found : r.found[k].entry = g)
        BY <1>4, <1>5a
      <3> QED
        BY <1>7, <3>1 DEF Listed
    <2>2. ASSUME InLine(r) PROVE InLine(n)
      <3>1. \A i, j \in DOMAIN n.found : i < j => n.found[i].entry < n.found[j].entry
        <4> SUFFICES ASSUME NEW i \in DOMAIN n.found, NEW j \in DOMAIN n.found, i < j
                     PROVE  n.found[i].entry < n.found[j].entry
          OBVIOUS
        <4>1. CASE j = Len(n.found)
          <5>1. i \in DOMAIN r.found
            <6>1. i # Len(n.found) /\ i \in Nat
              BY <1>5a, <4>1
            <6> QED
              BY <1>5a, <6>1
          <5>2. r.found[i].entry < r.todo[1][1]
            BY <1>3, <2>2, <5>1 DEF InLine
          <5> QED
            BY <1>4, <1>5a, <4>1, <5>1, <5>2
        <4>2. CASE j # Len(n.found)
          <5>1. i \in DOMAIN r.found /\ j \in DOMAIN r.found
            <6>1. j \in DOMAIN r.found /\ j < Len(n.found) /\ i \in Nat /\ j \in Nat
              BY <1>5a, <4>2
            <6>2. i # Len(n.found)
              BY <6>1
            <6> QED
              BY <1>5a, <6>1, <6>2
          <5> QED
            BY <1>5a, <2>2, <5>1 DEF InLine
        <4> QED
          BY <4>1, <4>2
      <3>2. \A i, j \in DOMAIN n.todo : i < j => n.todo[i][1] < n.todo[j][1]
        <4> SUFFICES ASSUME NEW i \in DOMAIN n.todo, NEW j \in DOMAIN n.todo, i < j
                     PROVE  n.todo[i][1] < n.todo[j][1]
          OBVIOUS
        <4>1. /\ i + 1 \in DOMAIN r.todo /\ n.todo[i] = r.todo[i + 1]
              /\ j + 1 \in DOMAIN r.todo /\ n.todo[j] = r.todo[j + 1]
          BY <1>3
        <4>2. i + 1 < j + 1
          BY <1>3
        <4> QED
          BY <2>2, <4>1, <4>2 DEF InLine
      <3>3. \A i \in DOMAIN n.found, j \in DOMAIN n.todo : n.found[i].entry < n.todo[j][1]
        <4> SUFFICES ASSUME NEW i \in DOMAIN n.found, NEW j \in DOMAIN n.todo
                     PROVE  n.found[i].entry < n.todo[j][1]
          OBVIOUS
        <4>1. j + 1 \in DOMAIN r.todo /\ n.todo[j] = r.todo[j + 1] /\ 1 < j + 1
          BY <1>3
        <4>2. CASE i = Len(n.found)
          <5>1. r.todo[1][1] < r.todo[j + 1][1] /\ n.found[i].entry = e /\ r.todo[1][1] = e
            BY <1>3, <1>4, <1>5a, <2>2, <4>1, <4>2 DEF InLine
          <5> QED
            BY <4>1, <5>1
        <4>3. CASE i \in DOMAIN r.found
          BY <1>5a, <2>2, <4>1, <4>3 DEF InLine
        <4> QED
          BY <1>5a, <4>2, <4>3
      <3> QED
        BY <3>1, <3>2, <3>3 DEF InLine
    <2>3. PagesFit(r, Listed(r)) => PagesFit(n, Listed(n))
      BY <2>1 DEF PagesFit, Walked
    <2>4. ListFits(r, There(rs)) => ListFits(n, There(rs))
      BY <2>1 DEF ListFits, Walked
    <2> QED
      BY <1>1, <2>2, <2>3, <2>4 DEF Paging, Walked
  <1> QED
    BY <1>8, <1>9, <1>10, <1>11, <1>12, <1>13, <1>14, WalksOn
LEMMA EntryMissing ==
    ASSUME NEW r \in Readers, NEW n \in Readers, NEW rs \in Tables, NEW cur \in Nat, NEW open,
           Good(r, rs, cur, open), Walked(r, n), r.op \notin {"entry", "payload", "entry_diff"},
           NEW e \in EntryIds, NEW v \in Nat, r.todo[1] = <<e, v>>,
           IF v = 0 THEN rs[e] = <<>> ELSE v \notin 1..Len(rs[e]),
           Rest(n.todo, r.todo), n.found = r.found
    PROVE  Good(n, rs, cur, open)
  <1>1. Knows(r.witness, rs, cur, open) /\ TodoFits(r, rs) /\ FoundWasSeen(r) /\ NoneLost(r)
        /\ NoContentLost(r, rs) /\ Numbered(r) /\ BothRead(r) /\ Paging(r, rs)
    BY DEF Good
  <1>2. Len(rs[e]) \in Nat /\ r.todo[1][1] = e /\ r.todo[1][2] = v
    BY DEF Tables
  <1>3. /\ 1 \in DOMAIN r.todo
        /\ \A k \in DOMAIN n.todo : k \in Nat \ {0} /\ k + 1 \in DOMAIN r.todo /\ n.todo[k] = r.todo[k + 1]
        /\ \A k \in DOMAIN r.todo : k = 1 \/ \E j \in DOMAIN n.todo : k = j + 1
    BY DEF Rest
  <1>4. r.op \in Walks \union {"versions"}
    <2>1. r.pc = "read" /\ Placed(r)
      BY DEF Walked, Good
    <2> QED
      BY <2>1 DEF Placed, Walks, Readers, Ops, EntryOps
  <1>5. /\ e \notin r.witness.steady
        /\ r.op \in Walks => e \notin r.witness.approved
        /\ rs[e] = <<>> \/ (r.witness.shrank /\ r.witness.grew)
    <2>1. CASE v = 0
      <3>1. e \notin r.witness.steady /\ e \notin r.witness.approved
        BY <1>1, <2>1 DEF Knows
      <3> QED
        BY <2>1, <3>1
    <2>2. CASE v # 0
      <3>1. ~(v <= Len(rs[e]))
        BY <1>2, <2>2
      <3>2. /\ \/ e \in r.witness.steady
               \/ ~r.witness.shrank
               \/ ~r.witness.grew /\ rs[e] # <<>>
               => v <= Len(rs[e])
            /\ r.op \in Walks /\ e \in r.witness.approved => v = Len(rs[e])
        BY <1>1, <1>2, <1>3, <1>4, <2>2 DEF TodoFits, Walked
      <3> QED
        BY <1>2, <3>1, <3>2
    <2> QED
      BY <2>1, <2>2
  <1>6. \A g : g \in ToRead(r) <=> (g = e \/ g \in ToRead(n))
    BY <1>2, <1>3 DEF ToRead
  <1>7. TodoFits(n, rs)
    <2> SUFFICES ASSUME r.op \in Walks \union {"versions"}, NEW k \in DOMAIN n.todo, n.todo[k][2] # 0
                 PROVE  /\ \/ n.todo[k][1] \in n.witness.steady
                           \/ ~n.witness.shrank
                           \/ ~n.witness.grew /\ rs[n.todo[k][1]] # <<>>
                           => n.todo[k][2] <= Len(rs[n.todo[k][1]])
                        /\ r.op \in Walks => n.todo[k] \in n.witness.latest
                        /\ r.op \in Walks /\ n.todo[k][1] \in n.witness.approved
                             => n.todo[k][2] = Len(rs[n.todo[k][1]])
      BY DEF TodoFits, Walked
    <2>1. PICK j \in DOMAIN r.todo : r.todo[j] = n.todo[k]
      BY <1>3
    <2> QED
      BY <1>1, <2>1 DEF TodoFits, Walked
  <1>8. FoundWasSeen(n)
    BY <1>1 DEF FoundWasSeen, WasSeen, Labelled, Walked
  <1>9. NoneLost(n)
    BY <1>1, <1>5, <1>6 DEF NoneLost, Walked, Walks
  <1>10. NoContentLost(n, rs)
    <2> SUFFICES ASSUME r.op = "diff" => r.kind = "rule_set", r.op \in {"search", "diff"},
                        NEW g \in EntryIds, rs[g] # <<>>, Newest(rs[g]).content \in r.witness.kept
                 PROVE  \/ \E k \in DOMAIN n.todo : n.todo[k][1] = g /\ n.todo[k][2] \in {0, Len(rs[g])}
                        \/ \E k \in DOMAIN n.found :
                             n.found[k].entry = g /\ n.found[k].row.content = Newest(rs[g]).content
      BY DEF NoContentLost, Walked
    <2>1. CASE \E k \in DOMAIN r.found :
                 r.found[k].entry = g /\ r.found[k].row.content = Newest(rs[g]).content
      BY <2>1
    <2>2. CASE \E k \in DOMAIN r.todo : r.todo[k][1] = g /\ r.todo[k][2] \in {0, Len(rs[g])}
      <3>1. PICK k \in DOMAIN r.todo : r.todo[k][1] = g /\ r.todo[k][2] \in {0, Len(rs[g])}
        BY <2>2
      <3>2. k # 1
        <4> SUFFICES ASSUME k = 1 PROVE FALSE
          OBVIOUS
        <4>1. g = e /\ v \in {0, Len(rs[e])}
          BY <1>2, <3>1
        <4>2. v # 0
          BY <4>1
        <4>3. v = Len(rs[e]) /\ v \in 1..Len(rs[e])
          BY <1>2, <4>1, <4>2
        <4> QED
          BY <4>2, <4>3
      <3>3. PICK j \in DOMAIN n.todo : n.todo[j] = r.todo[k]
        BY <1>3, <3>2
      <3> QED
        BY <3>1, <3>3
    <2> QED
      BY <1>1, <2>1, <2>2 DEF NoContentLost, Walked
  <1>11. Numbered(n)
    <2> SUFFICES ASSUME r.op = "versions" PROVE Numbered(n)
      BY DEF Numbered, Walked
    <2>1. PICK g \in EntryIds :
            r.hits = {g} /\ (g \in r.witness.steady => \E c \in 1..MaxEntryVersion : Counted(r, g, c))
      BY <1>1 DEF Numbered, Walked
    <2>2. g \notin r.witness.steady
      <3> SUFFICES ASSUME g \in r.witness.steady, NEW c \in 1..MaxEntryVersion, Counted(r, g, c)
                   PROVE  FALSE
        BY <2>1
      <3>1. r.todo[1] = <<g, Len(r.found) + 1>>
        BY <1>3 DEF Counted
      <3>2. g = e
        BY <3>1
      <3> QED
        BY <1>5, <3>2
    <2> QED
      BY <2>1, <2>2 DEF Numbered, Walked
  <1>12. BothRead(n)
    BY DEF BothRead, Walked
  <1>13. Paging(n, rs)
    <2> SUFFICES ASSUME r.op = "page"
                 PROVE  /\ n.repeated => n.witness.grew
                        /\ InLine(n) /\ PagesFit(n, Listed(n)) /\ ListFits(n, There(rs))
      BY DEF Paging, Walked
    <2>1. /\ r.repeated => r.witness.grew
          /\ InLine(r) /\ PagesFit(r, Listed(r)) /\ ListFits(r, There(rs))
      BY <1>1 DEF Paging, Walked
    <2>2. /\ Listed(n) \subseteq Listed(r) /\ Listed(r) \subseteq EntryIds
          /\ \A g \in Listed(r) : g # e => g \in Listed(n)
      <3>1. Listed(n) \subseteq Listed(r) /\ \A g \in Listed(r) : g # e => g \in Listed(n)
        BY <1>6 DEF Listed
      <3>2. ToRead(r) \subseteq EntryIds
        BY DEF ToRead, Readers
      <3>3. \A k \in DOMAIN r.found : r.found[k].entry \in EntryIds
        <4> SUFFICES ASSUME NEW k \in DOMAIN r.found PROVE r.found[k].entry \in EntryIds
          OBVIOUS
        <4>1. r.found[k] \in Items
          BY DEF Readers
        <4> QED
          BY <4>1 DEF Items
      <3> QED
        BY <3>1, <3>2, <3>3 DEF Listed
    <2>2a. r.witness.shrank
      <3>1. e \in Listed(r)
        BY <1>6 DEF Listed
      <3> QED
        BY <1>5, <2>1, <3>1 DEF ListFits, There
    <2>3. InLine(n)
      <3>1. \A i, j \in DOMAIN n.todo : i < j => n.todo[i][1] < n.todo[j][1]
        <4> SUFFICES ASSUME NEW i \in DOMAIN n.todo, NEW j \in DOMAIN n.todo, i < j
                     PROVE  n.todo[i][1] < n.todo[j][1]
          OBVIOUS
        <4>1. /\ i + 1 \in DOMAIN r.todo /\ n.todo[i] = r.todo[i + 1]
              /\ j + 1 \in DOMAIN r.todo /\ n.todo[j] = r.todo[j + 1]
          BY <1>3
        <4>2. i + 1 < j + 1
          BY <1>3
        <4> QED
          BY <2>1, <4>1, <4>2 DEF InLine
      <3>2. \A i \in DOMAIN n.found, j \in DOMAIN n.todo : n.found[i].entry < n.todo[j][1]
        BY <1>3, <2>1 DEF InLine
      <3> QED
        BY <2>1, <3>1, <3>2 DEF InLine
    <2>4. PagesFit(n, Listed(n))
      <3> SUFFICES ASSUME ~r.witness.grew, NEW x \in r.got \intersect Listed(n)
                   PROVE  Cardinality(UpTo(Listed(n), x)) <= r.offset
        BY <2>2a DEF PagesFit, Walked
      <3>1. Cardinality(UpTo(Listed(r), x)) <= r.offset /\ r.offset \in Nat /\ x \in EntryIds
        BY <2>1, <2>2 DEF PagesFit, Readers
      <3>2. /\ Cardinality(UpTo(Listed(n), x)) <= Cardinality(UpTo(Listed(r), x))
            /\ Cardinality(UpTo(Listed(n), x)) \in Nat /\ Cardinality(UpTo(Listed(r), x)) \in Nat
        BY <2>2, <3>1, CountsOrdered
      <3> QED
        BY <3>1, <3>2
    <2>5. ListFits(n, There(rs))
      <3>1. ~r.witness.grew => There(rs) \subseteq Listed(n)
        BY <1>5, <2>1, <2>2 DEF ListFits, There
      <3> QED
        BY <2>2a, <3>1 DEF ListFits, Walked
    <2> QED
      BY <2>1, <2>3, <2>4, <2>5 DEF Walked
  <1> QED
    BY <1>7, <1>8, <1>9, <1>10, <1>11, <1>12, <1>13, WalksOn

\* The first of what is to be read is not there.
LEMMA MissingKeeps ==
    ASSUME DeliveryInv, reader # None, reader.pc = "read", reader.todo # <<>>, Missing,
           NEW e, NEW v, Head(reader.todo) = <<e, v>>,
           IF v = 0 THEN rows[e] = <<>> ELSE v \notin 1..Len(rows[e])
    PROVE  DeliveryInv'
  <1>1. PICK r \in Readers : r = reader
    BY ReaderFacts
  <1>2. StoreInv /\ Good(r, rows, Current, Open) /\ Current \in Nat
    BY <1>1, ReaderFacts
  <1>3. PICK t \in Seq(EntryIds \X Nat) :
          t = Tail(r.todo) /\ Rest(t, r.todo) /\ r.todo[1] = <<e, v>> /\ <<e, v>> \in EntryIds \X Nat
    <2>1. r.todo \in Seq(EntryIds \X Nat) /\ r.todo # <<>>
      BY <1>1 DEF Readers
    <2>2. /\ Head(r.todo) = r.todo[1] /\ r.todo[1] \in EntryIds \X Nat
          /\ Tail(r.todo) \in Seq(EntryIds \X Nat) /\ Rest(Tail(r.todo), r.todo)
      BY <2>1, RestFacts
    <2>3. Head(r.todo) = <<e, v>>
      BY <1>1
    <2> QED
      BY <2>2, <2>3
  <1>4. Goes(None) \/ (r.op \notin {"entry", "payload", "entry_diff"} /\ Goes([r EXCEPT !.todo = t]))
    BY <1>1, <1>3 DEF Missing, Refused
  <1>5. ASSUME r.op \notin {"entry", "payload", "entry_diff"}, NEW n, n = [r EXCEPT !.todo = t]
        PROVE  Good(n, rows, Current, Open)
    <2>1. n \in Readers /\ Walked(r, n) /\ n.found = r.found /\ n.todo = t
      BY <1>1, <1>5 DEF Readers, Walked
    <2>2. e \in EntryIds /\ v \in Nat /\ rows \in Tables
      BY <1>2, <1>3 DEF StoreInv
    <2> QED
      BY <1>2, <1>3, <1>5, <2>1, <2>2, EntryMissing
  <1> QED
    BY <1>4, <1>5, ReaderMoves

LEMMA VersionKeeps == ASSUME DeliveryInv, ReadVersion PROVE DeliveryInv'
  <1>1. reader # None /\ reader.pc = "read" /\ reader.todo # <<>> /\ Head(reader.todo)[2] = 0
    BY DEF ReadVersion, At
  <1>2. PICK r \in Readers : r = reader
    BY <1>1, ReaderFacts
  <1>3. StoreInv /\ Good(r, rows, Current, Open) /\ Current \in Nat /\ r.pc = "read" /\ r.todo # <<>>
    BY <1>1, <1>2, ReaderFacts
  <1>4. PICK e \in EntryIds : Head(r.todo) = <<e, 0>> /\ r.todo[1] = <<e, 0>>
    <2>1. Head(r.todo) = r.todo[1] /\ r.todo[1] \in EntryIds \X Nat
      BY <1>3, RestFacts DEF Readers
    <2> QED
      BY <1>1, <1>2, <2>1
  <1>5. \/ rows[e] # <<>> /\ Goes([r EXCEPT !.todo = <<<<e, Len(rows[e])>>>> \o Tail(@)])
        \/ rows[e] = <<>> /\ Missing
    <2>1. Head(r.todo)[1] = e
      BY <1>4
    <2> QED
      BY <1>2, <2>1 DEF ReadVersion
  <1>6. CASE rows[e] = <<>> /\ Missing
    BY <1>1, <1>2, <1>4, <1>6, MissingKeeps
  <1>7. ASSUME rows[e] # <<>>, NEW n, n = [r EXCEPT !.todo = <<<<e, Len(rows[e])>>>> \o Tail(@)]
        PROVE  Good(n, rows, Current, Open)
    <2>1. rows \in Tables /\ <<e, Len(rows[e])>> \in EntryIds \X Nat
      BY <1>3 DEF StoreInv, Tables
    <2>2. PICK p \in Seq(EntryIds \X Nat) :
            p = <<<<e, Len(rows[e])>>>> \o Tail(r.todo) /\ WithFirst(p, <<e, Len(rows[e])>>, r.todo)
      BY <1>3, <2>1, WithFirstFacts DEF Readers
    <2>3. n = [r EXCEPT !.todo = p]
      BY <1>7, <2>2
    <2>4. n \in Readers /\ Walked(r, n) /\ n.found = r.found /\ n.todo = p
      BY <1>3, <2>3 DEF Readers, Walked
    <2> QED
      BY <1>3, <1>4, <1>7, <2>1, <2>2, <2>4, NumberRead
  <1> QED
    BY <1>5, <1>6, <1>7, ReaderMoves

LEMMA EntryKeeps == ASSUME DeliveryInv, ReadEntry PROVE DeliveryInv'
  <1>1. reader # None /\ reader.pc = "read" /\ reader.todo # <<>> /\ Head(reader.todo)[2] # 0
    BY DEF ReadEntry, At
  <1>2. PICK r \in Readers : r = reader
    BY <1>1, ReaderFacts
  <1>3. StoreInv /\ Good(r, rows, Current, Open) /\ Current \in Nat /\ r.pc = "read" /\ r.todo # <<>>
    BY <1>1, <1>2, ReaderFacts
  <1>4. PICK e \in EntryIds, v \in Nat : Head(r.todo) = <<e, v>> /\ r.todo[1] = <<e, v>> /\ v # 0
    <2>1. Head(r.todo) = r.todo[1] /\ r.todo[1] \in EntryIds \X Nat
      BY <1>3, RestFacts DEF Readers
    <2> QED
      BY <1>1, <1>2, <2>1
  <1>4a. rows \in Tables /\ DOMAIN rows[e] = 1..Len(rows[e])
    BY <1>3 DEF StoreInv, Tables
  <1>5. \/ /\ v \in 1..Len(rows[e])
           /\ Goes([r EXCEPT !.todo = Tail(@), !.found = Append(@, Item(e, v))])
        \/ v \notin 1..Len(rows[e]) /\ Missing
    <2>1. Head(r.todo)[1] = e /\ Head(r.todo)[2] = v
      BY <1>4
    <2> QED
      BY <1>2, <1>4a, <2>1 DEF ReadEntry
  <1>6. CASE v \notin 1..Len(rows[e]) /\ Missing
    BY <1>1, <1>2, <1>4, <1>6, MissingKeeps
  <1>7. ASSUME v \in 1..Len(rows[e]), NEW n,
               n = [r EXCEPT !.todo = Tail(@), !.found = Append(@, Item(e, v))]
        PROVE  Good(n, rows, Current, Open)
    <2>1. PICK t \in Seq(EntryIds \X Nat) : t = Tail(r.todo) /\ Rest(t, r.todo)
      BY <1>3, RestFacts DEF Readers
    <2>2. PICK x \in Items : x = Item(e, v) /\ x = ItemOf(rows, e, v)
      <3>1. rows[e][v] \in RowSet
        BY <1>4a, <1>7 DEF Tables
      <3> QED
        BY <3>1 DEF Item, ItemOf, Items
    <2>3. PICK f \in Seq(Items) : f = Append(r.found, x)
      <3>1. Append(r.found, x) \in Seq(Items)
        BY DEF Readers
      <3> QED
        BY <3>1
    <2>4. n = [r EXCEPT !.todo = t, !.found = f]
      BY <1>7, <2>1, <2>2, <2>3
    <2>5. n \in Readers /\ Walked(r, n) /\ n.found = f /\ n.todo = t
      BY <1>3, <2>4 DEF Readers, Walked
    <2>6. n.found = Append(r.found, ItemOf(rows, e, v))
      BY <2>2, <2>3, <2>5
    <2> QED
      BY <1>3, <1>4, <1>4a, <1>7, <2>1, <2>5, <2>6, EntryRead
  <1> QED
    BY <1>5, <1>6, <1>7, ReaderMoves
-----------------------------------------------------------------------------
(* The first step of a reader and the last ones.                           *)

LEMMA WitnessFacts ==
    ASSUME StoreInv PROVE Witness \in Witnesses /\ Knows(Witness, rows, Current, Open)
  <1>1. Current \in Nat /\ Open \in BOOLEAN
    BY CurrentFacts
  <1>2. rows \in Tables
    BY DEF StoreInv
  <1>3. \A e \in EntryIds : \A v \in 1..Len(rows[e]) : ItemOf(rows, e, v) \in AllItems
    BY <1>2 DEF ItemOf, AllItems, Item, Tables
  <1>4. AllItems \subseteq Items
    BY <1>2 DEF Items, AllItems, Item, Tables
  <1>5. \A e \in EntryIds : rows[e] # <<>> <=> e \in Present
    BY DEF Present
  <1>6. \A e \in EntryIds : rows[e] # <<>> =>
           ItemOf(rows, e, Len(rows[e])) \in LatestItems
    BY <1>5 DEF LatestItems, Item, ItemOf
  <1>7. \A i \in LatestItems : i \in Items /\ rows[i.entry] # <<>> /\ i.version = Len(rows[i.entry])
                               /\ i.row = Newest(rows[i.entry])
    <2> SUFFICES ASSUME NEW i \in LatestItems
                 PROVE  i \in Items /\ rows[i.entry] # <<>> /\ i.version = Len(rows[i.entry])
                        /\ i.row = Newest(rows[i.entry])
      OBVIOUS
    <2>1. PICK e \in Present : i = Item(e, Len(rows[e]))
      BY DEF LatestItems
    <2>2. i.entry = e /\ i.version = Len(rows[e]) /\ i.row = Newest(rows[e])
      BY <2>1 DEF Item, Newest
    <2> QED
      BY <1>5, <2>1, <2>2, LatestTyped DEF Present
  <1>8. Witness \in Witnesses
    <2>1. {<<Current, Open, i>> : i \in AllItems} \subseteq Nat \X BOOLEAN \X Items
      BY <1>1, <1>4
    <2>2. {<<i.entry, i.version>> : i \in LatestItems} \subseteq EntryIds \X Nat
      BY <1>7 DEF Items
    <2>3. Present \subseteq EntryIds /\ Approved \subseteq EntryIds
      BY <1>7 DEF Present, Approved, Items
    <2>4. Contents(LatestItems) \subseteq Nat
      BY <1>7 DEF Contents, Items, RowSet
    <2> QED
      BY <2>1, <2>2, <2>3, <2>4 DEF Witness, Witnesses
  <1>9. Knows(Witness, rows, Current, Open)
    <2>1. \A e \in EntryIds : \A v \in 1..Len(rows[e]) :
            <<Current, Open, ItemOf(rows, e, v)>> \in Witness.seen
      BY <1>3 DEF Witness
    <2>2. \A e \in EntryIds : rows[e] # <<>> => <<e, Len(rows[e])>> \in Witness.latest
      <3> SUFFICES ASSUME NEW e \in EntryIds, rows[e] # <<>>
                   PROVE  \E i \in LatestItems : i.entry = e /\ i.version = Len(rows[e])
        BY DEF Witness
      <3> QED
        BY <1>6 DEF ItemOf
    <2>3. \A e \in Witness.steady : rows[e] # <<>>
      BY DEF Witness, Present
    <2>4. \A e \in Witness.approved : rows[e] # <<>> /\ Newest(rows[e]).approved
      BY <1>7 DEF Witness, Approved
    <2>5. \A c \in Witness.kept : \E e \in EntryIds : rows[e] # <<>> /\ Newest(rows[e]).content = c
      BY <1>7 DEF Witness, Contents, Items
    <2> QED
      BY <2>1, <2>2, <2>3, <2>4, <2>5 DEF Knows
  <1> QED
    BY <1>8, <1>9

LEMMA ArrivalKeeps ==
    ASSUME DeliveryInv, NEW op \in Ops, NEW foreign \in BOOLEAN,
           NEW base \in 1..MaxVersion, NEW label \in 1..MaxVersion,
           Arrive(op, foreign, base, label)
    PROVE  DeliveryInv'
  <1> DEFINE w == Witness
             pc == FirstStep(op)
  <1>1. StoreInv /\ w \in Witnesses /\ Knows(w, rows, Current, Open)
    BY WitnessFacts DEF DeliveryInv
  <1>2. /\ pc \in Places \ {"read", "to", "done", "row", "archive", "list", "numbers"}
        /\ pc = "pullable" <=> op \in {"pull", "page"}
        /\ pc = "chain" <=> op \in {"export", "version", "diff"}
        /\ pc = "hits" <=> op = "search"
        /\ pc = "datasets" <=> op \in {"browse", "discover"}
        /\ pc = "own" <=> op = "entry"
        /\ pc = "locate" <=> op \in {"versions", "payload", "entry_diff"}
        /\ pc # "listed"
    BY DEF FirstStep, Places, Ops, EntryOps
  <1> HIDE DEF w, pc
  <1>3. PICK nil : nil = <<>> /\ nil \in Seq(Items) /\ nil \in Seq(EntryIds \X Nat) /\ DOMAIN nil = {}
    <2>1. <<>> \in Seq(Items) /\ <<>> \in Seq(EntryIds \X Nat) /\ DOMAIN <<>> = {}
      OBVIOUS
    <2> QED
      BY <2>1
  <1>4. PICK n : n = [ op |-> op, foreign |-> foreign, base |-> base, label |-> label,
                       pc |-> pc, kind |-> "rule_set", live |-> FALSE,
                       todo |-> nil, found |-> nil, given |-> {}, kept |-> EntryIds,
                       hits |-> {}, from |-> {}, to |-> {},
                       offset |-> 0, got |-> {}, repeated |-> FALSE, witness |-> w ]
    OBVIOUS
  <1>5. Goes(n)
    BY <1>3, <1>4 DEF Arrive, Goes, w, pc
  <1>6. /\ n \in Readers /\ n.op = op /\ n.witness = w /\ ~n.live /\ n.pc = pc /\ n.found = <<>>
        /\ n.given = {} /\ n.offset = 0 /\ n.got = {} /\ ~n.repeated
    BY <1>1, <1>2, <1>3, <1>4 DEF Readers, DatasetKinds
  <1>7. Placed(n)
    BY <1>2, <1>6 DEF Placed
  <1>8. Begun(n, Current)
    BY <1>6 DEF Begun, Labelled
  <1>9. Paging(n, rows)
    <2> SUFFICES ASSUME NEW e \in w.steady PROVE Cardinality(Below(There(rows), e)) >= 0
      BY <1>2, <1>6 DEF Paging, PagesFit
    <2>1. e \in EntryIds /\ There(rows) \subseteq EntryIds
      BY <1>1 DEF Witnesses, There
    <2>2. Cardinality(Below(There(rows), e)) \in Nat
      BY <2>1, CountsOrdered
    <2> QED
      BY <2>2
  <1>10. /\ BothRead(n) /\ TodoFits(n, rows) /\ FoundWasSeen(n) /\ NoneLost(n)
         /\ NoContentLost(n, rows) /\ KeptToCompare(n) /\ Numbered(n) /\ Answered(n)
    BY <1>2, <1>6 DEF BothRead, TodoFits, FoundWasSeen, NoneLost, NoContentLost, KeptToCompare,
                      Numbered, Answered
  <1>11. Good(n, rows, Current, Open)
    BY <1>1, <1>6, <1>7, <1>8, <1>9, <1>10 DEF Good
  <1> QED
    BY <1>5, <1>11, ReaderMoves

\* A reader that has its answer.
LEMMA Answers ==
    ASSUME NEW r, NEW n \in Readers, NEW rs, NEW cur, NEW open, Good(r, rs, cur, open),
           n.op = r.op, n.witness = r.witness, n.live = r.live, n.label = r.label,
           n.pc = "done", Placed(n), Answered(n), Numbered(n), Paging(n, rs)
    PROVE  Good(n, rs, cur, open)
  BY DEF Good, Begun, Labelled, TodoFits, FoundWasSeen, NoneLost, NoContentLost, KeptToCompare,
         BothRead

\* A reader that has read all, and what it has then.
LEMMA ReadAll ==
    ASSUME DeliveryInv, NEW ops, AllRead(ops)
    PROVE  \E r \in Readers :
             /\ r = reader /\ StoreInv /\ Good(r, rows, Current, Open) /\ r.op \in ops
             /\ r.pc = "read" /\ r.todo = <<>> /\ DOMAIN r.todo = {} /\ Placed(r)
             /\ ToRead(r) = {} /\ Range(r.found) \subseteq Items
             /\ \A i \in Range(r.found) : \E k \in DOMAIN r.found : i = r.found[k]
             /\ \A k \in DOMAIN r.found : r.found[k] \in Range(r.found)
  <1>1. reader # None /\ reader.pc = "read" /\ reader.todo = <<>> /\ reader.op \in ops
    BY DEF AllRead, At
  <1>2. PICK r \in Readers : r = reader
    BY <1>1, ReaderFacts
  <1>3. StoreInv /\ Good(r, rows, Current, Open) /\ Placed(r)
    BY <1>1, <1>2, ReaderFacts DEF Good
  <1>4. DOMAIN r.todo = {} /\ r.todo = <<>>
    BY <1>1, <1>2
  <1>5. r.found \in Seq(Items)
    BY DEF Readers
  <1> QED
    BY <1>1, <1>2, <1>3, <1>4, <1>5 DEF ToRead, Range

\* All content that was there all the time has been read.
LEMMA AllContentRead ==
    ASSUME NEW r \in Readers, NEW rs, NEW cur, NEW open, Good(r, rs, cur, open),
           r.pc = "read", DOMAIN r.todo = {}, r.op \in {"search", "diff"},
           r.op = "diff" => r.kind = "rule_set",
           NEW c \in r.witness.kept
    PROVE  \E k \in DOMAIN r.found : r.found[k].row.content = c
  <1>1. PICK e \in EntryIds : rs[e] # <<>> /\ Newest(rs[e]).content = c
    BY DEF Good, Knows
  <1> QED
    BY <1>1 DEF Good, NoContentLost
LEMMA SearchKeeps == ASSUME DeliveryInv, FinishSearch PROVE DeliveryInv'
  <1>1. PICK r \in Readers :
             /\ r = reader /\ StoreInv /\ Good(r, rows, Current, Open) /\ r.op = "search"
             /\ r.pc = "read" /\ DOMAIN r.todo = {} /\ Placed(r) /\ Range(r.found) \subseteq Items
             /\ \A i \in Range(r.found) : \E k \in DOMAIN r.found : i = r.found[k]
             /\ \A k \in DOMAIN r.found : r.found[k] \in Range(r.found)
    BY ReadAll DEF FinishSearch
  <1>2. FoundWasSeen(r)
    BY <1>1 DEF Good
  <1>3. PICK G \in SUBSET Items : G = FoundBy(r)
    BY <1>1 DEF FoundBy
  <1>4. PICK n : n = [r EXCEPT !.given = G, !.pc = "done"] /\ Goes(n)
    BY <1>1, <1>3 DEF FinishSearch
  <1>5. /\ n \in Readers /\ n.op = r.op /\ n.witness = r.witness /\ n.live = r.live /\ n.label = r.label
        /\ n.pc = "done" /\ n.given = G /\ n.kind = r.kind /\ n.found = r.found
    BY <1>4 DEF Readers, Places
  <1>6. Placed(n) /\ Numbered(n) /\ Paging(n, rows)
    BY <1>1, <1>5 DEF Placed, Numbered, Paging
  <1>7. \A i \in G : WasSeen(n, i) /\ <<i.entry, i.version>> \in n.witness.latest
    <2> SUFFICES ASSUME NEW i \in G PROVE WasSeen(n, i) /\ <<i.entry, i.version>> \in n.witness.latest
      OBVIOUS
    <2>1. PICK k \in DOMAIN r.found : i = r.found[k]
      BY <1>1, <1>3 DEF FoundBy
    <2>2. WasSeen(r, i) /\ <<i.entry, i.version>> \in r.witness.latest
      BY <1>1, <1>2, <2>1 DEF FoundWasSeen, Walks
    <2> QED
      BY <1>5, <2>2 DEF WasSeen, Labelled
  <1>8. r.kind # "knowledge" => \A c \in r.witness.kept \intersect Matching :
                                   \E i \in G : i.row.content = c
    <2> SUFFICES ASSUME r.kind # "knowledge", NEW c \in r.witness.kept, c \in Matching
                 PROVE  \E i \in G : i.row.content = c
      OBVIOUS
    <2>1. PICK k \in DOMAIN r.found : r.found[k].row.content = c
      BY <1>1, AllContentRead
    <2>2. r.found[k] \in FoundBy(r)
      BY <1>1, <2>1 DEF FoundBy, Matches
    <2> QED
      BY <1>3, <2>1, <2>2
  <1>9. Answered(n)
    <2> HIDE DEF WasSeen
    <2> QED
      BY <1>1, <1>5, <1>7, <1>8 DEF Answered
  <1>10. Good(n, rows, Current, Open)
    BY <1>1, <1>5, <1>6, <1>9, Answers
  <1> QED
    BY <1>4, <1>10, ReaderMoves

LEMMA VersionsKeep == ASSUME DeliveryInv, FinishVersions PROVE DeliveryInv'
  <1>1. PICK r \in Readers :
             /\ r = reader /\ StoreInv /\ Good(r, rows, Current, Open)
             /\ r.op \in {"entry", "versions", "payload"}
             /\ r.pc = "read" /\ r.todo = <<>> /\ Placed(r) /\ Range(r.found) \subseteq Items
             /\ \A i \in Range(r.found) : \E k \in DOMAIN r.found : i = r.found[k]
    BY ReadAll DEF FinishVersions
  <1>2. FoundWasSeen(r) /\ Numbered(r)
    BY <1>1 DEF Good
  <1>3. PICK n : n = [r EXCEPT !.given = Range(r.found), !.pc = "done"] /\ Goes(n)
    BY <1>1 DEF FinishVersions
  <1>4. /\ n \in Readers /\ n.op = r.op /\ n.witness = r.witness /\ n.live = r.live /\ n.label = r.label
        /\ n.pc = "done" /\ n.given = Range(r.found) /\ n.found = r.found /\ n.todo = r.todo
        /\ n.hits = r.hits
    BY <1>1, <1>3, ZenonT(60) DEF Readers, Places
  <1>5. Placed(n) /\ Paging(n, rows)
    BY <1>1, <1>4 DEF Placed, Paging
  <1>6. \A i \in n.given : WasSeen(n, i) /\ (n.op = "entry" => <<i.entry, i.version>> \in n.witness.latest)
    <2> SUFFICES ASSUME NEW i \in n.given
                 PROVE  WasSeen(n, i) /\ (n.op = "entry" => <<i.entry, i.version>> \in n.witness.latest)
      OBVIOUS
    <2>1. PICK k \in DOMAIN r.found : i = r.found[k]
      BY <1>1, <1>4
    <2>2. WasSeen(r, i) /\ (n.op = "entry" => <<i.entry, i.version>> \in r.witness.latest)
      BY <1>1, <1>2, <1>4, <2>1 DEF FoundWasSeen, Walks
    <2> QED
      BY <1>4, <2>2 DEF WasSeen, Labelled
  <1>7. Answered(n)
    <2> HIDE DEF WasSeen
    <2> QED
      BY <1>1, <1>4, <1>6 DEF Answered
  <1>8. Numbered(n)
    <2> SUFFICES ASSUME r.op = "versions" PROVE Numbered(n)
      BY <1>4 DEF Numbered
    <2>1. PICK e \in EntryIds :
            r.hits = {e} /\ (e \in r.witness.steady => \E m \in 1..MaxEntryVersion : Counted(r, e, m))
      BY <1>1, <1>2 DEF Numbered
    <2>2. \A m \in 1..MaxEntryVersion : Counted(r, e, m) => Counted(n, e, m)
      BY <1>1, <1>4 DEF Counted
    <2> QED
      BY <1>4, <2>1, <2>2 DEF Numbered
  <1>9. Good(n, rows, Current, Open)
    BY <1>1, <1>4, <1>5, <1>7, <1>8, Answers
  <1> QED
    BY <1>3, <1>9, ReaderMoves

LEMMA EntryDiffKeeps == ASSUME DeliveryInv, FinishEntryDiff PROVE DeliveryInv'
  <1>1. PICK r \in Readers :
             /\ r = reader /\ StoreInv /\ Good(r, rows, Current, Open) /\ r.op = "entry_diff"
             /\ r.pc = "read" /\ r.todo = <<>> /\ Placed(r)
    BY ReadAll DEF FinishEntryDiff
  <1>2. BothRead(r) /\ r.found \in Seq(Items)
    BY <1>1 DEF Good, Readers
  <1>3. Len(r.found) = 2
    <2>1. Len(r.todo) = 0 /\ Len(r.found) \in Nat
      BY <1>1, <1>2
    <2> QED
      BY <1>1, <1>2, <2>1 DEF BothRead
  <1>4. r.found[1] \in Items /\ r.found[2] \in Items
    BY <1>2, <1>3
  <1>5. PICK F \in SUBSET Nat, T \in SUBSET Nat :
           F = {r.found[1].row.content} /\ T = {r.found[2].row.content}
    BY <1>4 DEF Items, RowSet
  <1>6. PICK n : n = [r EXCEPT !.from = F, !.to = T, !.pc = "done"] /\ Goes(n)
    BY <1>1, <1>5 DEF FinishEntryDiff
  <1>7. /\ n \in Readers /\ n.op = r.op /\ n.witness = r.witness /\ n.live = r.live /\ n.label = r.label
        /\ n.pc = "done" /\ n.given = r.given
    BY <1>6 DEF Readers, Places
  <1>8. Placed(n) /\ Paging(n, rows) /\ Answered(n) /\ Numbered(n)
    BY <1>1, <1>7 DEF Placed, Paging, Answered, Numbered
  <1>9. Good(n, rows, Current, Open)
    BY <1>1, <1>7, <1>8, Answers
  <1> QED
    BY <1>6, <1>9, ReaderMoves

LEMMA ExportKeeps == ASSUME DeliveryInv, FinishExport PROVE DeliveryInv'
  <1>1. PICK r \in Readers :
             /\ r = reader /\ StoreInv /\ Good(r, rows, Current, Open) /\ r.op \in {"export", "pull"}
             /\ r.pc = "read" /\ ToRead(r) = {} /\ Placed(r) /\ Range(r.found) \subseteq Items
             /\ \A i \in Range(r.found) : \E k \in DOMAIN r.found : i = r.found[k]
             /\ \A k \in DOMAIN r.found : r.found[k] \in Range(r.found)
    BY ReadAll DEF FinishExport
  <1>2. FoundWasSeen(r) /\ NoneLost(r)
    BY <1>1 DEF Good
  <1>3. PICK G \in SUBSET Items : G = Retained(r)
    BY <1>1 DEF Retained
  <1>4. PICK n : n = [r EXCEPT !.given = G, !.pc = "done"] /\ Goes(n)
    BY <1>1, <1>3 DEF FinishExport, Exported
  <1>5. /\ n \in Readers /\ n.op = r.op /\ n.witness = r.witness /\ n.live = r.live /\ n.label = r.label
        /\ n.pc = "done" /\ n.given = G /\ n.kind = r.kind /\ n.found = r.found
    BY <1>4 DEF Readers, Places
  <1>6. Placed(n) /\ Numbered(n) /\ Paging(n, rows)
    BY <1>1, <1>5 DEF Placed, Numbered, Paging
  <1>7. \A i \in G : WasSeen(n, i) /\ <<i.entry, i.version>> \in n.witness.latest
    <2> SUFFICES ASSUME NEW i \in G PROVE WasSeen(n, i) /\ <<i.entry, i.version>> \in n.witness.latest
      OBVIOUS
    <2>1. PICK k \in DOMAIN r.found : i = r.found[k]
      BY <1>1, <1>3 DEF Retained
    <2>2. WasSeen(r, i) /\ <<i.entry, i.version>> \in r.witness.latest
      BY <1>1, <1>2, <2>1 DEF FoundWasSeen, Walks
    <2> QED
      BY <1>5, <2>2 DEF WasSeen, Labelled
  <1>8. r.kind # "mcp_servers" => \A e \in r.witness.steady : \E i \in G : i.entry = e
    <2> SUFFICES ASSUME r.kind # "mcp_servers", NEW e \in r.witness.steady PROVE \E i \in G : i.entry = e
      OBVIOUS
    <2>1. PICK k \in DOMAIN r.found : r.found[k].entry = e
      BY <1>1, <1>2 DEF NoneLost
    <2>2. r.found[k] \in Retained(r)
      BY <1>1 DEF Retained
    <2> QED
      BY <1>3, <2>1, <2>2
  <1>9. \A e \in r.witness.approved : \E i \in G : i.entry = e
    <2> SUFFICES ASSUME NEW e \in r.witness.approved PROVE \E i \in G : i.entry = e
      OBVIOUS
    <2>1. PICK k \in DOMAIN r.found : r.found[k].entry = e /\ r.found[k].row.approved
      BY <1>1, <1>2 DEF NoneLost
    <2>2. r.found[k] \in Retained(r)
      BY <1>1, <2>1 DEF Retained
    <2> QED
      BY <1>3, <2>1, <2>2
  <1>10. r.kind = "mcp_servers" => \A i \in G : i.row.approved
    BY <1>3 DEF Retained
  <1>11. Answered(n)
    <2> HIDE DEF WasSeen
    <2> QED
      BY <1>1, <1>5, <1>7, <1>8, <1>9, <1>10 DEF Answered
  <1>12. Good(n, rows, Current, Open)
    BY <1>1, <1>5, <1>6, <1>11, Answers
  <1> QED
    BY <1>4, <1>12, ReaderMoves

LEMMA ArchiveKeeps == ASSUME DeliveryInv, ReadArchive PROVE DeliveryInv'
  <1>1. reader # None /\ reader.pc = "archive"
    BY DEF ReadArchive, At
  <1>2. PICK r \in Readers : r = reader
    BY <1>1, ReaderFacts
  <1>3. StoreInv /\ Good(r, rows, Current, Open) /\ r.pc = "archive" /\ Placed(r)
    BY <1>1, <1>2, ReaderFacts DEF Good
  <1>4. PICK G \in SUBSET Items : G = archive[r.label]
    BY <1>3 DEF StoreInv, Readers
  <1>5. Goes(None) \/ Goes([r EXCEPT !.given = G, !.pc = "done"])
    BY <1>2, <1>4 DEF ReadArchive, Refused
  <1>6. ASSUME NEW n, n = [r EXCEPT !.given = G, !.pc = "done"]
        PROVE  Good(n, rows, Current, Open)
    <2>1. /\ n \in Readers /\ n.op = r.op /\ n.witness = r.witness /\ n.live = r.live /\ n.label = r.label
          /\ n.pc = "done"
      BY <1>6 DEF Readers, Places
    <2>2. n.op = "export" /\ ~n.live /\ Placed(n)
      BY <1>3, <2>1 DEF Placed
    <2>3. Paging(n, rows) /\ Answered(n) /\ Numbered(n)
      BY <2>2 DEF Paging, Answered, Numbered
    <2> QED
      BY <1>3, <2>1, <2>2, <2>3, Answers
  <1> QED
    BY <1>5, <1>6, ReaderMoves

LEMMA DiffListKeeps == ASSUME DeliveryInv, FinishDiffList PROVE DeliveryInv'
  <1>1. PICK r \in Readers :
             /\ r = reader /\ StoreInv /\ Good(r, rows, Current, Open) /\ r.op = "diff"
             /\ r.pc = "read" /\ DOMAIN r.todo = {} /\ Placed(r)
    BY ReadAll DEF FinishDiffList
  <1>2. PICK F \in SUBSET Nat : F = Contents(archive[r.base])
    <2>1. archive[r.base] \subseteq Items
      BY <1>1 DEF StoreInv, Readers
    <2> QED
      BY <2>1 DEF Contents, Items, RowSet
  <1>3. PICK n : n = [r EXCEPT !.from = F, !.pc = "to"] /\ Goes(n)
    BY <1>1, <1>2 DEF FinishDiffList
  <1>4. /\ n \in Readers /\ n.op = r.op /\ n.witness = r.witness /\ n.live = r.live /\ n.label = r.label
        /\ n.pc = "to" /\ n.given = r.given /\ n.kind = r.kind /\ n.found = r.found
    BY <1>3 DEF Readers, Places
  <1>5. n.op = "diff" /\ n.given = {} /\ Placed(n)
    BY <1>1, <1>4 DEF Placed
  <1>6. KeptToCompare(n)
    <2> SUFFICES ASSUME r.kind = "rule_set", NEW c \in r.witness.kept
                 PROVE  \E k \in DOMAIN r.found : r.found[k].row.content = c
      BY <1>4 DEF KeptToCompare
    <2> QED
      BY <1>1, AllContentRead
  <1>7. Good(n, rows, Current, Open)
    <2>1. Knows(n.witness, rows, Current, Open) /\ Begun(n, Current)
      BY <1>1, <1>4 DEF Good, Begun, Labelled
    <2>2. /\ BothRead(n) /\ TodoFits(n, rows) /\ FoundWasSeen(n) /\ NoneLost(n)
          /\ NoContentLost(n, rows) /\ Numbered(n) /\ Answered(n) /\ Paging(n, rows)
      BY <1>4, <1>5 DEF BothRead, TodoFits, FoundWasSeen, NoneLost, NoContentLost, Numbered, Answered,
                        Paging
    <2> QED
      BY <1>4, <1>5, <1>6, <2>1, <2>2 DEF Good
  <1> QED
    BY <1>3, <1>7, ReaderMoves
LEMMA DiffKeeps == ASSUME DeliveryInv, FinishDiff PROVE DeliveryInv'
  <1>1. reader # None /\ reader.pc = "to"
    BY DEF FinishDiff, At
  <1>2. PICK r \in Readers : r = reader
    BY <1>1, ReaderFacts
  <1>3. StoreInv /\ Good(r, rows, Current, Open) /\ r.pc = "to" /\ Placed(r) /\ r.op = "diff"
    BY <1>1, <1>2, ReaderFacts DEF Good, Placed
  <1>4. /\ \A k \in DOMAIN r.found : r.found[k] \in Items /\ r.found[k] \in Range(r.found)
        /\ Range(r.found) \subseteq Items
    <2>1. r.found \in Seq(Items)
      BY DEF Readers
    <2> QED
      BY <2>1 DEF Range
  <1>5. PICK T \in SUBSET Nat : T = Hashes(r)
    <2>1. archive[r.label] \subseteq Items
      BY <1>3 DEF StoreInv, Readers
    <2>2. \A I \in SUBSET Items : Contents(I) \subseteq Nat
      BY DEF Contents, Items, RowSet
    <2> QED
      BY <1>4, <2>1, <2>2 DEF Hashes
  <1>6. PICK n : n = [r EXCEPT !.to = T, !.pc = "done"] /\ Goes(n)
    BY <1>2, <1>5 DEF FinishDiff
  <1>7. /\ n \in Readers /\ n.op = r.op /\ n.witness = r.witness /\ n.live = r.live /\ n.label = r.label
        /\ n.pc = "done" /\ n.given = r.given /\ n.kind = r.kind /\ n.to = T
    BY <1>6 DEF Readers, Places
  <1>8. Placed(n) /\ Numbered(n) /\ Paging(n, rows)
    BY <1>3, <1>7 DEF Placed, Numbered, Paging
  <1>9. Answered(n)
    <2> SUFFICES ASSUME r.live, r.kind = "rule_set", NEW c \in r.witness.kept PROVE c \in T
      BY <1>3, <1>7 DEF Answered
    <2>1. PICK k \in DOMAIN r.found : r.found[k].row.content = c
      BY <1>3 DEF Good, KeptToCompare
    <2> QED
      BY <1>4, <1>5, <2>1 DEF Hashes, Contents
  <1>10. Good(n, rows, Current, Open)
    BY <1>3, <1>7, <1>8, <1>9, Answers
  <1> QED
    BY <1>6, <1>10, ReaderMoves

LEMMA TrimKeeps == ASSUME DeliveryInv, NEW S \in SUBSET EntryIds, Trim(S) PROVE DeliveryInv'
  <1>1. reader # None /\ reader.pc = "done" /\ reader.op = "export" /\ reader.kept = EntryIds
    BY DEF Trim, At
  <1>2. PICK r \in Readers : r = reader
    BY <1>1, ReaderFacts
  <1>3. /\ StoreInv /\ Good(r, rows, Current, Open) /\ r.pc = "done" /\ Placed(r) /\ r.op = "export"
        /\ r.kept = EntryIds /\ Answered(r)
    BY <1>1, <1>2, ReaderFacts DEF Good
  <1>4. PICK G \in SUBSET Items : G = {i \in r.given : i.entry \in S}
    BY DEF Readers
  <1>5. Goes(None) \/ Goes([r EXCEPT !.given = G, !.kept = S])
    BY <1>2, <1>4 DEF Trim, Refused
  <1>6. ASSUME NEW n, n = [r EXCEPT !.given = G, !.kept = S]
        PROVE  Good(n, rows, Current, Open)
    <2>1. /\ n \in Readers /\ n.op = r.op /\ n.witness = r.witness /\ n.live = r.live /\ n.label = r.label
          /\ n.pc = "done" /\ n.given = G /\ n.kept = S /\ n.found = r.found /\ n.kind = r.kind
      BY <1>3, <1>6 DEF Readers
    <2>2. Placed(n) /\ Numbered(n) /\ Paging(n, rows)
      BY <1>3, <2>1 DEF Placed, Numbered, Paging
    <2>3. Answered(n)
      <3> SUFFICES ASSUME r.live PROVE Answered(n)
        BY <1>3, <2>1 DEF Answered
      <3>1. \A i \in G : WasSeen(n, i) /\ <<i.entry, i.version>> \in n.witness.latest
        BY <1>3, <1>4, <2>1 DEF Answered, WasSeen, Labelled
      <3>2. /\ r.kind # "mcp_servers" => \A e \in r.witness.steady \intersect S : \E i \in G : i.entry = e
            /\ \A e \in r.witness.approved \intersect S : \E i \in G : i.entry = e
            /\ r.kind = "mcp_servers" => \A i \in G : i.row.approved
        BY <1>3, <1>4 DEF Answered
      <3> HIDE DEF WasSeen
      <3> QED
        BY <1>3, <2>1, <3>1, <3>2 DEF Answered
    <2> QED
      BY <1>3, <2>1, <2>2, <2>3, Answers
  <1> QED
    BY <1>5, <1>6, ReaderMoves

\* The entry at a place of a list, and how many there are before it.
LEMMA PlacesInLine ==
    ASSUME NEW r \in Readers, InLine(r), ToRead(r) = {}, NEW k \in DOMAIN r.found
    PROVE  /\ Cardinality(Below(Listed(r), r.found[k].entry)) = k - 1
           /\ Cardinality(UpTo(Listed(r), r.found[k].entry)) = k
  <1> DEFINE m == Len(r.found)
             q == [i \in 1..m |-> r.found[i].entry]
  <1>1. r.found \in Seq(Items) /\ m \in Nat /\ DOMAIN r.found = 1..m
    BY DEF Readers
  <1>2. \A i \in 1..m : r.found[i].entry \in EntryIds
    <2> SUFFICES ASSUME NEW i \in 1..m PROVE r.found[i].entry \in EntryIds
      OBVIOUS
    <2>1. r.found[i] \in Items
      BY <1>1
    <2> QED
      BY <2>1 DEF Items
  <1>3. q \in [1..m -> EntryIds] /\ \A i \in 1..m : q[i] = r.found[i].entry
    BY <1>2
  <1> HIDE DEF q, m
  <1>4. \A i, j \in 1..m : i < j => q[i] < q[j]
    BY <1>1, <1>3 DEF InLine
  <1>5. Listed(r) = {q[i] : i \in 1..m}
    BY <1>1, <1>3 DEF Listed
  <1>6. k \in 1..m /\ q[k] = r.found[k].entry
    BY <1>1, <1>3
  <1>7. LET S == {q[i] : i \in 1..m} IN
        Cardinality(Below(S, q[k])) = k - 1 /\ Cardinality(UpTo(S, q[k])) = k
    BY <1>1, <1>3, <1>4, <1>6, CountsInLine
  <1> QED
    BY <1>5, <1>6, <1>7

LEMMA PageKeeps == ASSUME DeliveryInv, FinishPage PROVE DeliveryInv'
  <1>1. PICK r \in Readers :
             /\ r = reader /\ StoreInv /\ Good(r, rows, Current, Open) /\ r.op = "page"
             /\ r.pc = "read" /\ ToRead(r) = {} /\ Placed(r)
    BY ReadAll DEF FinishPage
  <1> DEFINE more == r.offset + Limit < Len(r.found)
             page == PageOf(r)
             S == There(rows)
             w == r.witness
             L == Listed(r)
  <1>2. /\ r.repeated => w.grew
        /\ InLine(r) /\ PagesFit(r, L) /\ ListFits(r, S)
    BY <1>1 DEF Good, Paging
  <1>3. /\ r.found \in Seq(Items) /\ Len(r.found) \in Nat /\ DOMAIN r.found = 1..Len(r.found)
        /\ r.offset \in Nat /\ r.got \subseteq EntryIds /\ Limit \in Nat
        /\ w.steady \subseteq EntryIds
    BY DeliveryAssumption DEF Readers, Witnesses
  <1>4. \A k \in DOMAIN r.found : r.found[k].entry \in EntryIds /\ r.found[k].entry \in L
    <2> SUFFICES ASSUME NEW k \in DOMAIN r.found PROVE r.found[k].entry \in EntryIds /\ r.found[k].entry \in L
      OBVIOUS
    <2>1. r.found[k] \in Items
      BY <1>3
    <2> QED
      BY <2>1 DEF Items, Listed
  <1>5. \A e \in L : \E k \in DOMAIN r.found : e = r.found[k].entry
    BY <1>1 DEF Listed
  <1>6. \A e : e \in page <=> \E k \in DOMAIN r.found :
                                 r.offset < k /\ k <= r.offset + Limit /\ e = r.found[k].entry
    BY DEF PageOf
  <1>7. page \subseteq EntryIds
    BY <1>4, <1>6
  <1>8. PICK n : n = Paged(r) /\ Goes(n)
    BY <1>1 DEF FinishPage
  <1>9. /\ n \in Readers /\ n.op = r.op /\ n.witness = r.witness /\ n.live = r.live /\ n.label = r.label
        /\ n.pc = (IF more THEN "pullable" ELSE "done") /\ n.given = r.given /\ n.found = r.found
        /\ n.offset = r.offset + Limit /\ n.got = r.got \union page
        /\ n.repeated \in BOOLEAN
        /\ n.repeated => r.repeated \/ page \intersect r.got # {}
    <2>1. PICK pc \in {"pullable", "done"} : pc = IF more THEN "pullable" ELSE "done"
      OBVIOUS
    <2>2. PICK again \in BOOLEAN : again = (r.repeated \/ page \intersect r.got # {})
      OBVIOUS
    <2>3. PICK got \in SUBSET EntryIds : got = r.got \union page
      BY <1>3, <1>7
    <2>4. PICK offset \in Nat : offset = r.offset + Limit
      BY <1>3
    <2>5. n = [r EXCEPT !.offset = offset, !.got = got, !.repeated = again, !.pc = pc]
      BY <1>8, <2>1, <2>2, <2>3, <2>4 DEF Paged, PagedOn
    <2>6. /\ n \in Readers /\ n.op = r.op /\ n.witness = r.witness /\ n.live = r.live /\ n.label = r.label
          /\ n.pc = pc /\ n.given = r.given /\ n.found = r.found
          /\ n.offset = offset /\ n.got = got /\ n.repeated = again
      BY <2>5, ZenonT(60) DEF Readers, Places
    <2> QED
      BY <2>1, <2>2, <2>3, <2>4, <2>6
  <1>10. \A k \in DOMAIN r.found : /\ Cardinality(Below(L, r.found[k].entry)) = k - 1
                                   /\ Cardinality(UpTo(L, r.found[k].entry)) = k
    BY <1>1, <1>2, PlacesInLine
  <1>11. Placed(n) /\ Begun(n, Current)
    <2>1. n.pc \in {"pullable", "done"} /\ n.op = "page" /\ n.given = {} /\ ~n.live
      BY <1>1, <1>9 DEF Placed
    <2> QED
      BY <2>1 DEF Placed, Begun, Labelled
  <1> HIDE DEF more, page, S, w, L
  <1>12. ASSUME ~w.grew, NEW x \in page PROVE x \notin r.got
    <2> SUFFICES ASSUME x \in r.got PROVE FALSE
      OBVIOUS
    <2>1. PICK k \in DOMAIN r.found : r.offset < k /\ k <= r.offset + Limit /\ x = r.found[k].entry
      BY <1>6, <1>12
    <2>2. Cardinality(UpTo(L, x)) <= r.offset
      BY <1>2, <1>4, <1>12, <2>1 DEF PagesFit, w
    <2> QED
      BY <1>3, <1>10, <2>1, <2>2
  <1>13. n.repeated => w.grew
    BY <1>2, <1>9, <1>12
  <1>14. ASSUME ~w.shrank, NEW e \in w.steady \ n.got
         PROVE  \E k \in DOMAIN r.found : e = r.found[k].entry /\ k > r.offset + Limit
    <2>1. e \in L /\ e \notin r.got /\ e \notin page
      BY <1>2, <1>9, <1>14 DEF ListFits, w, L
    <2>2. PICK k \in DOMAIN r.found : e = r.found[k].entry
      BY <1>5, <2>1
    <2>3. Cardinality(Below(L, e)) >= r.offset
      BY <1>2, <1>14, <2>1 DEF PagesFit, w
    <2>4. k - 1 >= r.offset /\ k \in Nat
      BY <1>3, <1>10, <2>2, <2>3
    <2>5. ~(r.offset < k /\ k <= r.offset + Limit)
      BY <1>6, <2>1, <2>2
    <2> QED
      BY <1>3, <2>2, <2>4, <2>5
  <1>15. PagesFit(n, S)
    <2>1. ASSUME ~w.shrank, NEW e \in w.steady \ n.got
          PROVE  Cardinality(Below(S, e)) >= r.offset + Limit
      <3>1. PICK k \in DOMAIN r.found : e = r.found[k].entry /\ k > r.offset + Limit
        BY <1>14, <2>1
      <3>2. Cardinality(Below(L, e)) = k - 1 /\ k \in Nat
        BY <1>3, <1>10, <3>1
      <3>3. L \in SUBSET S /\ S \in SUBSET EntryIds /\ e \in EntryIds
        BY <1>2, <1>3, <2>1 DEF ListFits, w, L, S, There
      <3>4. /\ Cardinality(Below(L, e)) <= Cardinality(Below(S, e))
            /\ Cardinality(Below(S, e)) \in Nat
        BY <3>3, CountsOrdered
      <3> QED
        BY <1>3, <3>1, <3>2, <3>4
    <2>2. ASSUME ~w.grew, NEW x \in n.got \intersect S
          PROVE  Cardinality(UpTo(S, x)) <= r.offset + Limit
      <3>1. S \in SUBSET L /\ x \in L /\ x \in EntryIds /\ L \in SUBSET EntryIds
        BY <1>2, <1>4, <1>5, <2>2 DEF ListFits, w, L, S, There
      <3>2. /\ Cardinality(UpTo(S, x)) <= Cardinality(UpTo(L, x))
            /\ Cardinality(UpTo(S, x)) \in Nat /\ Cardinality(UpTo(L, x)) \in Nat
        BY <3>1, CountsOrdered
      <3>3. CASE x \in r.got
        <4>1. Cardinality(UpTo(L, x)) <= r.offset
          BY <1>2, <2>2, <3>1, <3>3 DEF PagesFit, w
        <4> QED
          BY <1>3, <3>2, <4>1
      <3>4. CASE x \in page
        <4>1. PICK k \in DOMAIN r.found : k <= r.offset + Limit /\ x = r.found[k].entry
          BY <1>6, <3>4
        <4>2. Cardinality(UpTo(L, x)) = k /\ k \in Nat
          BY <1>3, <1>10, <4>1
        <4> QED
          BY <1>3, <3>2, <4>1, <4>2
      <3> QED
        BY <1>9, <2>2, <3>3, <3>4
    <2> QED
      BY <1>9, <2>1, <2>2 DEF PagesFit, w
  <1>16. CASE more
    <2>1. n.pc = "pullable" /\ n.op = "page"
      BY <1>1, <1>9, <1>16
    <2>2. Paging(n, rows)
      BY <1>9, <1>13, <1>15, <2>1 DEF Paging, w, S
    <2> QED
      BY <1>1, <1>8, <1>9, <1>11, <2>1, <2>2, Moved, ReaderMoves
  <1>17. CASE ~more
    <2>1. n.pc = "done" /\ n.op = "page"
      BY <1>1, <1>9, <1>17
    <2>2. ~w.shrank => w.steady \subseteq n.got
      <3> SUFFICES ASSUME ~w.shrank, NEW e \in w.steady \ n.got PROVE FALSE
        OBVIOUS
      <3>1. PICK k \in DOMAIN r.found : k > r.offset + Limit
        BY <1>14
      <3> QED
        BY <1>3, <1>17, <3>1 DEF more
    <2>3. Paging(n, rows)
      BY <1>9, <1>13, <2>1, <2>2 DEF Paging, w
    <2>4. Answered(n) /\ Numbered(n)
      BY <2>1 DEF Answered, Numbered
    <2> QED
      BY <1>1, <1>8, <1>9, <1>11, <2>1, <2>3, <2>4, Answers, ReaderMoves
  <1> QED
    BY <1>16, <1>17
-----------------------------------------------------------------------------
(* The theorems.                                                           *)

LEMMA InitHolds == Init => DeliveryInv
  <1> SUFFICES ASSUME Init PROVE DeliveryInv
    OBVIOUS
  <1>1. rows \in Tables /\ \A e \in EntryIds : rows[e] = <<>> /\ Len(rows[e]) = 0
    <2>1. <<>> \in Seq(RowSet) /\ Len(<<>>) = 0
      OBVIOUS
    <2> QED
      BY <2>1 DEF Init, Tables
  <1> QED
    BY <1>1, DeliveryAssumption DEF Init, DeliveryInv, StoreInv, ReaderInv

LEMMA StepKeeps == DeliveryInv /\ [Next]_vars => DeliveryInv'
  <1> SUFFICES ASSUME DeliveryInv, [Next]_vars PROVE DeliveryInv'
    OBVIOUS
  <1>1. CASE CreateDataset \/ PublishDataset \/ SetVisibility \/ NewDatasetVersion
    BY <1>1, DatasetKeeps
  <1>2. CASE DeleteDataset
    BY <1>2, DeletionKeeps
  <1>3. CASE \E S \in SUBSET EntryIds \ {{}} : ImportKnowledge(S)
    BY <1>3, ImportKeeps
  <1>4. CASE \E e \in EntryIds : NewEntryVersion(e) \/ DeleteEntry(e)
    BY <1>4, RowsKeep
  <1>5. CASE \E e \in EntryIds, v \in 1..MaxEntryVersion : EditEntry(e, v) \/ ApproveEntry(e, v)
    BY <1>5, RowsKeep
  <1>6. CASE \E op \in Ops, foreign \in BOOLEAN, base, label \in 1..MaxVersion :
               Arrive(op, foreign, base, label)
    BY <1>6, ArrivalKeeps
  <1>7. CASE CheckPullable \/ CheckChain \/ ReadDataset \/ FindHits \/ ListDatasets \/ ReadListed
    BY <1>7, PullableKeeps, ChainKeeps, DatasetReadKeeps, HitsKeep, DatasetsKeep, ListedKeeps
  <1>8. CASE \E e \in EntryIds : LocateEntry(e) \/ CheckOwn(e)
    BY <1>8, LocationKeeps, OwnKeeps
  <1>9. CASE ListVersions \/ ListIds \/ ReadVersion \/ ReadEntry
    BY <1>9, NumbersKeep, IdsKeep, VersionKeeps, EntryKeeps
  <1>10. CASE FinishSearch \/ FinishVersions \/ FinishEntryDiff \/ FinishExport \/ FinishPage
    BY <1>10, SearchKeeps, VersionsKeep, EntryDiffKeeps, ExportKeeps, PageKeeps
  <1>11. CASE ReadArchive \/ FinishDiffList \/ FinishDiff
    BY <1>11, ArchiveKeeps, DiffListKeeps, DiffKeeps
  <1>12. CASE \E S \in SUBSET EntryIds \ {EntryIds} : Trim(S)
    BY <1>12, TrimKeeps
  <1>13. CASE Leave
    BY <1>13, ReaderMoves DEF Leave
  <1>14. CASE UNCHANGED vars
    <2>1. Goes(reader)
      BY <1>14 DEF vars, Goes
    <2>2. reader # None => Good(reader, rows, Current, Open)
      BY DEF DeliveryInv, ReaderInv
    <2> QED
      BY <2>1, <2>2, ReaderMoves
  <1> QED
    BY <1>1, <1>2, <1>3, <1>4, <1>5, <1>6, <1>7, <1>8, <1>9, <1>10, <1>11, <1>12, <1>13, <1>14
    DEF Next

\* Whatever is written while it reads, a reader knows what the invariant says it does.
THEOREM DeliveryInvariant == Spec => []DeliveryInv
  <1>1. Init => DeliveryInv
    BY InitHolds
  <1>2. DeliveryInv /\ [Next]_vars => DeliveryInv'
    BY StepKeeps
  <1> QED
    BY <1>1, <1>2, PTL DEF Spec

LEMMA DoneFacts ==
    ASSUME DeliveryInv, NEW ops, Done(ops)
    PROVE  \E r \in Readers :
             /\ r = reader /\ Good(r, rows, Current, Open) /\ Answered(r) /\ Numbered(r)
             /\ Paging(r, rows) /\ r.pc = "done" /\ r.op \in ops
  <1>1. reader # None /\ reader.pc = "done" /\ reader.op \in ops
    BY DEF Done
  <1> QED
    BY <1>1, ReaderFacts DEF Good

\* Types: the store holds rows and datasets, the reader an operation.
THEOREM DeliveryTypeCorrect == Spec => []TypeOK
  <1>1. DeliveryInv => TypeOK
    <2> SUFFICES ASSUME DeliveryInv PROVE TypeOK
      OBVIOUS
    <2>1. StoreInv /\ (reader # None => reader.op \in Ops)
      BY DEF DeliveryInv, ReaderInv, Good, Readers
    <2> QED
      BY <2>1 DEF TypeOK, StoreInv, Datasets, Items
  <1> QED
    BY <1>1, DeliveryInvariant, PTL

\* A walk is regular: each item was so while it was read, and nothing that stayed is left out.
THEOREM WalksAreRegular == Spec => []WalkIsRegular
  <1>1. DeliveryInv => WalkIsRegular
    <2> SUFFICES ASSUME DeliveryInv, Done({"export", "pull", "search", "entry"}),
                        reader.op \in {"search", "entry"} \/ reader.live
                 PROVE  LET w == reader.witness
                            ids == {i.entry : i \in reader.given} IN
                        /\ \A i \in reader.given : /\ i \in {s[3] : s \in w.seen}
                                                   /\ <<i.entry, i.version>> \in w.latest
                        /\ reader.op \in {"export", "pull"} =>
                             (IF reader.kind = "mcp_servers" THEN w.approved ELSE w.steady)
                               \intersect reader.kept \subseteq ids
      BY DEF WalkIsRegular
    <2>1. PICK r \in Readers : r = reader /\ Answered(r) /\ r.pc = "done"
                               /\ r.op \in {"export", "pull", "search", "entry"}
      BY DoneFacts
    <2>2. r.op \in {"search", "entry"} \/ (r.op \in {"export", "pull"} /\ r.live)
      BY <2>1
    <2>3. \A i \in r.given : WasSeen(r, i) /\ <<i.entry, i.version>> \in r.witness.latest
      BY <2>1, <2>2 DEF Answered
    <2>4. \A i \in r.given : i \in {s[3] : s \in r.witness.seen}
      BY <2>3 DEF WasSeen
    <2>5. r.op \in {"export", "pull"} =>
            /\ r.kind # "mcp_servers"
                 => \A e \in r.witness.steady \intersect r.kept : \E i \in r.given : i.entry = e
            /\ \A e \in r.witness.approved \intersect r.kept : \E i \in r.given : i.entry = e
      BY <2>1, <2>2 DEF Answered
    <2> DEFINE ids == {i.entry : i \in r.given}
    <2>6. r.op \in {"export", "pull"} =>
            /\ r.kind # "mcp_servers" => r.witness.steady \intersect r.kept \subseteq ids
            /\ r.witness.approved \intersect r.kept \subseteq ids
      BY <2>5
    <2> HIDE DEF ids
    <2>7. r.op \in {"export", "pull"} =>
            (IF r.kind = "mcp_servers" THEN r.witness.approved ELSE r.witness.steady)
              \intersect r.kept \subseteq ids
      BY <2>6
    <2> QED
      BY <2>1, <2>3, <2>4, <2>7 DEF ids
  <1> QED
    BY <1>1, DeliveryInvariant, PTL

\* What matches and is there all the time is found by a search in the walk.
THEOREM SearchesFindKept == Spec => []SearchFindsKept
  <1>1. DeliveryInv => SearchFindsKept
    <2> SUFFICES ASSUME DeliveryInv, Done({"search"}), reader.live, reader.kind # "knowledge"
                 PROVE  reader.witness.kept \intersect Matching \subseteq Contents(reader.given)
      BY DEF SearchFindsKept
    <2>1. PICK r \in Readers : r = reader /\ Answered(r) /\ r.pc = "done" /\ r.op = "search"
      BY DoneFacts
    <2> QED
      BY <2>1 DEF Answered, Contents
  <1> QED
    BY <1>1, DeliveryInvariant, PTL

\* The history of an entry has no holes.
THEOREM HistoriesAreWhole == Spec => []HistoryIsWhole
  <1>1. DeliveryInv => HistoryIsWhole
    <2> SUFFICES ASSUME DeliveryInv, Done({"versions"})
                 PROVE  /\ \A i \in reader.given : i \in {s[3] : s \in reader.witness.seen}
                        /\ reader.hits \subseteq reader.witness.steady =>
                             \E n \in 1..MaxEntryVersion :
                                /\ [k \in DOMAIN reader.found |-> reader.found[k].version]
                                     = [k \in 1..n |-> k]
                                /\ <<reader.found[1].entry, n>> \in reader.witness.latest
      BY DEF HistoryIsWhole
    <2>1. PICK r \in Readers : r = reader /\ Answered(r) /\ Numbered(r) /\ r.pc = "done"
                               /\ r.op = "versions"
      BY DoneFacts
    <2>2. \A i \in r.given : i \in {s[3] : s \in r.witness.seen}
      BY <2>1 DEF Answered, WasSeen
    <2>3. ASSUME r.hits \subseteq r.witness.steady
          PROVE  \E n \in 1..MaxEntryVersion :
                    /\ [k \in DOMAIN r.found |-> r.found[k].version] = [k \in 1..n |-> k]
                    /\ <<r.found[1].entry, n>> \in r.witness.latest
      <3>1. PICK e \in EntryIds, n \in 1..MaxEntryVersion : Counted(r, e, n)
        BY <2>1, <2>3 DEF Numbered
      <3>2. /\ <<e, n>> \in r.witness.latest /\ Len(r.found) + Len(r.todo) = n /\ r.todo = <<>>
            /\ \A k \in DOMAIN r.found : r.found[k].entry = e /\ r.found[k].version = k
        BY <2>1, <3>1 DEF Counted
      <3>3. DOMAIN r.found = 1..n /\ n \in Nat \ {0}
        <4>1. Len(r.found) \in Nat /\ DOMAIN r.found = 1..Len(r.found) /\ Len(r.todo) = 0
          BY <3>2 DEF Readers
        <4>2. Len(r.found) = n
          BY <3>2, <4>1
        <4>3. n \in Nat \ {0}
          BY DeliveryAssumption
        <4> QED
          BY <4>1, <4>2, <4>3
      <3>4. 1 \in DOMAIN r.found
        BY <3>3
      <3> QED
        BY <3>2, <3>3, <3>4
    <2> QED
      BY <2>1, <2>2, <2>3
  <1> QED
    BY <1>1, DeliveryInvariant, PTL

\* Only approved servers are delivered.
THEOREM ServersAreApproved == Spec => []ApprovedServersOnly
  <1>1. DeliveryInv => ApprovedServersOnly
    <2> SUFFICES ASSUME DeliveryInv, Done({"export", "pull"}), reader.live, reader.kind = "mcp_servers"
                 PROVE  \A i \in reader.given : i.row.approved
      BY DEF ApprovedServersOnly
    <2>1. PICK r \in Readers : r = reader /\ Answered(r) /\ r.pc = "done" /\ r.op \in {"export", "pull"}
      BY DoneFacts
    <2> QED
      BY <2>1 DEF Answered
  <1> QED
    BY <1>1, DeliveryInvariant, PTL

\* Nothing delivered was gone before the version it is labelled with began.
THEOREM LabelsAreNotNewer == Spec => []LabelNotNewer
  <1>1. DeliveryInv => LabelNotNewer
    <2> SUFFICES ASSUME DeliveryInv, Done({"export", "pull"}), reader.live, ~reader.witness.deleted
                 PROVE  \A i \in reader.given :
                          \E s \in reader.witness.seen : s[3] = i /\ s[1] >= reader.label
      BY DEF LabelNotNewer
    <2>1. PICK r \in Readers : r = reader /\ Answered(r) /\ r.pc = "done" /\ r.op \in {"export", "pull"}
      BY DoneFacts
    <2>2. \A i \in r.given : WasSeen(r, i)
      BY <2>1 DEF Answered
    <2>3. Labelled(r)
      BY <2>1 DEF Labelled
    <2> QED
      BY <2>1, <2>2, <2>3 DEF WasSeen
  <1> QED
    BY <1>1, DeliveryInvariant, PTL

\* Pages miss an entry only if one was deleted, and repeat one only if one was added.
THEOREM PagesOnlyDrift == Spec => []PagesDrift
  <1>1. DeliveryInv => PagesDrift
    <2> SUFFICES ASSUME DeliveryInv, Done({"page"})
                 PROVE  /\ ~reader.witness.shrank => reader.witness.steady \subseteq reader.got
                        /\ reader.repeated => reader.witness.grew
      BY DEF PagesDrift
    <2>1. PICK r \in Readers : r = reader /\ Paging(r, rows) /\ r.pc = "done" /\ r.op = "page"
      BY DoneFacts
    <2> QED
      BY <2>1 DEF Paging
  <1> QED
    BY <1>1, DeliveryInvariant, PTL

\* What stays is not reported as removed.
THEOREM DiffsKeepKept == Spec => []DiffKeepsKept
  <1>1. DeliveryInv => DiffKeepsKept
    <2> SUFFICES ASSUME DeliveryInv, Done({"diff"}), reader.live, reader.kind = "rule_set"
                 PROVE  reader.from \intersect reader.witness.kept \subseteq reader.to
      BY DEF DiffKeepsKept
    <2>1. PICK r \in Readers : r = reader /\ Answered(r) /\ r.pc = "done" /\ r.op = "diff"
      BY DoneFacts
    <2> QED
      BY <2>1 DEF Answered
  <1> QED
    BY <1>1, DeliveryInvariant, PTL
=============================================================================
