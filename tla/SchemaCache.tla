--------------------------- MODULE SchemaCache ---------------------------
(***************************************************************************)
(* The lookup of domain schemas (lookup_domain_schema of the store).  The  *)
(* schemas are files of a directory that operators edit while the service  *)
(* runs.  A lookup walks the directory for its fingerprint, the largest    *)
(* modification time, asks the cache, and on a miss reads the directory    *)
(* file by file without a lock and stores what it read with the            *)
(* fingerprint it took at first.                                           *)
(*                                                                         *)
(* A file stands for the schema it defines.  What a good file says is the  *)
(* time of the edit that wrote it; a bad one (unreadable, no JSON, refused *)
(* by validate_domain_schema_meta) says 0, as a file that is not there: a  *)
(* schema the directory lacks is answered from the built-in ones.  Each    *)
(* edit has a time of its own: what shares a tick of the file system's     *)
(* clock is taken for one edit.  Bound: MaxEdits.                          *)
(***************************************************************************)
EXTENDS Naturals

CONSTANTS Uris, Readers, MaxEdits, Absent

EditTime == 0..MaxEdits

VARIABLES
    readable,  \* the directory can be listed
    edited,    \* the time of the last edit
    dirTime,   \* the modification time of the directory: of files that came or went
    files,     \* files[x]: Absent, or [time, good]
    cache,     \* domain_schema_cache: Absent, or [map, fp]
    lookup     \* lookup[r]: the lookup that r is at, or Absent

schemaVars == <<readable, edited, dirTime, files, cache, lookup>>

File == [time : EditTime, good : BOOLEAN]
Map == [Uris -> EditTime]

\* fp: the fingerprint, of the walk so far; todo: the files still to be looked at;
\* map: what was read.  History: seen, what the file of uri said since the lookup
\* began; steady, no listing failed and no file was removed in that time.
Lookup == [ uri : Uris, pc : {"stat", "consult", "list", "read", "answered"},
            fp : EditTime \union {Absent}, todo : SUBSET Uris, map : Map,
            seen : SUBSET EditTime, steady : BOOLEAN, answer : EditTime ]

Cached == [map : Map, fp : EditTime]

\* Absent is not mistaken for a time, a file, an entry of the cache or a lookup.
AbsentIsApart == Absent \notin EditTime \union File \union Cached \union Lookup

ASSUME SchemaCacheAssumption == MaxEdits \in Nat /\ AbsentIsApart

-----------------------------------------------------------------------------
Says(file) == IF file # Absent /\ file.good THEN file.time ELSE 0

Present == {x \in Uris : files[x] # Absent}

At(r, pc) == lookup[r] # Absent /\ lookup[r].pc = pc

AnswerWith(r, v) == lookup' = [lookup EXCEPT ![r].pc = "answered", ![r].answer = v]

\* domain_schema_fingerprint begins: the time of the directory, and its listing.
Lookups(r, x) ==
    /\ lookup[r] = Absent
    /\ lookup' = [lookup EXCEPT ![r] =
         [uri |-> x, pc |-> IF readable THEN "stat" ELSE "consult",
          fp |-> IF readable THEN dirTime ELSE Absent, todo |-> Present,
          map |-> [y \in Uris |-> 0], seen |-> {Says(files[x])}, steady |-> readable,
          answer |-> 0]]
    /\ UNCHANGED <<readable, edited, dirTime, files, cache>>

Later(t, file) == IF file # Absent /\ file.time > t THEN file.time ELSE t

StatFile(r, x) ==
    /\ At(r, "stat")
    /\ x \in lookup[r].todo
    /\ lookup' = [lookup EXCEPT ![r].todo = @ \ {x}, ![r].fp = Later(@, files[x])]
    /\ UNCHANGED <<readable, edited, dirTime, files, cache>>

\* The rest happens under the lock of the cache.
Hits(r) == cache # Absent /\ (lookup[r].fp = Absent \/ lookup[r].fp = cache.fp)

Consult(r) ==
    /\ At(r, "consult") \/ (At(r, "stat") /\ lookup[r].todo = {})
    /\ IF Hits(r) THEN AnswerWith(r, cache.map[lookup[r].uri])
       ELSE IF lookup[r].fp = Absent THEN AnswerWith(r, 0)
       ELSE lookup' = [lookup EXCEPT ![r].pc = "list"]
    /\ UNCHANGED <<readable, edited, dirTime, files, cache>>

\* read_dir; if the directory cannot be listed any more, nothing is cached.
List(r) ==
    /\ At(r, "list")
    /\ IF readable
       THEN lookup' = [lookup EXCEPT ![r].pc = "read", ![r].todo = Present]
       ELSE AnswerWith(r, 0)
    /\ UNCHANGED <<readable, edited, dirTime, files, cache>>

ReadFile(r, x) ==
    /\ At(r, "read")
    /\ x \in lookup[r].todo
    /\ lookup' = [lookup EXCEPT ![r].todo = @ \ {x}, ![r].map[x] = Says(files[x])]
    /\ UNCHANGED <<readable, edited, dirTime, files, cache>>

\* Slip: the map is stored with the fingerprint of the directory as it is now.
ScannedWithLateFingerprint(r) == [map |-> lookup[r].map, fp |-> edited]

Scanned(r) == [map |-> lookup[r].map, fp |-> lookup[r].fp]

Store(r) ==
    /\ At(r, "read")
    /\ lookup[r].todo = {}
    /\ cache' = Scanned(r)
    /\ AnswerWith(r, lookup[r].map[lookup[r].uri])
    /\ UNCHANGED <<readable, edited, dirTime, files>>

Return(r) ==
    /\ At(r, "answered")
    /\ lookup' = [lookup EXCEPT ![r] = Absent]
    /\ UNCHANGED <<readable, edited, dirTime, files, cache>>

-----------------------------------------------------------------------------
\* What running lookups remember of a change of x: what it says now, and whether it was
\* a removal.
Remember(x, file) ==
    lookup' = [r \in Readers |->
        IF lookup[r] = Absent THEN Absent
        ELSE [lookup[r] EXCEPT
                !.seen = IF lookup[r].uri = x THEN @ \union {Says(file)} ELSE @,
                !.steady = @ /\ file # Absent]]

\* A file is created, replaced or spoiled, in place if it is there.
WriteFile(x) ==
    /\ edited < MaxEdits
    /\ edited' = edited + 1
    /\ \E good \in BOOLEAN :
         LET file == [time |-> edited + 1, good |-> good] IN
         /\ files' = [files EXCEPT ![x] = file]
         /\ Remember(x, file)
    /\ dirTime' = IF files[x] = Absent THEN edited + 1 ELSE dirTime
    /\ UNCHANGED <<readable, cache>>

RemoveFile(x) ==
    /\ edited < MaxEdits
    /\ files[x] # Absent
    /\ edited' = edited + 1
    /\ files' = [files EXCEPT ![x] = Absent]
    /\ dirTime' = edited + 1
    /\ Remember(x, Absent)
    /\ UNCHANGED <<readable, cache>>

\* The directory becomes unreadable, or readable again, with its files as they were.
Toggle ==
    /\ readable' = ~readable
    /\ lookup' = [r \in Readers |->
         IF lookup[r] # Absent THEN [lookup[r] EXCEPT !.steady = FALSE] ELSE Absent]
    /\ UNCHANGED <<edited, dirTime, files, cache>>

\* The process stops and starts again.
Restart ==
    /\ cache' = Absent
    /\ lookup' = [r \in Readers |-> Absent]
    /\ UNCHANGED <<readable, edited, dirTime, files>>

SchemaInit ==
    /\ readable = TRUE
    /\ edited = 0
    /\ dirTime = 0
    /\ files = [x \in Uris |-> Absent]
    /\ cache = Absent
    /\ lookup = [r \in Readers |-> Absent]

SchemaNext ==
    \/ \E r \in Readers :
         \/ Consult(r) \/ List(r) \/ Store(r) \/ Return(r)
         \/ \E x \in Uris : Lookups(r, x) \/ StatFile(r, x) \/ ReadFile(r, x)
    \/ \E x \in Uris : WriteFile(x) \/ RemoveFile(x)
    \/ Toggle
    \/ Restart

SchemaSpec == SchemaInit /\ [][SchemaNext]_schemaVars

-----------------------------------------------------------------------------
SchemaTypeOK ==
    /\ readable \in BOOLEAN
    /\ edited \in EditTime
    /\ dirTime \in EditTime
    /\ files \in [Uris -> File \union {Absent}]
    /\ cache \in Cached \union {Absent}
    /\ lookup \in [Readers -> Lookup \union {Absent}]

\* A lookup during which every listing works and no file is removed answers with what
\* the file said at some moment of that lookup: never with something that was replaced
\* before it began, however slow or late the scans of others stored what they read.
\* (A removal of the newest file in the middle of the walk can give a fingerprint from
\* before that file was last written, and so an answer out of an old cache.)
AnswerFresh ==
    \A r \in Readers :
       (At(r, "answered") /\ lookup[r].steady) => lookup[r].answer \in lookup[r].seen
=============================================================================
