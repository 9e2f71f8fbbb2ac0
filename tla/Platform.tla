---------------------------- MODULE Platform ----------------------------
(***************************************************************************)
(* The life of the service (run of main.rs): it starts over what earlier   *)
(* processes left in the database and the key files, in a fixed order of   *)
(* steps any of which may be its last, serves requests, and stops.  While  *)
(* it serves it is composed of Accounts and Catalogue; what these keep in  *)
(* memory goes with the process, what they keep in tables stays.  One      *)
(* process at a time has the database and the files.                       *)
(*                                                                         *)
(* A signing key is one the operator gives (Secrets) or the random one of  *)
(* a process, known by the number of its start.  A tenant is an            *)
(* organisation.  Bounds: MaxStarts, MaxRequests.                          *)
(***************************************************************************)
EXTENDS Naturals, FiniteSets

CONSTANTS
    Orgs, Names, Handlers, Given,  \* see Accounts
    Services, Official,            \* see Catalogue
    Base,      \* --tenant
    Secrets,   \* values of --secret
    MaxStarts, MaxRequests,
    None

ASSUME PlatformAssumption ==
    /\ Base \in Orgs /\ Official \subseteq Services /\ Official # {}
    /\ "platform" \notin Orgs
    /\ MaxStarts \in Nat /\ MaxRequests \in Nat

VARIABLES
    tenants, orgs, users, members, claims, task, byStart,
    services, update, declared

INSTANCE Accounts
INSTANCE Catalogue WITH Tenants <- Orgs

ASSUME NoneAssumption == None \notin Names \union Roles \union Row

\* The data sets that a start creates.
Reference == {"mcp.servers", "mcp.packs"}

\* What init_schema makes: the tables, the columns that later builds added to them, and
\* the full-text index with its triggers and the rows from before it.
SchemaParts == {"tables", "columns", "index"}

\* In this order; "write" and "keep" are the writes of the two key files, "user" and
\* "member" those of the administrator, "serve" is the service at work.
Phases == {"down", "tables", "columns", "index", "tenant", "org", "seed", "servers",
           "packs", "key", "write", "keep",
           "admin", "user", "member", "serve"}

Keys == Secrets \union (1..MaxStarts)

VARIABLES
    phase,
    arguments,  \* of this start: --secret and --admin-user, or None for one not given
    schema,     \* the parts of the schema that the database has
    reference,  \* the reference data sets that are there
    keyFile, previousFile,  \* jwt_secret.key and its .previous.key; None: no key in it
    active,     \* the key this process signs with, or None so far
    previous,   \* the key it verifies with besides, or None
    served,     \* history: the key of the last process that served, if it was on file
                \* and no start since then was cut off on its way with a key given
    before,     \* history: what served was when this process began to serve
    starts, requests

lifeVars == <<phase, arguments, schema, reference, keyFile, previousFile, active, previous,
              served, before, starts, requests>>
keyVars == <<keyFile, previousFile, active, previous, served, before>>

accountVars == <<tenants, orgs, users, members, claims, task, byStart>>
catalogueVars == <<services, update, declared>>

vars == <<accountVars, catalogueVars, lifeVars>>

-----------------------------------------------------------------------------
(* The start.                                                              *)

Goes(p, q) ==
    /\ phase = p
    /\ phase' = q
    /\ UNCHANGED <<arguments, starts, requests>>

\* Every statement of it commits alone and is made good again by the next start: a table
\* or an index that exists is left, the error of a column that exists is ignored, and
\* rows are indexed if they are not.
MakeSchema(p, q, part) ==
    /\ Goes(p, q)
    /\ schema' = schema \union {part}
    /\ UNCHANGED <<accountVars, catalogueVars, reference, keyVars>>

CreateTables == MakeSchema("tables", "columns", "tables")

AddColumns == MakeSchema("columns", "index", "columns")

FillIndex == MakeSchema("index", "tenant", "index")

Start ==
    /\ phase = "down"
    /\ starts < MaxStarts
    /\ phase' = "tables"
    /\ arguments' \in [secret : Secrets \union {None}, admin : Names \union {None}]
    /\ starts' = starts + 1
    /\ UNCHANGED <<accountVars, catalogueVars, schema, reference, keyVars, requests>>

EnsureTenant ==
    /\ Goes("tenant", "org")
    /\ tenants' = tenants \union {Base}
    /\ UNCHANGED <<orgs, users, members, claims, task, byStart>>
    /\ UNCHANGED <<catalogueVars, schema, reference, keyVars>>

EnsureOrg ==
    /\ Goes("org", "seed")
    /\ orgs' = orgs \union {Base}
    /\ UNCHANGED <<tenants, users, members, claims, task, byStart>>
    /\ UNCHANGED <<catalogueVars, schema, reference, keyVars>>

\* Slip: the official rows are committed one by one.
SeedServicesOneByOne ==
    /\ phase = "seed"
    /\ \E done \in SUBSET Official :
         /\ done # {}
         /\ services' = [n \in Services |-> IF n \in done /\ NeedsSeeds THEN Seed ELSE services[n]]
         /\ phase' = IF done = Official THEN "servers" ELSE "down"
    /\ UNCHANGED <<update, declared, arguments, starts, requests>>
    /\ UNCHANGED <<accountVars, schema, reference, keyVars>>

SeedServices ==
    /\ Goes("seed", "servers")
    /\ IF NeedsSeeds THEN SeedAll ELSE UNCHANGED catalogueVars
    /\ UNCHANGED <<accountVars, schema, reference, keyVars>>

SeedReference(p, q, d) ==
    /\ Goes(p, q)
    /\ reference' = reference \union {d}
    /\ UNCHANGED <<accountVars, catalogueVars, schema, keyVars>>

\* No key is given: the one on file or a random one, which is not written down; the
\* previous one is on its file.
LoadKey ==
    /\ arguments.secret = None
    /\ Goes("key", "admin")
    /\ active' = IF keyFile = None THEN starts ELSE keyFile
    /\ previous' = previousFile
    /\ UNCHANGED <<accountVars, catalogueVars, schema, reference,
                   keyFile, previousFile, served, before>>

\* A key is given: the old one is read, ...
GivenKey ==
    /\ arguments.secret # None
    /\ Goes("key", "write")
    /\ active' = arguments.secret
    /\ previous' = IF keyFile = arguments.secret THEN None ELSE keyFile
    /\ UNCHANGED <<accountVars, catalogueVars, schema, reference,
                   keyFile, previousFile, served, before>>

\* ... the new one written over it, ...
WriteKey ==
    /\ Goes("write", IF previous = None THEN "admin" ELSE "keep")
    /\ keyFile' = active
    /\ UNCHANGED <<accountVars, catalogueVars, schema, reference,
                   previousFile, active, previous, served, before>>

\* Slip: the new key is kept as the previous one.
KeptNew == active

Kept == previous

\* ... and the old one kept.
KeepPrevious ==
    /\ Goes("keep", "admin")
    /\ previousFile' = Kept
    /\ previous' = Kept
    /\ UNCHANGED <<accountVars, catalogueVars, schema, reference,
                   keyFile, active, served, before>>

RootUser == <<Base, arguments.admin>>

Serving ==
    /\ served' = IF active = keyFile THEN active ELSE None
    /\ before' = served

\* No administrator is asked for, or somebody of that name is there.
NoAdmin ==
    /\ arguments.admin = None \/ Cardinality(Named(arguments.admin)) = 1
    /\ Goes("admin", "serve")
    /\ Serving
    /\ UNCHANGED <<accountVars, catalogueVars, schema, reference,
                   keyFile, previousFile, active, previous>>

\* The administrator is registered like anybody, but as platform_admin.
RegisterAdmin ==
    /\ arguments.admin # None
    /\ MayRegister(RootUser)
    /\ Goes("admin", "user")
    /\ UNCHANGED <<accountVars, catalogueVars, schema, reference, keyVars>>

CreateAdmin ==
    /\ Goes("user", "member")
    /\ CreateUser(RootUser, "platform_admin")
    /\ byStart' = byStart \union {RootUser}
    /\ UNCHANGED <<tenants, orgs, members, claims, task>>
    /\ UNCHANGED <<catalogueVars, schema, reference, keyVars>>

AdminMember ==
    /\ Goes("member", "serve")
    /\ SetMember(RootUser, Base, "platform_admin")
    /\ Serving
    /\ UNCHANGED <<tenants, orgs, users, claims, task, byStart>>
    /\ UNCHANGED <<catalogueVars, schema, reference,
                   keyFile, previousFile, active, previous>>

\* With several users of the name in different organisations, the registration is an
\* error and the start ends here.  In any case what is in memory goes.  A stop in the
\* middle of the write of a key file may leave it empty, which is read as if it were not
\* there.
Stop ==
    /\ phase # "down"
    /\ phase' = "down"
    /\ task' = [h \in Handlers |-> None]
    /\ update' = None
    /\ \/ UNCHANGED <<keyFile, previousFile>>
       \/ phase = "write" /\ keyFile' = None /\ UNCHANGED previousFile
       \/ phase = "keep" /\ previousFile' = None /\ UNCHANGED keyFile
    /\ served' = IF arguments.secret # None
                    /\ phase \in {"write", "keep", "admin", "user", "member"}
                 THEN None ELSE served
    /\ before' = None
    /\ active' = None
    /\ previous' = None
    /\ UNCHANGED <<tenants, orgs, users, members, claims, byStart, services, declared,
                   arguments, schema, reference, starts, requests>>

-----------------------------------------------------------------------------
(* The service at work.                                                    *)

Comes ==
    /\ phase = "serve"
    /\ requests < MaxRequests
    /\ requests' = requests + 1
    /\ UNCHANGED <<phase, arguments, schema, reference, keyVars, starts>>

\* Signing in and listing are requests too, but as they change no table they count for
\* nothing.
Free == phase = "serve" /\ UNCHANGED lifeVars

Accounting == UNCHANGED catalogueVars

SignsIn == Free /\ Accounting /\ \E u \in Users, o \in Orgs : Login(u, o)

AccountRequest ==
    /\ Comes
    /\ Accounting
    /\ \/ \E h \in Handlers, u \in Users : Register(h, u)
       \/ \E c \in claims, o \in Orgs :
            \/ \E h \in Handlers : CreateOrg(h, c, o)
            \/ \E u \in Users, r \in Given : AddMember(c, u, o, r)

AccountStep ==
    /\ Free
    /\ Accounting
    /\ \E h \in Handlers :
         CreateOrgRow(h) \/ RegisterUser(h) \/ RegisterMember(h) \/ RegisterLogin(h)

CatalogueRequest ==
    /\ Comes
    /\ UNCHANGED <<accountVars>>
    /\ \E c \in claims, n \in Services :
         \/ IsOrgAdmin(c.role) /\ (CreateService(c.org, n) \/ BeginUpdate(c.org, n))
         \/ Rank[c.role] >= 2 /\ Declare(c.org, n)

CatalogueStep == Free /\ WriteUpdate /\ UNCHANGED <<accountVars>>

Init ==
    /\ AccountsInit
    /\ CatalogueInit
    /\ phase = "down"
    /\ arguments = [secret |-> None, admin |-> None]
    /\ schema \in {{}, {"tables"}}
    /\ reference = {}
    /\ keyFile \in Secrets \union {None}
    /\ previousFile = None
    /\ active = None
    /\ previous = None
    /\ served = None
    /\ before = None
    /\ starts = 0
    /\ requests = 0

Next ==
    \/ Start \/ CreateTables \/ AddColumns \/ FillIndex \/ EnsureTenant \/ EnsureOrg \/ SeedServices
    \/ SeedReference("servers", "packs", "mcp.servers")
    \/ SeedReference("packs", "key", "mcp.packs")
    \/ LoadKey \/ GivenKey \/ WriteKey \/ KeepPrevious
    \/ NoAdmin \/ RegisterAdmin \/ CreateAdmin \/ AdminMember \/ Stop
    \/ SignsIn \/ AccountRequest \/ AccountStep
    \/ CatalogueRequest \/ CatalogueStep

Spec == Init /\ [][Next]_vars

-----------------------------------------------------------------------------
TypeOK ==
    /\ AccountsTypeOK
    /\ CatalogueTypeOK
    /\ phase \in Phases
    /\ arguments \in [secret : Secrets \union {None}, admin : Names \union {None}]
    /\ schema \subseteq SchemaParts
    /\ reference \subseteq Reference
    /\ {keyFile, previousFile, active, previous, served, before} \subseteq Keys \union {None}
    /\ starts \in 0..MaxStarts
    /\ requests \in 0..MaxRequests

\* Whatever earlier starts were cut off at, and also over the database of an older build,
\* a service at work has its whole schema and reference data: the default organisation
\* with both rows, each official service, both reference data sets.
ServesComplete ==
    phase = "serve" =>
      /\ schema = SchemaParts
      /\ Base \in tenants \intersect orgs
      /\ \A n \in Official : services[n] # None
      /\ reference = Reference

\* Tokens survive a change of the key: when a process serves, the key of the process
\* that served before it, if it was on file, is one it verifies with, provided that no
\* start in between was cut off on the way.
HandOver ==
    (phase = "serve" /\ before # None) => before \in {active, previous}

\* What main.rs says of the random key: written down at the first start, so that
\* tokens stay good over a restart.  Does not hold: it is never written.
RestartKeepsKey == phase = "serve" => active = keyFile

\* What main.rs says of the administrator: created unless the name is taken in the
\* organisation.  Does not hold: one user of the name elsewhere is enough to leave the
\* service without an administrator, and two keep it from starting.
AdminWhenAsked == (phase = "serve" /\ arguments.admin # None) => users[RootUser] # None

\* What the store says of the official rows: a start never goes over what a tenant made
\* of them.  Does not hold: once tenants hold all of them, the next start takes them
\* back.
CustomKept ==
    [][ \A n \in Services :
          (phase = "seed" /\ services[n] # None /\ services[n].by # "seed")
            => services'[n] = services[n] ]_vars
=============================================================================
