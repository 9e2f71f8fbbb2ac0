-------------------------- MODULE PlatformProofs --------------------------
(***************************************************************************)
(* Theorems of Platform for any number of organisations, names, handlers,  *)
(* services, secrets and starts.  The invariant has four parts, of which   *)
(* each step keeps one given the others: what the accounts hold            *)
(* (AccountInv), what the catalogue holds (CatalogueInv), how far a start  *)
(* is (SetupInv) and which keys are where (KeyInv).                        *)
(***************************************************************************)
EXTENDS Platform, TLAPS

\* Both rows of an organisation that is to get its second one are on their way, and who
\* registers does so in an organisation that is there.
NewTasksInv ==
    \A h \in Handlers : task[h] # None =>
       /\ task[h].op = "org" => task[h].org \in tenants
       /\ task[h].op = "register" => task[h].user[1] \in orgs

AccountInv ==
    AccountsTypeOK /\ DoorsOpen /\ PlatformRoleOnlyFromStart /\ NewTasksInv

\* The official services come all at once, before anything else is the platform's.
OfficialThere == \A n \in Official : services[n] # None

CatalogueInv ==
    /\ CatalogueTypeOK
    /\ ~NeedsSeeds => OfficialThere
    /\ update # None /\ update.scope = "platform" => OfficialThere

\* The phases at which a part of the start is behind.
Seeded    == {"servers", "packs", "key", "write", "keep", "admin", "user", "member", "serve"}
OrgMade   == Seeded \union {"seed"}
TenantMade == OrgMade \union {"org"}

SetupInv ==
    /\ phase \in Phases /\ starts \in 0..MaxStarts /\ requests \in 0..MaxRequests
    /\ phase # "down" => starts \in 1..MaxStarts
    /\ arguments \in [secret : Secrets \union {None}, admin : Names \union {None}]
    /\ schema \subseteq SchemaParts /\ reference \subseteq Reference
    /\ phase \notin {"down", "tables"} => "tables" \in schema
    /\ phase \notin {"down", "tables", "columns"} => "columns" \in schema
    /\ phase \notin {"down", "tables", "columns", "index"} => "index" \in schema
    /\ phase \in TenantMade => Base \in tenants
    /\ phase \in OrgMade => Base \in orgs
    /\ phase \in Seeded => OfficialThere
    /\ phase \in Seeded \ {"servers"} => "mcp.servers" \in reference
    /\ phase \in Seeded \ {"servers", "packs"} => "mcp.packs" \in reference
    /\ phase \in {"user", "member"} => arguments.admin # None
    /\ phase = "member" => RootUser \in byStart

\* What served is the key on file until a start with another one is past the point where
\* it reads it, and from there on the start has it in hand.
KeyInv ==
    /\ {keyFile, previousFile, active, previous, served, before} \subseteq Keys \union {None}
    /\ phase \in {"write", "keep"} => arguments.secret # None
    /\ \/ phase \notin {"write", "keep", "admin", "user", "member"}
       \/ phase \in {"admin", "user", "member"} /\ arguments.secret = None
       => served \in {keyFile, None}
    /\ phase \in {"write", "keep", "admin", "user", "member"}
         => served \in {active, previous, None}
    /\ HandOver

PlatformInv == AccountInv /\ CatalogueInv /\ SetupInv /\ KeyInv

-----------------------------------------------------------------------------
(* The keys.                                                               *)

LEMMA StepKeepsKeys == PlatformInv /\ [Next]_vars => KeyInv'
  <1> SUFFICES ASSUME PlatformInv, [Next]_vars PROVE KeyInv'
    OBVIOUS
  <1> USE DEF PlatformInv
  <1>1. ASSUME UNCHANGED <<phase, arguments>>, UNCHANGED keyVars PROVE KeyInv'
    BY <1>1 DEF keyVars, KeyInv, HandOver
  <1>2. ASSUME UNCHANGED keyVars, UNCHANGED arguments,
               NEW p, NEW q, phase = p, phase' = q,
               \/ q \notin {"write", "keep", "admin", "user", "member", "serve"}
                  /\ p \notin {"write", "keep", "admin", "user", "member"}
               \/ p \in {"admin", "user"} /\ q \in {"user", "member"}
        PROVE  KeyInv'
    BY <1>2 DEF keyVars, KeyInv, HandOver
  <1>3. CASE Start
    BY <1>3 DEF Start, keyVars, KeyInv, HandOver
  <1>4. CASE CreateTables \/ AddColumns \/ FillIndex
    BY <1>2, <1>4 DEF CreateTables, AddColumns, FillIndex, MakeSchema, Goes
  <1>5. CASE EnsureTenant \/ EnsureOrg \/ SeedServices
    BY <1>2, <1>5 DEF EnsureTenant, EnsureOrg, SeedServices, Goes
  <1>6. CASE \/ SeedReference("servers", "packs", "mcp.servers")
             \/ SeedReference("packs", "key", "mcp.packs")
    BY <1>2, <1>6 DEF SeedReference, Goes
  <1>7. CASE RegisterAdmin \/ CreateAdmin
    BY <1>2, <1>7 DEF RegisterAdmin, CreateAdmin, Goes
  <1>8. CASE LoadKey
    <2>1. starts \in Keys
      BY <1>8 DEF LoadKey, Goes, SetupInv, Keys
    <2> QED
      BY <1>8, <2>1 DEF LoadKey, Goes, KeyInv, HandOver
  <1>9. CASE GivenKey
    <2>1. arguments.secret \in Keys
      BY <1>9 DEF GivenKey, SetupInv, Keys
    <2> QED
      BY <1>9, <2>1 DEF GivenKey, Goes, KeyInv, HandOver
  <1>10. CASE WriteKey
    BY <1>10 DEF WriteKey, Goes, KeyInv, HandOver
  <1>11. CASE KeepPrevious
    BY <1>11 DEF KeepPrevious, Kept, Goes, KeyInv, HandOver
  <1>12. CASE NoAdmin \/ AdminMember
    BY <1>12 DEF NoAdmin, AdminMember, Serving, Goes, KeyInv, HandOver
  <1>13. CASE Stop
    BY <1>13 DEF Stop, KeyInv, HandOver
  <1>14. CASE SignsIn \/ AccountStep \/ CatalogueStep
    BY <1>1, <1>14 DEF SignsIn, AccountStep, CatalogueStep, Free, lifeVars, keyVars
  <1>15. CASE AccountRequest \/ CatalogueRequest
    BY <1>1, <1>15 DEF AccountRequest, CatalogueRequest, Comes
  <1>16. CASE UNCHANGED vars
    BY <1>1, <1>16 DEF vars, lifeVars, keyVars
  <1> QED
    BY <1>3, <1>4, <1>5, <1>6, <1>7, <1>8, <1>9, <1>10, <1>11, <1>12, <1>13, <1>14, <1>15, <1>16
       DEF Next
-----------------------------------------------------------------------------
(* The catalogue.                                                          *)

\* A row is written, the platform's only over one of the platform's.
LEMMA RowWritten ==
    ASSUME CatalogueInv, NEW n \in Services, NEW row \in Row,
           services' = [services EXCEPT ![n] = row],
           update' \in {update, None}, declared' = declared,
           row.scope = "platform" => OfficialThere
    PROVE  CatalogueInv' /\ (OfficialThere => OfficialThere')
  <1>1. row # None
    BY NoneAssumption
  <1>2. \A m \in Services : services'[m] = IF m = n THEN row ELSE services[m]
    BY DEF CatalogueInv, CatalogueTypeOK
  <1>3. OfficialThere => OfficialThere'
    BY <1>1, <1>2, PlatformAssumption DEF OfficialThere
  <1>4. CatalogueTypeOK'
    BY DEF CatalogueInv, CatalogueTypeOK
  <1>5. ~NeedsSeeds' => OfficialThere
    BY <1>1, <1>2 DEF NeedsSeeds, CatalogueInv
  <1>6. update' # None /\ update'.scope = "platform" => OfficialThere
    BY DEF CatalogueInv
  <1> QED
    BY <1>3, <1>4, <1>5, <1>6 DEF CatalogueInv

\* The official rows are not lost again.
LEMMA StepKeepsCatalogue ==
    PlatformInv /\ [Next]_vars =>
       /\ CatalogueInv' /\ (OfficialThere => OfficialThere')
       /\ SeedServices => OfficialThere'
  <1> SUFFICES ASSUME PlatformInv, [Next]_vars
               PROVE  /\ CatalogueInv' /\ (OfficialThere => OfficialThere')
                      /\ SeedServices => OfficialThere'
    OBVIOUS
  <1> USE DEF PlatformInv
  <1>1. ASSUME UNCHANGED catalogueVars
        PROVE  CatalogueInv' /\ (OfficialThere => OfficialThere')
    BY <1>1 DEF catalogueVars, CatalogueInv, CatalogueTypeOK, OfficialThere, NeedsSeeds
  <1>2. SeedServices => CatalogueInv' /\ OfficialThere'
    <2> SUFFICES ASSUME SeedServices PROVE CatalogueInv' /\ OfficialThere'
      OBVIOUS
    <2>1. CASE NeedsSeeds
      <3>1. /\ services' = [n \in Services |-> IF n \in Official THEN Seed ELSE services[n]]
            /\ update' = update /\ declared' = declared
        BY <2>1 DEF SeedServices, SeedAll
      <3>2. Seed \in Row /\ Seed # None
        <4>1. Seed \in Row
          BY DEF Seed, Row, Scopes
        <4> QED
          BY <4>1, NoneAssumption
      <3>3. OfficialThere'
        BY <3>1, <3>2, PlatformAssumption DEF OfficialThere
      <3>4. CatalogueTypeOK'
        BY <3>1, <3>2 DEF CatalogueInv, CatalogueTypeOK
      <3> QED
        BY <3>3, <3>4 DEF CatalogueInv
    <2>2. CASE ~NeedsSeeds
      BY <1>1, <2>2 DEF SeedServices, CatalogueInv
    <2> QED
      BY <2>1, <2>2
  <1>3. CASE CatalogueRequest
    <2>1. PICK c \in claims, n \in Services :
            CreateService(c.org, n) \/ BeginUpdate(c.org, n) \/ Declare(c.org, n)
      BY <1>3 DEF CatalogueRequest
    <2>2. PICK o \in Orgs : o = c.org
      BY DEF AccountInv, AccountsTypeOK
    <2>3. CASE CreateService(o, n)
      <3> DEFINE row == [scope |-> o, by |-> o]
      <3>1. row \in Row /\ row.scope # "platform"
        BY PlatformAssumption DEF Row, Scopes
      <3>2. services' = [services EXCEPT ![n] = row] /\ update' = update /\ declared' = declared
        BY <2>3 DEF CreateService
      <3> HIDE DEF row
      <3> QED
        BY <1>2, <3>1, <3>2, RowWritten
    <2>4. CASE BeginUpdate(o, n)
      <3> DEFINE u == [name |-> n, scope |-> services[n].scope, by |-> o]
      <3>1. /\ services[n] # None /\ services[n] \in Row
            /\ services' = services /\ declared' = declared /\ update' = u
        BY <2>4 DEF BeginUpdate, Visible, CatalogueInv, CatalogueTypeOK
      <3>2. /\ u \in [name : Services, scope : Scopes, by : Orgs]
            /\ u.scope = services[n].scope
        BY <3>1 DEF Row
      <3> HIDE DEF u
      <3>3. u.scope = "platform" => OfficialThere
        BY <3>1, <3>2 DEF CatalogueInv, NeedsSeeds
      <3> QED
        BY <1>2, <3>1, <3>2, <3>3 DEF CatalogueInv, CatalogueTypeOK, OfficialThere, NeedsSeeds
    <2>5. CASE Declare(o, n)
      BY <1>2, <2>5 DEF Declare, CatalogueInv, CatalogueTypeOK, OfficialThere, NeedsSeeds
    <2> QED
      BY <1>3, <2>1, <2>2, <2>3, <2>4, <2>5 DEF CatalogueRequest, Comes, SeedServices, Goes
  <1>4. CASE CatalogueStep
    <2> DEFINE row == [scope |-> update.scope, by |-> update.by]
    <2>1. /\ update # None /\ update \in [name : Services, scope : Scopes, by : Orgs]
          /\ services' = [services EXCEPT ![update.name] = row]
          /\ update' = None /\ declared' = declared
      BY <1>4 DEF CatalogueStep, WriteUpdate, CatalogueInv, CatalogueTypeOK
    <2>2. row \in Row /\ (row.scope = "platform" => OfficialThere)
      BY <2>1 DEF Row, CatalogueInv
    <2> HIDE DEF row
    <2>3. PICK n \in Services : n = update.name
      BY <2>1
    <2> QED
      BY <1>2, <2>1, <2>2, <2>3, RowWritten
  <1>5. CASE Stop
    <2>1. services' = services /\ update' = None /\ declared' = declared
      BY <1>5 DEF Stop
    <2> QED
      BY <1>2, <2>1 DEF CatalogueInv, CatalogueTypeOK, OfficialThere, NeedsSeeds
  <1>6. CASE \/ Start \/ CreateTables \/ AddColumns \/ FillIndex \/ EnsureTenant \/ EnsureOrg
             \/ SeedReference("servers", "packs", "mcp.servers")
             \/ SeedReference("packs", "key", "mcp.packs")
             \/ LoadKey \/ GivenKey \/ WriteKey \/ KeepPrevious
             \/ NoAdmin \/ RegisterAdmin \/ CreateAdmin \/ AdminMember
    <2>1. UNCHANGED catalogueVars
      BY <1>6 DEF Start, CreateTables, AddColumns, FillIndex, MakeSchema, EnsureTenant, EnsureOrg,
         SeedReference, LoadKey, GivenKey, WriteKey, KeepPrevious, NoAdmin, RegisterAdmin,
         CreateAdmin, AdminMember
    <2> QED
      BY <1>1, <1>2, <2>1
  <1>7. CASE SignsIn \/ AccountRequest \/ AccountStep \/ UNCHANGED vars
    BY <1>1, <1>2, <1>7 DEF SignsIn, AccountRequest, AccountStep, Accounting, vars
  <1> QED
    BY <1>2, <1>3, <1>4, <1>5, <1>6, <1>7 DEF Next
-----------------------------------------------------------------------------
(* The accounts.                                                           *)

\* A change of accounts that adds organisations in order, leaves the users alone and gives
\* nobody the role of a platform administrator.
LEMMA NoUserTouched ==
    ASSUME AccountInv, users' = users, byStart' = byStart,
           tenants \subseteq tenants', tenants' \subseteq Orgs,
           orgs \subseteq orgs', orgs' \subseteq tenants',
           task' \in [Handlers -> NewTask \union {None}], NewTasksInv',
           members' \in [Users -> [Orgs -> Roles \union {None}]],
           \A u \in Users \ byStart : \A o \in Orgs :
              members'[u][o] = "platform_admin" => members[u][o] = "platform_admin",
           claims' \subseteq [user : Users, org : Orgs, role : Roles],
           \A c \in claims' \ claims : c.role = "platform_admin" => c.user \in byStart
    PROVE  AccountInv'
  <1>1. AccountsTypeOK'
    BY DEF AccountInv, AccountsTypeOK
  <1>2. PlatformRoleOnlyFromStart'
    BY DEF AccountInv, PlatformRoleOnlyFromStart
  <1>3. DoorsOpen'
    <2>1. orgs' \subseteq tenants'
      OBVIOUS
    <2>2. ASSUME NEW u \in Users, users[u] # None
          PROVE  u[1] \in orgs' /\ EffectiveRole(u, u[1])' # None
      BY <2>2 DEF AccountInv, DoorsOpen, EffectiveRole
    <2> QED
      BY <2>1, <2>2 DEF DoorsOpen
  <1> QED
    BY <1>1, <1>2, <1>3 DEF AccountInv

\* A user is created where nobody of the name is, in an organisation that is there.
LEMMA UserCreated ==
    ASSUME AccountInv, NEW u \in Users, NEW r \in Roles, CreateUser(u, r), u[1] \in orgs,
           tenants' = tenants, orgs' = orgs, members' = members, claims' = claims,
           byStart' = IF r = "platform_admin" THEN byStart \union {u} ELSE byStart,
           task' \in [Handlers -> NewTask \union {None}], NewTasksInv'
    PROVE  AccountInv'
  <1>1. users \in [Users -> Roles \union {None}] /\ r # None
    BY NoneAssumption DEF AccountInv, AccountsTypeOK
  <1>2. /\ users' \in [Users -> Roles \union {None}]
        /\ \A v \in Users : users'[v] = IF v = u /\ users[u] = None THEN r ELSE users[v]
    BY <1>1 DEF CreateUser
  <1>3. users'[u] # None
    BY <1>1, <1>2
  <1>4. AccountsTypeOK'
    BY <1>1, <1>2, <1>3 DEF AccountInv, AccountsTypeOK
  <1>5. DoorsOpen'
    <2>1. ASSUME NEW v \in Users, users'[v] # None
          PROVE  v[1] \in orgs' /\ EffectiveRole(v, v[1])' # None
      BY <1>2, <2>1 DEF AccountInv, DoorsOpen, EffectiveRole
    <2> QED
      BY <2>1 DEF AccountInv, DoorsOpen
  <1>6. PlatformRoleOnlyFromStart'
    BY <1>2 DEF AccountInv, PlatformRoleOnlyFromStart
  <1> QED
    BY <1>4, <1>5, <1>6 DEF AccountInv

\* A sign-in states the role that its user has.
LEMMA SignInFacts ==
    ASSUME AccountInv, NEW u \in Users, NEW o \in Orgs, SignIn(u, o)
    PROVE  /\ claims' \subseteq [user : Users, org : Orgs, role : Roles]
           /\ \A c \in claims' \ claims : c.role = "platform_admin" => c.user \in byStart
  <1> DEFINE r == EffectiveRole(u, o)
             c == [user |-> u, org |-> o, role |-> r]
  <1>1. r # None /\ claims' = claims \union {c}
    BY DEF SignIn
  <1>2. r = members[u][o] \/ r = users[u]
    BY <1>1 DEF EffectiveRole
  <1>3. r \in Roles
    BY <1>1, <1>2 DEF AccountInv, AccountsTypeOK
  <1>4. r = "platform_admin" => u \in byStart
    BY <1>2 DEF AccountInv, PlatformRoleOnlyFromStart
  <1> HIDE DEF r
  <1>5. c \in [user : Users, org : Orgs, role : Roles] /\ c.role = r /\ c.user = u
    BY <1>3
  <1> HIDE DEF c
  <1> QED
    BY <1>1, <1>4, <1>5 DEF AccountInv, AccountsTypeOK

\* A membership is given that is not that of a platform administrator.
LEMMA MemberFacts ==
    ASSUME AccountInv, NEW u \in Users, NEW o \in Orgs, NEW r \in Roles,
           r = "platform_admin" => u \in byStart, SetMember(u, o, r)
    PROVE  /\ members' \in [Users -> [Orgs -> Roles \union {None}]]
           /\ \A v \in Users \ byStart : \A p \in Orgs :
                members'[v][p] = "platform_admin" => members[v][p] = "platform_admin"
  BY DEF SetMember, AccountInv, AccountsTypeOK

\* One task of a handler changes.
LEMMA TaskFacts ==
    ASSUME AccountInv, NEW h \in Handlers, NEW t \in NewTask \union {None},
           task' = [task EXCEPT ![h] = t],
           tenants \subseteq tenants', orgs \subseteq orgs',
           t # None => /\ t.op = "org" => t.org \in tenants'
                       /\ t.op = "register" => t.user[1] \in orgs'
    PROVE  task' \in [Handlers -> NewTask \union {None}] /\ NewTasksInv'
  <1>1. \A g \in Handlers : task'[g] = IF g = h THEN t ELSE task[g]
    BY DEF AccountInv, AccountsTypeOK
  <1>2. task' \in [Handlers -> NewTask \union {None}]
    BY DEF AccountInv, AccountsTypeOK
  <1>3. NewTasksInv'
    BY <1>1 DEF AccountInv, NewTasksInv
  <1> QED
    BY <1>2, <1>3

\* A registration that goes on: whose it is.
LEMMA RegisteringFacts ==
    ASSUME AccountInv, NEW h \in Handlers, NEW pc, Registering(h, pc)
    PROVE  /\ task[h] # None /\ task[h].op = "register"
           /\ task[h] \in [op : {"register"}, pc : {"user", "member", "login"}, user : Users]
           /\ task[h].user \in Users /\ task[h].user[1] \in orgs /\ task[h].user[1] \in Orgs
  <1>1. task[h] # None /\ task[h].op = "register" /\ task[h] \in NewTask
    BY DEF Registering, AccountInv, AccountsTypeOK
  <1>2. task[h] \in [op : {"register"}, pc : {"user", "member", "login"}, user : Users]
    BY <1>1 DEF NewTask
  <1>3. task[h].user[1] \in orgs
    BY <1>1 DEF AccountInv, NewTasksInv
  <1> QED
    BY <1>1, <1>2, <1>3 DEF Users
\* Nothing that a request, a start or its end does to the accounts locks anybody out or
\* makes a platform administrator of somebody whom no start created.
LEMMA StepKeepsAccounts ==
    PlatformInv /\ [Next]_vars =>
       /\ AccountInv'
       /\ tenants \subseteq tenants' /\ orgs \subseteq orgs' /\ byStart \subseteq byStart'
  <1> DEFINE Kept3 == tenants \subseteq tenants' /\ orgs \subseteq orgs' /\ byStart \subseteq byStart'
  <1> SUFFICES ASSUME PlatformInv, [Next]_vars PROVE AccountInv' /\ Kept3
    OBVIOUS
  <1>0. AccountInv /\ SetupInv
    BY DEF PlatformInv
  <1>1. ASSUME UNCHANGED accountVars PROVE AccountInv' /\ Kept3
    BY <1>0, <1>1 DEF accountVars, AccountInv, AccountsTypeOK, DoorsOpen, EffectiveRole,
       PlatformRoleOnlyFromStart, NewTasksInv
  <1>2. \A h \in Handlers : /\ task[h] \in NewTask \union {None}
                            /\ None \in NewTask \union {None}
    BY <1>0 DEF AccountInv, AccountsTypeOK
  <1>3. /\ task \in [Handlers -> NewTask \union {None}] /\ NewTasksInv
        /\ tenants \subseteq Orgs /\ orgs \subseteq tenants
        /\ members \in [Users -> [Orgs -> Roles \union {None}]]
        /\ claims \subseteq [user : Users, org : Orgs, role : Roles]
    BY <1>0 DEF AccountInv, AccountsTypeOK, DoorsOpen
  <1>4. CASE EnsureTenant
    <2>1. /\ users' = users /\ byStart' = byStart /\ orgs' = orgs /\ members' = members
          /\ claims' = claims /\ task' = task /\ tenants' = tenants \union {Base}
      BY <1>4 DEF EnsureTenant
    <2>2. NewTasksInv'
      BY <1>3, <2>1 DEF NewTasksInv
    <2> QED
      BY <1>0, <1>3, <2>1, <2>2, NoUserTouched, PlatformAssumption
  <1>5. CASE EnsureOrg
    <2>1. /\ users' = users /\ byStart' = byStart /\ tenants' = tenants /\ members' = members
          /\ claims' = claims /\ task' = task /\ orgs' = orgs \union {Base}
      BY <1>5 DEF EnsureOrg
    <2>2. Base \in tenants
      BY <1>0, <1>5 DEF EnsureOrg, Goes, SetupInv, TenantMade
    <2>3. NewTasksInv'
      BY <1>3, <2>1 DEF NewTasksInv
    <2> QED
      BY <1>0, <1>3, <2>1, <2>2, <2>3, NoUserTouched
  <1>6. CASE CreateAdmin
    <2>1. /\ CreateUser(RootUser, "platform_admin") /\ byStart' = byStart \union {RootUser}
          /\ tenants' = tenants /\ orgs' = orgs /\ members' = members /\ claims' = claims
          /\ task' = task
      BY <1>6 DEF CreateAdmin
    <2>2. arguments.admin \in Names /\ Base \in orgs
      BY <1>0, <1>6 DEF CreateAdmin, Goes, SetupInv, OrgMade, Seeded
    <2>3. RootUser \in Users /\ RootUser[1] = Base
      BY <2>2, PlatformAssumption DEF RootUser, Users
    <2>4. NewTasksInv'
      BY <1>3, <2>1 DEF NewTasksInv
    <2>5. PICK u \in Users : u = RootUser
      BY <2>3
    <2>6. "platform_admin" \in Roles
      BY DEF Roles
    <2>7. CreateUser(u, "platform_admin")
      BY <2>1, <2>5
    <2>8. AccountInv'
      BY <1>0, <1>3, <2>1, <2>2, <2>3, <2>4, <2>5, <2>6, <2>7, UserCreated
    <2> QED
      BY <2>1, <2>8
  <1>7. CASE AdminMember
    <2>1. /\ SetMember(RootUser, Base, "platform_admin")
          /\ users' = users /\ byStart' = byStart /\ tenants' = tenants /\ orgs' = orgs
          /\ claims' = claims /\ task' = task
      BY <1>7 DEF AdminMember
    <2>2. RootUser \in byStart /\ RootUser \in Users
      BY <1>0, <1>7 DEF AdminMember, Goes, SetupInv, AccountInv, AccountsTypeOK
    <2>3. PICK u \in Users : u = RootUser
      BY <2>2
    <2>4. "platform_admin" \in Roles /\ Base \in Orgs
      BY PlatformAssumption DEF Roles
    <2>5. SetMember(u, Base, "platform_admin")
      BY <2>1, <2>3
    <2>6. /\ members' \in [Users -> [Orgs -> Roles \union {None}]]
          /\ \A v \in Users \ byStart : \A p \in Orgs :
               members'[v][p] = "platform_admin" => members[v][p] = "platform_admin"
      BY <1>0, <2>2, <2>3, <2>4, <2>5, MemberFacts
    <2>7. NewTasksInv'
      BY <1>3, <2>1 DEF NewTasksInv
    <2> QED
      BY <1>0, <1>3, <2>1, <2>6, <2>7, NoUserTouched
  <1>8. CASE Stop
    <2>1. /\ task' = [h \in Handlers |-> None]
          /\ users' = users /\ byStart' = byStart /\ tenants' = tenants /\ orgs' = orgs
          /\ claims' = claims /\ members' = members
      BY <1>8 DEF Stop
    <2>2. task' \in [Handlers -> NewTask \union {None}] /\ NewTasksInv'
      BY <2>1 DEF NewTasksInv
    <2> QED
      BY <1>0, <1>3, <2>1, <2>2, NoUserTouched
  <1>9. CASE SignsIn
    <2>1. PICK u \in Users, o \in Orgs : Login(u, o)
      BY <1>9 DEF SignsIn
    <2>2. /\ SignIn(u, o)
          /\ users' = users /\ byStart' = byStart /\ tenants' = tenants /\ orgs' = orgs
          /\ task' = task /\ members' = members
      BY <2>1 DEF Login
    <2>3. NewTasksInv'
      BY <1>3, <2>2 DEF NewTasksInv
    <2> QED
      BY <1>0, <1>3, <2>2, <2>3, NoUserTouched, SignInFacts
  <1>10. CASE AccountRequest
    <2>1. \/ \E h \in Handlers, u \in Users : Register(h, u)
          \/ \E c \in claims, o \in Orgs, h \in Handlers : CreateOrg(h, c, o)
          \/ \E c \in claims, o \in Orgs, u \in Users, r \in Given : AddMember(c, u, o, r)
      BY <1>10 DEF AccountRequest
    <2>2. ASSUME NEW h \in Handlers, NEW u \in Users, Register(h, u)
          PROVE  AccountInv' /\ Kept3
      <3> DEFINE t == [op |-> "register", pc |-> "user", user |-> u]
      <3>1. /\ task' = [task EXCEPT ![h] = t] /\ u[1] \in orgs
            /\ UNCHANGED <<tenants, orgs, users, members, claims, byStart>>
        BY <2>2 DEF Register, MayRegister
      <3>2. t \in NewTask \union {None} /\ t.op = "register" /\ t.user = u
        BY DEF NewTask
      <3> HIDE DEF t
      <3>3. task' \in [Handlers -> NewTask \union {None}] /\ NewTasksInv'
        BY <1>0, <3>1, <3>2, TaskFacts
      <3> QED
        BY <1>0, <1>3, <3>1, <3>3, NoUserTouched
    <2>3. ASSUME NEW c \in claims, NEW o \in Orgs, NEW h \in Handlers, CreateOrg(h, c, o)
          PROVE  AccountInv' /\ Kept3
      <3> DEFINE t == [op |-> "org", org |-> o]
      <3>1. /\ task' = [task EXCEPT ![h] = t] /\ tenants' = tenants \union {o}
            /\ UNCHANGED <<orgs, users, members, claims, byStart>>
        BY <2>3 DEF CreateOrg, TenantRow
      <3>2. t \in NewTask \union {None} /\ t.op = "org" /\ t.org = o
        BY DEF NewTask
      <3> HIDE DEF t
      <3>3. task' \in [Handlers -> NewTask \union {None}] /\ NewTasksInv'
        BY <1>0, <3>1, <3>2, TaskFacts
      <3> QED
        BY <1>0, <1>3, <3>1, <3>3, NoUserTouched
    <2>4. ASSUME NEW c \in claims, NEW o \in Orgs, NEW u \in Users, NEW r \in Given,
                 AddMember(c, u, o, r)
          PROVE  AccountInv' /\ Kept3
      <3>1. /\ r \in Roles /\ r # "platform_admin" /\ SetMember(u, o, r)
            /\ UNCHANGED <<tenants, orgs, users, claims, task, byStart>>
        BY <2>4 DEF AddMember, Assignable
      <3>2. NewTasksInv'
        BY <1>3, <3>1 DEF NewTasksInv
      <3>3. /\ members' \in [Users -> [Orgs -> Roles \union {None}]]
            /\ \A v \in Users \ byStart : \A p \in Orgs :
                 members'[v][p] = "platform_admin" => members[v][p] = "platform_admin"
        BY <1>0, <3>1, MemberFacts
      <3> QED
        BY <1>0, <1>3, <3>1, <3>2, <3>3, NoUserTouched
    <2> QED
      BY <2>1, <2>2, <2>3, <2>4
  <1>11. CASE AccountStep
    <2>1. PICK h \in Handlers :
            CreateOrgRow(h) \/ RegisterUser(h) \/ RegisterMember(h) \/ RegisterLogin(h)
      BY <1>11 DEF AccountStep
    <2>2. ASSUME task' = [task EXCEPT ![h] = None], tenants' = tenants, orgs \subseteq orgs'
          PROVE  task' \in [Handlers -> NewTask \union {None}] /\ NewTasksInv'
      BY <1>0, <1>2, <2>2, TaskFacts
    <2>3. CASE CreateOrgRow(h)
      <3>1. /\ task[h] # None /\ task[h].op = "org" /\ orgs' = orgs \union {task[h].org}
            /\ task' = [task EXCEPT ![h] = None]
            /\ UNCHANGED <<tenants, users, members, claims, byStart>>
        BY <2>3 DEF CreateOrgRow
      <3>2. task[h].org \in tenants
        BY <1>3, <3>1 DEF NewTasksInv
      <3> QED
        BY <1>0, <1>3, <2>2, <3>1, <3>2, NoUserTouched
    <2>4. CASE RegisterUser(h)
      <3>1. /\ Registering(h, "user") /\ CreateUser(task[h].user, "rule_engineer")
            /\ task' = IF users[task[h].user] = None THEN [task EXCEPT ![h].pc = "member"]
                       ELSE [task EXCEPT ![h] = None]
            /\ UNCHANGED <<tenants, orgs, members, claims, byStart>>
        BY <2>4 DEF RegisterUser
      <3>2. /\ task[h] # None /\ task[h].op = "register"
            /\ task[h] \in [op : {"register"}, pc : {"user", "member", "login"}, user : Users]
            /\ task[h].user \in Users /\ task[h].user[1] \in orgs
        BY <1>0, <3>1, RegisteringFacts
      <3>3. PICK u \in Users : u = task[h].user
        BY <3>2
      <3>4. task' \in [Handlers -> NewTask \union {None}] /\ NewTasksInv'
        <4>1. CASE task' = [task EXCEPT ![h].pc = "member"]
          <5> DEFINE t == [task[h] EXCEPT !.pc = "member"]
          <5>1. task' = [task EXCEPT ![h] = t]
            BY <4>1
          <5>2. t \in NewTask \union {None} /\ t.op = "register" /\ t.user = task[h].user
            BY <3>2 DEF NewTask
          <5> HIDE DEF t
          <5> QED
            BY <1>0, <3>1, <3>2, <5>1, <5>2, TaskFacts
        <4>2. CASE task' = [task EXCEPT ![h] = None]
          BY <2>2, <3>1, <4>2
        <4> QED
          BY <3>1, <4>1, <4>2
      <3>5. CreateUser(u, "rule_engineer") /\ "rule_engineer" \in Roles
        BY <3>1, <3>3 DEF Roles
      <3> HIDE DEF Kept3
      <3>6. AccountInv'
        BY <1>0, <3>1, <3>2, <3>3, <3>4, <3>5, UserCreated
      <3> QED
        BY <3>1, <3>6 DEF Kept3
    <2>5. CASE RegisterMember(h)
      <3>1. /\ Registering(h, "member")
            /\ SetMember(task[h].user, task[h].user[1], "rule_engineer")
            /\ task' = [task EXCEPT ![h].pc = "login"]
            /\ UNCHANGED <<tenants, orgs, users, claims, byStart>>
        BY <2>5 DEF RegisterMember
      <3>2. /\ task[h] # None /\ task[h].op = "register"
            /\ task[h] \in [op : {"register"}, pc : {"user", "member", "login"}, user : Users]
            /\ task[h].user \in Users /\ task[h].user[1] \in orgs /\ task[h].user[1] \in Orgs
        BY <1>0, <3>1, RegisteringFacts
      <3>3. PICK u \in Users : u = task[h].user
        BY <3>2
      <3>4. PICK o \in Orgs : o = u[1]
        BY <3>2, <3>3
      <3>5. SetMember(u, o, "rule_engineer") /\ "rule_engineer" \in Roles
        BY <3>1, <3>3, <3>4 DEF Roles
      <3>6. /\ members' \in [Users -> [Orgs -> Roles \union {None}]]
            /\ \A v \in Users \ byStart : \A p \in Orgs :
                 members'[v][p] = "platform_admin" => members[v][p] = "platform_admin"
        BY <1>0, <3>5, MemberFacts
      <3>7. task' \in [Handlers -> NewTask \union {None}] /\ NewTasksInv'
        <4> DEFINE t == [task[h] EXCEPT !.pc = "login"]
        <4>1. task' = [task EXCEPT ![h] = t]
          BY <3>1
        <4>2. t \in NewTask \union {None} /\ t.op = "register" /\ t.user = task[h].user
          BY <3>2 DEF NewTask
        <4> HIDE DEF t
        <4> QED
          BY <1>0, <3>1, <3>2, <4>1, <4>2, TaskFacts
      <3> QED
        BY <1>0, <1>3, <3>1, <3>6, <3>7, NoUserTouched
    <2>6. CASE RegisterLogin(h)
      <3>1. /\ Registering(h, "login") /\ SignIn(task[h].user, task[h].user[1])
            /\ task' = [task EXCEPT ![h] = None]
            /\ UNCHANGED <<tenants, orgs, users, members, byStart>>
        BY <2>6 DEF RegisterLogin
      <3>2. task[h].user \in Users /\ task[h].user[1] \in Orgs
        BY <1>0, <3>1, RegisteringFacts
      <3>3. PICK u \in Users, o \in Orgs : u = task[h].user /\ o = u[1]
        BY <3>2
      <3>4. SignIn(u, o)
        BY <3>1, <3>3
      <3> QED
        BY <1>0, <1>3, <2>2, <3>1, <3>4, NoUserTouched, SignInFacts
    <2> QED
      BY <2>1, <2>3, <2>4, <2>5, <2>6
  <1>12. CASE \/ Start \/ CreateTables \/ AddColumns \/ FillIndex \/ SeedServices
              \/ SeedReference("servers", "packs", "mcp.servers")
              \/ SeedReference("packs", "key", "mcp.packs")
              \/ LoadKey \/ GivenKey \/ WriteKey \/ KeepPrevious \/ NoAdmin \/ RegisterAdmin
    BY <1>1, <1>12 DEF Start, CreateTables, AddColumns, FillIndex, MakeSchema, SeedServices,
       SeedReference, LoadKey, GivenKey, WriteKey, KeepPrevious, NoAdmin, RegisterAdmin
  <1>13. CASE CatalogueRequest \/ CatalogueStep \/ UNCHANGED vars
    BY <1>1, <1>13 DEF CatalogueRequest, CatalogueStep, vars, accountVars
  <1> QED
    BY <1>4, <1>5, <1>6, <1>7, <1>8, <1>9, <1>10, <1>11, <1>12, <1>13 DEF Next-----------------------------------------------------------------------------
(* The way of a start.                                                     *)

\* A step that stays in its phase, or goes where nothing new is promised.
LEMMA NothingNew ==
    ASSUME SetupInv, UNCHANGED <<phase, arguments, starts>>, requests' \in 0..MaxRequests,
           UNCHANGED <<schema, reference>>,
           tenants \subseteq tenants', orgs \subseteq orgs', byStart \subseteq byStart',
           OfficialThere => OfficialThere'
    PROVE  SetupInv'
  BY DEF SetupInv, TenantMade, OrgMade, Seeded, RootUser

\* A start goes from one step to the next, with what the phase it is then in tells of.
LEMMA OneStepOn ==
    ASSUME SetupInv, NEW p, NEW q, Goes(p, q), q \in Phases, p # "down",
           tenants \subseteq tenants', orgs \subseteq orgs', byStart \subseteq byStart',
           schema \subseteq schema', reference \subseteq reference',
           schema' \subseteq SchemaParts, reference' \subseteq Reference,
           OfficialThere => OfficialThere',
           q \notin {"down", "tables"} => p # "tables" \/ "tables" \in schema',
           q \notin {"down", "tables", "columns"}
             => p \notin {"tables", "columns"} \/ "columns" \in schema',
           q \notin {"down", "tables", "columns", "index"}
             => p \notin {"tables", "columns", "index"} \/ "index" \in schema',
           q \in TenantMade => p \in TenantMade \/ Base \in tenants',
           q \in OrgMade => p \in OrgMade \/ Base \in orgs',
           q \in Seeded => p \in Seeded \/ OfficialThere',
           q \in Seeded \ {"servers"} => p \in Seeded \ {"servers"} \/ "mcp.servers" \in reference',
           q \in Seeded \ {"servers", "packs"}
             => p \in Seeded \ {"servers", "packs"} \/ "mcp.packs" \in reference',
           q \in {"user", "member"} => arguments.admin # None,
           q = "member" => RootUser \in byStart'
    PROVE  SetupInv'
  <1>1. phase = p /\ phase' = q /\ UNCHANGED <<arguments, starts, requests>> /\ RootUser' = RootUser
    BY DEF Goes, RootUser
  <1>2. phase' \in Phases /\ starts' \in 0..MaxStarts /\ requests' \in 0..MaxRequests
        /\ (phase' # "down" => starts' \in 1..MaxStarts)
        /\ arguments' \in [secret : Secrets \union {None}, admin : Names \union {None}]
    BY <1>1 DEF SetupInv
  <1>3. /\ phase' \notin {"down", "tables"} => "tables" \in schema'
        /\ phase' \notin {"down", "tables", "columns"} => "columns" \in schema'
        /\ phase' \notin {"down", "tables", "columns", "index"} => "index" \in schema'
    BY <1>1 DEF SetupInv
  <1>4. /\ phase' \in TenantMade => Base \in tenants'
        /\ phase' \in OrgMade => Base \in orgs'
        /\ phase' \in Seeded => OfficialThere'
        /\ phase' \in Seeded \ {"servers"} => "mcp.servers" \in reference'
        /\ phase' \in Seeded \ {"servers", "packs"} => "mcp.packs" \in reference'
    BY <1>1 DEF SetupInv
  <1>5. /\ phase' \in {"user", "member"} => arguments'.admin # None
        /\ phase' = "member" => RootUser' \in byStart'
    BY <1>1
  <1>6. TenantMade' = TenantMade /\ OrgMade' = OrgMade /\ Seeded' = Seeded
    BY DEF TenantMade, OrgMade, Seeded
  <1> QED
    BY <1>2, <1>3, <1>4, <1>5, <1>6 DEF SetupInv

\* Each phase of a start finds behind it what the phases before it made.
LEMMA StepKeepsSetup == PlatformInv /\ [Next]_vars => SetupInv'
  <1> SUFFICES ASSUME PlatformInv, [Next]_vars PROVE SetupInv'
    OBVIOUS
  <1>0. SetupInv
    BY DEF PlatformInv
  <1>1. /\ tenants \subseteq tenants' /\ orgs \subseteq orgs' /\ byStart \subseteq byStart'
        /\ OfficialThere => OfficialThere'
    BY StepKeepsAccounts, StepKeepsCatalogue
  <1>2. schema \subseteq SchemaParts /\ reference \subseteq Reference
    BY <1>0 DEF SetupInv
  <1> USE DEF Phases, TenantMade, OrgMade, Seeded
  <1>3. CASE Start
    BY <1>0, <1>1, <1>3, PlatformAssumption DEF Start, SetupInv
  <1>4. CASE CreateTables \/ AddColumns \/ FillIndex
    <2>1. PICK s \in {<<"tables", "columns", "tables">>, <<"columns", "index", "columns">>,
                      <<"index", "tenant", "index">>} : MakeSchema(s[1], s[2], s[3])
      BY <1>4 DEF CreateTables, AddColumns, FillIndex
    <2>2. Goes(s[1], s[2]) /\ schema' = schema \union {s[3]} /\ reference' = reference
      BY <2>1 DEF MakeSchema
    <2>3. s[3] \in SchemaParts
      BY DEF SchemaParts
    <2> QED
      BY <1>0, <1>1, <1>2, <2>2, <2>3, OneStepOn
  <1>5. CASE EnsureTenant
    <2>1. Goes("tenant", "org") /\ Base \in tenants' /\ schema' = schema /\ reference' = reference
      BY <1>5 DEF EnsureTenant
    <2> QED
      BY <1>0, <1>1, <1>2, <2>1, OneStepOn
  <1>6. CASE EnsureOrg
    <2>1. Goes("org", "seed") /\ Base \in orgs' /\ schema' = schema /\ reference' = reference
      BY <1>6 DEF EnsureOrg
    <2> QED
      BY <1>0, <1>1, <1>2, <2>1, OneStepOn
  <1>7. CASE SeedServices
    <2>1. Goes("seed", "servers") /\ OfficialThere' /\ schema' = schema /\ reference' = reference
      BY <1>7, StepKeepsCatalogue DEF SeedServices
    <2> QED
      BY <1>0, <1>1, <1>2, <2>1, OneStepOn
  <1>8. CASE SeedReference("servers", "packs", "mcp.servers")
    <2>1. /\ Goes("servers", "packs") /\ reference' = reference \union {"mcp.servers"}
          /\ schema' = schema
      BY <1>8 DEF SeedReference
    <2>2. reference' \subseteq Reference /\ "mcp.servers" \in reference'
      BY <1>2, <2>1 DEF Reference
    <2> QED
      BY <1>0, <1>1, <1>2, <2>1, <2>2, OneStepOn
  <1>9. CASE SeedReference("packs", "key", "mcp.packs")
    <2>1. /\ Goes("packs", "key") /\ reference' = reference \union {"mcp.packs"}
          /\ schema' = schema
      BY <1>9 DEF SeedReference
    <2>2. reference' \subseteq Reference /\ "mcp.packs" \in reference'
      BY <1>2, <2>1 DEF Reference
    <2> QED
      BY <1>0, <1>1, <1>2, <2>1, <2>2, OneStepOn
  <1>10. CASE LoadKey \/ GivenKey \/ WriteKey \/ KeepPrevious
    <2>1. /\ schema' = schema /\ reference' = reference
          /\ \/ Goes("key", "admin") \/ Goes("key", "write") \/ Goes("write", "admin")
             \/ Goes("write", "keep") \/ Goes("keep", "admin")
      BY <1>10 DEF LoadKey, GivenKey, WriteKey, KeepPrevious
    <2> QED
      BY <1>0, <1>1, <1>2, <2>1, OneStepOn
  <1>11. CASE NoAdmin \/ AdminMember
    <2>1. /\ schema' = schema /\ reference' = reference
          /\ Goes("admin", "serve") \/ Goes("member", "serve")
      BY <1>11 DEF NoAdmin, AdminMember
    <2> QED
      BY <1>0, <1>1, <1>2, <2>1, OneStepOn
  <1>12. CASE RegisterAdmin
    <2>1. /\ schema' = schema /\ reference' = reference
          /\ Goes("admin", "user") /\ arguments.admin # None
      BY <1>12 DEF RegisterAdmin
    <2> QED
      BY <1>0, <1>1, <1>2, <2>1, OneStepOn
  <1>13. CASE CreateAdmin
    <2>1. /\ schema' = schema /\ reference' = reference
          /\ Goes("user", "member") /\ RootUser \in byStart'
      BY <1>13 DEF CreateAdmin
    <2>2. arguments.admin # None
      BY <1>0, <2>1 DEF SetupInv, Goes
    <2> QED
      BY <1>0, <1>1, <1>2, <2>1, <2>2, OneStepOn
  <1>14. CASE Stop
    BY <1>0, <1>1, <1>14 DEF Stop, SetupInv
  <1>15. CASE SignsIn \/ AccountStep \/ CatalogueStep \/ UNCHANGED vars
    <2>1. UNCHANGED <<phase, arguments, starts, requests, schema, reference>>
      BY <1>15 DEF SignsIn, AccountStep, CatalogueStep, Free, lifeVars, vars
    <2>2. requests' \in 0..MaxRequests
      BY <1>0, <2>1 DEF SetupInv
    <2> QED
      BY <1>0, <1>1, <2>1, <2>2, NothingNew
  <1>16. CASE AccountRequest \/ CatalogueRequest
    <2>1. /\ UNCHANGED <<phase, arguments, starts, schema, reference>>
          /\ requests < MaxRequests /\ requests' = requests + 1
      BY <1>16 DEF AccountRequest, CatalogueRequest, Comes
    <2>2. requests' \in 0..MaxRequests
      BY <1>0, <2>1, PlatformAssumption DEF SetupInv
    <2> QED
      BY <1>0, <1>1, <2>1, <2>2, NothingNew
  <1> QED
    BY <1>3, <1>4, <1>5, <1>6, <1>7, <1>8, <1>9, <1>10, <1>11, <1>12, <1>13, <1>14, <1>15, <1>16
       DEF Next-----------------------------------------------------------------------------
(* The theorems.                                                           *)

LEMMA PlatformInitially == Init => PlatformInv
  <1> SUFFICES ASSUME Init PROVE PlatformInv
    OBVIOUS
  <1>0. /\ tenants = {} /\ orgs = {} /\ claims = {} /\ byStart = {}
        /\ users = [u \in Users |-> None] /\ task = [h \in Handlers |-> None]
        /\ members = [u \in Users |-> [o \in Orgs |-> None]]
    BY DEF Init, AccountsInit
  <1>1. AccountInv
    <2>1. AccountsTypeOK
      BY <1>0 DEF AccountsTypeOK
    <2>2. DoorsOpen /\ NewTasksInv
      BY <1>0 DEF DoorsOpen, NewTasksInv
    <2>3. PlatformRoleOnlyFromStart
      <3>1. None # "platform_admin"
        BY NoneAssumption DEF Roles
      <3> QED
        BY <1>0, <3>1 DEF PlatformRoleOnlyFromStart
    <2> QED
      BY <2>1, <2>2, <2>3 DEF AccountInv
  <1>2. CatalogueInv
    BY DEF Init, CatalogueInit, CatalogueInv, CatalogueTypeOK, NeedsSeeds
  <1>3. SetupInv
    BY PlatformAssumption DEF Init, SetupInv, Phases, SchemaParts, TenantMade, OrgMade, Seeded
  <1>4. KeyInv
    BY DEF Init, KeyInv, HandOver, Keys
  <1> QED
    BY <1>1, <1>2, <1>3, <1>4 DEF PlatformInv

\* The invariant of the service over its starts and stops.
THEOREM PlatformInvariant == Spec => []PlatformInv
  <1>1. Init => PlatformInv
    BY PlatformInitially
  <1>2. PlatformInv /\ [Next]_vars => PlatformInv'
    BY StepKeepsKeys, StepKeepsCatalogue, StepKeepsAccounts, StepKeepsSetup DEF PlatformInv
  <1> QED
    BY <1>1, <1>2, PTL DEF Spec

\* Every variable has its type.
THEOREM PlatformTypeCorrect == Spec => []TypeOK
  <1>1. PlatformInv => TypeOK
    BY DEF PlatformInv, AccountInv, CatalogueInv, SetupInv, KeyInv, TypeOK
  <1> QED
    BY <1>1, PlatformInvariant, PTL

\* Wherever requests and starts are cut off: whoever has a row may log in at home, to an
\* organisation with both of its rows.
THEOREM NobodyIsLockedOut == Spec => []DoorsOpen
  <1>1. PlatformInv => DoorsOpen
    BY DEF PlatformInv, AccountInv
  <1> QED
    BY <1>1, PlatformInvariant, PTL

\* No request makes a platform administrator, in a table or in a token.
THEOREM PlatformRoleIsFromStart == Spec => []PlatformRoleOnlyFromStart
  <1>1. PlatformInv => PlatformRoleOnlyFromStart
    BY DEF PlatformInv, AccountInv
  <1> QED
    BY <1>1, PlatformInvariant, PTL

\* However many starts were cut off, and wherever, the one that gets to serve has it all.
THEOREM StartsAreMadeGood == Spec => []ServesComplete
  <1>1. PlatformInv => ServesComplete
    <2> SUFFICES ASSUME PlatformInv, phase = "serve" PROVE ServesComplete
      BY DEF ServesComplete
    <2>1. SetupInv /\ AccountInv
      BY DEF PlatformInv
    <2>2. schema = SchemaParts /\ reference = Reference
      BY <2>1 DEF SetupInv, SchemaParts, Reference, Seeded
    <2>3. Base \in tenants \intersect orgs /\ OfficialThere
      BY <2>1 DEF SetupInv, TenantMade, OrgMade, Seeded
    <2> QED
      BY <2>2, <2>3 DEF ServesComplete, OfficialThere
  <1> QED
    BY <1>1, PlatformInvariant, PTL

\* The key that served before is verified with, through any number of rotations.
THEOREM KeysAreHandedOver == Spec => []HandOver
  <1>1. PlatformInv => HandOver
    BY DEF PlatformInv, KeyInv
  <1> QED
    BY <1>1, PlatformInvariant, PTL
=============================================================================
