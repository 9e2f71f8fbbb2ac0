---------------------------- MODULE Accounts ----------------------------
(***************************************************************************)
(* Organisations, users and memberships (handlers_orgs.rs, the register    *)
(* and login of auth/mod.rs, and their tables).  An organisation is a row  *)
(* of tenants and a row of orgs, written one after the other; a user is a  *)
(* row of users and a membership, written one after the other.  A request  *)
(* may be at work between the two, and the process may stop there.         *)
(*                                                                         *)
(* A user is <<home organisation, name>>: the table has that key.  Claims  *)
(* are what the access tokens ever issued say: how long one is good for is *)
(* the matter of Sessions, and any of them may still be in use here.       *)
(* Disabled users and organisations, passwords and the audit of sign-ins   *)
(* are left out.  A login is one step: Sessions takes its reads apart.     *)
(***************************************************************************)
EXTENDS Naturals

CONSTANTS
    Orgs, Names, Handlers,
    Given,   \* the roles that are asked for in the assignment of members
    None

Roles == {"viewer", "rule_engineer", "approver", "admin", "platform_admin"}

\* Role as u8
Rank == [viewer |-> 1, rule_engineer |-> 2, approver |-> 3, admin |-> 4, platform_admin |-> 5]

ManagesOrgs(r) == Rank[r] >= 5   \* can(role, ManageOrgs)
IsOrgAdmin(r)  == Rank[r] >= 4   \* is_org_admin

Users == Orgs \X Names

VARIABLES
    tenants,  \* the table tenants
    orgs,     \* the table orgs
    users,    \* users[u]: the role column, or None if there is no such row
    members,  \* members[u][o]: the role of u in o, or None
    claims,   \* what the tokens issued say: [user, org, role]
    task,     \* task[h], the request handler h is at work on, or None
    byStart   \* history: the users that the start of the service created

NewTask == [ op : {"org"}, org : Orgs ]
    \union [ op : {"register"}, pc : {"user", "member", "login"}, user : Users ]

-----------------------------------------------------------------------------
Named(n) == {u \in Users : u[2] = n /\ users[u] # None}

\* effective_role: the membership, or at home the role of the user's row.
EffectiveRole(u, o) ==
    IF members[u][o] # None THEN members[u][o]
    ELSE IF u[1] = o THEN users[u] ELSE None

\* The user that a name stands for at the login to o: the one at home there, or the
\* only one of that name (get_user_by_username_any fails if there are several).
Resolved(u, o) ==
    /\ users[u] # None
    /\ \/ u[1] = o
       \/ <<o, u[2]>> \notin Named(u[2]) /\ Named(u[2]) = {u}

SignIn(u, o) ==
    /\ o \in tenants \intersect orgs
    /\ Resolved(u, o)
    /\ EffectiveRole(u, o) # None
    /\ claims' = claims \union {[user |-> u, org |-> o, role |-> EffectiveRole(u, o)]}

\* The checks of AuthService::register; several users of the name are an error too.
MayRegister(u) == u[1] \in tenants \intersect orgs /\ Named(u[2]) = {}

\* create_user, whose UNIQUE stops a second row of the same home and name.
CreateUser(u, r) == users' = [users EXCEPT ![u] = IF @ = None THEN r ELSE @]

\* upsert_user_org_role
SetMember(u, o, r) == members' = [members EXCEPT ![u][o] = r]

-----------------------------------------------------------------------------
Login(u, o) ==
    /\ SignIn(u, o)
    /\ UNCHANGED <<tenants, orgs, users, members, task, byStart>>

\* Slip: the row of tenants is forgotten.
TenantRowNone(o) == UNCHANGED tenants

TenantRow(o) == tenants' = tenants \union {o}

\* create_org: the row of tenants (INSERT OR IGNORE) ...
CreateOrg(h, c, o) ==
    /\ task[h] = None
    /\ ManagesOrgs(c.role)
    /\ TenantRow(o)
    /\ task' = [task EXCEPT ![h] = [op |-> "org", org |-> o]]
    /\ UNCHANGED <<orgs, users, members, claims, byStart>>

\* ... and the row of orgs; if it is there already, a conflict.
CreateOrgRow(h) ==
    /\ task[h] # None /\ task[h].op = "org"
    /\ orgs' = orgs \union {task[h].org}
    /\ task' = [task EXCEPT ![h] = None]
    /\ UNCHANGED <<tenants, users, members, claims, byStart>>

Registering(h, pc) == task[h] # None /\ task[h].op = "register" /\ task[h].pc = pc

\* The public registration: anyone, into any organisation, as rule_engineer.
Register(h, u) ==
    /\ task[h] = None
    /\ MayRegister(u)
    /\ task' = [task EXCEPT ![h] = [op |-> "register", pc |-> "user", user |-> u]]
    /\ UNCHANGED <<tenants, orgs, users, members, claims, byStart>>

RegisterUser(h) ==
    /\ Registering(h, "user")
    /\ CreateUser(task[h].user, "rule_engineer")
    /\ task' = IF users[task[h].user] = None THEN [task EXCEPT ![h].pc = "member"]
               ELSE [task EXCEPT ![h] = None]
    /\ UNCHANGED <<tenants, orgs, members, claims, byStart>>

RegisterMember(h) ==
    /\ Registering(h, "member")
    /\ SetMember(task[h].user, task[h].user[1], "rule_engineer")
    /\ task' = [task EXCEPT ![h].pc = "login"]
    /\ UNCHANGED <<tenants, orgs, users, claims, byStart>>

RegisterLogin(h) ==
    /\ Registering(h, "login")
    /\ SignIn(task[h].user, task[h].user[1])
    /\ task' = [task EXCEPT ![h] = None]
    /\ UNCHANGED <<tenants, orgs, users, members, byStart>>

\* Slip: a member may be given any role.
AssignableAny(r) == r \in Roles

\* parse_org_role
Assignable(r) == r \in Roles \ {"platform_admin"}

\* add_member, on the strength of what the token says.  The organisation need not
\* exist; the user must, and its id be known: it is not in the middle of registering.
AddMember(c, u, o, r) ==
    /\ ManagesOrgs(c.role) \/ (c.org = o /\ IsOrgAdmin(c.role))
    /\ Assignable(r)
    /\ users[u] # None
    /\ \A h \in Handlers : task[h] # None /\ task[h].op = "register" => task[h].user # u
    /\ SetMember(u, o, r)
    /\ UNCHANGED <<tenants, orgs, users, claims, task, byStart>>

AccountsInit ==
    /\ tenants = {}
    /\ orgs = {}
    /\ users = [u \in Users |-> None]
    /\ members = [u \in Users |-> [o \in Orgs |-> None]]
    /\ claims = {}
    /\ task = [h \in Handlers |-> None]
    /\ byStart = {}

-----------------------------------------------------------------------------
AccountsTypeOK ==
    /\ tenants \subseteq Orgs
    /\ orgs \subseteq Orgs
    /\ users \in [Users -> Roles \union {None}]
    /\ members \in [Users -> [Orgs -> Roles \union {None}]]
    /\ claims \subseteq [user : Users, org : Orgs, role : Roles]
    /\ task \in [Handlers -> NewTask \union {None}]
    /\ byStart \subseteq {u \in Users : users[u] # None}

\* An organisation that is listed can be logged in to: login looks at tenants first,
\* and an organisation without a row there never gets in (handlers_orgs.rs tells of it).
\* Whatever stopped half-way, whoever registered may log in at home.
DoorsOpen ==
    /\ orgs \subseteq tenants
    /\ \A u \in Users : users[u] # None =>
         /\ u[1] \in orgs
         /\ EffectiveRole(u, u[1]) # None

\* The role of a platform administrator is in nobody's row, membership or token but
\* those of the users that the start of the service created.
PlatformRoleOnlyFromStart ==
    /\ \A u \in Users \ byStart :
         /\ users[u] # "platform_admin"
         /\ \A o \in Orgs : members[u][o] # "platform_admin"
    /\ \A c \in claims : c.role = "platform_admin" => c.user \in byStart

\* What auth/mod.rs says of names: unique over all organisations.  Does not hold: two
\* registrations in different organisations both find the name free.
UsernamesUnique ==
    \A u, v \in Users : (users[u] # None /\ users[v] # None /\ u[2] = v[2]) => u = v
=============================================================================
