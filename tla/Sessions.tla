---------------------------- MODULE Sessions ----------------------------
(***************************************************************************)
(* Token sessions (auth/mod.rs: login, refresh, logout; the middleware     *)
(* require_auth).  A login issues a pair of an access and a refresh token; *)
(* a refresh retires the refresh token and issues another pair; a logout   *)
(* retires the refresh token and, if it is handed over, the access token.  *)
(* Tokens are not stored: what is known of them is the table of revoked    *)
(* ones.  Each visit of a request to the database is a step of its own,    *)
(* and each request works with the time it read when it came in.           *)
(*                                                                         *)
(* A pair is known by its number: its two jti.  The organisation is fixed; *)
(* role[u] is what effective_role finds for u in it.  Passwords and        *)
(* signatures are right.  Bounds: MaxTime, MaxRequests, MaxChanges.        *)
(***************************************************************************)
EXTENDS Naturals, Sequences, FiniteSets

CONSTANTS
    Users, Roles, Handlers,
    AccessTTL,   \* ACCESS_TOKEN_TTL_SECS
    RefreshTTL,  \* REFRESH_TOKEN_TTL_SECS
    MaxTime, MaxRequests, MaxChanges,
    None

ASSUME SessionsAssumption ==
    /\ AccessTTL \in Nat \ {0}
    /\ RefreshTTL \in Nat
    /\ AccessTTL <= RefreshTTL
    /\ MaxTime \in Nat /\ MaxRequests \in Nat /\ MaxChanges \in Nat
    /\ IsFiniteSet(Handlers)
    /\ None \notin Roles \union (0..MaxTime)

Time == 0..MaxTime
\* Every pair takes a request.
MaxPairs == MaxRequests
Kinds == {"access", "refresh"}

\* The claims of a pair; from is the pair whose refresh token it was issued for,
\* or 0 for a login.
Pair == [ user : Users, role : Roles, iat : Time, from : 0..MaxPairs ]

\* A row of revoked_tokens.
Revocation == [ pair : 1..MaxPairs, kind : Kinds, until : Nat ]

\* A request in flight.  pair is the refresh token it came with, access the pair
\* whose access token a logout hands over.
Task == [ op : {"login", "refresh", "logout"}, pc : {"user", "role", "rotate", "access"},
          user : Users, now : Time, pair : 0..MaxPairs, access : 0..MaxPairs,
          role : Roles \union {None} ]

VARIABLES
    clock,
    disabled,    \* users.disabled
    role,        \* the role of each user in the organisation, or None
    revoked,     \* revoked_tokens
    pairs,       \* history: every pair issued
    task,        \* task[h], the request handler h serves, or None
    retired,     \* history: tokens that were rotated or logged out, <<pair, kind>>
    lastEnabled, \* history: the last time each user was enabled
    lastHeld,    \* history: the last time each user had each role, or None
    requests, changes

vars == <<clock, disabled, role, revoked, pairs, task, retired, lastEnabled, lastHeld,
          requests, changes>>

-----------------------------------------------------------------------------
Expiry(p, kind) == pairs[p].iat + (IF kind = "access" THEN AccessTTL ELSE RefreshTTL)

\* Slip: a revocation counts up to its expiry only as long as an access token lives.
RevokedForAWhile(p, kind, now) ==
    \E r \in revoked : r.pair = p /\ r.kind = kind /\ pairs[p].iat + AccessTTL > now

\* is_token_revoked: rows past their expiry do not count.
IsRevoked(p, kind, now) ==
    \E r \in revoked : r.pair = p /\ r.kind = kind /\ r.until > now

\* verify_token and the look at the revoked tokens.
Accepted(p, kind, now) == Expiry(p, kind) > now /\ ~IsRevoked(p, kind, now)

Revocations(p, kind) == {[pair |-> p, kind |-> kind, until |-> Expiry(p, kind)]}

Start(h, t) ==
    /\ task[h] = None
    /\ requests < MaxRequests
    /\ requests' = requests + 1
    /\ task' = [task EXCEPT ![h] = t]

End(h) == task' = [task EXCEPT ![h] = None]

At(h, op, pc) == task[h] # None /\ task[h].op = op /\ task[h].pc = pc

Stamp(h) == task[h].now

Issue(h, r) ==
    pairs' = Append(pairs,
        [user |-> task[h].user, role |-> r, iat |-> Stamp(h), from |-> task[h].pair])

-----------------------------------------------------------------------------
Login(h, u) ==
    /\ Start(h, [op |-> "login", pc |-> "user", user |-> u, now |-> clock,
                 pair |-> 0, access |-> 0, role |-> None])
    /\ UNCHANGED <<clock, disabled, role, revoked, pairs, retired,
                   lastEnabled, lastHeld, changes>>

\* The refresh token verifies and is not revoked.
Refresh(h, p) ==
    /\ Accepted(p, "refresh", clock)
    /\ Start(h, [op |-> "refresh", pc |-> "user", user |-> pairs[p].user, now |-> clock,
                 pair |-> p, access |-> 0, role |-> None])
    /\ UNCHANGED <<clock, disabled, role, revoked, pairs, retired,
                   lastEnabled, lastHeld, changes>>

\* Both look at the user's row, and stop if it is disabled.
CheckUser(h) ==
    /\ task[h] # None /\ task[h].pc = "user"
    /\ IF disabled[task[h].user] THEN End(h) ELSE task' = [task EXCEPT ![h].pc = "role"]
    /\ UNCHANGED <<clock, disabled, role, revoked, pairs, retired,
                   lastEnabled, lastHeld, requests, changes>>

\* Neither issues anything to a user who is not a member.
NotMember(h) ==
    /\ task[h] # None /\ task[h].pc = "role"
    /\ role[task[h].user] = None
    /\ End(h)
    /\ UNCHANGED <<clock, disabled, role, revoked, pairs, retired,
                   lastEnabled, lastHeld, requests, changes>>

IssueLogin(h) ==
    /\ At(h, "login", "role")
    /\ role[task[h].user] # None
    /\ Issue(h, role[task[h].user])
    /\ End(h)
    /\ UNCHANGED <<clock, disabled, role, revoked, retired, lastEnabled, lastHeld, requests, changes>>

\* Slip: the role of the old token is carried over.
RoleForOldToken(h) == pairs[task[h].pair].role

RoleFor(h) == role[task[h].user]

ReadRole(h) ==
    /\ At(h, "refresh", "role")
    /\ role[task[h].user] # None
    /\ task' = [task EXCEPT ![h].pc = "rotate", ![h].role = RoleFor(h)]
    /\ UNCHANGED <<clock, disabled, role, revoked, pairs, retired,
                   lastEnabled, lastHeld, requests, changes>>

Rotation(h) == Revocations(task[h].pair, "refresh")

\* The old token is revoked (a row already there is left as it is), then the new
\* pair is issued; nothing else is read in between.
Rotate(h) ==
    /\ At(h, "refresh", "rotate")
    /\ revoked' = revoked \union Rotation(h)
    /\ Issue(h, task[h].role)
    /\ retired' = retired \union {<<task[h].pair, "refresh">>}
    /\ End(h)
    /\ UNCHANGED <<clock, disabled, role, lastEnabled, lastHeld, requests, changes>>

\* A logout does not ask whether the refresh token is revoked already.
Logout(h, p, a) ==
    /\ Expiry(p, "refresh") > clock
    /\ revoked' = revoked \union Revocations(p, "refresh")
    /\ Start(h, [op |-> "logout", pc |-> "access", user |-> pairs[p].user, now |-> clock,
                 pair |-> p, access |-> a, role |-> None])
    /\ UNCHANGED <<clock, disabled, role, pairs, retired, lastEnabled, lastHeld, changes>>

\* The access token counts only if it is the same user's and not expired.
OwnAccess(h) ==
    LET a == task[h].access IN
    a # 0 /\ Expiry(a, "access") > task[h].now /\ pairs[a].user = task[h].user

FinishLogout(h) ==
    /\ At(h, "logout", "access")
    /\ revoked' = IF OwnAccess(h)
                  THEN revoked \union Revocations(task[h].access, "access") ELSE revoked
    /\ retired' = retired \union {<<task[h].pair, "refresh">>} \union
         (IF task[h].access # 0 /\ pairs[task[h].access].user = task[h].user
          THEN {<<task[h].access, "access">>} ELSE {})
    /\ End(h)
    /\ UNCHANGED <<clock, disabled, role, pairs, lastEnabled, lastHeld, requests, changes>>

-----------------------------------------------------------------------------
\* set_user_disabled: no endpoint calls it, an administrator's tool may.
SetDisabled(u) ==
    /\ changes < MaxChanges
    /\ disabled' = [disabled EXCEPT ![u] = ~@]
    /\ lastEnabled' = [lastEnabled EXCEPT ![u] = clock]
    /\ changes' = changes + 1
    /\ UNCHANGED <<clock, role, revoked, pairs, task, retired, lastHeld, requests>>

\* upsert_user_org_role: a role is replaced, a membership is never taken back.
SetRole(u, r) ==
    /\ changes < MaxChanges
    /\ r # role[u]
    /\ role' = [role EXCEPT ![u] = r]
    /\ lastHeld' = [lastHeld EXCEPT ![u] =
         [x \in Roles |-> IF x \in {r, role[u]} THEN clock ELSE @[x]]]
    /\ changes' = changes + 1
    /\ UNCHANGED <<clock, disabled, revoked, pairs, task, retired, lastEnabled, requests>>

Tick ==
    /\ clock < MaxTime
    /\ clock' = clock + 1
    /\ lastEnabled' = [u \in Users |-> IF disabled[u] THEN lastEnabled[u] ELSE clock + 1]
    /\ lastHeld' = [u \in Users |-> [r \in Roles |->
         IF role[u] = r THEN clock + 1 ELSE lastHeld[u][r]]]
    /\ UNCHANGED <<disabled, role, revoked, pairs, task, retired, requests, changes>>

\* The process stops: requests in flight are gone, the table stays.
Restart ==
    /\ \E h \in Handlers : task[h] # None
    /\ task' = [h \in Handlers |-> None]
    /\ UNCHANGED <<clock, disabled, role, revoked, pairs, retired,
                   lastEnabled, lastHeld, requests, changes>>

Init ==
    /\ clock = 0
    /\ disabled = [u \in Users |-> FALSE]
    /\ role \in [Users -> Roles \union {None}]
    /\ revoked = {}
    /\ pairs = <<>>
    /\ task = [h \in Handlers |-> None]
    /\ retired = {}
    /\ lastEnabled = [u \in Users |-> 0]
    /\ lastHeld = [u \in Users |-> [r \in Roles |-> IF role[u] = r THEN 0 ELSE None]]
    /\ requests = 0
    /\ changes = 0

Next ==
    \/ Tick
    \/ Restart
    \/ \E u \in Users : SetDisabled(u) \/ \E r \in Roles : SetRole(u, r)
    \/ \E h \in Handlers :
         \/ \E u \in Users : Login(h, u)
         \/ \E p \in DOMAIN pairs :
              \/ Refresh(h, p)
              \/ \E a \in {0} \union DOMAIN pairs : Logout(h, p, a)
         \/ CheckUser(h) \/ NotMember(h)
         \/ IssueLogin(h) \/ ReadRole(h) \/ Rotate(h) \/ FinishLogout(h)

Spec == Init /\ [][Next]_vars

-----------------------------------------------------------------------------
TypeOK ==
    /\ clock \in Time
    /\ disabled \in [Users -> BOOLEAN]
    /\ role \in [Users -> Roles \union {None}]
    /\ revoked \subseteq Revocation
    /\ pairs \in Seq(Pair) /\ Len(pairs) <= MaxPairs
    /\ task \in [Handlers -> Task \union {None}]
    /\ retired \subseteq (DOMAIN pairs) \X Kinds
    /\ lastEnabled \in [Users -> Time]
    /\ lastHeld \in [Users -> [Roles -> Time \union {None}]]
    /\ requests \in 0..MaxRequests
    /\ changes \in 0..MaxChanges

\* A token that was rotated away or logged out is never accepted again, at any
\* later time: the table forgets a revocation no earlier than the token expires.
RetiredStaysOut ==
    \A x \in retired : ~Accepted(x[1], x[2], clock)

\* What an administrator takes away runs out: however slow a request is, the pair it
\* gets is stamped no later than the last moment its user was enabled, and no later
\* than the last moment the user held the role in it.  After a change the old claims
\* work for one AccessTTL at most.
StaleClaimsRunOut ==
    \A p \in DOMAIN pairs :
       LET held == lastHeld[pairs[p].user][pairs[p].role] IN
       /\ pairs[p].iat <= lastEnabled[pairs[p].user]
       /\ held # None /\ pairs[p].iat <= held

\* What auth/mod.rs says of a rotated token: it cannot be refreshed again.  Does
\* not hold: two requests that both passed the look at the table get a pair each.
RefreshedOnce ==
    \A p, q \in DOMAIN pairs :
       (pairs[p].from = pairs[q].from /\ pairs[p].from # 0) => p = q
=============================================================================
