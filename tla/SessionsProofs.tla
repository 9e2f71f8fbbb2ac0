--------------------------- MODULE SessionsProofs ---------------------------
(***************************************************************************)
(* Theorems of Sessions for any number of users, roles, handlers and       *)
(* requests, and any lifetimes with AccessTTL <= RefreshTTL.  The          *)
(* invariant has four parts: who may do what, and when that was last so    *)
(* (StandingInv), the tokens and the table of revoked ones (TokenInv),     *)
(* what each request holds between its visits to the database (TaskInv),   *)
(* and the pairs that requests can still be given (BoundInv).  One action  *)
(* formula, Onward, says what no step takes back; it is all that the       *)
(* requests which do not move need to know of a step.                      *)
(***************************************************************************)
EXTENDS Sessions, SequenceTheorems, FiniteSetTheorems, TLAPS

\* Disabled users were last enabled in the past, the others are now; the same of
\* the role a user has.
StandingInv ==
    /\ clock \in Time
    /\ disabled \in [Users -> BOOLEAN]
    /\ role \in [Users -> Roles \union {None}]
    /\ lastEnabled \in [Users -> Time]
    /\ lastHeld \in [Users -> [Roles -> Time \union {None}]]
    /\ \A u \in Users : /\ lastEnabled[u] <= clock
                        /\ ~disabled[u] => lastEnabled[u] = clock
    /\ \A u \in Users, r \in Roles :
          /\ lastHeld[u][r] # None => lastHeld[u][r] <= clock
          /\ role[u] = r => lastHeld[u][r] = clock

\* The token will not be accepted at this time or later: it has expired, or its
\* revocation lasts until it does.
Gone(p, kind) == Expiry(p, kind) <= clock \/ Revocations(p, kind) \subseteq revoked

\* The claims of a pair were true of its user at the time they are stamped with, or
\* later.
ClaimsHeld(p) ==
    LET held == lastHeld[pairs[p].user][pairs[p].role] IN
    /\ pairs[p].iat <= lastEnabled[pairs[p].user]
    /\ held # None /\ pairs[p].iat <= held

TokenInv ==
    /\ pairs \in Seq(Pair)
    /\ revoked \subseteq Revocation
    /\ retired \subseteq (DOMAIN pairs) \X Kinds
    /\ \A x \in retired : Gone(x[1], x[2])
    /\ \A p \in DOMAIN pairs : ClaimsHeld(p)

\* What request h holds is as true as it was when it was read.
Holds(h) ==
    LET t == task[h] IN
    /\ t.now <= clock
    /\ {t.pair, t.access} \subseteq {0} \union DOMAIN pairs
    /\ t.op \in {"refresh", "logout"} => t.pair # 0
    /\ t.pc \in {"role", "rotate"} => t.now <= lastEnabled[t.user]
    /\ t.pc = "rotate" =>
         /\ t.role \in Roles
         /\ lastHeld[t.user][t.role] # None
         /\ t.now <= lastHeld[t.user][t.role]
    /\ t.pc = "access" => Revocations(t.pair, "refresh") \subseteq revoked

TaskInv ==
    /\ task \in [Handlers -> Task \union {None}]
    /\ \A h \in Handlers : task[h] # None => Holds(h)

Busy == {h \in Handlers : task[h] # None}

\* Every pair issued took a request of its own, and a request in flight may take one
\* more.
BoundInv ==
    /\ requests \in 0..MaxRequests
    /\ changes \in 0..MaxChanges
    /\ Len(pairs) + Cardinality(Busy) <= requests

SessionsInv == StandingInv /\ TokenInv /\ TaskInv /\ BoundInv

\* What no step takes back.
Onward ==
    /\ clock <= clock'
    /\ DOMAIN pairs \subseteq DOMAIN pairs'
    /\ \A p \in DOMAIN pairs : pairs'[p] = pairs[p]
    /\ revoked \subseteq revoked'
    /\ \A u \in Users : lastEnabled[u] <= lastEnabled'[u]
    /\ \A u \in Users, r \in Roles : lastHeld[u][r] # None =>
          lastHeld'[u][r] # None /\ lastHeld[u][r] <= lastHeld'[u][r]

-----------------------------------------------------------------------------
(* Who may do what.                                                        *)

LEMMA TimeFacts == None \notin Time /\ None \notin Roles /\ \A t \in Time : t \in Nat
  BY SessionsAssumption DEF Time

\* Time passes, users are disabled and enabled, roles are replaced: the last time
\* each of these was so stays known, and only grows (set_user_disabled,
\* upsert_user_org_role).
LEMMA StandingStep ==
    ASSUME StandingInv,
           Tick \/ \E u \in Users : SetDisabled(u) \/ \E r \in Roles : SetRole(u, r)
    PROVE  /\ StandingInv' /\ clock <= clock'
           /\ \A u \in Users : lastEnabled[u] <= lastEnabled'[u]
           /\ \A u \in Users, r \in Roles : lastHeld[u][r] # None =>
                 lastHeld'[u][r] # None /\ lastHeld[u][r] <= lastHeld'[u][r]
  <1>1. CASE Tick
    <2>1. /\ clock + 1 \in Time /\ clock' = clock + 1 /\ clock \in Nat
          /\ UNCHANGED <<disabled, role>>
      BY <1>1, SessionsAssumption DEF Tick, StandingInv, Time
    <2>2. /\ lastEnabled' \in [Users -> Time]
          /\ \A u \in Users : lastEnabled'[u] = IF disabled[u] THEN lastEnabled[u] ELSE clock + 1
      BY <1>1, <2>1 DEF Tick, StandingInv
    <2>3. /\ lastHeld' \in [Users -> [Roles -> Time \union {None}]]
          /\ \A u \in Users, r \in Roles :
               lastHeld'[u][r] = IF role[u] = r THEN clock + 1 ELSE lastHeld[u][r]
      BY <1>1, <2>1 DEF Tick, StandingInv
    <2>4. \A u \in Users : lastEnabled[u] \in Nat
      BY TimeFacts DEF StandingInv
    <2>5. \A u \in Users, r \in Roles : lastHeld[u][r] # None => lastHeld[u][r] \in Nat
      BY TimeFacts DEF StandingInv
    <2>6. \A u \in Users : /\ lastEnabled[u] <= lastEnabled'[u]
                           /\ lastEnabled'[u] <= clock'
                           /\ ~disabled'[u] => lastEnabled'[u] = clock'
      BY <2>1, <2>2, <2>4 DEF StandingInv
    <2>7. \A u \in Users, r \in Roles :
            /\ lastHeld[u][r] # None =>
                 lastHeld'[u][r] # None /\ lastHeld[u][r] <= lastHeld'[u][r]
            /\ lastHeld'[u][r] # None => lastHeld'[u][r] <= clock'
            /\ role'[u] = r => lastHeld'[u][r] = clock'
      BY <2>1, <2>3, <2>5, TimeFacts DEF StandingInv
    <2>8. StandingInv'
      BY <2>1, <2>2, <2>3, <2>6, <2>7 DEF StandingInv
    <2> QED
      BY <2>1, <2>6, <2>7, <2>8
  <1>2. ASSUME NEW u \in Users, SetDisabled(u)
        PROVE  /\ StandingInv' /\ clock' = clock /\ lastHeld' = lastHeld
               /\ \A v \in Users : lastEnabled[v] <= lastEnabled'[v]
    <2>1. /\ disabled' = [disabled EXCEPT ![u] = ~disabled[u]]
          /\ lastEnabled' = [lastEnabled EXCEPT ![u] = clock]
          /\ UNCHANGED <<clock, role, lastHeld>>
      BY <1>2 DEF SetDisabled
    <2>2. /\ disabled' \in [Users -> BOOLEAN] /\ lastEnabled' \in [Users -> Time]
          /\ \A v \in Users : /\ lastEnabled'[v] = IF v = u THEN clock ELSE lastEnabled[v]
                              /\ v # u => disabled'[v] = disabled[v]
      BY <2>1 DEF StandingInv
    <2>3. clock \in Nat /\ \A v \in Users : lastEnabled[v] \in Nat
      BY TimeFacts DEF StandingInv
    <2>4. \A v \in Users : /\ lastEnabled[v] <= lastEnabled'[v]
                           /\ lastEnabled'[v] <= clock
                           /\ ~disabled'[v] => lastEnabled'[v] = clock
      BY <2>2, <2>3 DEF StandingInv
    <2> QED
      BY <2>1, <2>2, <2>4 DEF StandingInv
  <1>3. ASSUME NEW u \in Users, NEW r \in Roles, SetRole(u, r)
        PROVE  /\ StandingInv' /\ clock' = clock /\ lastEnabled' = lastEnabled
               /\ \A v \in Users, q \in Roles : lastHeld[v][q] # None =>
                     lastHeld'[v][q] # None /\ lastHeld[v][q] <= lastHeld'[v][q]
    <2>1. /\ role' = [role EXCEPT ![u] = r]
          /\ lastHeld' = [lastHeld EXCEPT ![u] =
               [x \in Roles |-> IF x \in {r, role[u]} THEN clock ELSE lastHeld[u][x]]]
          /\ UNCHANGED <<clock, disabled, lastEnabled>>
      BY <1>3 DEF SetRole
    <2>2. clock \in Time /\ clock \in Nat /\ clock # None
      BY TimeFacts DEF StandingInv
    <2>3. \A x \in Roles : lastHeld[u][x] \in Time \union {None}
      BY DEF StandingInv
    <2>4. [x \in Roles |-> IF x \in {r, role[u]} THEN clock ELSE lastHeld[u][x]]
             \in [Roles -> Time \union {None}]
      BY <2>2, <2>3
    <2>5. /\ lastHeld' \in [Users -> [Roles -> Time \union {None}]]
          /\ role' \in [Users -> Roles \union {None}]
      BY <2>1, <2>4 DEF StandingInv
    <2>6. \A v \in Users, q \in Roles :
            lastHeld'[v][q] = IF v = u /\ q \in {r, role[u]} THEN clock ELSE lastHeld[v][q]
      BY <2>1 DEF StandingInv
    <2>7. \A v \in Users : role'[v] = IF v = u THEN r ELSE role[v]
      BY <2>1 DEF StandingInv
    <2>8. \A v \in Users, q \in Roles : lastHeld[v][q] # None => lastHeld[v][q] \in Nat
      BY TimeFacts DEF StandingInv
    <2>9. \A v \in Users, q \in Roles :
            /\ lastHeld[v][q] # None =>
                 lastHeld'[v][q] # None /\ lastHeld[v][q] <= lastHeld'[v][q]
            /\ lastHeld'[v][q] # None => lastHeld'[v][q] <= clock
            /\ role'[v] = q => lastHeld'[v][q] = clock
      BY <2>2, <2>6, <2>7, <2>8 DEF StandingInv
    <2> QED
      BY <2>1, <2>5, <2>9 DEF StandingInv
  <1>4. /\ clock <= clock
        /\ \A u \in Users : lastEnabled[u] <= lastEnabled[u]
        /\ \A u \in Users, r \in Roles : lastHeld[u][r] # None => lastHeld[u][r] <= lastHeld[u][r]
    BY TimeFacts DEF StandingInv
  <1> QED
    BY <1>1, <1>2, <1>3, <1>4

-----------------------------------------------------------------------------
(* The tokens.                                                             *)

\* A pair is someone's, in some role, since some time.
LEMMA PairFacts ==
    ASSUME pairs \in Seq(Pair), NEW p \in DOMAIN pairs
    PROVE  /\ pairs[p].user \in Users /\ pairs[p].role \in Roles
           /\ pairs[p].iat \in Time /\ pairs[p].iat \in Nat
  <1>1. pairs[p] \in Pair
    OBVIOUS
  <1>2. pairs[p].user \in Users /\ pairs[p].role \in Roles /\ pairs[p].iat \in Time
    BY <1>1 DEF Pair
  <1> QED
    BY <1>2, TimeFacts

\* The expiry of a token is a time, and stays what it is.
LEMMA ExpiryFacts ==
    ASSUME pairs \in Seq(Pair), Onward, NEW p \in DOMAIN pairs, NEW kind \in Kinds
    PROVE  /\ Expiry(p, kind) \in Nat /\ Expiry(p, kind)' = Expiry(p, kind)
           /\ Revocations(p, kind)' = Revocations(p, kind)
  <1>1. pairs[p].iat \in Nat
    BY PairFacts
  <1>2. Expiry(p, kind) \in Nat /\ Expiry(p, kind)' = Expiry(p, kind)
    BY <1>1, SessionsAssumption DEF Expiry, Onward
  <1> QED
    BY <1>2 DEF Revocations

\* A revocation counts exactly until the token would expire: a token that is gone is
\* not accepted (is_token_revoked).
LEMMA GoneIsNotAccepted ==
    ASSUME pairs \in Seq(Pair), clock \in Time, NEW p \in DOMAIN pairs, NEW kind \in Kinds,
           Gone(p, kind)
    PROVE  ~Accepted(p, kind, clock)
  <1>1. pairs[p].iat \in Nat /\ clock \in Nat
    BY TimeFacts, PairFacts
  <1>2. Expiry(p, kind) \in Nat
    BY <1>1, SessionsAssumption DEF Expiry
  <1>3. CASE Expiry(p, kind) <= clock
    BY <1>1, <1>2, <1>3 DEF Accepted
  <1>4. CASE Revocations(p, kind) \subseteq revoked
    <2>1. [pair |-> p, kind |-> kind, until |-> Expiry(p, kind)] \in revoked
      BY <1>4 DEF Revocations
    <2>2. Expiry(p, kind) > clock => IsRevoked(p, kind, clock)
      BY <2>1 DEF IsRevoked
    <2> QED
      BY <2>2 DEF Accepted
  <1> QED
    BY <1>3, <1>4 DEF Gone

\* Nothing comes back, and no claims become false, as long as what is new is gone, or
\* held.
LEMMA TokensKept ==
    ASSUME StandingInv, StandingInv', TokenInv, Onward,
           pairs' \in Seq(Pair), revoked' \subseteq Revocation,
           \A p \in DOMAIN pairs' \ DOMAIN pairs : ClaimsHeld(p)',
           \A x \in retired' \ retired :
              x \in (DOMAIN pairs') \X Kinds /\ Gone(x[1], x[2])'
    PROVE  TokenInv'
  <1>1. ASSUME NEW x \in retired PROVE x \in (DOMAIN pairs') \X Kinds /\ Gone(x[1], x[2])'
    <2>1. x[1] \in DOMAIN pairs /\ x[2] \in Kinds /\ x \in (DOMAIN pairs') \X Kinds
      BY DEF TokenInv, Onward
    <2>2. /\ Expiry(x[1], x[2]) \in Nat /\ Expiry(x[1], x[2])' = Expiry(x[1], x[2])
          /\ Revocations(x[1], x[2])' = Revocations(x[1], x[2])
      BY <2>1, ExpiryFacts DEF TokenInv
    <2>3. clock \in Nat /\ clock' \in Nat /\ clock <= clock' /\ revoked \subseteq revoked'
      BY TimeFacts DEF StandingInv, Onward
    <2>4. Gone(x[1], x[2])
      BY DEF TokenInv
    <2> QED
      BY <2>1, <2>2, <2>3, <2>4 DEF Gone
  <1>2. ASSUME NEW p \in DOMAIN pairs PROVE ClaimsHeld(p)'
    <2> DEFINE u == pairs[p].user
               r == pairs[p].role
               i == pairs[p].iat
    <2>1. u \in Users /\ r \in Roles /\ i \in Nat /\ pairs'[p] = pairs[p]
      BY PairFacts DEF TokenInv, Onward
    <2>2. i <= lastEnabled[u] /\ lastHeld[u][r] # None /\ i <= lastHeld[u][r]
      BY DEF TokenInv, ClaimsHeld
    <2>3. /\ lastEnabled[u] \in Nat /\ lastEnabled'[u] \in Nat /\ lastEnabled[u] <= lastEnabled'[u]
          /\ lastHeld'[u][r] # None /\ lastHeld[u][r] <= lastHeld'[u][r]
          /\ lastHeld[u][r] \in Nat /\ lastHeld'[u][r] \in Nat
      BY <2>1, <2>2, TimeFacts DEF StandingInv, Onward
    <2>4. i <= lastEnabled'[u] /\ i <= lastHeld'[u][r]
      BY <2>1, <2>2, <2>3
    <2> QED
      BY <2>1, <2>3, <2>4 DEF ClaimsHeld
  <1>3. retired' \subseteq (DOMAIN pairs') \X Kinds /\ \A x \in retired' : Gone(x[1], x[2])'
    BY <1>1
  <1>4. \A p \in DOMAIN pairs' : ClaimsHeld(p)'
    BY <1>2
  <1> QED
    BY <1>3, <1>4 DEF TokenInv

\* There are no more pairs than numbers for them, and a revocation of one of them is
\* a row of the table.
LEMMA RevocationFacts ==
    ASSUME TokenInv, BoundInv, NEW p \in DOMAIN pairs, NEW kind \in Kinds
    PROVE  p \in 1..MaxPairs /\ Revocations(p, kind) \subseteq Revocation
  <1>1. Busy \subseteq Handlers
    BY DEF Busy
  <1>2. Cardinality(Busy) \in Nat
    BY <1>1, FS_Subset, FS_CardinalityType, SessionsAssumption
  <1>3. p \in 1..Len(pairs) /\ Len(pairs) \in Nat /\ requests \in 0..MaxRequests
    BY DEF TokenInv, BoundInv
  <1>4. p \in 1..MaxPairs
    BY <1>2, <1>3, SessionsAssumption DEF BoundInv, MaxPairs
  <1>5. pairs[p].iat \in Nat
    BY PairFacts DEF TokenInv
  <1>6. Expiry(p, kind) \in Nat
    BY <1>5, SessionsAssumption DEF Expiry
  <1> QED
    BY <1>4, <1>6 DEF Revocations, Revocation

-----------------------------------------------------------------------------
(* The requests.                                                           *)

\* A request that does not move holds what it held.
LEMMA HoldsStays ==
    ASSUME StandingInv, StandingInv', TokenInv, TaskInv, Onward,
           NEW h \in Handlers, task[h] # None, task'[h] = task[h]
    PROVE  Holds(h)'
  <1> DEFINE t == task[h]
  <1>1. t \in Task /\ Holds(h)
    BY DEF TaskInv
  <1>2. t.now \in Nat /\ t.user \in Users /\ t.now <= clock
    BY <1>1, TimeFacts DEF Task, Holds
  <1>3. clock \in Nat /\ clock' \in Nat /\ clock <= clock'
    BY TimeFacts DEF StandingInv, Onward
  <1>4. t.now <= clock'
    BY <1>2, <1>3
  <1>5. {t.pair, t.access} \subseteq {0} \union DOMAIN pairs'
    BY <1>1 DEF Holds, Onward
  <1>6. t.pc \in {"role", "rotate"} => t.now <= lastEnabled'[t.user]
    <2>1. /\ lastEnabled[t.user] \in Nat /\ lastEnabled'[t.user] \in Nat
          /\ lastEnabled[t.user] <= lastEnabled'[t.user]
      BY <1>2, TimeFacts DEF StandingInv, Onward
    <2> QED
      BY <1>1, <1>2, <2>1 DEF Holds
  <1>7. ASSUME t.pc = "rotate"
        PROVE  /\ t.role \in Roles /\ lastHeld'[t.user][t.role] # None
               /\ t.now <= lastHeld'[t.user][t.role]
    <2>1. /\ t.role \in Roles /\ lastHeld[t.user][t.role] # None
          /\ t.now <= lastHeld[t.user][t.role]
      BY <1>1, <1>7 DEF Holds
    <2>2. /\ lastHeld'[t.user][t.role] # None
          /\ lastHeld[t.user][t.role] <= lastHeld'[t.user][t.role]
          /\ lastHeld[t.user][t.role] \in Nat /\ lastHeld'[t.user][t.role] \in Nat
      BY <1>2, <2>1, TimeFacts DEF StandingInv, Onward
    <2> QED
      BY <1>2, <2>1, <2>2
  <1>8. ASSUME t.pc = "access" PROVE Revocations(t.pair, "refresh")' \subseteq revoked'
    <2>1. Revocations(t.pair, "refresh") \subseteq revoked
      BY <1>1, <1>8 DEF Holds
    <2>2. CASE t.pair \in DOMAIN pairs
      <3> DEFINE q == t.pair
      <3>1. q \in DOMAIN pairs /\ pairs'[q] = pairs[q]
        BY <2>2 DEF Onward
      <3>2. Revocations(task[h].pair, "refresh")' = Revocations(task[h].pair, "refresh")
        BY <3>1 DEF Revocations, Expiry
      <3> QED
        BY <2>1, <3>2 DEF Onward
    <2>3. CASE t.pair \notin DOMAIN pairs
      <3>1. t.pair = 0
        BY <1>1, <2>3 DEF Holds
      <3>2. [pair |-> 0, kind |-> "refresh", until |-> Expiry(0, "refresh")] \in revoked
        BY <2>1, <3>1 DEF Revocations
      <3> QED
        BY <3>2 DEF TokenInv, Revocation
    <2> QED
      BY <2>2, <2>3
  <1> QED
    BY <1>1, <1>4, <1>5, <1>6, <1>7, <1>8 DEF Holds

\* One request moves, or ends.
LEMMA TasksKept ==
    ASSUME StandingInv, StandingInv', TokenInv, TaskInv, Onward,
           NEW h \in Handlers, NEW t \in Task \union {None},
           task' = [task EXCEPT ![h] = t], t # None => Holds(h)'
    PROVE  TaskInv'
  <1>1. task' \in [Handlers -> Task \union {None}]
    BY DEF TaskInv
  <1>2. \A g \in Handlers : task'[g] = IF g = h THEN t ELSE task[g]
    BY DEF TaskInv
  <1>3. ASSUME NEW g \in Handlers, task'[g] # None PROVE Holds(g)'
    BY <1>2, <1>3, HoldsStays
  <1> QED
    BY <1>1, <1>3 DEF TaskInv

\* None of them does.
LEMMA TasksStay ==
    ASSUME StandingInv, StandingInv', TokenInv, TaskInv, Onward, task' = task
    PROVE  TaskInv'
  <1>1. ASSUME NEW g \in Handlers, task'[g] # None PROVE Holds(g)'
    BY <1>1, HoldsStays
  <1> QED
    BY <1>1 DEF TaskInv

\* How many requests are in flight after one of them began, moved or ended.
LEMMA BusyFacts ==
    ASSUME TaskInv, NEW h \in Handlers, NEW t, task' = [task EXCEPT ![h] = t]
    PROVE  /\ Cardinality(Busy) \in Nat /\ Cardinality(Busy') \in Nat
           /\ Cardinality(Busy') <= Cardinality(Busy) + 1
           /\ task[h] # None => Cardinality(Busy') <= Cardinality(Busy)
           /\ task[h] # None /\ t = None => Cardinality(Busy') + 1 = Cardinality(Busy)
  <1>1. Busy \subseteq Handlers /\ Busy' \subseteq Handlers
    BY DEF Busy
  <1>2. IsFiniteSet(Busy) /\ IsFiniteSet(Busy')
    BY <1>1, FS_Subset, SessionsAssumption
  <1>3. Cardinality(Busy) \in Nat /\ Cardinality(Busy') \in Nat
    BY <1>2, FS_CardinalityType
  <1>4. \A g \in Handlers : task'[g] = IF g = h THEN t ELSE task[g]
    BY DEF TaskInv
  <1>5. Busy' \subseteq Busy \union {h}
    BY <1>4 DEF Busy
  <1>6. /\ IsFiniteSet(Busy \union {h})
        /\ Cardinality(Busy \union {h}) = IF h \in Busy THEN Cardinality(Busy) ELSE Cardinality(Busy) + 1
    BY <1>2, FS_AddElement
  <1>7. Cardinality(Busy') <= Cardinality(Busy \union {h})
    BY <1>5, <1>6, FS_Subset
  <1>8. task[h] # None => h \in Busy
    BY DEF Busy
  <1>9. ASSUME task[h] # None, t = None PROVE Cardinality(Busy') + 1 = Cardinality(Busy)
    <2>1. Busy' = Busy \ {h}
      BY <1>4, <1>9 DEF Busy
    <2>2. Cardinality(Busy') = Cardinality(Busy) - 1
      BY <1>2, <1>8, <1>9, <2>1, FS_RemoveElement
    <2> QED
      BY <1>3, <2>2
  <1> QED
    BY <1>3, <1>6, <1>7, <1>8, <1>9

-----------------------------------------------------------------------------
(* The steps.                                                              *)

\* A request leaves clock, users and roles alone.
LEMMA StandingStays ==
    ASSUME StandingInv, UNCHANGED <<clock, disabled, role, lastEnabled, lastHeld>>,
           DOMAIN pairs \subseteq DOMAIN pairs', revoked \subseteq revoked',
           \A p \in DOMAIN pairs : pairs'[p] = pairs[p]
    PROVE  StandingInv' /\ Onward
  <1>1. StandingInv'
    BY DEF StandingInv
  <1>2. /\ clock <= clock /\ \A u \in Users : lastEnabled[u] <= lastEnabled[u]
        /\ \A u \in Users, r \in Roles : lastHeld[u][r] # None => lastHeld[u][r] <= lastHeld[u][r]
    BY TimeFacts DEF StandingInv
  <1> QED
    BY <1>1, <1>2 DEF Onward

\* Nobody's request moves while time passes or an administrator acts.
LEMMA WorldStep ==
    ASSUME SessionsInv,
           Tick \/ \E u \in Users : SetDisabled(u) \/ \E r \in Roles : SetRole(u, r)
    PROVE  SessionsInv'
  <1>1. UNCHANGED <<revoked, pairs, task, retired, requests>> /\ changes' \in 0..MaxChanges
    BY SessionsAssumption DEF Tick, SetDisabled, SetRole, SessionsInv, BoundInv
  <1>2. StandingInv' /\ Onward
    BY <1>1, StandingStep DEF SessionsInv, Onward
  <1>3. TokenInv'
    BY <1>1, <1>2, TokensKept DEF SessionsInv, TokenInv
  <1>4. TaskInv'
    BY <1>1, <1>2, TasksStay DEF SessionsInv
  <1>5. BoundInv'
    BY <1>1 DEF SessionsInv, BoundInv, Busy
  <1> QED
    BY <1>2, <1>3, <1>4, <1>5 DEF SessionsInv

\* A restart drops the requests in flight.
LEMMA RestartStep ==
    ASSUME SessionsInv, Restart
    PROVE  SessionsInv'
  <1>1. /\ task' = [h \in Handlers |-> None]
        /\ UNCHANGED <<clock, disabled, role, revoked, pairs, retired, lastEnabled, lastHeld,
                       requests, changes>>
    BY DEF Restart
  <1>2. StandingInv' /\ Onward
    BY <1>1, StandingStays DEF SessionsInv
  <1>3. TokenInv'
    BY <1>1, <1>2, TokensKept DEF SessionsInv, TokenInv
  <1>4. TaskInv' /\ Busy' = {}
    BY <1>1 DEF TaskInv, Busy
  <1>5. Busy \subseteq Handlers
    BY DEF Busy
  <1>6. Cardinality(Busy) \in Nat /\ Cardinality(Busy') = 0 /\ Len(pairs) \in Nat
    BY <1>4, <1>5, FS_Subset, FS_CardinalityType, FS_EmptySet, SessionsAssumption
       DEF SessionsInv, TokenInv
  <1>7. BoundInv'
    BY <1>1, <1>6 DEF SessionsInv, BoundInv
  <1> QED
    BY <1>2, <1>3, <1>4, <1>7 DEF SessionsInv

\* A request that comes in holds its token and the time; a logout has revoked the
\* refresh token by then.
LEMMA StartStep ==
    ASSUME SessionsInv, NEW h \in Handlers,
           \/ \E u \in Users : Login(h, u)
           \/ \E p \in DOMAIN pairs :
                \/ Refresh(h, p)
                \/ \E a \in {0} \union DOMAIN pairs : Logout(h, p, a)
    PROVE  SessionsInv'
  <1> DEFINE Came(t) ==
               /\ Start(h, t) /\ t \in Task
               /\ t.now = clock /\ t.pc \in {"user", "access"}
               /\ {t.pair, t.access} \subseteq {0} \union DOMAIN pairs
               /\ t.op \in {"refresh", "logout"} => t.pair # 0
               /\ t.pc = "access" => Revocations(t.pair, "refresh") \subseteq revoked'
  <1>1. /\ UNCHANGED <<clock, disabled, role, pairs, retired, lastEnabled, lastHeld, changes>>
        /\ revoked \subseteq revoked'
    BY DEF Login, Refresh, Logout
  <1>2. StandingInv' /\ Onward
    BY <1>1, StandingStays DEF SessionsInv
  <1>3. clock \in Time /\ clock \in Nat /\ MaxPairs \in Nat
    BY TimeFacts, SessionsAssumption DEF SessionsInv, StandingInv, MaxPairs
  <1>4. \A q \in DOMAIN pairs : q \in 1..MaxPairs
    BY RevocationFacts DEF SessionsInv, Kinds
  <1>5. revoked' \subseteq Revocation
    BY RevocationFacts DEF Login, Refresh, Logout, SessionsInv, TokenInv, Kinds
  <1>6. \E t : Came(t)
    <2>1. ASSUME NEW u \in Users, Login(h, u) PROVE \E t : Came(t)
      <3> DEFINE t == [op |-> "login", pc |-> "user", user |-> u, now |-> clock,
                       pair |-> 0, access |-> 0, role |-> None]
      <3>1. t \in Task
        BY <1>3 DEF Task
      <3> QED
        BY <2>1, <3>1 DEF Login
    <2>2. ASSUME NEW p \in DOMAIN pairs, Refresh(h, p) PROVE \E t : Came(t)
      <3> DEFINE t == [op |-> "refresh", pc |-> "user", user |-> pairs[p].user, now |-> clock,
                       pair |-> p, access |-> 0, role |-> None]
      <3>1. pairs[p].user \in Users /\ p \in 1..MaxPairs
        BY <1>4, PairFacts DEF SessionsInv, TokenInv
      <3>2. t \in Task /\ p # 0
        BY <1>3, <3>1 DEF Task
      <3> QED
        BY <2>2, <3>2 DEF Refresh
    <2>3. ASSUME NEW p \in DOMAIN pairs, NEW a \in {0} \union DOMAIN pairs, Logout(h, p, a)
          PROVE  \E t : Came(t)
      <3> DEFINE t == [op |-> "logout", pc |-> "access", user |-> pairs[p].user, now |-> clock,
                       pair |-> p, access |-> a, role |-> None]
      <3>1. pairs[p].user \in Users /\ p \in 1..MaxPairs /\ a \in 0..MaxPairs
        BY <1>3, <1>4, PairFacts DEF SessionsInv, TokenInv
      <3>2. t \in Task /\ p # 0
        BY <1>3, <3>1 DEF Task
      <3> QED
        BY <2>3, <3>2 DEF Logout
    <2> QED
      BY <2>1, <2>2, <2>3
  <1>7. PICK t : Came(t)
    BY <1>6
  <1>8. /\ task[h] = None /\ requests < MaxRequests /\ requests' = requests + 1
        /\ task' = [task EXCEPT ![h] = t] /\ task'[h] = t
    BY <1>7 DEF Start, SessionsInv, TaskInv
  <1>9. Holds(h)'
    <2>1. t.pc = "access" => Revocations(task[h].pair, "refresh")' \subseteq revoked'
      BY <1>1, <1>7, <1>8 DEF Revocations, Expiry
    <2> QED
      BY <1>1, <1>3, <1>7, <1>8, <2>1 DEF Holds
  <1>10. TaskInv'
    BY <1>2, <1>7, <1>8, <1>9, TasksKept DEF SessionsInv
  <1>11. TokenInv'
    BY <1>1, <1>2, <1>5, TokensKept DEF SessionsInv, TokenInv
  <1>12. BoundInv'
    <2>1. /\ Cardinality(Busy) \in Nat /\ Cardinality(Busy') \in Nat
          /\ Cardinality(Busy') <= Cardinality(Busy) + 1
      BY <1>8, BusyFacts DEF SessionsInv
    <2> QED
      BY <1>1, <1>8, <2>1, SessionsAssumption DEF SessionsInv, BoundInv, TokenInv
  <1> QED
    BY <1>2, <1>10, <1>11, <1>12 DEF SessionsInv

\* A request in flight is one, by someone, and holds what it read.
LEMMA TaskFacts ==
    ASSUME SessionsInv, NEW h \in Handlers, task[h] # None
    PROVE  /\ task[h] \in Task /\ Holds(h)
           /\ task[h].user \in Users /\ task[h].now \in Time /\ task[h].now \in Nat
           /\ task[h].now <= clock
  <1>1. task[h] \in Task /\ Holds(h)
    BY DEF SessionsInv, TaskInv
  <1> QED
    BY <1>1, TimeFacts DEF Task, Holds

\* The user's row and role are read: who goes on was enabled, then a member, at that
\* time or later than the time the request is stamped with.
LEMMA ReadStep ==
    ASSUME SessionsInv, NEW h \in Handlers, CheckUser(h) \/ NotMember(h) \/ ReadRole(h)
    PROVE  SessionsInv'
  <1> DEFINE t == task[h]
  <1>1. /\ t # None
        /\ UNCHANGED <<clock, disabled, role, revoked, pairs, retired, lastEnabled, lastHeld,
                       requests, changes>>
    BY DEF CheckUser, NotMember, ReadRole, At
  <1>2. StandingInv' /\ Onward
    BY <1>1, StandingStays DEF SessionsInv
  <1>3. TokenInv'
    BY <1>1, <1>2, TokensKept DEF SessionsInv, TokenInv
  <1>4. /\ t \in Task /\ Holds(h) /\ t.user \in Users /\ t.now \in Nat /\ t.now <= clock
    BY <1>1, TaskFacts
  <1>5. \E n \in Task \union {None} : task' = [task EXCEPT ![h] = n] /\ (n # None => Holds(h)')
    <2>1. CASE task' = [task EXCEPT ![h] = None]
      BY <2>1
    <2>2. CASE CheckUser(h) /\ ~disabled[t.user]
      <3> DEFINE n == [t EXCEPT !.pc = "role"]
      <3>1. t.now <= lastEnabled[t.user]
        BY <1>4, <2>2 DEF SessionsInv, StandingInv
      <3>2. /\ n \in Task /\ n.pc = "role" /\ n.user = t.user /\ n.now = t.now /\ n.op = t.op
            /\ n.pair = t.pair /\ n.access = t.access
        BY <1>4 DEF Task
      <3>3. task' = [task EXCEPT ![h] = n]
        BY <2>2 DEF CheckUser, SessionsInv, TaskInv
      <3>4. task'[h] = n
        BY <3>3 DEF SessionsInv, TaskInv
      <3> HIDE DEF n
      <3>5. Holds(h)'
        BY <1>1, <1>4, <3>1, <3>2, <3>4 DEF Holds
      <3> QED
        BY <3>2, <3>3, <3>5
    <2>3. CASE ReadRole(h)
      <3> DEFINE r == role[t.user]
                 n == [t EXCEPT !.pc = "rotate", !.role = r]
      <3>1. r \in Roles /\ t.pc = "role"
        BY <1>4, <2>3 DEF ReadRole, At, SessionsInv, StandingInv
      <3>2. lastHeld[t.user][r] = clock /\ clock # None
        BY <1>4, <3>1, TimeFacts DEF SessionsInv, StandingInv
      <3>3. /\ n \in Task /\ n.pc = "rotate" /\ n.user = t.user /\ n.now = t.now /\ n.op = t.op
            /\ n.pair = t.pair /\ n.access = t.access /\ n.role = r
        BY <1>4, <3>1 DEF Task
      <3>4. task' = [task EXCEPT ![h] = n]
        BY <2>3 DEF ReadRole, RoleFor, SessionsInv, TaskInv
      <3>5. task'[h] = n
        BY <3>4 DEF SessionsInv, TaskInv
      <3> HIDE DEF n, r
      <3>6. Holds(h)'
        BY <1>1, <1>4, <3>1, <3>2, <3>3, <3>5 DEF Holds
      <3> QED
        BY <3>3, <3>4, <3>6
    <2> QED
      BY <2>1, <2>2, <2>3 DEF CheckUser, NotMember, ReadRole, End
  <1>6. PICK n \in Task \union {None} : task' = [task EXCEPT ![h] = n] /\ (n # None => Holds(h)')
    BY <1>5
  <1>7. TaskInv'
    BY <1>2, <1>6, TasksKept DEF SessionsInv
  <1>8. BoundInv'
    <2>1. /\ Cardinality(Busy) \in Nat /\ Cardinality(Busy') \in Nat
          /\ Cardinality(Busy') <= Cardinality(Busy)
      BY <1>1, <1>6, BusyFacts DEF SessionsInv
    <2> QED
      BY <1>1, <2>1 DEF SessionsInv, BoundInv, TokenInv
  <1> QED
    BY <1>2, <1>3, <1>7, <1>8 DEF SessionsInv

\* A request ends and its pair is issued, in a role its user had: it retires no token
\* but one it revokes.
LEMMA IssueKeeps ==
    ASSUME SessionsInv, NEW h \in Handlers, task[h] # None, NEW r \in Roles,
           task[h].now <= lastEnabled[task[h].user],
           lastHeld[task[h].user][r] # None, task[h].now <= lastHeld[task[h].user][r],
           Issue(h, r), End(h),
           UNCHANGED <<clock, disabled, role, lastEnabled, lastHeld, requests, changes>>,
           revoked \subseteq revoked', revoked' \subseteq Revocation,
           \A x \in retired' \ retired :
              x \in (DOMAIN pairs) \X Kinds /\ Revocations(x[1], x[2]) \subseteq revoked'
    PROVE  SessionsInv'
  <1> DEFINE t == task[h]
             n == [user |-> t.user, role |-> r, iat |-> t.now, from |-> t.pair]
             last == Len(pairs) + 1
  <1>1. t \in Task /\ t.user \in Users /\ t.now \in Time /\ t.now \in Nat
    BY TaskFacts
  <1>2. n \in Pair
    BY <1>1 DEF Pair, Task
  <1>3. n.user = t.user /\ n.role = r /\ n.iat = t.now
    OBVIOUS
  <1>4. pairs' = Append(pairs, n)
    BY DEF Issue, Stamp
  <1> HIDE DEF n
  <1>5. /\ pairs' \in Seq(Pair) /\ Len(pairs') = Len(pairs) + 1 /\ Len(pairs) \in Nat
        /\ DOMAIN pairs' = DOMAIN pairs \union {last}
        /\ pairs'[last] = n /\ \A p \in DOMAIN pairs : pairs'[p] = pairs[p]
    BY <1>2, <1>4 DEF SessionsInv, TokenInv
  <1> HIDE DEF last
  <1>6. StandingInv' /\ Onward
    BY <1>5, StandingStays DEF SessionsInv
  <1>7. \A p \in DOMAIN pairs' \ DOMAIN pairs : ClaimsHeld(p)'
    BY <1>3, <1>5 DEF ClaimsHeld
  <1>8. ASSUME NEW x \in retired' \ retired
        PROVE  x \in (DOMAIN pairs') \X Kinds /\ Gone(x[1], x[2])'
    <2>1. /\ x[1] \in DOMAIN pairs /\ x[2] \in Kinds /\ x \in (DOMAIN pairs') \X Kinds
      BY <1>5
    <2>2. Revocations(x[1], x[2])' = Revocations(x[1], x[2])
      BY <1>6, <2>1, ExpiryFacts DEF SessionsInv, TokenInv
    <2> QED
      BY <2>1, <2>2 DEF Gone
  <1>9. TokenInv'
    BY <1>5, <1>6, <1>7, <1>8, TokensKept DEF SessionsInv
  <1>10. task' = [task EXCEPT ![h] = None]
    BY DEF End
  <1>11. TaskInv'
    BY <1>6, <1>10, TasksKept DEF SessionsInv
  <1>12. BoundInv'
    <2>1. /\ Cardinality(Busy) \in Nat /\ Cardinality(Busy') \in Nat
          /\ Cardinality(Busy') + 1 = Cardinality(Busy)
      BY <1>10, BusyFacts DEF SessionsInv
    <2> QED
      BY <1>5, <2>1 DEF SessionsInv, BoundInv
  <1> QED
    BY <1>6, <1>9, <1>11, <1>12 DEF SessionsInv

\* A login issues in the role it finds; a refresh in the role it read before it
\* revokes the old token (revoke_token with OR IGNORE).
LEMMA IssueStep ==
    ASSUME SessionsInv, NEW h \in Handlers, IssueLogin(h) \/ Rotate(h)
    PROVE  SessionsInv'
  <1> DEFINE t == task[h]
  <1>1. t # None
    BY DEF IssueLogin, Rotate, At
  <1>2. t \in Task /\ Holds(h) /\ t.user \in Users /\ t.now \in Nat /\ t.now <= clock
    BY <1>1, TaskFacts
  <1>3. CASE IssueLogin(h)
    <2>1. t.pc = "role" /\ role[t.user] \in Roles
      BY <1>2, <1>3 DEF IssueLogin, At, SessionsInv, StandingInv
    <2>2. lastHeld[t.user][role[t.user]] = clock /\ clock # None
      BY <1>2, <2>1, TimeFacts DEF SessionsInv, StandingInv
    <2>3. t.now <= lastEnabled[t.user]
      BY <1>2, <2>1 DEF Holds
    <2>4. /\ Issue(h, role[t.user]) /\ End(h)
          /\ UNCHANGED <<clock, disabled, role, revoked, retired, lastEnabled, lastHeld,
                         requests, changes>>
      BY <1>3 DEF IssueLogin
    <2>5. revoked' \subseteq Revocation
      BY <2>4 DEF SessionsInv, TokenInv
    <2> QED
      BY <1>1, <1>2, <2>1, <2>2, <2>3, <2>4, <2>5, IssueKeeps
  <1>4. CASE Rotate(h)
    <2>1. t.pc = "rotate" /\ t.op = "refresh"
      BY <1>4 DEF Rotate, At
    <2>2. /\ t.role \in Roles /\ t.now <= lastEnabled[t.user]
          /\ lastHeld[t.user][t.role] # None /\ t.now <= lastHeld[t.user][t.role]
          /\ t.pair \in DOMAIN pairs
      BY <1>2, <2>1 DEF Holds
    <2>3. /\ Issue(h, t.role) /\ End(h)
          /\ UNCHANGED <<clock, disabled, role, lastEnabled, lastHeld, requests, changes>>
          /\ revoked' = revoked \union Revocations(t.pair, "refresh")
          /\ retired' = retired \union {<<t.pair, "refresh">>}
      BY <1>4 DEF Rotate, Rotation
    <2>4. Revocations(t.pair, "refresh") \subseteq Revocation
      BY <2>2, RevocationFacts DEF SessionsInv, Kinds
    <2>5. revoked \subseteq revoked' /\ revoked' \subseteq Revocation
      BY <2>3, <2>4 DEF SessionsInv, TokenInv
    <2>6. \A x \in retired' \ retired :
            x \in (DOMAIN pairs) \X Kinds /\ Revocations(x[1], x[2]) \subseteq revoked'
      BY <2>2, <2>3 DEF Kinds
    <2> QED
      BY <1>1, <2>2, <2>3, <2>5, <2>6, IssueKeeps
  <1> QED
    BY <1>3, <1>4

\* The second half of a logout: an access token it passes over has expired, or is
\* another user's.
LEMMA LogoutStep ==
    ASSUME SessionsInv, NEW h \in Handlers, FinishLogout(h)
    PROVE  SessionsInv'
  <1> DEFINE t == task[h]
             a == t.access
  <1>1. /\ t # None /\ t.op = "logout" /\ t.pc = "access"
        /\ task' = [task EXCEPT ![h] = None]
        /\ UNCHANGED <<clock, disabled, role, pairs, lastEnabled, lastHeld, requests, changes>>
    BY DEF FinishLogout, At, End
  <1>2. /\ t \in Task /\ t.now \in Nat /\ t.now <= clock
        /\ t.pair \in DOMAIN pairs /\ a \in {0} \union DOMAIN pairs
        /\ Revocations(t.pair, "refresh") \subseteq revoked
    BY <1>1, TaskFacts DEF Holds
  <1>3. a \in DOMAIN pairs => Revocations(a, "access") \subseteq Revocation
    BY RevocationFacts DEF SessionsInv, Kinds
  <1>4. 0 \notin DOMAIN pairs
    BY DEF SessionsInv, TokenInv
  <1>5. revoked \subseteq revoked' /\ revoked' \subseteq Revocation
    BY <1>2, <1>3 DEF FinishLogout, OwnAccess, SessionsInv, TokenInv
  <1>6. StandingInv' /\ Onward
    BY <1>1, <1>5, StandingStays DEF SessionsInv
  <1>7. ASSUME NEW b \in DOMAIN pairs, b = a, pairs[b].user = t.user
        PROVE  Gone(b, "access")'
    <2>1. /\ Expiry(b, "access") \in Nat /\ Expiry(b, "access")' = Expiry(b, "access")
          /\ Revocations(b, "access")' = Revocations(b, "access")
      BY <1>6, ExpiryFacts DEF SessionsInv, TokenInv, Kinds
    <2>2. CASE Expiry(b, "access") > t.now
      <3>1. revoked' = revoked \union Revocations(b, "access")
        BY <1>4, <1>7, <2>2 DEF FinishLogout, OwnAccess
      <3> QED
        BY <2>1, <3>1 DEF Gone
    <2>3. CASE ~(Expiry(b, "access") > t.now)
      <3>1. clock \in Nat /\ clock' = clock
        BY <1>1, TimeFacts DEF SessionsInv, StandingInv
      <3>2. Expiry(b, "access") <= clock
        BY <1>2, <2>1, <2>3, <3>1
      <3> QED
        BY <2>1, <3>1, <3>2 DEF Gone
    <2> QED
      BY <2>2, <2>3
  <1>8. ASSUME NEW x \in retired' \ retired
        PROVE  x \in (DOMAIN pairs') \X Kinds /\ Gone(x[1], x[2])'
    <2>1. \/ x = <<t.pair, "refresh">>
          \/ x = <<a, "access">> /\ a # 0 /\ pairs[a].user = t.user
      BY <1>8 DEF FinishLogout
    <2>2. CASE x = <<t.pair, "refresh">>
      <3>1. x[1] \in DOMAIN pairs /\ x[2] = "refresh" /\ x \in (DOMAIN pairs') \X Kinds
        BY <1>1, <1>2, <2>2 DEF Kinds
      <3>2. Revocations(x[1], x[2])' = Revocations(x[1], x[2])
        BY <1>6, <3>1, ExpiryFacts DEF SessionsInv, TokenInv, Kinds
      <3>3. Revocations(x[1], x[2]) \subseteq revoked
        BY <1>2, <2>2
      <3> QED
        BY <1>5, <3>1, <3>2, <3>3 DEF Gone
    <2>3. CASE x = <<a, "access">> /\ a # 0 /\ pairs[a].user = t.user
      <3>1. x[1] = a /\ x[2] = "access" /\ x[1] \in DOMAIN pairs /\ x \in (DOMAIN pairs') \X Kinds
        BY <1>1, <1>2, <2>3 DEF Kinds
      <3>2. Gone(x[1], "access")'
        BY <1>7, <2>3, <3>1
      <3> QED
        BY <3>1, <3>2
    <2> QED
      BY <2>1, <2>2, <2>3
  <1>9. TokenInv'
    BY <1>1, <1>5, <1>6, <1>8, TokensKept DEF SessionsInv, TokenInv
  <1>10. TaskInv'
    BY <1>1, <1>6, TasksKept DEF SessionsInv
  <1>11. BoundInv'
    <2>1. /\ Cardinality(Busy) \in Nat /\ Cardinality(Busy') \in Nat
          /\ Cardinality(Busy') <= Cardinality(Busy)
      BY <1>1, BusyFacts DEF SessionsInv
    <2> QED
      BY <1>1, <2>1 DEF SessionsInv, BoundInv, TokenInv
  <1> QED
    BY <1>6, <1>9, <1>10, <1>11 DEF SessionsInv

\* Every step of the specification keeps the invariant.
LEMMA SessionsStep ==
    SessionsInv /\ [Next]_vars => SessionsInv'
  <1> SUFFICES ASSUME SessionsInv, [Next]_vars PROVE SessionsInv'
    OBVIOUS
  <1>1. CASE Tick \/ \E u \in Users : SetDisabled(u) \/ \E r \in Roles : SetRole(u, r)
    BY <1>1, WorldStep
  <1>2. ASSUME NEW h \in Handlers,
               \/ \E u \in Users : Login(h, u)
               \/ \E p \in DOMAIN pairs :
                    \/ Refresh(h, p)
                    \/ \E a \in {0} \union DOMAIN pairs : Logout(h, p, a)
        PROVE  SessionsInv'
    BY <1>2, StartStep
  <1>3. ASSUME NEW h \in Handlers,
               \/ CheckUser(h) \/ NotMember(h)
               \/ IssueLogin(h) \/ ReadRole(h) \/ Rotate(h) \/ FinishLogout(h)
        PROVE  SessionsInv'
    BY <1>3, ReadStep, IssueStep, LogoutStep
  <1>4. CASE UNCHANGED vars
    <2>1. UNCHANGED <<clock, disabled, role, revoked, pairs, task, retired, lastEnabled, lastHeld,
                      requests, changes>>
      BY <1>4 DEF vars
    <2>2. StandingInv' /\ Onward
      BY <2>1, StandingStays DEF SessionsInv
    <2>3. TokenInv' /\ TaskInv'
      BY <2>1, <2>2, TokensKept, TasksStay DEF SessionsInv, TokenInv
    <2>4. BoundInv'
      BY <2>1 DEF SessionsInv, BoundInv, Busy
    <2> QED
      BY <2>2, <2>3, <2>4 DEF SessionsInv
  <1> QED
    BY <1>1, <1>2, <1>3, <1>4, RestartStep DEF Next

LEMMA SessionsInit == Init => SessionsInv
  <1> SUFFICES ASSUME Init PROVE SessionsInv
    OBVIOUS
  <1>1. 0 \in Time /\ 0 # None
    BY SessionsAssumption DEF Time
  <1>2. StandingInv
    BY <1>1, TimeFacts DEF Init, StandingInv
  <1>3. TokenInv /\ TaskInv
    BY DEF Init, TokenInv, TaskInv
  <1>4. Busy = {} /\ Len(pairs) = 0
    BY DEF Init, Busy
  <1>5. BoundInv
    BY <1>4, FS_EmptySet, SessionsAssumption DEF Init, BoundInv
  <1> QED
    BY <1>2, <1>3, <1>5 DEF SessionsInv

\* The invariant holds in every state requests, time and administrators can reach.
THEOREM SessionsInvariant == Spec => []SessionsInv
  BY SessionsInit, SessionsStep, PTL DEF Spec

-----------------------------------------------------------------------------
(* The properties.                                                         *)

\* The variables keep their types, and the numbers of pairs their bound.
THEOREM SessionsTypeCorrect == Spec => []TypeOK
  <1>1. ASSUME SessionsInv PROVE TypeOK
    <2>1. Busy \subseteq Handlers
      BY DEF Busy
    <2>2. Cardinality(Busy) \in Nat
      BY <2>1, FS_Subset, FS_CardinalityType, SessionsAssumption
    <2>3. Len(pairs) <= MaxPairs
      BY <1>1, <2>2, SessionsAssumption DEF SessionsInv, TokenInv, BoundInv, MaxPairs
    <2> QED
      BY <1>1, <2>3 DEF SessionsInv, StandingInv, TokenInv, TaskInv, BoundInv, TypeOK
  <1> QED
    BY <1>1, SessionsInvariant, PTL

\* A token that was rotated away or logged out is never accepted again, at any later
\* time (revoke_token, is_token_revoked): its row counts until the moment it expires,
\* or it has expired by then.
THEOREM RetiredTokensStayOut == Spec => []RetiredStaysOut
  <1>1. ASSUME SessionsInv PROVE RetiredStaysOut
    <2>1. ASSUME NEW x \in retired PROVE ~Accepted(x[1], x[2], clock)
      <3>1. x[1] \in DOMAIN pairs /\ x[2] \in Kinds /\ Gone(x[1], x[2])
        BY <1>1 DEF SessionsInv, TokenInv
      <3> QED
        BY <1>1, <3>1, GoneIsNotAccepted DEF SessionsInv, TokenInv, StandingInv
    <2> QED
      BY <2>1 DEF RetiredStaysOut
  <1> QED
    BY <1>1, SessionsInvariant, PTL

\* However long a login or a refresh takes, the pair it issues is stamped no later
\* than its user was last enabled and last had the role in it (login, refresh).
THEOREM StaleClaimsEnd == Spec => []StaleClaimsRunOut
  <1>1. SessionsInv => StaleClaimsRunOut
    BY DEF SessionsInv, TokenInv, ClaimsHeld, StaleClaimsRunOut
  <1> QED
    BY <1>1, SessionsInvariant, PTL

\* The moment from which the claims of a pair are known not to be true any more.
StaleFrom(p) ==
    {lastEnabled[pairs[p].user], lastHeld[pairs[p].user][pairs[p].role]}

\* An access token is refused from one AccessTTL after its user was last enabled, or
\* last had the role in it (verify_token in require_auth): what an administrator takes
\* away is gone by then, although nothing revokes the token.
THEOREM OldClaimsExpire ==
    Spec => [](\A p \in DOMAIN pairs : \A last \in StaleFrom(p) :
        clock >= last + AccessTTL => ~Accepted(p, "access", clock))
  <1> DEFINE Expired == \A p \in DOMAIN pairs : \A last \in StaleFrom(p) :
               clock >= last + AccessTTL => ~Accepted(p, "access", clock)
  <1>1. ASSUME SessionsInv, NEW p \in DOMAIN pairs, NEW last \in StaleFrom(p),
               clock >= last + AccessTTL
        PROVE  ~Accepted(p, "access", clock)
    <2>1. /\ pairs[p].iat \in Nat /\ pairs[p].user \in Users /\ pairs[p].role \in Roles
          /\ ClaimsHeld(p)
      BY <1>1, PairFacts DEF SessionsInv, TokenInv
    <2>2. pairs[p].iat <= last /\ last \in Nat
      BY <1>1, <2>1, TimeFacts DEF SessionsInv, StandingInv, ClaimsHeld, StaleFrom
    <2>3. clock \in Nat
      BY <1>1, TimeFacts DEF SessionsInv, StandingInv
    <2>4. Expiry(p, "access") \in Nat /\ Expiry(p, "access") <= clock
      BY <1>1, <2>1, <2>2, <2>3, SessionsAssumption DEF Expiry
    <2> QED
      BY <2>3, <2>4 DEF Accepted
  <1>2. SessionsInv => Expired
    BY <1>1
  <1> QED
    BY <1>2, SessionsInvariant, PTL
=============================================================================
