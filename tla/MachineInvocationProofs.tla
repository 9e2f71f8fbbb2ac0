---------------------- MODULE MachineInvocationProofs ----------------------
(***************************************************************************)
(* Theorems of the quota (TransitionQuota), of the machine gate            *)
(* (GovernanceRules) and of the machines' way into governance              *)
(* (MachineInvocation), for any number of tenants, entries and handlers,   *)
(* any quota and window, and any thresholds.                               *)
(*                                                                         *)
(* The quota: no tenant gets more than MaxPerHour machine transitions in   *)
(* any interval of one window, and none is refused with less than that     *)
(* many behind it.  WindowBound is not inductive: a grant is decided on    *)
(* the queue, and the bound speaks of all grants.  WindowIsSuffix is the   *)
(* bridge: what is not in the queue is stale, so when the queue has room   *)
(* the grant MaxPerHour places back is stale too.  The lemmas say this of  *)
(* one queue w, its grants g and the time now; the theorems lift them to   *)
(* all tenants.                                                            *)
(*                                                                         *)
(* The way of a request: the invariant has four parts, the quota's own,    *)
(* the audit of LLM operations (LedgerInv), the requests at work (TaskInv) *)
(* and the promotions (PromotionInv).  The last is what the bound on       *)
(* promotions rests on: counted back from now, a promotion that had so     *)
(* many others after it, or about to come, that the requests at work at    *)
(* its time cannot account for them, has as many grants after it.          *)
(***************************************************************************)
EXTENDS MachineInvocation, FiniteSetTheorems, TLAPS

-----------------------------------------------------------------------------
(* The quota.                                                              *)

\* Dropping the first k elements of a sequence: length, elements and type
\* (the queue after the eviction loop of acquire).
LEMMA KeptFacts ==
    ASSUME NEW q \in Seq(Nat), NEW k \in 0..Len(q)
    PROVE  /\ Kept(q, k) \in Seq(Nat)
           /\ Len(Kept(q, k)) = Len(q) - k
           /\ \A i \in 1..(Len(q) - k) : Kept(q, k)[i] = q[k + i]
  BY SMT DEF Kept

\* What the eviction loop leaves is again the end of the grants (acquire).
LEMMA EvictionKeepsEnd ==
    ASSUME NEW w \in Seq(Nat), NEW g \in Seq(Nat), NEW now \in Nat,
           NEW k \in 0..Len(w), Evicts(w, k, now), EndOf(w, g, now)
    PROVE  EndOf(Kept(w, k), g, now)
  <1> DEFINE m == Len(g) - Len(w)
  <1>1. /\ m \in Nat
        /\ \A i \in 1..Len(w) : w[i] = g[m + i]
        /\ \A i \in 1..m : Stale(g[i], now)
    BY DEF EndOf
  <1>2. Len(w) \in Nat /\ Len(g) \in Nat /\ Len(g) = m + Len(w)
    BY <1>1
  <1>3. /\ Len(Kept(w, k)) = Len(w) - k
        /\ \A i \in 1..(Len(w) - k) : Kept(w, k)[i] = w[k + i]
    BY KeptFacts
  <1> HIDE DEF m
  <1>4. Len(g) - Len(Kept(w, k)) = m + k
    BY <1>1, <1>2, <1>3
  <1>5. ASSUME NEW i \in 1..(Len(w) - k) PROVE Kept(w, k)[i] = g[(m + k) + i]
    <2>1. k + i \in 1..Len(w) /\ m + (k + i) = (m + k) + i
      BY <1>1, <1>2
    <2> QED
      BY <1>1, <1>3, <2>1
  <1>6. ASSUME NEW i \in 1..(m + k) PROVE Stale(g[i], now)
    <2>1. CASE i <= m
      BY <1>1, <2>1
    <2>2. CASE i > m
      <3>1. i - m \in 1..k /\ i - m \in 1..Len(w) /\ m + (i - m) = i
        BY <1>1, <1>2, <2>2
      <3> QED
        BY <1>1, <3>1 DEF Evicts
    <2> QED
      BY <1>1, <2>1, <2>2
  <1> QED
    BY <1>1, <1>3, <1>4, <1>5, <1>6 DEF EndOf

\* A grant appended to both the queue and the grants keeps the queue the end
\* of the grants (push_back).
LEMMA AppendKeepsEnd ==
    ASSUME NEW w \in Seq(Nat), NEW g \in Seq(Nat), NEW now \in Nat, EndOf(w, g, now)
    PROVE  EndOf(Append(w, now), Append(g, now), now)
  <1> DEFINE m == Len(g) - Len(w)
             W == Append(w, now)
             G == Append(g, now)
  <1>1. /\ m \in Nat
        /\ \A i \in 1..Len(w) : w[i] = g[m + i]
        /\ \A i \in 1..m : Stale(g[i], now)
    BY DEF EndOf
  <1>2. /\ Len(w) \in Nat /\ Len(g) \in Nat
        /\ Len(W) = Len(w) + 1 /\ Len(G) = Len(g) + 1
        /\ \A i \in 1..Len(w) : W[i] = w[i]
        /\ \A i \in 1..Len(g) : G[i] = g[i]
        /\ W[Len(w) + 1] = now /\ G[Len(g) + 1] = now
    OBVIOUS
  <1>3. Len(g) = m + Len(w)
    BY <1>1, <1>2
  <1> HIDE DEF m, W, G
  <1>4. ASSUME NEW i \in 1..(Len(w) + 1) PROVE W[i] = G[m + i]
    <2>1. CASE i = Len(w) + 1
      <3>1. m + i = Len(g) + 1
        BY <1>1, <1>2, <1>3, <2>1
      <3> QED
        BY <1>2, <2>1, <3>1
    <2>2. CASE i \in 1..Len(w)
      <3>1. m + i \in 1..Len(g)
        BY <1>1, <1>2, <1>3, <2>2
      <3> QED
        BY <1>1, <1>2, <2>2, <3>1
    <2> QED
      BY <1>2, <2>1, <2>2
  <1>5. ASSUME NEW i \in 1..m PROVE Stale(G[i], now)
    <2>1. i \in 1..Len(g)
      BY <1>1, <1>2, <1>3
    <2> QED
      BY <1>1, <1>2, <2>1
  <1>6. Len(G) - Len(W) = m
    BY <1>1, <1>2, <1>3
  <1> QED
    BY <1>1, <1>2, <1>4, <1>5, <1>6 DEF EndOf, W, G

\* Appending the current time keeps the grants in order.
LEMMA AppendKeepsOrder ==
    ASSUME NEW g \in Seq(Nat), NEW now \in Nat, Ordered(g, now)
    PROVE  Ordered(Append(g, now), now)
  <1> DEFINE G == Append(g, now)
  <1>1. /\ Len(g) \in Nat /\ Len(G) = Len(g) + 1
        /\ \A i \in 1..Len(g) : G[i] = g[i]
        /\ G[Len(g) + 1] = now
    OBVIOUS
  <1> HIDE DEF G
  <1>2. ASSUME NEW i \in 1..Len(G), NEW j \in i..Len(G)
        PROVE  G[i] <= now /\ G[i] <= G[j]
    <2>1. CASE i = Len(g) + 1
      BY <1>1, <2>1
    <2>2. CASE i \in 1..Len(g) /\ j = Len(g) + 1
      BY <1>1, <2>2 DEF Ordered
    <2>3. CASE i \in 1..Len(g) /\ j \in i..Len(g)
      <3>1. j \in 1..Len(g)
        BY <1>1, <2>3
      <3> QED
        BY <1>1, <2>3, <3>1 DEF Ordered
    <2> QED
      BY <1>1, <2>1, <2>2, <2>3
  <1>3. \A i \in 1..Len(G) : i \in i..Len(G)
    BY <1>1
  <1> QED
    BY <1>2, <1>3 DEF Ordered, G

\* A queue with room means that the grant MaxPerHour places back is stale: one
\* more grant keeps the grants spread.
LEMMA RoomKeepsSpread ==
    ASSUME NEW w \in Seq(Nat), NEW g \in Seq(Nat), NEW now \in Nat,
           EndOf(w, g, now), Len(w) < MaxPerHour, Spread(g)
    PROVE  Spread(Append(g, now))
  <1> DEFINE m == Len(g) - Len(w)
             G == Append(g, now)
  <1>1. m \in Nat /\ \A i \in 1..m : now - g[i] > Window
    BY DEF EndOf, Stale
  <1>2. /\ Len(w) \in Nat /\ Len(g) \in Nat /\ Len(G) = Len(g) + 1
        /\ \A i \in 1..Len(g) : G[i] = g[i]
        /\ G[Len(g) + 1] = now
    OBVIOUS
  <1>3. MaxPerHour \in Nat /\ MaxPerHour # 0
    BY QuotaAssumption
  <1>4. Len(g) = m + Len(w)
    BY <1>1, <1>2
  <1> HIDE DEF m, G
  <1>5. ASSUME NEW i \in 1..Len(G), i + MaxPerHour <= Len(G)
        PROVE  G[i + MaxPerHour] - G[i] > Window
    <2>1. i \in 1..Len(g)
      BY <1>2, <1>3, <1>5
    <2>2. CASE i + MaxPerHour <= Len(g)
      <3>1. i + MaxPerHour \in 1..Len(g)
        BY <1>2, <1>3, <2>1, <2>2
      <3> QED
        BY <1>2, <2>1, <2>2, <3>1 DEF Spread
    <2>3. CASE i + MaxPerHour = Len(g) + 1
      <3>1. i \in 1..m
        BY <1>1, <1>2, <1>3, <1>4, <2>1, <2>3
      <3> QED
        BY <1>1, <1>2, <2>1, <2>3, <3>1
    <2>4. i + MaxPerHour <= Len(g) \/ i + MaxPerHour = Len(g) + 1
      <3> DEFINE n == Len(g)
                 last == i + MaxPerHour
      <3>1. n \in Nat /\ last \in Nat /\ last <= n + 1
        BY <1>2, <1>3, <1>5, <2>1
      <3> HIDE DEF n, last
      <3>2. last <= n \/ last = n + 1
        BY <3>1
      <3> QED
        BY <3>2 DEF n, last
    <2> QED
      BY <2>2, <2>3, <2>4
  <1> QED
    BY <1>5 DEF Spread, G

\* The clock only makes instants staler and the grants older.
LEMMA LaterKeeps ==
    ASSUME NEW w \in Seq(Nat), NEW g \in Seq(Nat), NEW now \in Nat,
           NEW later \in Nat, later > now, EndOf(w, g, now), Ordered(g, now)
    PROVE  EndOf(w, g, later) /\ Ordered(g, later)
  <1>1. \A i \in 1..Len(g) : g[i] \in Nat
    OBVIOUS
  <1>2. Ordered(g, later)
    BY <1>1 DEF Ordered
  <1>3. Window \in Nat
    BY QuotaAssumption
  <1>4. ASSUME NEW i \in 1..(Len(g) - Len(w)) PROVE Stale(g[i], later)
    <2>1. i \in 1..Len(g)
      BY DEF EndOf
    <2>2. now - g[i] > Window
      BY DEF EndOf, Stale
    <2> QED
      BY <1>1, <1>3, <2>1, <2>2 DEF Stale
  <1> QED
    BY <1>2, <1>4 DEF EndOf

-----------------------------------------------------------------------------
\* The initial state, empty for every tenant, satisfies the invariant; so does
\* the state after a restart.
LEMMA EmptyQueues ==
    ASSUME clock \in Nat,
           windows = [t \in Tenants |-> <<>>], granted = [t \in Tenants |-> <<>>]
    PROVE  QuotaInv
  BY QuotaAssumption DEF QuotaInv, TypeOK, WindowIsSuffix, GrantsInOrder, WindowBound,
     EndOf, Ordered, Spread

\* One step of the quota keeps the invariant.
LEMMA QuotaStep == QuotaInv /\ [Next]_vars => QuotaInv'
  <1> SUFFICES ASSUME QuotaInv, [Next]_vars PROVE QuotaInv'
    OBVIOUS
  <1> USE DEF QuotaInv
  <1>t. /\ clock \in Nat
        /\ windows \in [Tenants -> Seq(Nat)] /\ granted \in [Tenants -> Seq(Nat)]
    BY DEF TypeOK
  <1>1. CASE Tick
    <2>1. PICK later \in (clock + 1)..MaxTime : clock' = later
      BY <1>1 DEF Tick
    <2>2. windows' = windows /\ granted' = granted /\ clock' \in Nat /\ clock' > clock
      BY <1>1, <1>t, <2>1, QuotaAssumption DEF Tick
    <2>3. ASSUME NEW t \in Tenants
          PROVE  EndOf(windows[t], granted[t], clock') /\ Ordered(granted[t], clock')
      <3>1. windows[t] \in Seq(Nat) /\ granted[t] \in Seq(Nat)
        BY <1>t
      <3>2. EndOf(windows[t], granted[t], clock) /\ Ordered(granted[t], clock)
        BY DEF WindowIsSuffix, GrantsInOrder
      <3> QED
        BY <1>t, <2>2, <3>1, <3>2, LaterKeeps
    <2> QED
      BY <2>2, <2>3 DEF TypeOK, WindowIsSuffix, GrantsInOrder, WindowBound
  <1>2. CASE Restart
    BY <1>2, <1>t, QuotaAssumption DEF Restart, TypeOK, WindowIsSuffix, GrantsInOrder,
       WindowBound, EndOf, Ordered, Spread
  <1>3. ASSUME NEW t \in Tenants, Grant(t) PROVE QuotaInv'
    <2>1. PICK k \in 0..Len(windows[t]) :
            /\ Evicts(windows[t], k, clock)
            /\ Len(windows[t]) - k < MaxPerHour
            /\ windows' = [windows EXCEPT ![t] = Append(Kept(windows[t], k), clock)]
      BY <1>3 DEF Grant
    <2>2. granted' = [granted EXCEPT ![t] = Append(granted[t], clock)] /\ clock' = clock
      BY <1>3 DEF Grant
    <2> DEFINE q == Kept(windows[t], k)
    <2>3. /\ windows[t] \in Seq(Nat) /\ granted[t] \in Seq(Nat)
          /\ q \in Seq(Nat) /\ Len(q) < MaxPerHour
      <3>1. windows[t] \in Seq(Nat) /\ granted[t] \in Seq(Nat)
        BY <1>t
      <3> QED
        BY <2>1, <3>1, KeptFacts
    <2>4. EndOf(q, granted[t], clock)
      BY <1>t, <2>1, <2>3, EvictionKeepsEnd DEF WindowIsSuffix
    <2>5. EndOf(Append(q, clock), Append(granted[t], clock), clock)
      BY <1>t, <2>3, <2>4, AppendKeepsEnd
    <2>6. Ordered(Append(granted[t], clock), clock)
      BY <1>t, <2>3, AppendKeepsOrder DEF GrantsInOrder
    <2>7. Spread(Append(granted[t], clock))
      BY <1>t, <2>3, <2>4, RoomKeepsSpread DEF WindowBound
    <2>8. Append(q, clock) \in Seq(Nat) /\ Append(granted[t], clock) \in Seq(Nat)
      BY <1>t, <2>3
    <2> HIDE DEF q
    <2>9. /\ windows' = [windows EXCEPT ![t] = Append(q, clock)]
          /\ windows' \in [Tenants -> Seq(Nat)] /\ granted' \in [Tenants -> Seq(Nat)]
          /\ \A u \in Tenants :
               /\ windows'[u] = IF u = t THEN Append(q, clock) ELSE windows[u]
               /\ granted'[u] = IF u = t THEN Append(granted[t], clock) ELSE granted[u]
      BY <1>t, <2>1, <2>2, <2>8 DEF q
    <2>10. WindowIsSuffix'
      BY <2>2, <2>5, <2>9 DEF WindowIsSuffix
    <2>11. GrantsInOrder'
      BY <2>2, <2>6, <2>9 DEF GrantsInOrder
    <2>12. WindowBound'
      BY <2>7, <2>9 DEF WindowBound
    <2> QED
      BY <1>t, <2>2, <2>9, <2>10, <2>11, <2>12 DEF TypeOK
  <1>4. ASSUME NEW t \in Tenants, Deny(t) PROVE QuotaInv'
    <2>1. PICK k \in 0..Len(windows[t]) :
            /\ Evicts(windows[t], k, clock)
            /\ windows' = [windows EXCEPT ![t] = Kept(windows[t], k)]
      BY <1>4 DEF Deny
    <2>2. granted' = granted /\ clock' = clock
      BY <1>4 DEF Deny
    <2> DEFINE q == Kept(windows[t], k)
    <2>3. windows[t] \in Seq(Nat) /\ granted[t] \in Seq(Nat)
      BY <1>t
    <2>4. q \in Seq(Nat)
      BY <2>3, KeptFacts
    <2>5. EndOf(q, granted[t], clock)
      BY <1>t, <2>1, <2>3, EvictionKeepsEnd DEF WindowIsSuffix
    <2> HIDE DEF q
    <2>6. /\ windows' \in [Tenants -> Seq(Nat)]
          /\ \A u \in Tenants : windows'[u] = IF u = t THEN q ELSE windows[u]
      BY <1>t, <2>1, <2>4 DEF q
    <2>7. WindowIsSuffix'
      BY <2>2, <2>5, <2>6 DEF WindowIsSuffix
    <2> QED
      BY <1>t, <2>2, <2>6, <2>7 DEF TypeOK, GrantsInOrder, WindowBound
  <1>5. CASE UNCHANGED vars
    BY <1>5 DEF vars, TypeOK, WindowIsSuffix, GrantsInOrder, WindowBound
  <1> QED
    BY <1>1, <1>2, <1>3, <1>4, <1>5 DEF Next

\* The inductive invariant holds in every behaviour of the quota.
THEOREM QuotaInvariant == Spec => []QuotaInv
  <1>1. Init => QuotaInv
    BY EmptyQueues DEF Init
  <1> QED
    BY <1>1, QuotaStep, PTL DEF Spec

\* "At most max_per_hour machine transitions per tenant in a rolling hour", for
\* every quota, window and number of tenants (api/quota.rs, acquire).
THEOREM QuotaHolds == Spec => []WindowBound
  <1>1. QuotaInv => WindowBound
    BY DEF QuotaInv
  <1> QED
    BY <1>1, QuotaInvariant, PTL

\* The queue of a tenant never loses a grant that still counts (acquire).
THEOREM QueueIsTheWindow == Spec => []WindowIsSuffix
  <1>1. QuotaInv => WindowIsSuffix
    BY DEF QuotaInv
  <1> QED
    BY <1>1, QuotaInvariant, PTL

\* A refusal means that MaxPerHour grants to the same tenant lie in the window
\* that ends now (acquire, QuotaExhausted).
THEOREM RefusalIsDeserved == Spec => DeniedOnlyWhenFull
  <1>1. ASSUME QuotaInv, NEW t \in Tenants, Deny(t)
        PROVE  /\ Len(granted[t]) >= MaxPerHour
               /\ ~Stale(granted[t][Len(granted[t]) - MaxPerHour + 1], clock)
    <2> DEFINE w == windows[t]
               g == granted[t]
    <2>1. PICK k \in 0..Len(w) : Evicts(w, k, clock) /\ Len(w) - k >= MaxPerHour
      BY <1>1 DEF Deny
    <2>2. w \in Seq(Nat) /\ g \in Seq(Nat) /\ clock \in Nat
      BY <1>1 DEF QuotaInv, TypeOK
    <2>3. EndOf(w, g, clock) /\ Ordered(g, clock)
      BY <1>1 DEF QuotaInv, WindowIsSuffix, GrantsInOrder
    <2>4. MaxPerHour \in Nat /\ MaxPerHour # 0 /\ Window \in Nat
      BY QuotaAssumption
    <2> HIDE DEF w, g
    <2>5. Len(w) \in Nat /\ Len(g) \in Nat /\ Len(g) - Len(w) \in Nat
      BY <2>2, <2>3 DEF EndOf
    <2> DEFINE first == Len(g) - Len(w) + (k + 1)
               at == Len(g) - MaxPerHour + 1
    <2>6. k + 1 \in 1..Len(w) /\ first \in 1..Len(g) /\ at \in first..Len(g) /\ at \in 1..Len(g)
      BY <2>1, <2>4, <2>5
    <2>7. w[k + 1] = g[first]
      BY <2>3, <2>6 DEF EndOf
    <2>8. ~Stale(g[first], clock)
      BY <2>1, <2>5, <2>6, <2>7 DEF Evicts
    <2> HIDE DEF first, at
    <2>9. g[first] <= g[at] /\ g[first] \in Nat /\ g[at] \in Nat
      <3>1. g[first] <= g[at]
        BY <2>3, <2>6 DEF Ordered
      <3>2. g[first] \in Nat /\ g[at] \in Nat
        BY <2>2, <2>6
      <3> QED
        BY <3>1, <3>2
    <2>10. ~Stale(g[at], clock)
      BY <2>2, <2>4, <2>8, <2>9 DEF Stale
    <2>11. Len(g) >= MaxPerHour
      BY <2>1, <2>4, <2>5
    <2> QED
      BY <2>10, <2>11 DEF g, at
  <1>2. QuotaInv /\ [Next]_vars
          => [\A t \in Tenants :
                 Deny(t) => /\ Len(granted[t]) >= MaxPerHour
                            /\ ~Stale(granted[t][Len(granted[t]) - MaxPerHour + 1], clock)]_vars
    BY <1>1
  <1> QED
    BY <1>2, QuotaInvariant, PTL DEF Spec, DeniedOnlyWhenFull

-----------------------------------------------------------------------------
(* The gate.                                                               *)

\* A check fails exactly when one of M1, M2, M3, M6 does.
LEMMA SomeCheckFails ==
    ASSUME NEW f \in GateFacts
    PROVE  (\E c \in DOMAIN GateChecks(f) : ~GateChecks(f)[c]) <=>
                \/ ~f.schemaOk
                \/ ~(f.version = 1 \/ (f.prevRow /\ f.prevSnapshot))
                \/ ~(f.sameHash = 0)
                \/ ~(f.version <= 1 \/ f.prevRow)
  <1>1. DOMAIN GateChecks(f) =
          {"M1_schema", "M2_snapshot_continuity", "M3_lexical_conflict",
           "M4_impact_radius", "M5_llm_reputation", "M6_rollback_path"}
    BY DEF GateChecks
  <1>2. /\ GateChecks(f)["M1_schema"] = f.schemaOk
        /\ GateChecks(f)["M2_snapshot_continuity"]
             = (f.version = 1 \/ (f.prevRow /\ f.prevSnapshot))
        /\ GateChecks(f)["M3_lexical_conflict"] = (f.sameHash = 0)
        /\ GateChecks(f)["M4_impact_radius"] = TRUE
        /\ GateChecks(f)["M5_llm_reputation"] = TRUE
        /\ GateChecks(f)["M6_rollback_path"] = (f.version <= 1 \/ f.prevRow)
    BY DEF GateChecks
  <1> QED BY <1>1, <1>2

\* What is no better fails no fewer checks.
LEMMA ChecksMonotone ==
    ASSUME NEW f \in GateFacts, NEW g \in GateFacts, Worse(f, g),
           f.version >= 1, g.version >= 1,
           \E c \in DOMAIN GateChecks(g) : ~GateChecks(g)[c]
    PROVE  \E c \in DOMAIN GateChecks(f) : ~GateChecks(f)[c]
  <1>1. \/ ~g.schemaOk
        \/ ~(g.version = 1 \/ (g.prevRow /\ g.prevSnapshot))
        \/ ~(g.sameHash = 0)
        \/ ~(g.version <= 1 \/ g.prevRow)
    BY SomeCheckFails
  <1>2. \/ ~f.schemaOk
        \/ ~(f.version = 1 \/ (f.prevRow /\ f.prevSnapshot))
        \/ ~(f.sameHash = 0)
        \/ ~(f.version <= 1 \/ f.prevRow)
    BY <1>1 DEF Worse, GateFacts
  <1> QED BY <1>2, SomeCheckFails

\* Some more failures do not lower a failure rate that is over the threshold, and
\* do not make the sample smaller.
LEMMA DowngradeMonotone ==
    ASSUME NEW f \in GateFacts, NEW g \in GateFacts, Worse(f, g),
           f.llmFailed <= f.llmTotal, g.llmFailed <= g.llmTotal,
           GateDowngrade(g)
    PROVE  GateDowngrade(f)
  <1> USE ThresholdAssumption DEF GateFacts, Worse
  <1>1. CASE g.entryCount > MaxDatasetEntriesT0
    BY <1>1 DEF GateDowngrade
  <1>2. CASE g.bindings > MaxServiceBindingsT0
    BY <1>2 DEF GateDowngrade
  <1>3. CASE g.llmTotal >= LlmMinSamples /\ 2 * g.llmFailed > g.llmTotal
    <2>1. f.llmTotal >= LlmMinSamples /\ 2 * f.llmFailed > f.llmTotal
      BY <1>3
    <2> QED BY <2>1 DEF GateDowngrade
  <1> QED BY <1>1, <1>2, <1>3 DEF GateDowngrade

\* The gate is monotone (evaluate, gate/mod.rs): what is no better is not given a
\* lighter tier, wherever the thresholds are.
THEOREM GateIsMonotone == GateMonotone
  <1> SUFFICES ASSUME NEW f \in GateFacts, NEW g \in GateFacts,
                      f.version >= 1, g.version >= 1,
                      f.llmFailed <= f.llmTotal, g.llmFailed <= g.llmTotal,
                      Worse(f, g)
               PROVE  NoLighter(GateTier(f), GateTier(g))
    BY DEF GateMonotone
  <1>1. CASE \E c \in DOMAIN GateChecks(g) : ~GateChecks(g)[c]
    <2>1. GateTier(f) = "T2"
      BY <1>1, ChecksMonotone DEF GateTier
    <2> QED BY <2>1 DEF NoLighter
  <1>2. CASE /\ ~\E c \in DOMAIN GateChecks(g) : ~GateChecks(g)[c]
             /\ GateDowngrade(g)
    <2>1. GateDowngrade(f)
      BY <1>2, DowngradeMonotone
    <2>2. GateTier(g) = "T1" /\ GateTier(f) \in {"T1", "T2"}
      BY <1>2, <2>1 DEF GateTier
    <2> QED BY <2>2 DEF NoLighter
  <1>3. CASE /\ ~\E c \in DOMAIN GateChecks(g) : ~GateChecks(g)[c]
             /\ ~GateDowngrade(g)
    BY <1>3 DEF GateTier, NoLighter
  <1> QED BY <1>1, <1>2, <1>3

-----------------------------------------------------------------------------
(* The audit of LLM operations.                                            *)

FailedRows(t) == {r \in Rows(t) : r.status = "failed"}

\* Failures are recorded under generated ids, in the order of their numbers.
LedgerInv ==
    /\ ledger \subseteq AuditRow /\ IsFiniteSet(ledger)
    /\ audits \in 0..MaxAudits
    /\ blamed \in [Tenants -> 0..audits]
    /\ \A r, s \in ledger : r.id = s.id => r = s
    /\ \A r \in ledger : r.id \in RequestIds \union (1..audits)
    /\ \A r \in ledger : r.status = "failed" => r.id \in 1..audits
    /\ OwnFailures

\* What is counted of a tenant: its rows, and among them the failures.
LEMMA CountFacts ==
    ASSUME LedgerInv, NEW t \in Tenants
    PROVE  /\ IsFiniteSet(FailedRows(t))
           /\ Total(t) \in Nat /\ Failed(t) \in Nat /\ Failed(t) <= Total(t)
           /\ Failed(t) = Cardinality(FailedRows(t))
  <1>1. Rows(t) \subseteq ledger /\ FailedRows(t) \subseteq Rows(t)
    BY DEF Rows, FailedRows
  <1>2. IsFiniteSet(Rows(t))
    BY <1>1, FS_Subset DEF LedgerInv
  <1>3. /\ IsFiniteSet(FailedRows(t))
        /\ Cardinality(FailedRows(t)) <= Cardinality(Rows(t))
    BY <1>1, <1>2, FS_Subset
  <1> QED
    BY <1>2, <1>3, FS_CardinalityType DEF Total, Failed, FailedRows

\* One row is written, over another of its id if there is one (record_llm_audit).
LEMMA RecordedLedger ==
    ASSUME LedgerInv, NEW t \in Tenants, NEW id \in RequestIds \union (1..MaxAudits),
           NEW s \in {"completed", "failed", "received"}, Recorded(id, t, s)
    PROVE  /\ ledger' \subseteq AuditRow /\ IsFiniteSet(ledger')
           /\ \A r, q \in ledger' : r.id = q.id => r = q
           /\ \A r \in ledger' : r \in ledger \/ (r.id = id /\ r.status = s)
           /\ id \notin 1..audits => \A u \in Tenants :
                FailedRows(u)' = IF s = "failed" /\ u = t
                                 THEN FailedRows(u) \union {[id |-> id, tenant |-> t, status |-> s]}
                                 ELSE FailedRows(u)
  <1> DEFINE kept == {r \in ledger : r.id # id}
             row == [id |-> id, tenant |-> t, status |-> s]
  <1>1. ledger' = kept \union {row}
    BY DEF Recorded
  <1>2. row \in AuditRow /\ row.id = id /\ row.status = s /\ row.tenant = t
    BY DEF AuditRow
  <1>3. kept \subseteq ledger /\ \A r \in kept : r.id # id
    OBVIOUS
  <1>4. IsFiniteSet(kept)
    BY <1>3, FS_Subset DEF LedgerInv
  <1> DEFINE all == kept \union {row}
  <1>5. IsFiniteSet(all)
    BY <1>4, FS_AddElement
  <1>6. ASSUME id \notin 1..audits, NEW u \in Tenants
        PROVE  FailedRows(u)' = IF s = "failed" /\ u = t THEN FailedRows(u) \union {row}
                                ELSE FailedRows(u)
    <2>1. \A r \in ledger : r.status = "failed" => r \in kept
      BY <1>6 DEF LedgerInv
    <2> HIDE DEF row, kept
    <2> QED
      BY <1>1, <1>2, <1>3, <2>1 DEF FailedRows, Rows
  <1> HIDE DEF row, kept
  <1> QED
    BY <1>1, <1>2, <1>3, <1>5, <1>6 DEF LedgerInv, row

\* An operation of a tenant charges nobody else, and its failures are all on record:
\* the row that a caller's id may replace is never that of a failure (run_llm_op).
LEMMA LedgerStep ==
    ASSUME LedgerInv, LedgerNext
    PROVE  LedgerInv' /\ \A u \in Tenants : blamed'[u] >= blamed[u]
  <1>1. ASSUME NEW t \in Tenants, NEW id \in RequestIds, Complete(t, id)
        PROVE  LedgerInv' /\ \A u \in Tenants : blamed'[u] >= blamed[u]
    <2>1. Recorded(id, t, "completed") /\ audits' = audits /\ blamed' = blamed
      BY <1>1 DEF Complete
    <2>2. id \notin 1..audits
      BY InvocationAssumption DEF LedgerInv
    <2>3. /\ ledger' \subseteq AuditRow /\ IsFiniteSet(ledger')
          /\ \A r, q \in ledger' : r.id = q.id => r = q
          /\ \A r \in ledger' : r \in ledger \/ (r.id = id /\ r.status = "completed")
          /\ \A u \in Tenants : FailedRows(u)' = FailedRows(u)
      BY <2>1, <2>2, RecordedLedger
    <2>4. OwnFailures'
      BY <2>1, <2>3 DEF LedgerInv, OwnFailures, Failed, FailedRows
    <2>5. \A u \in Tenants : blamed[u] \in Nat
      BY DEF LedgerInv
    <2> QED
      BY <2>1, <2>3, <2>4, <2>5 DEF LedgerInv
  <1>2. ASSUME NEW t \in Tenants, NEW s \in {"completed", "failed", "received"},
               RecordedAsNew(t, s),
               blamed' = IF s = "failed" THEN [blamed EXCEPT ![t] = @ + 1] ELSE blamed
        PROVE  LedgerInv' /\ \A u \in Tenants : blamed'[u] >= blamed[u]
    <2> DEFINE id == audits + 1
               row == [id |-> id, tenant |-> t, status |-> s]
    <2>1. /\ audits < MaxAudits /\ audits' = id /\ Recorded(id, t, s)
          /\ audits \in Nat /\ id \in 1..MaxAudits /\ id \notin 1..audits
          /\ id \in 1..id /\ 1..audits \subseteq 1..id /\ audits' \in 0..MaxAudits
      BY <1>2, InvocationAssumption DEF RecordedAsNew, LedgerInv
    <2> HIDE DEF id
    <2>2. /\ ledger' \subseteq AuditRow /\ IsFiniteSet(ledger')
          /\ \A r, q \in ledger' : r.id = q.id => r = q
          /\ \A r \in ledger' : r \in ledger \/ (r.id = id /\ r.status = s)
          /\ \A u \in Tenants :
               FailedRows(u)' = IF s = "failed" /\ u = t THEN FailedRows(u) \union {row}
                                ELSE FailedRows(u)
      BY <2>1, RecordedLedger
    <2>3. /\ \A r \in ledger' : r.id \in RequestIds \union (1..audits')
          /\ \A r \in ledger' : r.status = "failed" => r.id \in 1..audits'
      BY <2>1, <2>2 DEF LedgerInv
    <2>4. \A u \in Tenants : blamed[u] \in 0..audits
      BY DEF LedgerInv
    <2>5. \A u \in Tenants :
            blamed'[u] = IF s = "failed" /\ u = t THEN blamed[u] + 1 ELSE blamed[u]
      BY <1>2 DEF LedgerInv
    <2>6. /\ blamed' \in [Tenants -> 0..audits']
          /\ \A u \in Tenants : blamed'[u] >= blamed[u]
      <3>1. \A u \in Tenants : blamed'[u] \in 0..audits' /\ blamed'[u] >= blamed[u]
        BY <2>1, <2>4, <2>5 DEF id
      <3>2. blamed' = [u \in Tenants |-> blamed'[u]]
        BY <1>2 DEF LedgerInv
      <3> QED
        BY <3>1, <3>2
    <2>7. row \notin FailedRows(t)
      BY <2>1 DEF FailedRows, Rows, LedgerInv
    <2> HIDE DEF row
    <2>8. ASSUME NEW u \in Tenants PROVE Cardinality(FailedRows(u)') = blamed'[u]
      <3>1. IsFiniteSet(FailedRows(u)) /\ Cardinality(FailedRows(u)) = blamed[u]
        BY CountFacts DEF LedgerInv, OwnFailures
      <3>2. CASE s = "failed" /\ u = t
        BY <2>2, <2>5, <2>7, <3>1, <3>2, FS_AddElement
      <3>3. CASE ~(s = "failed" /\ u = t)
        BY <2>2, <2>5, <3>1, <3>3
      <3> QED
        BY <3>2, <3>3
    <2>9. OwnFailures'
      BY <2>8 DEF OwnFailures, Failed, FailedRows
    <2> QED
      BY <2>1, <2>2, <2>3, <2>6, <2>9 DEF LedgerInv
  <1>3. PICK t \in Tenants :
          \/ \E id \in RequestIds : Complete(t, id)
          \/ CompleteUnnamed(t) \/ Fail(t) \/ ReceiveFailure(t)
    BY DEF LedgerNext
  <1>4. CASE CompleteUnnamed(t) \/ ReceiveFailure(t)
    BY <1>2, <1>4 DEF CompleteUnnamed, ReceiveFailure
  <1>5. CASE Fail(t)
    BY <1>2, <1>5 DEF Fail
  <1> QED
    BY <1>1, <1>3, <1>4, <1>5

-----------------------------------------------------------------------------
(* Promotions and grants, of one tenant.                                   *)

\* due grants, counted back from the last one, are no older than since.
Backed(g, due, since) ==
    due >= 1 => due <= Len(g) /\ g[Len(g) + 1 - due] >= since

\* Fewer of them are no older either.
LEMMA FewerAreBacked ==
    ASSUME NEW g \in Seq(Nat), NEW now \in Nat, Ordered(g, now), NEW since \in Nat,
           NEW due \in Int, NEW d \in Int, d <= due, Backed(g, due, since)
    PROVE  Backed(g, d, since)
  <1> SUFFICES ASSUME d >= 1 PROVE d <= Len(g) /\ g[Len(g) + 1 - d] >= since
    BY DEF Backed
  <1> DEFINE i == Len(g) + 1 - due
             j == Len(g) + 1 - d
  <1>1. due >= 1 /\ due <= Len(g) /\ g[i] >= since /\ Len(g) \in Nat
    BY DEF Backed
  <1>2. i \in 1..Len(g) /\ j \in i..Len(g) /\ j \in 1..Len(g)
    BY <1>1
  <1> HIDE DEF i, j
  <1>3. g[i] <= g[j]
    BY <1>2 DEF Ordered
  <1>4. g[i] \in Nat /\ g[j] \in Nat
    BY <1>2
  <1> QED
    BY <1>1, <1>3, <1>4 DEF j

\* One more of them is needed, and one more is granted.
LEMMA GrantIsBacked ==
    ASSUME NEW g \in Seq(Nat), NEW now \in Nat, NEW since \in Nat, since <= now,
           NEW due \in Int, Backed(g, due, since)
    PROVE  Backed(Append(g, now), due + 1, since)
  <1> DEFINE G == Append(g, now)
  <1>1. /\ Len(g) \in Nat /\ Len(G) = Len(g) + 1
        /\ \A i \in 1..Len(g) : G[i] = g[i]
        /\ G[Len(g) + 1] = now
    OBVIOUS
  <1> HIDE DEF G
  <1>2. CASE due >= 1
    <2>1. due <= Len(g) /\ g[Len(g) + 1 - due] >= since
      BY <1>2 DEF Backed
    <2>2. Len(g) + 1 - due \in 1..Len(g) /\ Len(G) + 1 - (due + 1) = Len(g) + 1 - due
      BY <1>1, <1>2, <2>1
    <2>3. G[Len(G) + 1 - (due + 1)] = g[Len(g) + 1 - due]
      BY <1>1, <2>2
    <2> QED
      BY <1>1, <2>1, <2>3 DEF Backed, G
  <1>3. CASE due = 0
    <2>1. Len(G) + 1 - (due + 1) = Len(g) + 1
      BY <1>1, <1>3
    <2> QED
      BY <1>1, <1>3, <2>1 DEF Backed, G
  <1>4. CASE due < 0
    BY <1>4 DEF Backed
  <1> QED
    BY <1>2, <1>3, <1>4

\* More than MaxPerHour of them take more than a window.
LEMMA BackedIsFar ==
    ASSUME NEW g \in Seq(Nat), NEW now \in Nat, Ordered(g, now), Spread(g), NEW since \in Nat,
           Backed(g, MaxPerHour + 1, since)
    PROVE  now - since > Window
  <1> DEFINE i == Len(g) + 1 - (MaxPerHour + 1)
  <1>1. MaxPerHour \in Nat /\ Window \in Nat /\ Len(g) \in Nat
    BY QuotaAssumption
  <1>2. MaxPerHour + 1 <= Len(g) /\ g[i] >= since
    BY <1>1 DEF Backed
  <1>3. i \in 1..Len(g) /\ i + MaxPerHour = Len(g) /\ Len(g) \in 1..Len(g)
    BY <1>1, <1>2
  <1> HIDE DEF i
  <1>4. g[i + MaxPerHour] - g[i] > Window
    BY <1>3 DEF Spread
  <1>5. g[Len(g)] <= now /\ g[Len(g)] \in Nat /\ g[i] \in Nat
    BY <1>3 DEF Ordered
  <1> QED
    BY <1>1, <1>2, <1>3, <1>4, <1>5, SMTT(60)

-----------------------------------------------------------------------------
(* The requests at work.                                                   *)

\* The requests that took a unit of the quota of t and are still at work.
Holding(t) ==
    {h \in Handlers : task[h] # None /\ task[h].pc # "quota" /\ Owner[task[h].entry] = t}

\* A request has hops to go once it was judged, and is sent to post-review only after
\* enough failures of its own tenant, as counted by charged.
Sound(t, charged) ==
    /\ t.pc \in {"read", "write"} => t.plan \in {<<"Active">>, <<"Candidate", "Active">>}
    /\ t.tier = "T1" => 2 * charged[Owner[t.entry]] > LlmMinSamples

TaskInv ==
    /\ status \in [Entries -> LifecycleStatus \union {None}]
    /\ task \in [Handlers -> Task \union {None}]
    /\ \A h \in Handlers : task[h] # None => Sound(task[h], blamed)

\* The grants that must have come after promotion i of t: the promotions since then and
\* those that may come, less the requests that were at work when it was made.
Due(t, i) == Len(promoted[t]) - i + Cardinality(Holding(t)) + 1 - Cardinality(Handlers)

PromotionInv ==
    /\ promoted \in [Tenants -> Seq(Nat)]
    /\ \A t \in Tenants : \A i \in 1..Len(promoted[t]) :
         /\ promoted[t][i] <= clock
         /\ Backed(granted[t], Due(t, i), promoted[t][i])
    /\ PromotionBound

InvocationInv == QuotaInv /\ LedgerInv /\ TaskInv /\ PromotionInv

\* The numbers that Due is made of.
LEMMA HoldingFacts ==
    ASSUME NEW t \in Tenants
    PROVE  /\ IsFiniteSet(Holding(t)) /\ Cardinality(Holding(t)) \in Nat
           /\ IsFiniteSet(Holding(t)') /\ Cardinality(Holding(t)') \in Nat
           /\ Cardinality(Handlers) \in Nat
           /\ Holding(t)' \subseteq Holding(t) => Cardinality(Holding(t)') <= Cardinality(Holding(t))
  <1>1. Holding(t) \subseteq Handlers /\ Holding(t)' \subseteq Handlers
    BY DEF Holding
  <1>2. IsFiniteSet(Holding(t)) /\ IsFiniteSet(Holding(t)') /\ IsFiniteSet(Handlers)
    BY <1>1, FS_Subset, InvocationAssumption
  <1> QED
    BY <1>2, FS_CardinalityType, FS_Subset

\* Nobody is granted or promotes anything, and no request comes to hold a unit: what was
\* due may be less, at a later time.
LEMMA PromotionsStay ==
    ASSUME QuotaInv, PromotionInv, promoted' = promoted, granted' = granted,
           clock' \in Nat, clock' >= clock,
           \A t \in Tenants : Holding(t)' \subseteq Holding(t)
    PROVE  PromotionInv'
  <1>1. clock \in Nat /\ granted \in [Tenants -> Seq(Nat)]
    BY DEF QuotaInv, TypeOK
  <1>2. ASSUME NEW t \in Tenants, NEW i \in 1..Len(promoted[t])
        PROVE  /\ promoted[t][i] <= clock'
               /\ Backed(granted[t], Due(t, i)', promoted[t][i])
    <2>1. /\ promoted[t] \in Seq(Nat) /\ promoted[t][i] \in Nat /\ granted[t] \in Seq(Nat)
          /\ promoted[t][i] <= clock /\ Backed(granted[t], Due(t, i), promoted[t][i])
          /\ i \in Nat /\ Len(promoted[t]) \in Nat
      BY <1>1 DEF PromotionInv
    <2>2. Due(t, i) \in Int /\ Due(t, i)' \in Int /\ Due(t, i)' <= Due(t, i)
      <3> DEFINE held == Cardinality(Holding(t))
                 heldThen == Cardinality(Holding(t)')
                 n == Len(promoted[t])
                 all == Cardinality(Handlers)
      <3>1. held \in Nat /\ heldThen \in Nat /\ heldThen <= held /\ all \in Nat /\ n \in Nat
        BY <2>1, HoldingFacts
      <3>2. Due(t, i) = n - i + held + 1 - all /\ Due(t, i)' = n - i + heldThen + 1 - all
        BY DEF Due
      <3> HIDE DEF held, heldThen, n, all
      <3> QED
        BY <2>1, <3>1, <3>2
    <2>3. Ordered(granted[t], clock)
      BY DEF QuotaInv, GrantsInOrder
    <2> QED
      BY <1>1, <2>1, <2>2, <2>3, FewerAreBacked
  <1> QED
    BY <1>2 DEF PromotionInv, PromotionBound

\* A request of t comes to hold a unit that is granted now.
LEMMA PromotionsAtGrant ==
    ASSUME QuotaInv, PromotionInv, NEW t \in Tenants, NEW h \in Handlers, Grant(t),
           promoted' = promoted, Holding(t)' \subseteq Holding(t) \union {h},
           \A u \in Tenants \ {t} : Holding(u)' \subseteq Holding(u)
    PROVE  PromotionInv'
  <1>1. clock \in Nat /\ granted \in [Tenants -> Seq(Nat)]
    BY DEF QuotaInv, TypeOK
  <1>2. clock' = clock /\ granted' = [granted EXCEPT ![t] = Append(granted[t], clock)]
    BY DEF Grant
  <1>3. \A u \in Tenants :
          granted'[u] = IF u = t THEN Append(granted[t], clock) ELSE granted[u]
    BY <1>1, <1>2
  <1>4. ASSUME NEW u \in Tenants, NEW i \in 1..Len(promoted[u])
        PROVE  Backed(granted'[u], Due(u, i)', promoted[u][i])
    <2> DEFINE held == Cardinality(Holding(u))
               heldThen == Cardinality(Holding(u)')
               n == Len(promoted[u])
               all == Cardinality(Handlers)
    <2>1. /\ promoted[u] \in Seq(Nat) /\ promoted[u][i] \in Nat /\ granted[u] \in Seq(Nat)
          /\ promoted[u][i] <= clock /\ Backed(granted[u], Due(u, i), promoted[u][i])
          /\ i \in Nat /\ n \in Nat
      BY <1>1 DEF PromotionInv
    <2>2. held \in Nat /\ heldThen \in Nat /\ all \in Nat
      BY HoldingFacts
    <2>3. Due(u, i) = n - i + held + 1 - all /\ Due(u, i)' = n - i + heldThen + 1 - all
      BY DEF Due
    <2>4. Ordered(granted[u], clock)
      BY DEF QuotaInv, GrantsInOrder
    <2>5. CASE u = t
      <3>1. heldThen <= held + 1
        <4>1. IsFiniteSet(Holding(t))
          BY HoldingFacts
        <4> DEFINE more == Holding(t) \union {h}
        <4>2. IsFiniteSet(more) /\ Cardinality(more) <= Cardinality(Holding(t)) + 1
          <5>1. Cardinality(Holding(t)) \in Nat
            BY HoldingFacts
          <5>2. IsFiniteSet(more) /\ Cardinality(more) \in {Cardinality(Holding(t)), Cardinality(Holding(t)) + 1}
            BY <4>1, FS_AddElement
          <5> HIDE DEF more
          <5> QED
            BY <5>1, <5>2
        <4>3. Cardinality(Holding(t)') <= Cardinality(more)
          BY <4>2, FS_Subset
        <4> QED
          BY <2>2, <2>5, <4>2, <4>3, FS_CardinalityType
      <3> HIDE DEF held, heldThen, n, all
      <3>2. /\ Due(u, i) \in Int /\ Due(u, i)' \in Int /\ Due(u, i) + 1 \in Int
            /\ Due(u, i)' <= Due(u, i) + 1
        BY <2>1, <2>2, <2>3, <3>1
      <3>3. Backed(granted'[u], Due(u, i) + 1, promoted[u][i])
        BY <1>1, <1>3, <2>1, <2>5, <3>2, GrantIsBacked
      <3>4. granted'[u] \in Seq(Nat) /\ Ordered(granted'[u], clock)
        <4>1. granted'[u] = Append(granted[u], clock)
          BY <1>3, <2>5
        <4>2. granted'[u] \in Seq(Nat)
          BY <1>1, <2>1, <4>1
        <4>3. Ordered(granted'[u], clock)
          BY <1>1, <2>1, <2>4, <4>1, AppendKeepsOrder
        <4> QED
          BY <4>2, <4>3
      <3> QED
        BY <1>1, <2>1, <3>2, <3>3, <3>4, FewerAreBacked
    <2>6. CASE u # t
      <3>1. heldThen <= held
        BY <2>6, HoldingFacts
      <3> HIDE DEF held, heldThen, n, all
      <3>2. Due(u, i) \in Int /\ Due(u, i)' \in Int /\ Due(u, i)' <= Due(u, i)
        BY <2>1, <2>2, <2>3, <3>1
      <3> QED
        BY <1>1, <1>3, <2>1, <2>4, <2>6, <3>2, FewerAreBacked
    <2> QED
      BY <2>5, <2>6
  <1> QED
    BY <1>2, <1>4 DEF PromotionInv, PromotionBound

\* A request of t gives up its unit and promotes an entry.
LEMMA PromotionsGrow ==
    ASSUME QuotaInv, PromotionInv, NEW t \in Tenants, NEW h \in Holding(t),
           UNCHANGED quotaVars, Holding(t)' = Holding(t) \ {h},
           \A u \in Tenants \ {t} : Holding(u)' \subseteq Holding(u),
           promoted' = [promoted EXCEPT ![t] = Append(promoted[t], clock)]
    PROVE  PromotionInv'
  <1> DEFINE P == promoted[t]
             Q == Append(P, clock)
             held == Cardinality(Holding(t))
             heldThen == Cardinality(Holding(t)')
             all == Cardinality(Handlers)
             n == Len(P)
  <1>1. /\ clock \in Nat /\ granted \in [Tenants -> Seq(Nat)]
        /\ clock' = clock /\ granted' = granted
        /\ \A u \in Tenants : Ordered(granted[u], clock) /\ Spread(granted[u])
    BY DEF QuotaInv, TypeOK, quotaVars, GrantsInOrder, WindowBound
  <1>2. promoted \in [Tenants -> Seq(Nat)] /\ P \in Seq(Nat) /\ n \in Nat
    BY DEF PromotionInv
  <1>3. /\ Q \in Seq(Nat) /\ Len(Q) = n + 1 /\ Q[n + 1] = clock
        /\ \A i \in 1..n : Q[i] = P[i]
    BY <1>1, <1>2
  <1>4. /\ promoted' \in [Tenants -> Seq(Nat)]
        /\ \A u \in Tenants : promoted'[u] = IF u = t THEN Q ELSE promoted[u]
    BY <1>2, <1>3
  <1>5. held \in Nat /\ heldThen + 1 = held /\ heldThen \in Nat /\ all \in Nat /\ held <= all
    <2>1. /\ IsFiniteSet(Holding(t)) /\ held \in Nat /\ heldThen \in Nat /\ all \in Nat
      BY HoldingFacts
    <2>2. heldThen = held - 1
      BY <2>1, FS_RemoveElement
    <2>3. held <= all
      <3>1. Holding(t) \subseteq Handlers
        BY DEF Holding
      <3> QED
        BY <3>1, FS_Subset, InvocationAssumption
    <2> HIDE DEF held, heldThen, all
    <2> QED
      BY <2>1, <2>2, <2>3
  <1>6. ASSUME NEW i \in 1..(n + 1)
        PROVE  /\ Due(t, i) = n - i + held + 1 - all
               /\ Due(t, i)' = n + 1 - i + heldThen + 1 - all
    <2>1. Due(t, i) = n - i + held + 1 - all
      BY DEF Due
    <2>2. Len(promoted'[t]) = n + 1
      BY <1>3, <1>4
    <2>3. Due(t, i)' = Len(promoted'[t]) - i + heldThen + 1 - all
      BY DEF Due
    <2> QED
      BY <2>1, <2>2, <2>3
  <1> HIDE DEF Q, held, heldThen, all, n, P
  <1>7. ASSUME NEW i \in 1..n
        PROVE  /\ P[i] \in Nat /\ P[i] <= clock
               /\ Due(t, i)' = Due(t, i) /\ Due(t, i) \in Int
               /\ Backed(granted[t], Due(t, i), P[i])
    <2>1. P[i] \in Nat /\ i \in Nat /\ i \in 1..(n + 1)
      BY <1>2 DEF n
    <2>2. P[i] <= clock /\ Backed(granted[t], Due(t, i), P[i])
      BY DEF PromotionInv, P, n
    <2>3. Due(t, i)' = Due(t, i) /\ Due(t, i) \in Int
      BY <1>2, <1>5, <1>6, <2>1
    <2> QED
      BY <2>1, <2>2, <2>3
  <1>8. ASSUME NEW i \in 1..(n + 1)
        PROVE  Q[i] <= clock /\ Backed(granted[t], Due(t, i)', Q[i])
    <2>1. CASE i \in 1..n
      <3>1. Q[i] = P[i]
        BY <1>3, <2>1
      <3>2. P[i] <= clock /\ Due(t, i)' = Due(t, i) /\ Backed(granted[t], Due(t, i), P[i])
        BY <1>7, <2>1
      <3> QED
        BY <3>1, <3>2
    <2>2. CASE i = n + 1
      <3>1. Due(t, i)' \in Int /\ ~(Due(t, i)' >= 1)
        BY <1>2, <1>5, <1>6, <2>2
      <3> QED
        BY <1>1, <1>3, <2>2, <3>1 DEF Backed
    <2> QED
      BY <1>2, <2>1, <2>2
  <1>9. ASSUME NEW u \in Tenants \ {t}, NEW i \in 1..Len(promoted[u])
        PROVE  promoted[u][i] <= clock /\ Backed(granted[u], Due(u, i)', promoted[u][i])
    <2> DEFINE k == Cardinality(Holding(u))
               kThen == Cardinality(Holding(u)')
               m == Len(promoted[u])
    <2>1. /\ promoted[u] \in Seq(Nat) /\ promoted[u][i] \in Nat /\ granted[u] \in Seq(Nat)
          /\ promoted[u][i] <= clock /\ Backed(granted[u], Due(u, i), promoted[u][i])
          /\ i \in Nat /\ m \in Nat
      <3>1. promoted[u] \in Seq(Nat) /\ granted[u] \in Seq(Nat)
        BY <1>1, <1>2
      <3>2. promoted[u][i] <= clock /\ Backed(granted[u], Due(u, i), promoted[u][i])
        BY DEF PromotionInv
      <3> QED
        BY <3>1, <3>2
    <2>2. k \in Nat /\ kThen \in Nat /\ kThen <= k
      BY HoldingFacts
    <2>3. Due(u, i) = m - i + k + 1 - all /\ Due(u, i)' = m - i + kThen + 1 - all
      BY <1>4 DEF Due, all
    <2> HIDE DEF k, kThen, m
    <2>4. Due(u, i) \in Int /\ Due(u, i)' \in Int /\ Due(u, i)' <= Due(u, i)
      BY <1>5, <2>1, <2>2, <2>3
    <2> QED
      BY <1>1, <2>1, <2>4, FewerAreBacked
  <1>10. ASSUME NEW i \in 1..(n + 1), i + (MaxPerHour + all) <= n + 1
         PROVE  Q[i + (MaxPerHour + all)] - Q[i] > Window
    <2>1. MaxPerHour \in Nat /\ MaxPerHour # 0 /\ Window \in Nat
      BY QuotaAssumption
    <2>2. i \in 1..n
      BY <1>2, <1>5, <1>10, <2>1
    <2>3. CASE i + (MaxPerHour + all) <= n
      <3>1. i + (MaxPerHour + all) \in 1..n
        BY <1>2, <1>5, <2>1, <2>2, <2>3
      <3>2. P[i + (MaxPerHour + all)] - P[i] > Window
        BY <2>2, <2>3 DEF PromotionInv, PromotionBound, P, n, all
      <3> QED
        BY <1>3, <2>2, <3>1, <3>2
    <2>4. CASE i + (MaxPerHour + all) = n + 1
      <3>1. MaxPerHour + 1 <= Due(t, i) /\ MaxPerHour + 1 \in Int
        <4>1. held >= 1
          BY <1>5
        <4>2. Due(t, i) = n - i + held + 1 - all
          BY <1>6
        <4> QED
          BY <1>2, <1>5, <2>1, <2>2, <2>4, <4>1, <4>2
      <3>2. granted[t] \in Seq(Nat)
        BY <1>1
      <3>3. Backed(granted[t], MaxPerHour + 1, P[i])
        BY <1>1, <1>7, <2>2, <3>1, <3>2, FewerAreBacked
      <3>4. clock - P[i] > Window
        BY <1>1, <1>7, <2>2, <3>2, <3>3, BackedIsFar
      <3> QED
        BY <1>3, <2>2, <2>4, <3>4
    <2>5. i + (MaxPerHour + all) <= n \/ i + (MaxPerHour + all) = n + 1
      BY <1>2, <1>5, <1>10, <2>1
    <2> QED
      BY <2>3, <2>4, <2>5
  <1>11. PromotionBound'
    <2>1. ASSUME NEW u \in Tenants \ {t}, NEW i \in 1..Len(promoted[u]),
                 i + (MaxPerHour + Cardinality(Handlers)) <= Len(promoted[u])
          PROVE  promoted[u][i + (MaxPerHour + Cardinality(Handlers))] - promoted[u][i] > Window
      BY <2>1 DEF PromotionInv, PromotionBound
    <2> QED
      BY <1>3, <1>4, <1>10, <2>1, ZenonT(60) DEF PromotionBound, all
  <1>12. \A u \in Tenants : \A i \in 1..Len(promoted'[u]) :
            promoted'[u][i] <= clock' /\ Backed(granted'[u], Due(u, i)', promoted'[u][i])
    BY <1>1, <1>3, <1>4, <1>8, <1>9
  <1> QED
    BY <1>4, <1>11, <1>12 DEF PromotionInv
-----------------------------------------------------------------------------
(* The steps.                                                              *)

\* One request goes on, and all the others stay.
LEMMA OneTaskMoves ==
    ASSUME TaskInv, NEW h \in Handlers, NEW r \in Task \union {None},
           r # None => Sound(r, blamed), task' = [task EXCEPT ![h] = r], blamed' = blamed,
           status' \in [Entries -> LifecycleStatus \union {None}]
    PROVE  /\ TaskInv' /\ task'[h] = r
           /\ \A x \in Handlers \ {h} : task'[x] = task[x]
  <1>1. \A x \in Handlers : task'[x] = IF x = h THEN r ELSE task[x]
    BY DEF TaskInv
  <1>2. task' \in [Handlers -> Task \union {None}]
    BY DEF TaskInv
  <1>3. ASSUME NEW x \in Handlers, task'[x] # None PROVE Sound(task'[x], blamed')
    BY <1>1, <1>3 DEF TaskInv, Sound
  <1> QED
    BY <1>1, <1>2, <1>3 DEF TaskInv

\* It comes to hold a unit of the quota only when it is granted one.
LEMMA HoldingMoves ==
    ASSUME NEW h \in Handlers, NEW r, task'[h] = r,
           \A x \in Handlers \ {h} : task'[x] = task[x], NEW u \in Tenants
    PROVE  /\ \/ r = None \/ r.pc = "quota"
              \/ task[h] # None /\ task[h].pc # "quota" /\ task[h].entry = r.entry
              => Holding(u)' \subseteq Holding(u)
           /\ Owner[r.entry] # u => Holding(u)' \subseteq Holding(u)
           /\ Holding(u)' \subseteq Holding(u) \union {h}
           /\ r = None => Holding(u)' = Holding(u) \ {h}
  BY DEF Holding

\* The request of h goes on; the quota and the promotions are left alone.
LEMMA QuietMove ==
    ASSUME InvocationInv, NEW h \in Handlers, NEW r \in Task \union {None},
           r # None => Sound(r, blamed), task' = [task EXCEPT ![h] = r],
           \/ r = None \/ r.pc = "quota"
           \/ task[h] # None /\ task[h].pc # "quota" /\ task[h].entry = r.entry,
           UNCHANGED <<quotaVars, auditVars, promoted>>,
           status' \in [Entries -> LifecycleStatus \union {None}]
    PROVE  InvocationInv'
  <1>1. /\ clock' = clock /\ windows' = windows /\ granted' = granted
        /\ ledger' = ledger /\ audits' = audits /\ blamed' = blamed /\ promoted' = promoted
    BY DEF quotaVars, auditVars
  <1>2. QuotaInv'
    BY <1>1, QuotaStep DEF InvocationInv, vars
  <1>3. LedgerInv'
    BY <1>1 DEF InvocationInv, LedgerInv, OwnFailures, Failed, Rows
  <1>4. TaskInv' /\ task'[h] = r /\ \A x \in Handlers \ {h} : task'[x] = task[x]
    BY <1>1, OneTaskMoves DEF InvocationInv
  <1>5. \A t \in Tenants : Holding(t)' \subseteq Holding(t)
    BY <1>4, HoldingMoves
  <1>6. clock \in Nat /\ clock' \in Nat /\ clock' >= clock
    BY <1>1 DEF InvocationInv, QuotaInv, TypeOK
  <1>7. PromotionInv'
    BY <1>1, <1>5, <1>6, PromotionsStay DEF InvocationInv
  <1> QED
    BY <1>2, <1>3, <1>4, <1>7 DEF InvocationInv

\* Nothing happens to the requests at work, but some of them read what is not the latest
\* version any more.
LEMMA OthersMove ==
    ASSUME InvocationInv, UNCHANGED <<quotaVars, auditVars, promoted>>,
           status' \in [Entries -> LifecycleStatus \union {None}],
           \/ task' = task
           \/ \E e \in Entries :
                task' = [h \in Handlers |->
                           IF task[h] # None /\ task[h].entry = e
                           THEN [task[h] EXCEPT !.latest = FALSE] ELSE task[h]]
    PROVE  InvocationInv'
  <1>1. /\ clock' = clock /\ windows' = windows /\ granted' = granted
        /\ ledger' = ledger /\ audits' = audits /\ blamed' = blamed /\ promoted' = promoted
    BY DEF quotaVars, auditVars
  <1>2. QuotaInv'
    BY <1>1, QuotaStep DEF InvocationInv, vars
  <1>3. LedgerInv'
    BY <1>1 DEF InvocationInv, LedgerInv, OwnFailures, Failed, Rows
  <1>4. ASSUME NEW h \in Handlers
        PROVE  \/ task'[h] = task[h]
               \/ task[h] # None /\ task'[h] = [task[h] EXCEPT !.latest = FALSE]
    <2>1. CASE task' = task
      BY <2>1
    <2>2. ASSUME NEW e \in Entries,
                 task' = [x \in Handlers |->
                            IF task[x] # None /\ task[x].entry = e
                            THEN [task[x] EXCEPT !.latest = FALSE] ELSE task[x]]
          PROVE  \/ task'[h] = task[h]
                 \/ task[h] # None /\ task'[h] = [task[h] EXCEPT !.latest = FALSE]
      BY <2>2
    <2> QED
      BY <2>1, <2>2
  <1>5. ASSUME NEW h \in Handlers
        PROVE  /\ task'[h] \in Task \union {None}
               /\ task'[h] # None => Sound(task'[h], blamed')
               /\ task'[h] # None => task[h] # None /\ task'[h].pc = task[h].pc
                                     /\ task'[h].entry = task[h].entry
    <2>1. task[h] \in Task \union {None} /\ (task[h] # None => Sound(task[h], blamed))
      BY DEF InvocationInv, TaskInv
    <2>2. CASE task'[h] = task[h]
      BY <1>1, <2>1, <2>2 DEF Sound
    <2>3. CASE task[h] # None /\ task'[h] = [task[h] EXCEPT !.latest = FALSE]
      <3>1. task'[h] \in Task
        BY <2>1, <2>3 DEF Task
      <3>2. /\ task'[h].pc = task[h].pc /\ task'[h].entry = task[h].entry
            /\ task'[h].plan = task[h].plan /\ task'[h].tier = task[h].tier
        BY <2>1, <2>3 DEF Task
      <3> QED
        BY <1>1, <2>1, <2>3, <3>1, <3>2 DEF Sound
    <2> QED
      BY <1>4, <2>2, <2>3
  <1>6. task' \in [Handlers -> Task \union {None}]
    <2>1. task' = [h \in Handlers |-> task'[h]]
      BY DEF InvocationInv, TaskInv
    <2> QED
      BY <1>5, <2>1
  <1>7. TaskInv'
    BY <1>5, <1>6 DEF TaskInv
  <1>8. \A t \in Tenants : Holding(t)' \subseteq Holding(t)
    BY <1>5 DEF Holding
  <1>9. clock \in Nat /\ clock' \in Nat /\ clock' >= clock
    BY <1>1 DEF InvocationInv, QuotaInv, TypeOK
  <1>10. PromotionInv'
    BY <1>1, <1>8, <1>9, PromotionsStay DEF InvocationInv
  <1> QED
    BY <1>2, <1>3, <1>7, <1>10 DEF InvocationInv
\* An operation on an LLM: more failures may be charged.
LEMMA OperationStep == InvocationInv /\ Operates => InvocationInv'
  <1> SUFFICES ASSUME InvocationInv, Operates PROVE InvocationInv'
    OBVIOUS
  <1>1. /\ LedgerNext /\ clock' = clock /\ windows' = windows /\ granted' = granted
        /\ status' = status /\ task' = task /\ promoted' = promoted
    BY DEF Operates, quotaVars
  <1>2. QuotaInv'
    BY <1>1, QuotaStep DEF InvocationInv, vars
  <1>3. LedgerInv' /\ \A u \in Tenants : blamed'[u] >= blamed[u]
    BY <1>1, LedgerStep DEF InvocationInv
  <1>4. ASSUME NEW h \in Handlers, task'[h] # None PROVE Sound(task'[h], blamed')
    <2>1. task'[h] = task[h] /\ task[h] \in Task /\ Sound(task[h], blamed)
      BY <1>1, <1>4 DEF InvocationInv, TaskInv
    <2> DEFINE u == Owner[task[h].entry]
    <2>2. u \in Tenants
      BY <2>1, InvocationAssumption DEF Task
    <2>3. blamed[u] \in Nat /\ blamed'[u] \in Nat /\ blamed'[u] >= blamed[u]
      BY <1>3, <2>2 DEF InvocationInv, LedgerInv
    <2>4. task[h].tier = "T1" => 2 * blamed'[u] > LlmMinSamples
      <3> SUFFICES ASSUME task[h].tier = "T1" PROVE 2 * blamed'[u] > LlmMinSamples
        OBVIOUS
      <3>1. 2 * blamed[u] > LlmMinSamples
        BY <2>1 DEF Sound
      <3> HIDE DEF u
      <3> QED
        BY <2>3, <3>1, ThresholdAssumption
    <2> QED
      BY <2>1, <2>4 DEF Sound
  <1>5. TaskInv'
    BY <1>1, <1>4 DEF InvocationInv, TaskInv
  <1>6. \A t \in Tenants : Holding(t)' \subseteq Holding(t)
    BY <1>1 DEF Holding
  <1>7. clock \in Nat /\ clock' \in Nat /\ clock' >= clock
    BY <1>1 DEF InvocationInv, QuotaInv, TypeOK
  <1>8. PromotionInv'
    BY <1>1, <1>6, <1>7, PromotionsStay DEF InvocationInv
  <1> QED
    BY <1>2, <1>3, <1>5, <1>8 DEF InvocationInv

\* Time passes.
LEMMA PassesStep == InvocationInv /\ Passes => InvocationInv'
  <1> SUFFICES ASSUME InvocationInv, Passes PROVE InvocationInv'
    OBVIOUS
  <1>1. /\ Tick /\ ledger' = ledger /\ audits' = audits /\ blamed' = blamed
        /\ status' = status /\ task' = task /\ promoted' = promoted /\ granted' = granted
    BY DEF Passes, auditVars, Tick
  <1>2. QuotaInv'
    BY <1>1, QuotaStep DEF InvocationInv, Next
  <1>3. LedgerInv'
    BY <1>1 DEF InvocationInv, LedgerInv, OwnFailures, Failed, Rows
  <1>4. TaskInv'
    BY <1>1 DEF InvocationInv, TaskInv
  <1>5. \A t \in Tenants : Holding(t)' \subseteq Holding(t)
    BY <1>1 DEF Holding
  <1>6. clock \in Nat /\ clock' \in Nat /\ clock' >= clock
    <2>1. clock \in Nat
      BY DEF InvocationInv, QuotaInv, TypeOK
    <2>2. PICK later \in (clock + 1)..MaxTime : clock' = later
      BY <1>1 DEF Tick
    <2> QED
      BY <2>1, <2>2, QuotaAssumption
  <1>7. PromotionInv'
    BY <1>1, <1>5, <1>6, PromotionsStay DEF InvocationInv
  <1> QED
    BY <1>2, <1>3, <1>4, <1>7 DEF InvocationInv

\* A new process has no grants and no promotions.
LEMMA RebootStep == InvocationInv /\ Reboot => InvocationInv'
  <1> SUFFICES ASSUME InvocationInv, Reboot PROVE InvocationInv'
    OBVIOUS
  <1>1. /\ Restart /\ ledger' = ledger /\ audits' = audits /\ blamed' = blamed
        /\ status' = status /\ task' = [h \in Handlers |-> None]
        /\ promoted' = [t \in Tenants |-> <<>>]
    BY DEF Reboot, auditVars
  <1>2. QuotaInv'
    BY <1>1, QuotaStep DEF InvocationInv, Next
  <1>3. LedgerInv'
    BY <1>1 DEF InvocationInv, LedgerInv, OwnFailures, Failed, Rows
  <1>4. TaskInv'
    BY <1>1 DEF InvocationInv, TaskInv
  <1>5. PromotionInv'
    BY <1>1 DEF PromotionInv, PromotionBound
  <1> QED
    BY <1>2, <1>3, <1>4, <1>5 DEF InvocationInv

\* The quota is asked: the request holds the unit it is granted, or ends.
LEMMA AcquireStep ==
    ASSUME InvocationInv, NEW h \in Handlers, Acquire(h)
    PROVE  InvocationInv'
  <1> DEFINE r == [task[h] EXCEPT !.pc = "entry"]
  <1>1. task[h] \in Task /\ task[h] # None /\ Sound(task[h], blamed) /\ task[h].pc = "quota"
    BY DEF Acquire, At, InvocationInv, TaskInv
  <1>t. PICK t \in Tenants : t = Owner[task[h].entry]
    BY <1>1, InvocationAssumption DEF Task
  <1>2. /\ ledger' = ledger /\ audits' = audits /\ blamed' = blamed
        /\ status' = status /\ promoted' = promoted
    BY DEF Acquire, auditVars
  <1>3. LedgerInv'
    BY <1>2 DEF InvocationInv, LedgerInv, OwnFailures, Failed, Rows
  <1>4. status' \in [Entries -> LifecycleStatus \union {None}]
    BY <1>2 DEF InvocationInv, TaskInv
  <1>5. CASE Grant(t) /\ Goes(h, "entry")
    <2>1. r \in Task /\ r.entry = task[h].entry /\ Sound(r, blamed)
      BY <1>1 DEF Task, Sound
    <2>2. task' = [task EXCEPT ![h] = r]
      BY <1>5 DEF Goes
    <2> HIDE DEF r
    <2>3. TaskInv' /\ task'[h] = r /\ \A x \in Handlers \ {h} : task'[x] = task[x]
      BY <1>2, <1>4, <2>1, <2>2, OneTaskMoves DEF InvocationInv
    <2>4. /\ Holding(t)' \subseteq Holding(t) \union {h}
          /\ \A u \in Tenants \ {t} : Holding(u)' \subseteq Holding(u)
      <3>1. ASSUME NEW u \in Tenants
            PROVE  /\ Holding(u)' \subseteq Holding(u) \union {h}
                   /\ Owner[r.entry] # u => Holding(u)' \subseteq Holding(u)
        BY <2>3, HoldingMoves
      <3>2. t = Owner[r.entry]
        BY <1>t, <2>1
      <3> QED
        BY <3>1, <3>2
    <2>5. QuotaInv'
      BY <1>1, <1>5, QuotaStep DEF InvocationInv, Next
    <2> QED
      BY <1>1, <1>2, <1>3, <1>5, <2>3, <2>4, <2>5, PromotionsAtGrant DEF InvocationInv
  <1>6. CASE Deny(t) /\ Ends(h)
    <2>1. task' = [task EXCEPT ![h] = None] /\ clock' = clock /\ granted' = granted
      BY <1>6 DEF Ends, Deny
    <2>2. TaskInv' /\ task'[h] = None /\ \A x \in Handlers \ {h} : task'[x] = task[x]
      BY <1>2, <1>4, <2>1, OneTaskMoves DEF InvocationInv
    <2>3. \A u \in Tenants : Holding(u)' \subseteq Holding(u)
      BY <2>2, HoldingMoves
    <2>4. QuotaInv'
      BY <1>1, <1>6, QuotaStep DEF InvocationInv, Next
    <2>5. clock \in Nat /\ clock' \in Nat /\ clock' >= clock
      BY <2>1 DEF InvocationInv, QuotaInv, TypeOK
    <2> QED
      BY <1>2, <1>3, <2>1, <2>2, <2>3, <2>4, <2>5, PromotionsStay DEF InvocationInv
  <1> QED
    BY <1>5, <1>6, <1>t DEF Acquire
\* The entry is looked up.
LEMMA LocateStep ==
    ASSUME InvocationInv, NEW h \in Handlers, Locate(h)
    PROVE  InvocationInv'
  <1> DEFINE s == status[task[h].entry]
             r == [task[h] EXCEPT !.pc = "gate", !.from = s]
  <1>1. /\ task[h] \in Task /\ task[h] # None /\ Sound(task[h], blamed) /\ task[h].pc = "entry"
        /\ UNCHANGED <<quotaVars, auditVars, promoted>>
        /\ status' \in [Entries -> LifecycleStatus \union {None}]
    BY DEF Locate, At, InvocationInv, TaskInv
  <1>2. CASE s # None /\ task' = [task EXCEPT ![h].pc = "gate", ![h].from = s]
    <2>1. s \in LifecycleStatus
      BY <1>1, <1>2 DEF InvocationInv, TaskInv, Task
    <2> HIDE DEF s
    <2>2. r \in Task /\ r.entry = task[h].entry /\ Sound(r, blamed)
      BY <1>1, <2>1 DEF Task, Sound
    <2>3. task' = [task EXCEPT ![h] = r]
      BY <1>1, <1>2 DEF InvocationInv, TaskInv, Task
    <2> HIDE DEF r
    <2> QED
      BY <1>1, <2>2, <2>3, QuietMove
  <1>3. CASE Ends(h)
    BY <1>1, <1>3, QuietMove DEF Ends
  <1> QED
    BY <1>2, <1>3 DEF Locate

\* A tenant is sent to post-review only for failures charged to it: a small dataset
\* gives the gate no other reason.
LEMMA PostReviewIsCharged ==
    ASSUME InvocationInv, NEW t \in Tenants, NEW sound \in BOOLEAN,
           GateTier(Facts(t, sound)) = "T1"
    PROVE  2 * blamed[t] > LlmMinSamples
  <1> DEFINE f == Facts(t, sound)
  <1>1. f.entryCount = 0 /\ f.bindings = 0 /\ f.llmTotal = Total(t) /\ f.llmFailed = Failed(t)
    BY DEF Facts
  <1> HIDE DEF f
  <1>2. GateDowngrade(f)
    BY DEF GateTier, f
  <1>3. Total(t) \in Nat /\ Failed(t) \in Nat /\ Failed(t) = blamed[t]
    BY CountFacts DEF InvocationInv, LedgerInv, OwnFailures
  <1>4. Total(t) >= LlmMinSamples /\ 2 * Failed(t) > Total(t)
    BY <1>1, <1>2, ThresholdAssumption DEF GateDowngrade
  <1> QED
    BY <1>3, <1>4, ThresholdAssumption

\* The gate is asked.
LEMMA JudgeStep ==
    ASSUME InvocationInv, NEW h \in Handlers, Judge(h)
    PROVE  InvocationInv'
  <1>1. /\ task[h] \in Task /\ task[h] # None /\ task[h].pc = "gate"
        /\ UNCHANGED <<quotaVars, auditVars, promoted>>
        /\ status' \in [Entries -> LifecycleStatus \union {None}]
    BY DEF Judge, At, InvocationInv, TaskInv
  <1>2. PICK sound \in BOOLEAN :
          LET tier == GateTier(Facts(Owner[task[h].entry], sound))
              plan == HopPlan(task[h].from, "Active") IN
          IF tier = "T2" \/ plan = <<>> THEN Ends(h)
          ELSE task' = [task EXCEPT ![h].pc = "read", ![h].tier = tier, ![h].plan = plan]
    BY DEF Judge
  <1> DEFINE t == Owner[task[h].entry]
             tier == GateTier(Facts(t, sound))
             plan == HopPlan(task[h].from, "Active")
             r == [task[h] EXCEPT !.pc = "read", !.tier = tier, !.plan = plan]
  <1>3. CASE tier = "T2" \/ plan = <<>>
    BY <1>1, <1>2, <1>3, QuietMove DEF Ends
  <1>4. CASE ~(tier = "T2" \/ plan = <<>>)
    <2>1. tier \in {"T0", "T1"}
      BY <1>4 DEF GateTier
    <2>2. plan \in {<<"Active">>, <<"Candidate", "Active">>}
      BY <1>4 DEF HopPlan
    <2>3. plan \in Seq(LifecycleStatus)
      <3>1. <<"Active">> \in Seq(LifecycleStatus)
        BY DEF LifecycleStatus
      <3>2. <<"Candidate", "Active">> \in Seq(LifecycleStatus)
        BY DEF LifecycleStatus
      <3> HIDE DEF plan
      <3> QED
        BY <2>2, <3>1, <3>2
    <2>4. tier = "T1" => 2 * blamed[t] > LlmMinSamples
      <3>1. t \in Tenants
        BY <1>1, InvocationAssumption DEF Task
      <3> QED
        BY <3>1, PostReviewIsCharged
    <2>5. task' = [task EXCEPT ![h].pc = "read", ![h].tier = tier, ![h].plan = plan]
      BY <1>2, <1>4
    <2> HIDE DEF tier, plan
    <2>6. r \in Task /\ r.entry = task[h].entry /\ r.plan = plan /\ r.tier = tier
      BY <1>1, <2>1, <2>3 DEF Task
    <2>7. task' = [task EXCEPT ![h] = r]
      BY <1>1, <2>5 DEF InvocationInv, TaskInv, Task
    <2>8. Sound(r, blamed)
      BY <2>2, <2>4, <2>6 DEF Sound
    <2> HIDE DEF r
    <2> QED
      BY <1>1, <2>6, <2>7, <2>8, QuietMove
  <1> QED
    BY <1>3, <1>4

\* A hop reads the latest version.
LEMMA ReadStep ==
    ASSUME InvocationInv, NEW h \in Handlers, ReadHop(h)
    PROVE  InvocationInv'
  <1> DEFINE r == [task[h] EXCEPT !.pc = "write", !.latest = TRUE]
  <1>1. /\ task[h] \in Task /\ task[h] # None /\ Sound(task[h], blamed) /\ task[h].pc = "read"
        /\ UNCHANGED <<quotaVars, auditVars, promoted>>
        /\ status' \in [Entries -> LifecycleStatus \union {None}]
    BY DEF ReadHop, At, InvocationInv, TaskInv
  <1>2. CASE task' = [task EXCEPT ![h].pc = "write", ![h].latest = TRUE]
    <2>1. r \in Task /\ r.entry = task[h].entry /\ Sound(r, blamed)
      BY <1>1 DEF Task, Sound
    <2>2. task' = [task EXCEPT ![h] = r]
      BY <1>1, <1>2 DEF InvocationInv, TaskInv, Task
    <2> HIDE DEF r
    <2> QED
      BY <1>1, <2>1, <2>2, QuietMove
  <1>3. CASE Ends(h)
    BY <1>1, <1>3, QuietMove DEF Ends
  <1> QED
    BY <1>2, <1>3 DEF ReadHop

\* A hop writes what it read, and the last one is a promotion.
LEMMA WriteStep ==
    ASSUME InvocationInv, NEW h \in Handlers, WriteHop(h)
    PROVE  InvocationInv'
  <1> DEFINE e == task[h].entry
             to == Head(task[h].plan)
             r == [task[h] EXCEPT !.pc = "read", !.plan = Tail(task[h].plan)]
  <1>1. /\ task[h] \in Task /\ task[h] # None /\ Sound(task[h], blamed) /\ task[h].pc = "write"
        /\ UNCHANGED <<quotaVars, auditVars>>
        /\ task[h].plan \in {<<"Active">>, <<"Candidate", "Active">>}
    BY DEF WriteHop, At, InvocationInv, TaskInv, Sound
  <1>2. status' \in [Entries -> LifecycleStatus \union {None}]
    <2>1. to \in LifecycleStatus
      BY <1>1 DEF LifecycleStatus
    <2>2. status' = IF task[h].latest THEN [status EXCEPT ![e] = to] ELSE status
      BY DEF WriteHop
    <2> HIDE DEF to
    <2> QED
      BY <2>1, <2>2 DEF InvocationInv, TaskInv
  <1>3. CASE to = "Active"
    <2>1. promoted' = [promoted EXCEPT ![Owner[e]] = Append(promoted[Owner[e]], clock)] /\ Ends(h)
      BY <1>3 DEF WriteHop
    <2>2. PICK t \in Tenants : t = Owner[e]
      BY <1>1, InvocationAssumption DEF Task
    <2>3. /\ task' = [task EXCEPT ![h] = None] /\ blamed' = blamed /\ clock' = clock
          /\ windows' = windows /\ granted' = granted /\ ledger' = ledger /\ audits' = audits
      BY <1>1, <2>1 DEF Ends, quotaVars, auditVars
    <2>4. TaskInv' /\ task'[h] = None /\ \A x \in Handlers \ {h} : task'[x] = task[x]
      BY <1>2, <2>3, OneTaskMoves DEF InvocationInv
    <2>5. \A u \in Tenants : Holding(u)' = Holding(u) \ {h}
      BY <2>4, HoldingMoves
    <2>6. h \in Holding(t)
      BY <1>1, <2>2 DEF Holding
    <2>7. QuotaInv'
      BY <2>3, QuotaStep DEF InvocationInv, vars
    <2>8. LedgerInv'
      BY <2>3 DEF InvocationInv, LedgerInv, OwnFailures, Failed, Rows
    <2>9. PromotionInv'
      <3>1. /\ Holding(t)' = Holding(t) \ {h}
            /\ \A u \in Tenants \ {t} : Holding(u)' \subseteq Holding(u)
        BY <2>5
      <3>2. promoted' = [promoted EXCEPT ![t] = Append(promoted[t], clock)]
        BY <2>1, <2>2
      <3> QED
        BY <1>1, <2>6, <3>1, <3>2, PromotionsGrow DEF InvocationInv
    <2> QED
      BY <2>4, <2>7, <2>8, <2>9 DEF InvocationInv
  <1>4. CASE to # "Active"
    <2>1. task[h].plan = <<"Candidate", "Active">> /\ Tail(task[h].plan) = <<"Active">>
      <3>1. Head(<<"Active">>) = "Active" /\ Tail(<<"Candidate", "Active">>) = <<"Active">>
        OBVIOUS
      <3>2. task[h].plan # <<"Active">>
        BY <1>4, <3>1
      <3> QED
        BY <1>1, <3>1, <3>2
    <2>2. /\ task' = [task EXCEPT ![h].pc = "read", ![h].plan = Tail(task[h].plan)]
          /\ promoted' = promoted
      BY <1>1, <1>4 DEF WriteHop, InvocationInv, TaskInv
    <2>3. <<"Active">> \in Seq(LifecycleStatus)
      BY DEF LifecycleStatus
    <2>4. r \in Task /\ r.entry = task[h].entry /\ r.plan = <<"Active">> /\ r.tier = task[h].tier
      BY <1>1, <2>1, <2>3 DEF Task
    <2>5. task' = [task EXCEPT ![h] = r]
      BY <1>1, <2>2 DEF InvocationInv, TaskInv, Task
    <2>6. Sound(r, blamed)
      BY <1>1, <2>4 DEF Sound
    <2> HIDE DEF r
    <2> QED
      BY <1>1, <1>2, <2>2, <2>4, <2>5, <2>6, QuietMove
  <1> QED
    BY <1>3, <1>4
-----------------------------------------------------------------------------
(* The theorems.                                                           *)

LEMMA InvocationStep == InvocationInv /\ [InvocationNext]_allVars => InvocationInv'
  <1> SUFFICES ASSUME InvocationInv, [InvocationNext]_allVars PROVE InvocationInv'
    OBVIOUS
  <1>s. status \in [Entries -> LifecycleStatus \union {None}]
    BY DEF InvocationInv, TaskInv
  <1>1. ASSUME NEW e \in Entries, Propose(e) PROVE InvocationInv'
    <2>1. status' \in [Entries -> LifecycleStatus \union {None}]
      BY <1>1, <1>s DEF Propose, LifecycleStatus
    <2> QED
      BY <1>1, <2>1, OthersMove DEF Propose
  <1>2. ASSUME NEW e \in Entries, NewVersion(e) PROVE InvocationInv'
    <2>1. status' \in [Entries -> LifecycleStatus \union {None}]
      BY <1>2, <1>s DEF NewVersion, LifecycleStatus
    <2> QED
      BY <1>2, <2>1, OthersMove DEF NewVersion
  <1>3. ASSUME NEW e \in Entries, NEW to \in LifecycleStatus, HumanMove(e, to)
        PROVE  InvocationInv'
    <2>1. status' \in [Entries -> LifecycleStatus \union {None}]
      BY <1>3, <1>s DEF HumanMove
    <2> QED
      BY <1>3, <2>1, OthersMove DEF HumanMove
  <1>4. ASSUME NEW h \in Handlers, NEW e \in Entries, Request(h, e) PROVE InvocationInv'
    <2> DEFINE r == [entry |-> e, pc |-> "quota", from |-> "Draft", latest |-> FALSE,
                     tier |-> "none", plan |-> <<>>]
    <2>1. r \in Task /\ r.pc = "quota" /\ Sound(r, blamed)
      BY DEF Task, Sound, LifecycleStatus
    <2>2. /\ task' = [task EXCEPT ![h] = r]
          /\ UNCHANGED <<quotaVars, auditVars, promoted>>
          /\ status' \in [Entries -> LifecycleStatus \union {None}]
      BY <1>4, <1>s DEF Request
    <2> HIDE DEF r
    <2> QED
      BY <2>1, <2>2, QuietMove
  <1>5. CASE UNCHANGED allVars
    BY <1>5, <1>s, OthersMove DEF allVars
  <1> QED
    BY <1>1, <1>2, <1>3, <1>4, <1>5, AcquireStep, LocateStep, JudgeStep, ReadStep, WriteStep,
       PassesStep, OperationStep, RebootStep DEF InvocationNext

LEMMA InvocationStart == InvocationInit => InvocationInv
  <1> SUFFICES ASSUME InvocationInit PROVE InvocationInv
    OBVIOUS
  <1>1. QuotaInv
    BY EmptyQueues DEF InvocationInit, Init
  <1>2. LedgerInv
    <2>1. /\ ledger = {} /\ audits = 0 /\ blamed = [t \in Tenants |-> 0]
      BY DEF InvocationInit, LedgerInit
    <2>2. \A t \in Tenants : FailedRows(t) = {}
      BY <2>1 DEF FailedRows, Rows
    <2>3. OwnFailures
      BY <2>1, <2>2, FS_EmptySet DEF OwnFailures, Failed, FailedRows
    <2> QED
      BY <2>1, <2>3, FS_EmptySet, InvocationAssumption DEF LedgerInv
  <1>3. TaskInv
    BY DEF InvocationInit, TaskInv
  <1>4. PromotionInv
    BY DEF InvocationInit, PromotionInv, PromotionBound
  <1> QED
    BY <1>1, <1>2, <1>3, <1>4 DEF InvocationInv

\* Every step of the invocations is a step of the quota, or leaves it alone: what they
\* do to the quota is what api/quota.rs lets them (transition_entry).
THEOREM InvocationImplementsQuota == InvocationSpec => Spec
  <1>1. InvocationInit => Init
    BY DEF InvocationInit
  <1>2. InvocationInv /\ [InvocationNext]_allVars => [Next]_vars
    <2> SUFFICES ASSUME InvocationInv, [InvocationNext]_allVars PROVE [Next]_vars
      OBVIOUS
    <2>1. ASSUME NEW h \in Handlers, Acquire(h) PROVE Next
      <3>1. Owner[task[h].entry] \in Tenants
        BY <2>1, InvocationAssumption DEF Acquire, At, InvocationInv, TaskInv, Task
      <3> QED
        BY <2>1, <3>1 DEF Acquire, Next
    <2>2. Passes => Next
      BY DEF Passes, Next
    <2>3. Reboot => Next
      BY DEF Reboot, Next
    <2>4. CASE UNCHANGED quotaVars
      BY <2>4 DEF quotaVars, vars
    <2>5. /\ \A e \in Entries : Propose(e) \/ NewVersion(e) => UNCHANGED quotaVars
          /\ \A e \in Entries, to \in LifecycleStatus : HumanMove(e, to) => UNCHANGED quotaVars
          /\ \A h \in Handlers, e \in Entries : Request(h, e) => UNCHANGED quotaVars
          /\ \A h \in Handlers :
               Locate(h) \/ Judge(h) \/ ReadHop(h) \/ WriteHop(h) => UNCHANGED quotaVars
          /\ Operates => UNCHANGED quotaVars
          /\ UNCHANGED allVars => UNCHANGED quotaVars
      BY DEF Propose, NewVersion, HumanMove, Request, Locate, Judge, ReadHop, WriteHop,
         Operates, allVars
    <2> QED
      BY <2>1, <2>2, <2>3, <2>4, <2>5 DEF InvocationNext
  <1>3. InvocationSpec => []InvocationInv
    BY InvocationStart, InvocationStep, PTL DEF InvocationSpec
  <1> QED
    BY <1>1, <1>2, <1>3, PTL DEF InvocationSpec, Spec

\* The inductive invariant of the machines' way into governance.
THEOREM InvocationInvariant == InvocationSpec => []InvocationInv
  BY InvocationStart, InvocationStep, PTL DEF InvocationSpec

THEOREM InvocationTypeCorrect == InvocationSpec => []InvocationTypeOK
  <1>1. InvocationInv => InvocationTypeOK
    <2> SUFFICES ASSUME InvocationInv PROVE InvocationTypeOK
      OBVIOUS
    <2>1. audits \in Nat /\ audits \in 0..MaxAudits /\ 0..audits \subseteq 0..MaxAudits
      BY InvocationAssumption DEF InvocationInv, LedgerInv
    <2>2. LedgerTypeOK
      BY <2>1 DEF InvocationInv, LedgerInv, LedgerTypeOK
    <2> QED
      BY <2>2 DEF InvocationInv, InvocationTypeOK, QuotaInv, TaskInv, PromotionInv
  <1> QED
    BY <1>1, InvocationInvariant, PTL

\* However slow the requests are, MaxPerHour + (handlers) + 1 consecutive promotions for
\* a tenant take more than a window: a request takes a unit of the quota before it
\* promotes, and no more of them are at work than there are handlers
\* (transition_entry, handlers_datasets.rs; acquire, api/quota.rs).
THEOREM PromotionsAreBounded == InvocationSpec => []PromotionBound
  <1>1. InvocationInv => PromotionBound
    BY DEF InvocationInv, PromotionInv
  <1> QED
    BY <1>1, InvocationInvariant, PTL

\* A tenant is charged with its own failures, all of them and no others
\* (llm_audit_stats, run_llm_op).
THEOREM FailuresAreOwn == InvocationSpec => []OwnFailures
  <1>1. InvocationInv => OwnFailures
    BY DEF InvocationInv, LedgerInv
  <1> QED
    BY <1>1, InvocationInvariant, PTL

\* In a small dataset only the tenant's own failures send its promotions to post-review
\* (run_machine_gate).
THEOREM BlameIsOwn == InvocationSpec => []NoForeignBlame
  <1>1. InvocationInv => NoForeignBlame
    BY DEF InvocationInv, TaskInv, Sound, NoForeignBlame
  <1> QED
    BY <1>1, InvocationInvariant, PTL

\* Some more failures never lighten the verdict (evaluate, gate/mod.rs).
THEOREM FailuresNeverHelp == InvocationSpec => []FailingNeverHelps
  <1>1. InvocationInv => FailingNeverHelps
    <2> SUFFICES ASSUME InvocationInv, NEW t \in Tenants, NEW u \in Tenants,
                        NEW sound \in BOOLEAN, Worse(Facts(t, sound), Facts(u, sound))
                 PROVE  NoLighter(GateTier(Facts(t, sound)), GateTier(Facts(u, sound)))
      BY DEF FailingNeverHelps
    <2>1. ASSUME NEW v \in Tenants
          PROVE  /\ Facts(v, sound) \in GateFacts /\ Facts(v, sound).version >= 1
                 /\ Facts(v, sound).llmFailed <= Facts(v, sound).llmTotal
      <3>1. Total(v) \in Nat /\ Failed(v) \in Nat /\ Failed(v) <= Total(v)
        BY CountFacts DEF InvocationInv
      <3> QED
        BY <3>1 DEF Facts, GateFacts
    <2> QED
      BY <2>1, GateIsMonotone DEF GateMonotone
  <1> QED
    BY <1>1, InvocationInvariant, PTL
\* The quota holds of what machines are let through, and none of them is refused without
\* reason, whatever else the requests do.
THEOREM InvocationsKeepQuota == InvocationSpec => []WindowBound /\ DeniedOnlyWhenFull
  BY InvocationImplementsQuota, QuotaHolds, RefusalIsDeserved, PTL
=============================================================================
