------------------------- MODULE TransitionQuota -------------------------
(***************************************************************************)
(* The per-tenant sliding-window quota on machine transitions              *)
(* (api/quota.rs).  acquire runs under the lock of the windows map and     *)
(* reads the monotonic clock there, so it is one action with the current   *)
(* time.  A quota of zero disables the check and is left out: MaxPerHour   *)
(* is positive.                                                            *)
(*                                                                         *)
(* Times are multiples of an unnamed tick.  Bounds: MaxTime on the clock,  *)
(* MaxGrants on the grants of one boot.                                    *)
(***************************************************************************)
EXTENDS Integers, Sequences

CONSTANTS
    Tenants,
    MaxPerHour,   \* max_per_hour
    Window,       \* QUOTA_WINDOW
    MaxTime,
    MaxGrants

ASSUME QuotaAssumption ==
    /\ MaxPerHour \in Nat \ {0}
    /\ Window \in Nat
    /\ MaxTime \in Nat
    /\ MaxGrants \in Nat

VARIABLES
    clock,     \* Instant::now()
    windows,   \* windows[t], the instants kept for t, oldest first
    granted    \* history: the instants of every grant to t since the boot

vars == <<clock, windows, granted>>

\* Slip: an instant on the edge of the window is dropped.
StaleAtTheEdge(instant, now) == now - instant >= Window

Stale(instant, now) == now - instant > Window

\* The loop of acquire pops the front while it is stale: k instants go.
Evicts(q, k, now) ==
    /\ \A i \in 1..k : Stale(q[i], now)
    /\ k < Len(q) => ~Stale(q[k + 1], now)

Kept(q, k) == SubSeq(q, k + 1, Len(q))

-----------------------------------------------------------------------------
Tick ==
    /\ clock < MaxTime
    /\ \E later \in (clock + 1)..MaxTime : clock' = later
    /\ UNCHANGED <<windows, granted>>

Grant(t) ==
    /\ Len(granted[t]) < MaxGrants
    /\ \E k \in 0..Len(windows[t]) :
         /\ Evicts(windows[t], k, clock)
         /\ Len(windows[t]) - k < MaxPerHour
         /\ windows' = [windows EXCEPT ![t] = Append(Kept(windows[t], k), clock)]
    /\ granted' = [granted EXCEPT ![t] = Append(@, clock)]
    /\ UNCHANGED clock

\* Slip: the length is tested before the stale instants are evicted.
DenyBeforeEviction(t) ==
    /\ Len(windows[t]) >= MaxPerHour
    /\ \E k \in 0..Len(windows[t]) :
         /\ Evicts(windows[t], k, clock)
         /\ windows' = [windows EXCEPT ![t] = Kept(windows[t], k)]
    /\ UNCHANGED <<clock, granted>>

\* 429: the stale instants are gone all the same.
Deny(t) ==
    /\ \E k \in 0..Len(windows[t]) :
         /\ Evicts(windows[t], k, clock)
         /\ Len(windows[t]) - k >= MaxPerHour
         /\ windows' = [windows EXCEPT ![t] = Kept(windows[t], k)]
    /\ UNCHANGED <<clock, granted>>

\* The map lives in memory: a new process starts with no instants.
Restart ==
    /\ windows' = [t \in Tenants |-> <<>>]
    /\ granted' = [t \in Tenants |-> <<>>]
    /\ UNCHANGED clock

Init ==
    /\ clock = 0
    /\ windows = [t \in Tenants |-> <<>>]
    /\ granted = [t \in Tenants |-> <<>>]

Next == Tick \/ Restart \/ \E t \in Tenants : Grant(t) \/ Deny(t)

Spec == Init /\ [][Next]_vars

-----------------------------------------------------------------------------
(* Properties.                                                             *)

TypeOK ==
    /\ clock \in Nat
    /\ windows \in [Tenants -> Seq(Nat)]
    /\ granted \in [Tenants -> Seq(Nat)]

\* The queue w is the end of the grants g, oldest first, and the grants
\* missing in front of it are stale.
EndOf(w, g, now) ==
    LET missing == Len(g) - Len(w) IN
    /\ missing \in Nat
    /\ \A i \in 1..Len(w) : w[i] = g[missing + i]
    /\ \A i \in 1..missing : Stale(g[i], now)

\* Grants are recorded in the order of the clock.
Ordered(g, now) ==
    \A i \in 1..Len(g) : g[i] <= now /\ \A j \in i..Len(g) : g[i] <= g[j]

\* MaxPerHour grants later, more than a window has passed.
Spread(g) ==
    \A i \in 1..Len(g) : i + MaxPerHour <= Len(g) => g[i + MaxPerHour] - g[i] > Window

\* acquire forgets no grant that still counts.
WindowIsSuffix == \A t \in Tenants : EndOf(windows[t], granted[t], clock)

GrantsInOrder == \A t \in Tenants : Ordered(granted[t], clock)

\* The quota holds over every interval, not only over the one that ends now:
\* of any MaxPerHour + 1 consecutive grants to a tenant in one boot, the last
\* comes more than a window after the first (acquire).
WindowBound == \A t \in Tenants : Spread(granted[t])

\* A tenant is refused only when MaxPerHour grants to the tenant itself lie in
\* the window that ends now: neither stale instants nor other tenants count
\* against it (acquire).
DeniedOnlyWhenFull ==
    [][\A t \in Tenants :
          Deny(t) => /\ Len(granted[t]) >= MaxPerHour
                     /\ ~Stale(granted[t][Len(granted[t]) - MaxPerHour + 1], clock)]_vars

QuotaInv == TypeOK /\ WindowIsSuffix /\ GrantsInOrder /\ WindowBound
=============================================================================
