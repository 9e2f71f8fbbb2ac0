------------------------ MODULE MachineInvocation ------------------------
(***************************************************************************)
(* The machines' way into governance (the invoke endpoints of              *)
(* handlers_datasets.rs): a service with an API key proposes entries and   *)
(* asks for their promotion, and such a request goes through the quota of  *)
(* its tenant (TransitionQuota), the machine gate and one or two hops.     *)
(*                                                                         *)
(* A step is a visit of the request to the store or to the quota.  An      *)
(* entry is known by the status of its latest version; older versions,     *)
(* deletions and the audit of moves are the matter of EntryGovernance.     *)
(* The gate takes the reputation of the tenant from LlmLedger; the other   *)
(* facts are those of a first version in a small dataset, sound or not.    *)
(* Keys are live and have the scope.                                       *)
(***************************************************************************)
EXTENDS TransitionQuota, GovernanceRules, FiniteSets

CONSTANTS
    Entries, Owner,  \* Owner[e], the tenant of the dataset e is in
    Handlers,
    RequestIds, MaxAudits,  \* see LlmLedger
    None

\* Generated ids are not among those that callers choose (UUIDs).
ASSUME InvocationAssumption ==
    /\ Owner \in [Entries -> Tenants]
    /\ IsFiniteSet(Handlers)
    /\ MaxAudits \in Nat
    /\ RequestIds \intersect (1..MaxAudits) = {}

VARIABLES ledger, audits, blamed

INSTANCE LlmLedger

\* A transition_entry at work.  from is the status it was located in; latest tells
\* whether the version a hop read is still the latest; tier is the gate's verdict and
\* plan the hops to go.
Task == [ entry : Entries, pc : {"quota", "entry", "gate", "read", "write"},
          from : LifecycleStatus, latest : BOOLEAN,
          tier : {"none", "T0", "T1"}, plan : Seq(LifecycleStatus) ]

VARIABLES
    status,    \* status[e], or None if there is no such entry
    task,      \* task[h], the request h is at work on, or None
    promoted   \* history: the instants at which entries of t were made Active, this boot

quotaVars == <<clock, windows, granted>>
auditVars == <<ledger, audits, blamed>>
allVars == <<quotaVars, auditVars, status, task, promoted>>

-----------------------------------------------------------------------------
(* What others do to the entries.                                          *)

\* propose_mcp_server: version 1 as a Draft, and if it is there already, an answer
\* that says so.
Propose(e) ==
    /\ status[e] = None
    /\ status' = [status EXCEPT ![e] = "Draft"]
    /\ UNCHANGED <<quotaVars, auditVars, task, promoted>>

\* Somebody adds a version: what requests read is not the latest any more.
NewVersion(e) ==
    /\ status[e] # None
    /\ status' = [status EXCEPT ![e] = "Draft"]
    /\ task' = [h \in Handlers |->
         IF task[h] # None /\ task[h].entry = e THEN [task[h] EXCEPT !.latest = FALSE]
         ELSE task[h]]
    /\ UNCHANGED <<quotaVars, auditVars, promoted>>

\* Somebody approves or rejects it.
HumanMove(e, to) ==
    /\ <<status[e], to>> \in EntryMoves
    /\ status' = [status EXCEPT ![e] = to]
    /\ UNCHANGED <<quotaVars, auditVars, task, promoted>>

-----------------------------------------------------------------------------
(* transition_entry, in the order of its checks.                           *)

At(h, pc) == task[h] # None /\ task[h].pc = pc

Goes(h, pc) == task' = [task EXCEPT ![h].pc = pc]

Ends(h) == task' = [task EXCEPT ![h] = None]

\* The key has the scope, the dataset is its tenant's, the target is Active, there is
\* a cause, and the class is one that machines may handle.
Request(h, e) ==
    /\ task[h] = None
    /\ task' = [task EXCEPT ![h] = [entry |-> e, pc |-> "quota", from |-> "Draft",
                                    latest |-> FALSE, tier |-> "none", plan |-> <<>>]]
    /\ UNCHANGED <<quotaVars, auditVars, status, promoted>>

\* Slip: a refusal is no reason to stop.
AcquireAnyhow(h) ==
    /\ At(h, "quota")
    /\ Grant(Owner[task[h].entry]) \/ Deny(Owner[task[h].entry])
    /\ Goes(h, "entry")
    /\ UNCHANGED <<auditVars, status, promoted>>

\* A unit of the quota is taken, or the request is refused (429), before it is known
\* whether there is such an entry and what the gate makes of it.
Acquire(h) ==
    /\ At(h, "quota")
    /\ \/ Grant(Owner[task[h].entry]) /\ Goes(h, "entry")
       \/ Deny(Owner[task[h].entry]) /\ Ends(h)
    /\ UNCHANGED <<auditVars, status, promoted>>

\* The latest version must be there, and not of external origin.
Locate(h) ==
    /\ At(h, "entry")
    /\ \/ /\ status[task[h].entry] # None
          /\ task' = [task EXCEPT ![h].pc = "gate", ![h].from = status[task[h].entry]]
       \/ Ends(h)
    /\ UNCHANGED <<quotaVars, auditVars, status, promoted>>

Facts(t, sound) ==
    [ schemaOk |-> sound, version |-> 1, prevRow |-> FALSE, prevSnapshot |-> FALSE,
      sameHash |-> 0, entryCount |-> 0, bindings |-> 0,
      llmTotal |-> Total(t), llmFailed |-> Failed(t) ]

\* The gate refuses, or lets pass what can get to Active from where it was.
Judge(h) ==
    /\ At(h, "gate")
    /\ \E sound \in BOOLEAN :
         LET tier == GateTier(Facts(Owner[task[h].entry], sound))
             plan == HopPlan(task[h].from, "Active") IN
         IF tier = "T2" \/ plan = <<>> THEN Ends(h)
         ELSE task' = [task EXCEPT ![h].pc = "read", ![h].tier = tier, ![h].plan = plan]
    /\ UNCHANGED <<quotaVars, auditVars, status, promoted>>

\* A hop reads the latest version again; what does not fit ends the request where it is.
ReadHop(h) ==
    /\ At(h, "read")
    /\ IF <<status[task[h].entry], Head(task[h].plan)>> \in EntryMoves
       THEN task' = [task EXCEPT ![h].pc = "write", ![h].latest = TRUE]
       ELSE Ends(h)
    /\ UNCHANGED <<quotaVars, auditVars, status, promoted>>

\* It writes the version it read, whatever became of it.
WriteHop(h) ==
    /\ At(h, "write")
    /\ LET e == task[h].entry
           to == Head(task[h].plan) IN
       /\ status' = IF task[h].latest THEN [status EXCEPT ![e] = to] ELSE status
       /\ IF to = "Active"
          THEN /\ promoted' = [promoted EXCEPT ![Owner[e]] = Append(@, clock)]
               /\ Ends(h)
          ELSE /\ task' = [task EXCEPT ![h].pc = "read", ![h].plan = Tail(@)]
               /\ UNCHANGED promoted
    /\ UNCHANGED <<quotaVars, auditVars>>

\* A new process: the windows and the requests at work are gone, and an entry may be
\* left half-way, as a Candidate.
Reboot ==
    /\ Restart
    /\ task' = [h \in Handlers |-> None]
    /\ promoted' = [t \in Tenants |-> <<>>]
    /\ UNCHANGED <<auditVars, status>>

Passes == Tick /\ UNCHANGED <<auditVars, status, task, promoted>>

Operates == LedgerNext /\ UNCHANGED <<quotaVars, status, task, promoted>>

InvocationInit ==
    /\ Init
    /\ LedgerInit
    /\ status = [e \in Entries |-> None]
    /\ task = [h \in Handlers |-> None]
    /\ promoted = [t \in Tenants |-> <<>>]

InvocationNext ==
    \/ \E e \in Entries : Propose(e) \/ NewVersion(e)
    \/ \E e \in Entries, to \in LifecycleStatus : HumanMove(e, to)
    \/ \E h \in Handlers, e \in Entries : Request(h, e)
    \/ \E h \in Handlers :
         Acquire(h) \/ Locate(h) \/ Judge(h) \/ ReadHop(h) \/ WriteHop(h)
    \/ Passes \/ Operates \/ Reboot

InvocationSpec == InvocationInit /\ [][InvocationNext]_allVars

-----------------------------------------------------------------------------
InvocationTypeOK ==
    /\ TypeOK
    /\ LedgerTypeOK
    /\ status \in [Entries -> LifecycleStatus \union {None}]
    /\ task \in [Handlers -> Task \union {None}]
    /\ promoted \in [Tenants -> Seq(Nat)]

\* What the quota comes to in promotions: a request takes its unit before it promotes
\* and may be slow, but only so many are at work at once.  Of any MaxPerHour +
\* (handlers) + 1 consecutive promotions for a tenant in one boot, the last comes more
\* than a window after the first.
PromotionBound ==
    LET reach == MaxPerHour + Cardinality(Handlers) IN
    \A t \in Tenants : \A i \in 1..Len(promoted[t]) :
       i + reach <= Len(promoted[t]) => promoted[t][i + reach] - promoted[t][i] > Window

\* What the answer to a refused request says of the quota: so many promotions of a
\* tenant in an hour.  Does not hold: a slow request promotes in the next window.
PromotionQuota ==
    \A t \in Tenants : \A i \in 1..Len(promoted[t]) :
       i + MaxPerHour <= Len(promoted[t])
         => promoted[t][i + MaxPerHour] - promoted[t][i] > Window

\* In a small dataset a tenant is not sent to post-review unless enough of its own LLM
\* operations failed, although all tenants share one audit table, in which a row may
\* be taken over by the request id of another tenant (run_machine_gate).
NoForeignBlame ==
    \A h \in Handlers :
       task[h] # None /\ task[h].tier = "T1"
         => 2 * blamed[Owner[task[h].entry]] > LlmMinSamples

\* Of two tenants whose LLM operations differ only in some more that failed, the one
\* that failed more is never given the lighter verdict on the same proposal (evaluate).
FailingNeverHelps ==
    \A t, u \in Tenants, sound \in BOOLEAN :
       Worse(Facts(t, sound), Facts(u, sound))
         => NoLighter(GateTier(Facts(t, sound)), GateTier(Facts(u, sound)))
=============================================================================
