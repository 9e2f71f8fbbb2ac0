------------------------- MODULE GovernanceRules -------------------------
(***************************************************************************)
(* The decisions of rule governance that need no store: the lifecycle move *)
(* tables and the LLM boundary of validate/mod.rs, the freeze rule of      *)
(* model/entry.rs and the six checks of the machine gate (gate/mod.rs).    *)
(* Each is a pure function in the code, and an operator here.              *)
(***************************************************************************)
EXTENDS Naturals, Sequences

CONSTANTS
    MaxDatasetEntriesT0,   \* thresholds::MAX_DATASET_ENTRIES_T0, 50 in the code
    MaxServiceBindingsT0,  \* thresholds::MAX_SERVICE_BINDINGS_T0, 3 in the code
    LlmMinSamples          \* thresholds::LLM_MIN_SAMPLES, 4 in the code

ASSUME ThresholdAssumption ==
    /\ MaxDatasetEntriesT0 \in Nat
    /\ MaxServiceBindingsT0 \in Nat
    /\ LlmMinSamples \in Nat

LifecycleStatus == {"Draft", "Candidate", "Active", "Published", "Rejected"}

-----------------------------------------------------------------------------
(* Lifecycle tables.                                                       *)

\* The moves an entry may make through the human and the machine paths.
EntryMoves ==
    { <<"Draft", "Candidate">>, <<"Candidate", "Active">>,
      <<"Candidate", "Rejected">>, <<"Draft", "Rejected">> }

\* The moves of a dataset; Active -> Published is left to publication alone.
DatasetMoves ==
    { <<"Draft", "Candidate">>, <<"Candidate", "Active">>,
      <<"Active", "Rejected">>, <<"Candidate", "Rejected">>,
      <<"Draft", "Rejected">>, <<"Published", "Rejected">>,
      <<"Rejected", "Draft">> }

\* validate_publish: publication starts from Active only.
Publishable(status) == status = "Active"

\* An entry in one of these states may not be edited in place.
Frozen(status) == status \in {"Active", "Published"}

-----------------------------------------------------------------------------
(* The LLM boundary.                                                       *)

\* Slip: the tier is not looked at.
MachineEvidenceAnyTier(tier, checksPassed) == checksPassed

\* Evidence of the machine gate counts when the tier is T0 or T1 and the six
\* checks passed.
MachineEvidence(tier, checksPassed) == tier \in {"T0", "T1"} /\ checksPassed

\* May an entry take this status?  evidence says whether the caller holds
\* valid machine-gate evidence; the human paths hold none.
LlmBoundary(isLlm, status, evidence) ==
    \/ ~isLlm
    \/ /\ status # "Published"
       /\ evidence \/ status \in {"Draft", "Rejected"}

-----------------------------------------------------------------------------
(* The machine gate.  The facts are what the store's probe collects under  *)
(* one lock, with the verdict of the schema validators and the LLM audit   *)
(* counters.                                                               *)

GateFacts ==
    [ schemaOk     : BOOLEAN,  \* M1: symbol consistency, contract or law structure
      version      : Nat,
      prevRow      : BOOLEAN,  \* the row of version - 1 exists
      prevSnapshot : BOOLEAN,  \* and its content is among the snapshots
      sameHash     : Nat,      \* other Active entries with the same content
      entryCount   : Nat,
      bindings     : Nat,
      llmTotal     : Nat,
      llmFailed    : Nat ]

GateChecks(f) ==
    [ M1_schema              |-> f.schemaOk,
      M2_snapshot_continuity |-> f.version = 1 \/ (f.prevRow /\ f.prevSnapshot),
      M3_lexical_conflict    |-> f.sameHash = 0,
      M4_impact_radius       |-> TRUE,
      M5_llm_reputation      |-> TRUE,
      M6_rollback_path       |-> f.version <= 1 \/ f.prevRow ]

\* M4 and M5 never fail: past a threshold they lower the tier.
GateDowngrade(f) ==
    \/ f.entryCount > MaxDatasetEntriesT0
    \/ f.bindings > MaxServiceBindingsT0
    \/ f.llmTotal >= LlmMinSamples /\ 2 * f.llmFailed > f.llmTotal

\* Slip: a downgrade is looked at first.
GateTierDowngradeFirst(f) ==
    IF GateDowngrade(f) THEN "T1"
    ELSE IF \E c \in DOMAIN GateChecks(f) : ~GateChecks(f)[c] THEN "T2" ELSE "T0"

GateTier(f) ==
    IF \E c \in DOMAIN GateChecks(f) : ~GateChecks(f)[c] THEN "T2"
    ELSE IF GateDowngrade(f) THEN "T1" ELSE "T0"

\* The transitions a promotion asks for, one after the other; <<>> when the
\* target cannot be reached from the located status.
HopPlan(current, target) ==
    CASE current = "Draft" /\ target = "Candidate"  -> <<"Candidate">>
      [] current = "Draft" /\ target = "Active"     -> <<"Candidate", "Active">>
      [] current = "Candidate" /\ target = "Active" -> <<"Active">>
      [] OTHER                                      -> <<>>

-----------------------------------------------------------------------------
(* Verdicts compared.                                                      *)

\* f is no better than g in any respect the gate looks at, and as to the LLM
\* operations, it has the same ones but for some more that failed.
Worse(f, g) ==
    /\ f.schemaOk => g.schemaOk
    /\ f.version >= g.version
    /\ f.prevRow => g.prevRow
    /\ f.prevSnapshot => g.prevSnapshot
    /\ f.sameHash >= g.sameHash
    /\ f.entryCount >= g.entryCount
    /\ f.bindings >= g.bindings
    /\ f.llmFailed >= g.llmFailed
    /\ f.llmTotal - f.llmFailed = g.llmTotal - g.llmFailed

\* T0 lets pass, T1 lets pass for a later review, T2 refuses.
NoLighter(tier, other) ==
    \/ tier = "T2" \/ other = "T0"
    \/ tier = "T1" /\ other = "T1"

\* The gate is monotone: what is no better than something else is never given a
\* lighter tier, neither past a threshold of M4 or M5 nor at a later version
\* (evaluate, gate/mod.rs).  MachineInvocationProofs proves it of all facts.
GateMonotone ==
    \A f, g \in GateFacts :
       /\ f.version >= 1 /\ g.version >= 1
       /\ f.llmFailed <= f.llmTotal /\ g.llmFailed <= g.llmTotal
       /\ Worse(f, g)
       => NoLighter(GateTier(f), GateTier(g))
=============================================================================
