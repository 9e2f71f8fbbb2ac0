---------------------------- MODULE LlmLedger ----------------------------
(***************************************************************************)
(* The audit of LLM operations (handlers_llm.rs, llm_client and the table  *)
(* llm_op_audit), which the machine gate takes for the reputation of a     *)
(* tenant (check M5).  An operation touches nothing before its one row is  *)
(* written, so it is one action, at its end.  The receipt of a rule        *)
(* failure (Writeback) leaves a row in the same table.                     *)
(*                                                                         *)
(* Bound: MaxAudits on the ids that the service generates.                 *)
(***************************************************************************)
EXTENDS Naturals, FiniteSets

CONSTANTS
    Tenants,
    RequestIds,  \* the ids that callers give to their operations
    MaxAudits

\* Generated ids are numbers: the time and a counter of the process, or wb-<row>.
AuditRow == [ id : RequestIds \union (1..MaxAudits), tenant : Tenants,
              status : {"completed", "failed", "received"} ]

VARIABLES
    ledger,  \* llm_op_audit: its rows
    audits,  \* the ids generated so far
    blamed   \* history: blamed[t], the operations of t that failed

ledgerVars == <<ledger, audits, blamed>>

-----------------------------------------------------------------------------
\* Slip: a tenant is shown the rows of all.
RowsOfAll(t) == ledger

\* list_llm_audits_filtered and llm_audit_stats under the predicate of a tenant.
Rows(t) == {r \in ledger : r.tenant = t}

Total(t)  == Cardinality(Rows(t))
Failed(t) == Cardinality({r \in Rows(t) : r.status = "failed"})

\* record_llm_audit: in place of the row of that id, if there is one.
Recorded(id, t, s) ==
    ledger' = {r \in ledger : r.id # id} \union {[id |-> id, tenant |-> t, status |-> s]}

RecordedAsNew(t, s) ==
    /\ audits < MaxAudits
    /\ audits' = audits + 1
    /\ Recorded(audits + 1, t, s)

\* A call whose answer carries an id, which the agent has from the request, ...
Complete(t, id) ==
    /\ Recorded(id, t, "completed")
    /\ UNCHANGED <<audits, blamed>>

\* ... or carries none.
CompleteUnnamed(t) == RecordedAsNew(t, "completed") /\ UNCHANGED blamed

\* An error, a time limit of 300 seconds, an answer that is not "completed": always a
\* new id, whatever the request says.
Fail(t) ==
    /\ RecordedAsNew(t, "failed")
    /\ blamed' = [blamed EXCEPT ![t] = @ + 1]

\* record_writeback_event.
ReceiveFailure(t) == RecordedAsNew(t, "received") /\ UNCHANGED blamed

LedgerInit ==
    /\ ledger = {}
    /\ audits = 0
    /\ blamed = [t \in Tenants |-> 0]

\* A row that could not be written is a warning, and nothing has changed.
LedgerNext ==
    \E t \in Tenants :
       \/ \E id \in RequestIds : Complete(t, id)
       \/ CompleteUnnamed(t) \/ Fail(t) \/ ReceiveFailure(t)

-----------------------------------------------------------------------------
LedgerTypeOK ==
    /\ ledger \subseteq AuditRow
    /\ \A r, s \in ledger : r.id = s.id => r = s
    /\ audits \in 0..MaxAudits
    /\ blamed \in [Tenants -> 0..MaxAudits]

\* A tenant is charged with the failures of its own operations, all of them and no
\* others, although the tenants share one table in which a row may be taken over by
\* the request id of another tenant (llm_audit_stats, run_llm_op).
OwnFailures == \A t \in Tenants : Failed(t) = blamed[t]

\* What gate/mod.rs says of M5: the rate is that of LLM operations.  Does not hold:
\* every receipt of a rule failure counts as an operation that did not fail.
RateOfOperations ==
    \A t \in Tenants :
       LET operations == {r \in Rows(t) : r.status # "received"} IN
       2 * Failed(t) > Cardinality(operations) => 2 * Failed(t) > Total(t)

\* What run_machine_gate says of reputation: what other tenants do has no part in it.
\* Does not hold: their operation with the id of one of its completed ones takes the
\* row, and the rate goes up.
RowsStay ==
    [][ \A r \in ledger : r.status = "completed" => \E s \in ledger' : s.id = r.id /\ s.tenant = r.tenant ]_ledgerVars
=============================================================================
