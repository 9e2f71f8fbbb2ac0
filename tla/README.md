# A verification project for evorule-rule

`evorule-rule` is a governed store of rules and knowledge: a REST server over a
SQLite file in which people and machines draft entries, move them through a
lifecycle, group them in datasets, version, publish, export and import them.
Its promises are about governance: frozen content, an audit that explains every
status, machine releases within tight limits, nothing written twice, and
readers who are given what is theirs to see.

Every one of these promises is kept by handlers that run on many threads, share
one connection behind a mutex, and take that mutex once per statement or
transaction. The typical handler reads a row, **releases the lock**, decides on
its copy, and takes the lock again to write. The project models exactly these
critical sections and asks what survives every interleaving of them.

Paths below are relative to the repository (`src/` is its crate).

## 1. Inventory

| component | code | state | operations | what must hold |
|---|---|---|---|---|
| Rules and gate | `gate/mod.rs`, `validate/mod.rs`, `model/lifecycle.rs`, `model/entry.rs` | none: pure functions of facts | `check_machine_gate` (M1 to M6), `validate_llm_boundary(_gated)`, move tables, freeze rule | worse facts never get a lighter tier; LLM output stays out of the human path |
| Entries | `store/mod.rs`, `api/handlers_entries.rs` | `entries` / `knowledge_entries`, state history, content-addressed snapshots | add, patch, delete, human move, machine promotion, ratification of T1 releases | audit rows and statuses agree, snapshots cover content, deleted versions stay deleted, active content is frozen |
| Datasets | `store/mod.rs`, `api/handlers_datasets.rs`, `handlers_deps.rs` | one row per dataset (metadata, dependencies, lifecycle with `state_history`, version chain), attribution and archive of versions | create, move, publish, unpublish, bump, PATCH, set dependencies, delete, import | history is a lawful path to the status; archives are not rewritten; nothing outlives the dataset |
| Reading side | list, search, export, pull, diff and history in `store/mod.rs`, `handlers_entries.rs`, `handlers_search.rs`, `handlers_bundle.rs`, the pager of `api/mod.rs` | none | a walk of many visits to the store | answers are not torn, not approved too early, not of a later version than labelled |
| Bundles | `bundle/mod.rs`, `api/handlers_bundle.rs`, `import_bundle` | writes datasets and entries in one transaction | export, dry run, import in place of what is there | an import lands in Active, continues the history it finds, and leaves nothing of the old entries |
| Idempotency | `api/mod.rs` | map key to request and response, in memory, 24 h | register, replay, 409, take over, complete, lose | one handler per key at a time; a replay answers its own request |
| Quota | `api/quota.rs` | per-tenant queue of grant instants, in memory | `acquire`, `used` | no more than `max_per_hour` grants within any hour; refusals are deserved |
| Machine invocation | `api/handlers_datasets.rs` | none of its own | `transition_entry`, proposals | quota, location, gate, then hops, in this order |
| LLM operations | `llm_client/`, `handlers_llm.rs` | `llm_op_audit` | call, record, count | the counts that feed gate check M5 are of the tenant itself |
| Authentication | `auth/`, `api/handlers_auth.rs` | users, revoked token ids | login, refresh with rotation, logout, registration | what is retired is never accepted again; claims run out |
| Organisations, members, keys | `handlers_orgs.rs`, `handlers_keys.rs` | `tenants`, `orgs`, `users`, `memberships`, `api_keys` | create, assign, revoke | nobody is locked out; the platform role does not spread |
| Writeback (K3) | `api/handlers_writeback.rs`, `record_writeback_event` | one row per failure event, proposal tasks in memory | receive with deduplication, propose with a 5 s timeout, mark consumed | one row per event, an anchor that is true, acceptances that reach the row |
| Domain schema cache | `lookup_domain_schema` | fingerprint and schemas in memory | walk, look up, scan, store | no answer is older than its lookup |
| Services, MCP lists | `handlers_services.rs`, `model/service_catalog.rs`, `model/mcp_*` | keyed rows, embedded data | upsert, seed, approve | seeds complete; only approved servers are listed |
| Start-up | `main.rs`, schema and seeds in `store/mod.rs` | tables and key files of earlier processes | schema, tenant, seeds, keys, administrator | any start may be cut off anywhere, and the next one completes it |
| PostgreSQL store | `store/pg.rs` | part of the tables, feature-gated | as the SQLite store | |
| CLI, data types, `resolve/` | `cli.rs`, `model/`, `resolve/` | none | REST client, pure functions | |

**How they interact.** API handlers call the gate and validation functions and
the methods of one shared `RuleStore`. The idempotency layer wraps every write
handler. `transition_entry` takes a unit of the quota, then runs the promotion of
`machine_gate_promote`, whose gate counts the rows that LLM operations and
receipts of failures leave in `llm_op_audit`. Publication of a dataset reads its
entries and their pending T1 releases; a version bump archives them, an import
replaces them;
exports and pulls read them back. The start fills the tables that registration,
login and the service catalogue work on. Nothing is shared but the store, the
idempotency map, the quota windows and the schema cache; there are no callbacks,
and the only background tasks are the proposals of the writeback.

**What is hard here.** (a) *Read, unlock, decide, write back*: almost every
promise is checked on a copy. (b) *Write-back of more than was decided*: a
patch writes `status` and `governance` of its copy, PATCH of a dataset writes
all columns, a move writes the whole `state_history`. (c) *Deletion between
read and write*: the late write must not resurrect anything; foreign keys and
affected-row counts are the protection. (d) *Two-hop promotions*: Draft to
Active is two transactions on the strength of one judgement. (e) *State in
memory*: quota, idempotency and proposal tasks are lost with the process, and a
handler's future may be dropped at any await. (f) *Collections one lock at a
time*: publication, bump, export, search and list walk the entries while others
edit them. (g) *Two rows that belong together, two locks*: an organisation and
its tenant, a user and its membership, a check for revocation and the
revocation. (h) *Starts that are cut off*. The full list, each at its line, is
`hazards` in `PROJECT.json`.

## 2. Modules and how they correspond to the code

| module | models | notes |
|---|---|---|
| `GovernanceRules` | gate, boundary, move tables, hop plan | operators only; extended by the modules that need verdicts |
| `EntryGovernance` | entries under concurrent handlers | an action per critical section |
| `EntryLedger` | what an atomic store of entries would promise | abstract specification |
| `DatasetGovernance` | one dataset row under concurrent handlers, imports and entry changes | an action per critical section |
| `DatasetLedger` | what an atomic store of the dataset would promise | abstract specification |
| `Delivery` | readers that visit a dataset many times while it is written | one reader, an action per visit; writers in single steps |
| `IdempotencyCache` | the `idempotency` middleware | |
| `TransitionQuota` | `TransitionQuota::acquire` with restarts | |
| `LlmLedger` | the audit of LLM operations and its counts | |
| `MachineInvocation` | quota, location, gate and hops of a machine promotion | composes `TransitionQuota`, `LlmLedger`, `GovernanceRules` |
| `Writeback` | receipt, proposal and consumption of failure events | fair specification |
| `Sessions` | token pairs: login, refresh, logout, revocation | |
| `Accounts` | organisations, users, memberships, registration | |
| `Catalogue` | the service catalogue | |
| `Platform` | starts, key files, serving, stops | composes `Accounts` and `Catalogue` |
| `SchemaCache` | `lookup_domain_schema` over an edited directory | |
| `EntryGovernanceProofs`, `DatasetGovernanceProofs`, `DeliveryProofs`, `CacheProofs`, `MachineInvocationProofs`, `WritebackProofs`, `SessionsProofs`, `PlatformProofs` | theorems, section 5 | TLAPS |
| `MC*` | symmetry sets, small functions | instances for TLC |

*EntryGovernance.* `rows[e][v]` is the row of a version: status, content, the
LLM flag of its governance column, and whether its trust level is external.
`history[e]` is the state history table, `snapshots` the content-addressed
table. `req[h]` is the local state of the handler on thread `h`: its copy, its
version, the gate's verdict and the hops it has left; `pc` names the next
critical section. A request goes `version` (which version is the latest), `row`
(read it, validate, keep the copy), for promotions `probe` (the counts the gate
judges), `write`. `Move` is the transaction of a status UPDATE and an audit
INSERT, which the foreign key rolls back when the version is gone; `Overwrite`
is the transaction of a patch. The promotion of a Draft to Active goes back to
reading the row after its first hop, as the code does. `Kind` chooses between
the twin rule and knowledge tables: only knowledge has an LLM or external
origin, and on the knowledge side a patch may touch LLM rows. `EntryLedger` is
mapped onto it by `ShownRows` and `ShownLines`: of a row its status and content,
of an audit row its version and statuses.

*DatasetGovernance.* `row` is the dataset's row with its `state_history` as
`trail`; `entries[e]` is the latest version of an entry as publication and
archive see it, its content and whether it bars publication; `archive[v]` is
the full snapshot of version `v`. `Edit` lets entries change in any way between
any two steps (EntryGovernance has the real ones). `Bundle` is one transaction,
as in `import_bundle`: the old entries go with their audit and the
archive, the bundle's come in as Active, and the history of the dataset goes on. `Alone` is the specification of a client that is alone with the dataset:
bundles and edits come between its requests only.

*Delivery.* One reader at a time is enough, since readers change nothing. It
walks as the code does: the row of the dataset where the operation asks for it,
the list of entry ids, then for each id the number of its latest version and
then the row of that version, each a step; then it filters, pages, compares or
answers. Writers take single steps that are supersets of what their handlers do.
`witness` in the reader is a history variable: which rows existed during its
request and what was true throughout, which is what regularity is stated in.

*IdempotencyCache.* `Register` and `Complete` are the two visits to the map;
`Cancel` is the dropped future or a response that could not be collected; time
moves between any two steps. `runs` is a history variable: which handler runs
there were, and when their responses were stored.

*TransitionQuota, LlmLedger, MachineInvocation.* `Grant` and `Deny` are the two
ways `acquire` ends, with the eviction of stale instants in both; `granted` is a
history variable, the grants of this boot. A request of `MachineInvocation` goes
`Acquire`, `Locate`, `Judge`, then `ReadHop` and `WriteHop` for each hop. Around
it people move and renew the entry, LLM operations of all tenants end in their
audit rows, and the process restarts. `blamed` and `promoted` are history.

*Writeback.* A delivery is the transaction of `record_writeback_event` and, when
the consumer is configured, the start of a task in a free slot. `Accept` and
`Refuse` are the answers of the governance service, `TimeOut` the end of the
five seconds, after which the request may still be handled (`StrayHandled`);
`Mark` is the UPDATE of `mark_writeback_consumed`. `Restart` drops all tasks and
may change the configuration; `Revoke` and `CreateKey` act on the key the
proposal is sent with; `Discard` deletes the draft of an accepted proposal, so
that the same id can be accepted again.

*Sessions.* A pair of tokens is known by its number, and its claims are what was
read when it was issued. A login looks at the user (`CheckUser`), then reads the
role and issues (`IssueLogin`); a refresh, once its token is found good, looks at
the user, reads the role (`ReadRole`), and revokes the old token and issues a pair
(`Rotate`), one visit each; all work with the time they read when the request came
in. Disabling a user and changing a role may happen between any two of them.

*Accounts, Catalogue, Platform.* A start is a sequence of phases in the order of
`run`: three for the schema, then tenant, organisation, service seeds, the two
reference datasets, key files, administrator, serve. `Stop` may follow any of
them. What the handlers of `Accounts` hold in memory is dropped by it.

*SchemaCache.* A lookup takes the time of the directory and of each file
(`StatFile`), consults the cache, lists, reads file by file, stores. Edits are
at distinct times; `Toggle` makes the directory unreadable and readable.

Definitions with a comment *Slip:* are mistakes one could make in the code they
stand beside (a dropped foreign key, an eviction off by one, an INSERT OR
REPLACE). They are used by no specification. `mutants` in `PROJECT.json` puts
each in the place of the real definition and names the property that notices.

## 3. Runs

All twelve runs are expected to pass, and pass.

| run | what it asks | properties |
|---|---|---|
| `entries_rule` | two handlers, every operation, one rule entry, two versions | `TypeOK`, `SnapshotCoverage`, `AuditRowsHaveEntry`, `AuditAppendOnly`, `BornDraft` |
| `entries_moves` | two handlers, everything but patches, knowledge of every origin | `AuditMatchesStatus`, `LlmPromotedOnlyByMachine` |
| `entries_serial` | one handler at a time, two entries: do the steps implement `EntryLedger`? | `SerialLedger` |
| `datasets` | two handlers, every operation, imports and entry changes | `LifecycleIsPath`, `NothingOutlivesDataset`, `ArchiveFixed`, `BornFresh` |
| `datasets_serial` | a client alone with the dataset: do the steps implement `DatasetLedger`? | `SerialDataset` |
| `delivery` | exports, pulls, pages, searches, histories and diffs over a dataset that is written | `WalkIsRegular`, `SearchFindsKept`, `HistoryIsWhole`, `ApprovedServersOnly`, `LabelNotNewer`, `PagesDrift`, `DiffKeepsKept` |
| `idempotency` | three tasks, one key, two bodies, handlers within the in-flight limit | `SingleFlight`, `ReplayIsOwn`, `RetriesDoNotRepeat` |
| `invocation` | promotions by machines through quota, gate and hops, beside people and LLM operations of two tenants | `WindowBound`, `DeniedOnlyWhenFull`, `PromotionBound`, `NoForeignBlame`, `FailingNeverHelps` |
| `writeback` | repeated deliveries, late answers, revoked keys, a restart | `ReceivedOnce`, `ConsumedWasAccepted`, `AnchorFixed`, `TasksEnd`, `AcceptanceIsRecorded` |
| `sessions` | logins, refreshes and logouts of two users, disabled users, changing roles | `RetiredStaysOut`, `StaleClaimsRunOut` |
| `platform` | three starts, each cut off anywhere, and what is served between them | `DoorsOpen`, `PlatformRoleOnlyFromStart`, `ServesComplete`, `HandOver` |
| `schema_cache` | two lookups over a directory that is edited, becomes unreadable, and a restart | `AnswerFresh` |

The type invariants of the other modules are stated beside them and are in no
cfg, where each would only be checked for its own sake: add `INVARIANT TypeOK`
(`InvocationTypeOK` in `invocation`, `SchemaTypeOK` in `schema_cache`) to look at one. `OwnFailures` in `LlmLedger`
is the step between its table and `NoForeignBlame`.

**What some of the properties say.** `PromotionBound` is what the quota is worth
for promotions: a unit is taken at the start of a request and used at its end, so
within any hour a tenant promotes at most `MaxPerHour` plus one for each handler
that was slow. `NoForeignBlame` and `FailingNeverHelps` look at the gate through
the table it counts. `LabelNotNewer` is what reading the row before the entries
guarantees of a bundle, and `PagesDrift` the exact price of an offset cursor.
`StaleClaimsRunOut` bounds what a demoted or disabled user can still do by one
life of an access token. `HandOver` is a key rotation cut off between its two
files. `RetiredStaysOut` needs the table to keep a revocation as long as the
token it is about could be accepted.

**Bounds.** The races of this code are between *two* handlers on *one* row: a
lock protects each step, so what a third handler adds is another write between
a read and a write, which a second handler can do as well by serving a further
request. Hence two handlers, one contested entry or dataset, and `MaxRequests`
of 4 or 5 so that a handler may outlive several requests of the other, a
deletion and a new creation among them. `MaxVersion = 2` gives an older and a
latest version (3 in `datasets_serial`, where two bumps follow each other). Two
contents tell a change from a repetition. The thresholds of the gate
(`MaxDatasetEntriesT0`, `MaxServiceBindingsT0`, `LlmMinSamples`) are small, so
that facts on both sides of each edge occur.

- `delivery`: three entries and pages of one (`Limit = 1`), so that a client takes
  three requests to read a list; two versions of the dataset and of each entry;
  `MaxWrites = 4`, enough to create the dataset, add an entry, and still have two
  changes between the visits of a reader. A write brings its own number as the
  content, so contents that differ are told apart.
- `idempotency`: `MaxTime` exceeds twice the `TTL`, so that entries expire and keys
  are used again.
- `invocation`: a quota of one, and `Window = 0`, the least for which a window is
  over at the next tick; `MaxTime = 3` gives four windows and `MaxGrants = 4` fills
  them. One generated audit id and one that callers choose make rows that fail and
  rows that are taken over. Wider windows and quotas are the theorem's matter.
- `writeback`: three deliveries of two events, so that one is delivered again while
  its first task is at work; one restart; two datasets, so that the configuration
  can change. No symmetry, as the run checks liveness.
- `sessions`: an access token lives one tick and a refresh token two, of three, so
  both expire within the run. Four requests: a login, and three that race for it.
- `platform`: three starts allow a second change of the key after a first that was
  cut off; three requests allow a registration that stops half-way between them.
- `schema_cache`: two files and three edits, so that the newest file can be replaced
  behind a scan and again behind the next.

Handlers, contents, bodies, tasks, readers, files, users, roles, names and
secrets are interchangeable in the definitions of the runs that declare them
symmetric.

**Deadlock** is not checked: every run stops when `MaxRequests`, `MaxTime`,
`MaxWrites` or the like is used up, which is a bound of ours, and a server that
nobody asks anything rests.

**Fairness.** Only `Writeback` assumes any, and only `TimeOut` and `Mark` of each
slot, weakly: a started task is driven by the runtime, its HTTP call carries a
limit of five seconds, and what follows an answer waits for nobody but the
store. Nothing is assumed of deliveries, of the governance service or of restarts.
`TasksEnd` therefore rests on the time limit (its mutant removes it), and
`AcceptanceIsRecorded` promises a mark only for an acceptance the task saw, and
only if no restart drops it.

**`entries_moves` leaves patches out**, and this is not for lack of room. A patch
writes the status of its copy back, so with patches both properties fall: a
patch that read a Candidate and outlives the deletion of the entry writes
Candidate over the new draft, and no move is on record. With patches, the
properties of `entries_rule` are what remains.

**`idempotency` assumes** that the wall clock goes forward, that the map is not
lost (it is in memory: after a restart every key is new), and `MaxRun` below
the in-flight limit. Without the last one `SingleFlight` falls, and the
comment at `src/api/mod.rs:436` has it so: after 300 s a run counts as failed,
and its registration may be taken over.

**`HandOver` assumes** that the start between two servings was not cut off.
`AnswerFresh` assumes that no file is removed during the lookup (see below).

## 4. Promises the code does not keep

Each of these is a line of the repository, the definition that states it, and
the counterexample TLC finds. They are in the modules, are in no run, and are
`findings` in `PROJECT.json` where a line is contradicted outright. To see one
fall, put its name in place of the `INVARIANT` and `PROPERTY` lines of the cfg
named last (after `PROPERTY` for those marked †, else `INVARIANT`).

| definition | promise | what breaks it | cfg |
|---|---|---|---|
| `FrozenContent`† | `src/model/entry.rs:6`: an entry that went Active or Published is not modified in place | a patch reads a Candidate; a move to Active commits; the patch writes content and status of its copy | `entries_rule` |
| `MachineNeverDuplicates` | `src/gate/mod.rs:8`: M3 refuses the content of an Active entry | two promotions probe before either writes; both see no twin | `entries_rule` with two entries, one content, `MaxVersion = 1` |
| `LegalStatusSteps`† | statuses move along the table of `transition_entry_status` | approve against reject, or a patch that writes an old status | `entries_rule` |
| `StatusChangesAreAudited`† | a status change has its audit row | a patch that writes an old status | `entries_rule` |
| `ExternalNeverMachinePromoted` | external knowledge is released by people | the entry is deleted and added again, by another origin, between the read and the hop | `entries_moves` |
| `OnlyDraftsAreDeleted`† | only drafts are deleted | a promotion between the check and the DELETE; or an older Active version under a newer draft, without any race | `entries_rule` |
| `HistoryAppendOnly`† | `src/model/lifecycle.rs:8`: `state_history` only grows | two moves append to copies of one history | `datasets` |
| `PatchLeavesLifecycle`† | PATCH leaves versions and lifecycle alone | a publication or bump between its read and write | `datasets` |
| `PublishedVersionIsCurrent` | what is published is the current version | a bump between the read and write of a publication | `datasets` |
| `NoPendingAtPublication`† | no publication over an unratified release | a T1 release behind the walk over the entries | `datasets` |
| `VersionsNotReused`† | a version number is not used twice | two bumps from one version | `datasets` |
| `OnlyIdleDeleted`† | only Draft or Rejected datasets are deleted | a move between the check and the DELETE | `datasets` |
| `ArchiveIsTheMoment`† | the archive is the content at the bump | an edit while the entries are collected | `datasets` |
| `RefreshedOnce` | `src/auth/mod.rs:479`: a rotated token cannot be refreshed again | two refreshes look it up before either revokes it; the revocation ignores a row already there | `sessions` |
| `UsernamesUnique` | `src/auth/mod.rs:282`: names are unique over all organisations | two registrations in two organisations look first and insert later | `platform` |
| `AdminWhenAsked` | `src/main.rs:194`: the administrator is created unless the organisation has the name | a user of the name in another organisation | `platform` |
| `RestartKeepsKey` | `src/main.rs:158`: the random key is persisted | it never is | `platform` |
| `CustomKept`† | `src/store/mod.rs:4246`: seeding leaves what was made of official services | tenants hold all official names; the next start takes them back | `platform` |
| `UnconsumedWasNotAccepted` | `src/model/writeback.rs:131`: empty `consumed_at` means the proposal did not succeed | an answer after five seconds, or after a restart | `writeback` |
| `RateOfOperations` | `src/gate/mod.rs:266`: M5 is the failure rate of LLM operations | receipts of failures count as operations that did not fail | `invocation` with `MaxAudits = 2` |
| `RowsStay`† | `src/api/handlers_entries.rs:432`: others have no part in a tenant's rate | an operation of another tenant takes a row over by its request id | `invocation` |
| `PromotionQuota` | `src/api/handlers_datasets.rs:1535`: so many promotions an hour | a slow request promotes in the next window | `invocation` |
| `IndexFindsKept` | `src/store/mod.rs:4504`: the hit of an entry is its latest version | an older version matches as well and is the one picked | `delivery` |
| `LabelIsTrue` | `src/store/mod.rs:3202`: an export has the entries of its version | a new version between the row and the entries | `delivery` |
| `OthersSeePublished` | `src/api/handlers_entries.rs:701`: others read what is public and Published | withdrawn and edited after the check | `delivery` with one entry, kind and version each, `MaxWrites = 7` |
| `DiffKeepsKeptOfAll` | `src/store/mod.rs:4583`: a diff compares contents | of a knowledge dataset no current entry is listed | `delivery` |

Most share one cause: a check on a copy, a write by key alone.

Divergences that need no model checker: `src/gate/mod.rs:35` and the notes of M5
speak of a downgrade to T2, while the code downgrades to T1;
`src/api/handlers_datasets.rs:1459` says LLM output is refused on the machine
channel, while the gated boundary admits it with evidence; the dry run of
`src/api/handlers_bundle.rs:273` leaves out three of the checks of the import,
while line 262 promises all of them; `used()` at `src/api/quota.rs:71` counts
instants that have left the window, since only `acquire` evicts; the UPDATE of
`update_draft_entry` (`src/store/mod.rs:2839`) leaves out the `consumed_inputs`
column that the PATCH handler accepts and validates. Also seen, and not modelled
further: an import over an existing dataset keeps its tenant's row and its
`dataset_kind` whoever imports; `create_service` writes over the row of another
tenant (in `Catalogue`, as `CreateService`); template ids made in one second
collide; `add_member` does not ask whether the organisation exists; two edits of
the schema directory within one tick of the file system's clock look like one;
`init_schema` ignores every error of an ALTER TABLE, not only that of a column
that is there; `list_datasets` fails if a dataset is deleted while it reads.

## 5. Proofs

TLC checks the properties of the runs on small instances; TLAPS checks the
theorems for every value of the constants: any number of entries, versions,
handlers, requests, users, tenants, events, files, starts, any thresholds, quotas
and lifetimes. Every invariant and every action property of the twelve runs, and
both refinements, is the conclusion of a theorem (`theorems` in `PROJECT.json`
pairs them). Each invariant a theorem rests on was first checked by TLC on the
run of its module.

**Assumptions.** The theorems use the named `ASSUME`s of the modules and nothing
else but what their `ASSUME ... PROVE` says. The former (`EntryGovernanceAssumption`,
`DatasetGovernanceAssumption`, `ThresholdAssumption`, `QuotaAssumption`,
`InvocationAssumption`, `WritebackAssumption`, `SessionsAssumption`,
`PlatformAssumption`, `IdempotencyAssumption`, `SchemaCacheAssumption`,
`DeliveryAssumption`, `NoneAssumption`) give the ranges of the bounds, say that
`None` is none of the values it stands beside, and, where it matters, a little more:
an access token lives no longer than a refresh token, ids that callers choose are
not ids that are generated, the threads and the entry ids of a reader are finitely many.
The latter are three, and each has its reason:

| hypothesis | of | why |
|---|---|---|
| `"patch" \notin Ops` | `AuditTellsStatus`, `MachinesReleaseLlmEntries` | with patches the properties fall, as the run `entries_moves` explains |
| `Serial`: all handlers are one | `OneHandlerKeepsLedger`, `LoneClientKeepsLedger` | two handlers do not implement the atomic store: that is section 4 |
| `InTime`: `MaxRun <= PendingTimeout` | the idempotency theorems | a slower request is taken over while it runs |

**EntryGovernanceProofs.** The invariants of the runs are not inductive alone, since
a handler writes from its copy. `EntryInv` adds what the copy guarantees:
`StoreInv` (types, snapshot coverage, audit rows have their version) and
`RequestInv` (each request in flight is well formed: at `write` it has a version
in range and a row as its copy, and a promotion's plan is made of statuses). The
argument has two halves: each of the five writers keeps the store, and each step
of a handler keeps the requests. `SnapshotsCover`, `AuditsHaveEntry`,
`VersionsAreBornDrafts` and `AuditIsMemory` follow. *Without patches*, `MovesInv`
adds the two properties themselves and `HumanReleasesHeld`: a human move at its
write does not release an LLM copy. *With one handler*, `SerialInv` adds `StillSo`,
that what the request has read is still so: its version is there and later ones are
drafts, the status is that of the copy, and the copy was admitted. Then each
write is a step of `EntryLedger` under the mapping, and every other step stutters.

**DatasetGovernanceProofs.** What makes `LifecycleIsPath` inductive is that it holds of
every copy in flight as well: each is a row that once was, with its own lawful
history, and was admitted. `PathGrows` is the one lemma on trails, and every write
of a lifecycle is one use of it. `ArchivesStay` and `DatasetsAreBornFresh` look at
one step. *With one handler*, `SerialInv` adds that the row is the copy, that a
publication has passed the entries it need not look at any more, that a bump has
gathered theirs, and `NotYetLeft`: the version the dataset is in, and those after it,
have no archive. The last is what turns the archive that ignores what is there
(ON CONFLICT DO NOTHING) into the ledger's, which is written once.

**DeliveryProofs.** A write changes the rows and what the witness knows, a step of the
reader changes the reader. So `DeliveryInv` is `StoreInv` and a relation `Good` between the
reader and the rows, in named parts: where its request is (`Placed`, `Begun`,
`Answered`, `Paging`), what it has found was seen while it read (`FoundWasSeen`,
`Numbered`, `KeptToCompare`, `BothRead`), what stayed is either found or still to do
(`NoneLost`, `NoContentLost`, `TodoFits`), and what the witness knows is true of the
rows (`Knows`). Each part has one lemma for a write and one for each kind of visit; the
seven properties are read off the state in which the request is answered.

**CacheProofs.** *Idempotency*: a running task owns the entry of its key and its run is the
last one under it (`OwnerInv`), a finished entry names the run it answers with (`DoneInv`), a
stored response keeps its key for `TTL` (`StoredInv`), and no request is older than it may
be (`AgeInv`). The last is where `InTime` is used: a registration that may be taken
over belongs to nobody any more. *Schemas*: of each scan, stored or under way,
`ScanSound` says that what it read is what the directory says, of all files not newer
than its fingerprint, and that a lookup that has walked past its file will either find
a later fingerprint than the scan's or saw what the scan read. So an
answer from the scan of another lookup is as fresh as one of its own.

**MachineInvocationProofs.** `QuotaHolds` says that `MaxPerHour + 1` consecutive grants
span more than a window. The queue alone does not say so, because it forgets;
`QuotaInv` relates it to the grants of this boot: the queue is their end
(`QueueIsTheWindow`), what it forgot is stale, and grants are in order.
`RefusalIsDeserved` is an action property from the same invariant. `GateIsMonotone`
states of the gate alone that facts no better in any respect are never given a
lighter tier. `InvocationImplementsQuota`: what requests, people, LLM operations and
restarts do to the quota are its own steps or none, so its theorems
hold of them (`InvocationsKeepQuota`). `InvocationInv` adds `LedgerInv` (failed
rows have generated ids and are their tenant's), `TaskInv` and `PromotionInv`. The
bound on promotions is not inductive either: `PromotionInv` says that a promotion with
many others after it, or about to come, has as many *grants* after it, less the
requests at work at its time; `PromotionsAreBounded` is then `QuotaHolds`.
`FailuresNeverHelp` is `GateIsMonotone` on the counts of the ledger.

**WritebackProofs.** `RecordInv` is what is on record, `FlightInv` what tasks and requests
nobody waits for may hold: a task speaks of a row that is there, and once it was
answered its proposal was accepted, which makes the mark true however late it comes.

**SessionsProofs.** `StandingInv`, `TokenInv`, `TaskInv` and `BoundInv` are the standing of
users, the tokens, the requests, and the pairs that can still be issued. The action formula
`Onward` collects what no step takes back (time, pairs, revocations, when
a claim was last true), and is all that a request which does not move needs to know
of the step of another. `OldClaimsExpire` puts `StaleClaimsRunOut` in terms of tokens:
one life of an access token after its claims ceased to be true, a token is not accepted.

**PlatformProofs.** `AccountInv`, `CatalogueInv`, `SetupInv` and `KeyInv`. That a start
may be cut off anywhere means that each phase may rely only on what the *phases
before it* leave in the tables; `SetupInv` says so phase by phase, and `KeyInv`
follows the keys through the two writes of a rotation.

**Model-checked only.** `TasksEnd` and `AcceptanceIsRecorded` of `writeback`: liveness
under fairness, which is out of this prover's reach, like ENABLED. There is no
induction over data and no RECURSIVE operator in these modules.

## 6. Plan

The model covers what the project set out to cover, and each safety property of a
run has its theorem. What could be added, in this order:

1. Of section 4, how far each promise is kept: the weakest schedule under which
   it holds, as the serial theorems do for the two ledgers (for instance that frozen
   content is kept by any number of handlers of which one patches or moves).
2. The dataset seen from its entries: that every step of `EntryGovernance` is an
   `Edit` of `DatasetGovernance`, so that the two modules meet in a theorem.
3. The refinement of `Catalogue` and `Accounts` by `Platform` as theorems of
   their own, for the handlers alone.

## 7. What is not modelled, and why

- *Formats*: hashing, signatures, password and token encodings, bundle formats
  and their validation chain, which is the `evorule-bundle` crate's.
- *Content checks* of `validate/` (symbols, law structure, credentials), which are
  functions of one text and appear as verdicts; columns other than those named.
- *`resolve/`*: the choice of a version by dates, a pure function.
- *Templates, disabling an organisation, listing members*: single statements whose
  state does not outlive the statement.
- *The PostgreSQL store*: an optional back end for part of the tables, not wired
  into the handlers modelled here.
- *Calls to language models*: one step at their end, of which the audit row matters.
- *The CLI and data types*: no state of their own.
- *Quota of zero*, which turns the quota off.

SQLite itself is taken at its word: a transaction under the mutex is atomic, and
foreign keys are enforced. A crash in the middle of a transaction leaves nothing
of it. A crash between two transactions of a handler is, where nothing but the
request is in memory, the same as never serving the request further, which
every handler may do in these specifications; where memory matters (keys,
proposal tasks, quota, revocation in flight, starts), the restart is an action.
