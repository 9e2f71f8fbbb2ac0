---------------------------- MODULE Catalogue ----------------------------
(***************************************************************************)
(* The service catalogue (handlers_services.rs and its table).  A row is   *)
(* keyed by the name of the service alone; its scope is the platform or a  *)
(* tenant.  The official rows are put there by the start of the service.   *)
(* Registering writes a row whatever is there; updating reads the row and  *)
(* writes it back with the scope it had.                                   *)
(*                                                                         *)
(* Of the columns, scope (managed_by goes with it) and who wrote last.     *)
(***************************************************************************)

CONSTANTS Tenants, Services, Official, None

Scopes == {"platform"} \union Tenants
Row == [ scope : Scopes, by : {"seed"} \union Tenants ]

VARIABLES
    services,  \* service_catalog: services[n], the row of n, or None
    update,    \* an update between its read and its write: [name, scope, by], or None
    declared   \* the services that the datasets of a tenant declare: <<tenant, name>>

Seed == [scope |-> "platform", by |-> "seed"]

\* What list_services and get_service show to a tenant.
Visible(row, t) == row # None /\ row.scope \in {"platform", t}

\* The count of seed_official_services_if_empty: the platform has no row.
NeedsSeeds == \A n \in Services : services[n] # None => services[n].scope # "platform"

\* Its transaction: all of the official rows, over what is there.
SeedAll ==
    /\ services' = [n \in Services |-> IF n \in Official THEN Seed ELSE services[n]]
    /\ UNCHANGED <<update, declared>>

CreateService(t, n) ==
    /\ services' = [services EXCEPT ![n] = [scope |-> t, by |-> t]]
    /\ UNCHANGED <<update, declared>>

BeginUpdate(t, n) ==
    /\ update = None
    /\ Visible(services[n], t)
    /\ update' = [name |-> n, scope |-> services[n].scope, by |-> t]
    /\ UNCHANGED <<services, declared>>

WriteUpdate ==
    /\ update # None
    /\ services' = [services EXCEPT ![update.name] = [scope |-> update.scope, by |-> update.by]]
    /\ update' = None
    /\ UNCHANGED declared

\* put_dataset_deps: only services that the tenant can see.
Declare(t, n) ==
    /\ Visible(services[n], t)
    /\ declared' = declared \union {<<t, n>>}
    /\ UNCHANGED <<services, update>>

CatalogueInit ==
    /\ services = [n \in Services |-> None]
    /\ update = None
    /\ declared = {}

CatalogueTypeOK ==
    /\ services \in [Services -> Row \union {None}]
    /\ update \in [name : Services, scope : Scopes, by : Tenants] \union {None}
    /\ declared \subseteq Tenants \X Services
=============================================================================
