----------------------------- MODULE TenantSync -----------------------------
(***************************************************************************)
(* The tenant sync sidecar (kc_lago_sync.py): one sequential process that  *)
(* polls Keycloak and provisions a tenant in Lago, LiteLLM and Langfuse    *)
(* for every group that appears, and deprovisions it when the group goes.  *)
(*                                                                         *)
(* What it knows (known_groups) lives in memory; what survives a restart   *)
(* is the attribute "provisioned" it writes to the group as the last step  *)
(* of provisioning.  Each action is one HTTP call with the code up to the  *)
(* next.  While it waits, administrators create and delete groups, the     *)
(* call may fail, and the process may be killed; Docker restarts it.       *)
(*                                                                         *)
(* Every external system names a tenant by its group's name.  A failed     *)
(* call is "refused" (an HTTP status the code may or may not look at, no   *)
(* effect) or raises an exception, its effect having taken place or not.   *)
(***************************************************************************)
EXTENDS Integers, FiniteSets

CONSTANTS
    Groups,       \* Keycloak group ids, never reused
    Names,
    Name,         \* the name of each group
    NoGroup,      \* the group in work when there is none
    MaxFailures,  \* bound: HTTP calls that fail
    MaxCrashes    \* bound: times the process is killed

ASSUME SyncAssumption ==
    /\ Name \in [Groups -> Names]
    /\ NoGroup \notin Groups
    /\ MaxFailures \in Nat /\ MaxCrashes \in Nat

VARIABLES
    kc,           \* Keycloak: groups not made yet, present, deleted
    provisioned,  \* Keycloak: groups with the attribute provisioned = true
    customers,    \* Lago: customers that are not archived
    plans,        \* Lago: customers with a subscription
    keys,         \* LiteLLM: number of keys with a tenant's alias
    orgs,         \* Langfuse: organisations
    pc,           \* the call the sidecar makes next
    known,        \* known_groups
    current,      \* the groups of the listing this pass works on
    work,         \* the group being provisioned or deprovisioned
    failures,     \* number of calls that failed so far
    crashes       \* number of crashes so far

keycloak == <<kc, provisioned>>
tenants == <<customers, plans, keys, orgs>>
counters == <<failures, crashes>>
syncVars == <<keycloak, tenants, pc, known, current, work, counters>>

Present == {g \in Groups : kc[g] = "present"}

Failure ==
    /\ failures < MaxFailures
    /\ failures' = failures + 1
    /\ UNCHANGED crashes

(***************************************************************************)
(* sync_loop                                                               *)
(***************************************************************************)
\* An exception that leaves the body of the loop ends the pass.
EndPass ==
    /\ pc' = "sleep"
    /\ current' = {}
    /\ work' = NoGroup

\* get_kc_token and list_kc_groups.
Poll ==
    /\ pc = "sleep"
    /\ current' = Present
    /\ pc' = "detect"
    /\ UNCHANGED <<keycloak, tenants, known, work, counters>>

\* Mutant: a listing that failed counts as an empty one.
PollFailsEmpty ==
    /\ pc = "sleep"
    /\ Failure
    /\ current' = {}
    /\ pc' = "detect"
    /\ UNCHANGED <<keycloak, tenants, known, work>>

PollFails ==
    /\ pc = "sleep"
    /\ Failure
    /\ UNCHANGED <<keycloak, tenants, pc, known, current, work>>

\* A listed group it does not know: get_kc_group_attrs.  Keycloak answers 404,
\* an exception, if the group was deleted since the listing.
Detect(g) ==
    /\ pc = "detect"
    /\ g \in current \ known
    /\ \/ /\ g \in Present \cap provisioned
          /\ known' = known \cup {g}
          /\ UNCHANGED <<pc, current, work>>
       \/ /\ g \in Present \ provisioned
          /\ pc' = "customer"
          /\ work' = g
          /\ UNCHANGED <<known, current>>
       \/ /\ g \notin Present
          /\ EndPass
          /\ UNCHANGED known
    /\ UNCHANGED <<keycloak, tenants, counters>>

DetectFails ==
    /\ pc = "detect"
    /\ current \ known # {}
    /\ Failure
    /\ EndPass
    /\ UNCHANGED <<keycloak, tenants, known>>

\* No new group is left; the second loop is over the groups that are gone.
DetectRemoved(g) ==
    /\ pc \in {"detect", "removed"}
    /\ current \subseteq known
    /\ g \in known \ current
    /\ pc' = "archive"
    /\ work' = g
    /\ UNCHANGED <<keycloak, tenants, known, current, counters>>

PassEnds ==
    /\ pc \in {"detect", "removed"}
    /\ current = known
    /\ EndPass
    /\ UNCHANGED <<keycloak, tenants, known, counters>>

(***************************************************************************)
(* provision_tenant.  Whether it succeeds or an exception ends it, the     *)
(* group counts as known afterwards.                                       *)
(***************************************************************************)
LeaveProvision ==
    /\ known' = known \cup {work}
    /\ pc' = "detect"
    /\ work' = NoGroup
    /\ UNCHANGED current

GoOn(label) ==
    /\ pc' = label
    /\ UNCHANGED <<known, current, work>>

Tenant == Name[work]

\* The effects of each call on Lago, LiteLLM and Langfuse.
CreatesCustomer == customers' = customers \cup {Tenant} /\ UNCHANGED <<plans, keys, orgs>>
AssignsPlan == plans' = plans \cup {Tenant} /\ UNCHANGED <<customers, keys, orgs>>
CreatesKey == keys' = [keys EXCEPT ![Tenant] = @ + 1] /\ UNCHANGED <<customers, plans, orgs>>
CreatesOrg == orgs' = orgs \cup {Tenant} /\ UNCHANGED <<customers, plans, keys>>

CreateCustomer ==
    pc = "customer" /\ CreatesCustomer /\ GoOn("plan") /\ UNCHANGED <<keycloak, counters>>

\* Another status than 200 or 201 is only logged.
AssignPlan ==
    /\ pc = "plan"
    /\ GoOn("key")
    /\ \/ AssignsPlan /\ UNCHANGED counters
       \/ UNCHANGED tenants /\ Failure
    /\ UNCHANGED keycloak

\* Mutant: an error is only logged, as it is for the plan.
CreateKeyLogged ==
    /\ pc = "key"
    /\ GoOn("org")
    /\ \/ CreatesKey /\ UNCHANGED counters
       \/ UNCHANGED tenants /\ Failure
    /\ UNCHANGED keycloak

CreateKey == pc = "key" /\ CreatesKey /\ GoOn("org") /\ UNCHANGED <<keycloak, counters>>

\* create_langfuse_org swallows its own exceptions.
CreateOrg ==
    /\ pc = "org"
    /\ GoOn("attrs")
    /\ \/ CreatesOrg /\ UNCHANGED counters
       \/ (CreatesOrg \/ UNCHANGED tenants) /\ Failure
    /\ UNCHANGED keycloak

\* Mutant: a group that is deleted meanwhile does not count as known.
GetAttrsForget ==
    /\ pc = "attrs"
    /\ IF work \in Present THEN GoOn("mark") ELSE EndPass /\ UNCHANGED known
    /\ UNCHANGED <<keycloak, tenants, counters>>

GetAttrs ==
    /\ pc = "attrs"
    /\ IF work \in Present THEN GoOn("mark") ELSE LeaveProvision
    /\ UNCHANGED <<keycloak, tenants, counters>>

SetAttrs ==
    /\ pc = "mark"
    /\ provisioned' = IF work \in Present THEN provisioned \cup {work} ELSE provisioned
    /\ LeaveProvision
    /\ UNCHANGED <<kc, tenants, counters>>

\* An exception in one of the calls, which may have had its effect.
ProvisionFails ==
    /\ pc \in {"customer", "plan", "key", "attrs", "mark"}
    /\ Failure
    /\ \/ UNCHANGED <<tenants, provisioned>>
       \/ pc = "customer" /\ CreatesCustomer /\ UNCHANGED provisioned
       \/ pc = "plan" /\ AssignsPlan /\ UNCHANGED provisioned
       \/ pc = "key" /\ CreatesKey /\ UNCHANGED provisioned
       \/ /\ pc = "mark" /\ work \in Present
          /\ provisioned' = provisioned \cup {work}
          /\ UNCHANGED tenants
    /\ LeaveProvision
    /\ UNCHANGED kc

(***************************************************************************)
(* deprovision_tenant.  Exceptions are swallowed and the statuses of the   *)
(* deletions are not looked at; the group is forgotten in any case.        *)
(***************************************************************************)
LeaveDeprovision ==
    /\ known' = known \ {work}
    /\ pc' = "removed"
    /\ work' = NoGroup
    /\ UNCHANGED current

Archives == customers' = customers \ {Tenant} /\ UNCHANGED <<plans, keys, orgs>>
DeletesKey ==
    /\ keys' = [keys EXCEPT ![Tenant] = IF @ = 0 THEN 0 ELSE @ - 1]
    /\ UNCHANGED <<customers, plans, orgs>>

Archive ==
    /\ pc = "archive"
    /\ GoOn("list_keys")
    /\ \/ Archives /\ UNCHANGED counters
       \/ UNCHANGED tenants /\ Failure
    /\ UNCHANGED keycloak

\* The loop deletes the first key of the alias and returns.
ListKeys ==
    /\ pc = "list_keys"
    /\ IF keys[Tenant] > 0 THEN GoOn("delete_key") ELSE LeaveDeprovision
    /\ UNCHANGED <<keycloak, tenants, counters>>

DeleteKey ==
    /\ pc = "delete_key"
    /\ DeletesKey
    /\ LeaveDeprovision
    /\ UNCHANGED <<keycloak, counters>>

DeprovisionFails ==
    /\ pc \in {"archive", "list_keys", "delete_key"}
    /\ Failure
    /\ \/ UNCHANGED tenants
       \/ pc = "archive" /\ Archives
       \/ pc = "delete_key" /\ DeletesKey
    /\ LeaveDeprovision
    /\ UNCHANGED keycloak

(***************************************************************************)
(* The administrators, and the end of the process.                         *)
(***************************************************************************)
CreateGroup(g) ==
    /\ kc[g] = "unborn"
    /\ \A h \in Present : Name[h] # Name[g]
    /\ kc' = [kc EXCEPT ![g] = "present"]
    /\ UNCHANGED <<provisioned, tenants, pc, known, current, work, counters>>

DeleteGroup(g) ==
    /\ kc[g] = "present"
    /\ kc' = [kc EXCEPT ![g] = "deleted"]
    /\ provisioned' = provisioned \ {g}
    /\ UNCHANGED <<tenants, pc, known, current, work, counters>>

CrashSync ==
    /\ crashes < MaxCrashes
    /\ crashes' = crashes + 1
    /\ EndPass
    /\ known' = {}
    /\ UNCHANGED <<keycloak, tenants, failures>>

-----------------------------------------------------------------------------
SyncInit ==
    /\ kc = [g \in Groups |-> "unborn"]
    /\ provisioned = {}
    /\ customers = {} /\ plans = {} /\ orgs = {}
    /\ keys = [n \in Names |-> 0]
    /\ pc = "sleep"
    /\ known = {} /\ current = {}
    /\ work = NoGroup
    /\ failures = 0 /\ crashes = 0

Sync ==
    \/ Poll \/ PollFails \/ DetectFails \/ PassEnds
    \/ \E g \in Groups : Detect(g) \/ DetectRemoved(g)
    \/ CreateCustomer \/ AssignPlan \/ CreateKey \/ CreateOrg \/ GetAttrs \/ SetAttrs
    \/ ProvisionFails
    \/ Archive \/ ListKeys \/ DeleteKey \/ DeprovisionFails

Admin == \E g \in Groups : CreateGroup(g) \/ DeleteGroup(g)

SyncNext == Sync \/ Admin \/ CrashSync

SyncSpec == SyncInit /\ [][SyncNext]_syncVars

\* The process sleeps 30 s between passes and bounds every call by 10 s, so it
\* always gets on.  Nothing is asked of the administrators.
FairSyncSpec == SyncSpec /\ WF_syncVars(Sync)

(***************************************************************************)
(* Properties                                                              *)
(***************************************************************************)
\* Every variable has its type.
SyncTypeOK ==
    /\ kc \in [Groups -> {"unborn", "present", "deleted"}]
    /\ provisioned \in SUBSET Groups
    /\ customers \in SUBSET Names /\ plans \in SUBSET Names /\ orgs \in SUBSET Names
    /\ keys \in [Names -> Nat]
    /\ pc \in {"sleep", "detect", "customer", "plan", "key", "org", "attrs", "mark",
               "removed", "archive", "list_keys", "delete_key"}
    /\ known \in SUBSET Groups /\ current \in SUBSET Groups
    /\ work \in Groups \cup {NoGroup}
    /\ failures \in Nat /\ crashes \in Nat

\* The attribute tells the truth, through failures and restarts: a group marked
\* provisioned has its customer and a key, so skipping it (kc_lago_sync.py:270,
\* "restart safety") loses nothing.
ProvisionedIsTrue ==
    \A g \in Present \cap provisioned : Name[g] \in customers /\ keys[Name[g]] > 0

\* A tenant that exists is never deprovisioned: neither its customer nor its last
\* key is taken away while its group is there.
LiveTenantsKeepAccess ==
    [][\A g \in Present :
         /\ Name[g] \in customers => Name[g] \in customers'
         /\ keys[Name[g]] > 0 => keys'[Name[g]] > 0]_syncVars

Undisturbed == failures = 0 /\ crashes = 0

Ready(g) == g \in provisioned /\ Name[g] \in plans /\ Name[g] \in orgs
Gone(g) == Name[g] \notin customers /\ keys[Name[g]] = 0

Settled(g) ==
    \/ kc[g] = "present" /\ Ready(g)
    \/ kc[g] = "deleted" /\ Gone(g)

\* Undisturbed, every group that stays is provisioned in all systems, and every
\* group that is deleted loses its customer and its key, whenever the deletion
\* falls (also in the middle of provisioning).
EventuallySynced ==
    \A g \in Groups : kc[g] # "unborn" ~> Settled(g) \/ ~Undisturbed

\* docs/tenant-onboarding.md:3, "One command provisions a new tenant across all
\* systems": a group that stays gets its customer and its key in the end.
EventuallyProvisioned ==
    \A g \in Groups :
        kc[g] = "present" ~>
            kc[g] = "deleted" \/ (Name[g] \in customers /\ keys[Name[g]] > 0)
=============================================================================
