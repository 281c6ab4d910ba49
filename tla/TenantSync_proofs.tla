------------------------- MODULE TenantSync_proofs -------------------------
(***************************************************************************)
(* What the tenant sync sidecar promises for any number of groups,         *)
(* failures and crashes, provided that no name is used for two groups: the *)
(* mark of a group is true, and nothing is taken from a tenant that is     *)
(* there.                                                                  *)
(*                                                                         *)
(* Both rest on the same argument. A group that the sidecar knows and that *)
(* the listing of the pass lacks was deleted before the listing was made,  *)
(* and a group never comes back: what is deprovisioned is gone. What is    *)
(* provisioned has, at each call, got what the calls before it gave, for   *)
(* nobody else takes it away: the sidecar is the only process.             *)
(***************************************************************************)
EXTENDS TenantSync, TLAPS

\* No name is used for two groups, not even after one was deleted.
FreshNaming == \A g, h \in Groups : Name[g] = Name[h] => g = h

Provisioning == {"customer", "plan", "key", "org", "attrs", "mark"}
Deprovisioning == {"archive", "list_keys", "delete_key"}

\* What the sidecar remembers was there once; what this pass's listing lacks is
\* gone for good.
MemoryInv ==
  /\ \A g \in known \cup current : kc[g] # "unborn"
  /\ pc # "sleep" => \A g \in known \ current : kc[g] = "deleted"

\* The group in work: listed and on its way in, or gone and on its way out.
StageInv ==
  /\ pc \in Provisioning => work \in current
  /\ pc \in Provisioning \ {"customer"} => Name[work] \in customers
  /\ pc \in {"org", "attrs", "mark"} => keys[Name[work]] > 0
  /\ pc \in Deprovisioning => work \in Groups /\ kc[work] = "deleted"

SyncInv ==
  SyncTypeOK /\ MemoryInv /\ StageInv /\ provisioned \subseteq Present /\ ProvisionedIsTrue

LEMMA SyncInvInit == SyncInit => SyncInv
BY SyncAssumption DEF SyncInit, SyncInv, SyncTypeOK, MemoryInv, StageInv, Present, ProvisionedIsTrue,
   Provisioning, Deprovisioning

\* The steps that leave the groups and the tenants alone.
LEMMA QuietSteps ==
    ASSUME SyncInv,
           \/ Poll \/ PollFails \/ DetectFails \/ PassEnds \/ CrashSync
           \/ \E g \in Groups : Detect(g) \/ DetectRemoved(g)
           \/ ListKeys \/ GetAttrs
    PROVE  SyncInv'
<1> USE DEF keycloak, tenants, counters, Present
<1>0. SyncTypeOK /\ MemoryInv /\ StageInv /\ ProvisionedIsTrue /\ provisioned \subseteq Present
    BY DEF SyncInv
<1>1. UNCHANGED <<keycloak, tenants>>
    BY DEF Poll, PollFails, DetectFails, PassEnds, CrashSync, Detect, DetectRemoved, ListKeys, GetAttrs
<1>2. ProvisionedIsTrue' /\ (provisioned \subseteq Present)'
    BY <1>0, <1>1 DEF ProvisionedIsTrue
<1>3. CASE Poll
    <2>1. SyncTypeOK'
        BY <1>0, <1>3 DEF SyncTypeOK, Poll
    <2>2. MemoryInv'
        BY <1>0, <1>3 DEF SyncTypeOK, MemoryInv, Poll
    <2>3. StageInv'
        BY <1>3 DEF StageInv, Poll, Provisioning, Deprovisioning
    <2> QED BY <1>2, <2>1, <2>2, <2>3 DEF SyncInv
<1>4. CASE PollFails
    <2>1. SyncTypeOK'
        BY <1>0, <1>4 DEF SyncTypeOK, PollFails, Failure
    <2> QED BY <1>0, <1>2, <1>4, <2>1 DEF SyncInv, MemoryInv, StageInv, PollFails
<1>5. ASSUME EndPass, known' \subseteq known, failures' \in Nat, crashes' \in Nat
      PROVE  SyncInv'
    <2>1. SyncTypeOK'
        BY <1>0, <1>1, <1>5 DEF SyncTypeOK, EndPass
    <2>2. MemoryInv' /\ StageInv'
        BY <1>0, <1>1, <1>5 DEF MemoryInv, StageInv, EndPass, Provisioning, Deprovisioning
    <2> QED BY <1>2, <2>1, <2>2 DEF SyncInv
<1>6. CASE DetectFails \/ PassEnds \/ CrashSync
    BY <1>0, <1>5, <1>6 DEF SyncTypeOK, DetectFails, PassEnds, CrashSync, Failure
<1>7. ASSUME NEW g \in Groups, Detect(g)
      PROVE  SyncInv'
    <2>1. CASE EndPass /\ UNCHANGED known
        BY <1>0, <1>5, <1>7, <2>1 DEF SyncTypeOK, Detect
    <2>2. CASE known' = known \cup {g} /\ UNCHANGED <<pc, current, work>>
        <3>1. SyncTypeOK'
            BY <1>0, <1>1, <1>7, <2>2 DEF SyncTypeOK, Detect
        <3> QED BY <1>0, <1>1, <1>2, <1>7, <2>2, <3>1 DEF SyncInv, MemoryInv, StageInv, Detect
    <2>3. CASE pc' = "customer" /\ work' = g /\ UNCHANGED <<known, current>>
        <3>1. SyncTypeOK'
            BY <1>0, <1>1, <1>7, <2>3 DEF SyncTypeOK, Detect
        <3>2. MemoryInv'
            BY <1>0, <1>1, <1>7, <2>3 DEF MemoryInv, Detect
        <3>3. StageInv'
            BY <1>7, <2>3 DEF StageInv, Detect, Provisioning, Deprovisioning
        <3> QED BY <1>2, <3>1, <3>2, <3>3 DEF SyncInv
    <2> QED BY <1>7, <2>1, <2>2, <2>3 DEF Detect
<1>8. ASSUME NEW g \in Groups, DetectRemoved(g)
      PROVE  SyncInv'
    <2>1. SyncTypeOK'
        BY <1>0, <1>8 DEF SyncTypeOK, DetectRemoved
    <2>2. MemoryInv'
        BY <1>0, <1>8 DEF MemoryInv, DetectRemoved
    <2>3. StageInv'
        BY <1>0, <1>8 DEF StageInv, MemoryInv, DetectRemoved, Provisioning, Deprovisioning
    <2> QED BY <1>2, <2>1, <2>2, <2>3 DEF SyncInv
<1>9. CASE ListKeys \/ GetAttrs
    <2>0. pc \in {"list_keys", "attrs"} /\ work \in Groups
        BY <1>0, <1>9 DEF ListKeys, GetAttrs, StageInv, SyncTypeOK, Provisioning, Deprovisioning
    <2>1. SyncTypeOK'
        BY <1>0, <1>9, <2>0 DEF SyncTypeOK, ListKeys, GetAttrs, GoOn, LeaveDeprovision, LeaveProvision
    <2>2. MemoryInv'
        BY <1>0, <1>9, <2>0 DEF MemoryInv, StageInv, ListKeys, GetAttrs, GoOn, LeaveDeprovision,
                                LeaveProvision, Provisioning
    <2>3. StageInv'
        BY <1>0, <1>9, <2>0 DEF StageInv, ListKeys, GetAttrs, GoOn, LeaveDeprovision,
                                LeaveProvision, Provisioning, Deprovisioning
    <2> QED BY <1>2, <2>1, <2>2, <2>3 DEF SyncInv
<1> QED BY <1>3, <1>4, <1>6, <1>7, <1>8, <1>9

\* The steps of provisioning: customers and keys only grow, and the mark is set
\* on a group that has both.
LEMMA ProvisioningSteps ==
    ASSUME SyncInv,
           CreateCustomer \/ AssignPlan \/ CreateKey \/ CreateOrg \/ SetAttrs \/ ProvisionFails
    PROVE  /\ SyncInv' /\ kc' = kc
           /\ customers \subseteq customers' /\ \A n \in Names : keys[n] <= keys'[n]
<1> USE DEF keycloak, tenants, counters, Present
<1>0. SyncTypeOK /\ MemoryInv /\ StageInv /\ ProvisionedIsTrue /\ provisioned \subseteq Present
    BY DEF SyncInv
<1>1. pc \in Provisioning /\ work \in Groups /\ work \in current /\ Tenant \in Names
    BY <1>0, SyncAssumption DEF CreateCustomer, AssignPlan, CreateKey, CreateOrg, SetAttrs,
       ProvisionFails, StageInv, SyncTypeOK, Provisioning, Tenant
<1>2. /\ kc' = kc /\ current' = current
      /\ customers' \in {customers, customers \cup {Tenant}}
      /\ plans' \in {plans, plans \cup {Tenant}} /\ orgs' \in {orgs, orgs \cup {Tenant}}
      /\ keys' \in {keys, [keys EXCEPT ![Tenant] = @ + 1]}
    BY DEF CreateCustomer, AssignPlan, CreateKey, CreateOrg, SetAttrs, ProvisionFails,
       CreatesCustomer, AssignsPlan, CreatesKey, CreatesOrg, GoOn, LeaveProvision
<1>3. customers \subseteq customers' /\ \A n \in Names : keys[n] <= keys'[n]
    BY <1>0, <1>1, <1>2 DEF SyncTypeOK
<1>4. /\ provisioned' \in {provisioned, provisioned \cup {work}}
      /\ provisioned' # provisioned => pc = "mark" /\ work \in Present
    BY DEF CreateCustomer, AssignPlan, CreateKey, CreateOrg, SetAttrs, ProvisionFails
<1>5. \/ /\ known' = known /\ work' = work
         /\ pc' \in {"plan", "key", "org", "attrs"}
      \/ /\ known' = known \cup {work} /\ work' = NoGroup /\ pc' = "detect"
    BY DEF CreateCustomer, AssignPlan, CreateKey, CreateOrg, SetAttrs, ProvisionFails, GoOn,
       LeaveProvision
<1>6. failures' \in Nat /\ crashes' \in Nat
    BY <1>0 DEF SyncTypeOK, CreateCustomer, AssignPlan, CreateKey, CreateOrg, SetAttrs,
       ProvisionFails, Failure
<1>7. SyncTypeOK'
    BY <1>0, <1>1, <1>2, <1>4, <1>5, <1>6 DEF SyncTypeOK
<1>8. MemoryInv'
    BY <1>0, <1>1, <1>2, <1>5 DEF MemoryInv, Provisioning
<1>9. StageInv'
    <2>1. pc' \in Provisioning => work' \in current'
        BY <1>1, <1>2, <1>5 DEF Provisioning
    <2>2. pc' \in Provisioning \ {"customer"} => Name[work'] \in customers'
        <3>1. CASE CreateCustomer
            BY <3>1, <1>5 DEF CreateCustomer, CreatesCustomer, Tenant, GoOn
        <3>2. CASE ~CreateCustomer
            BY <1>0, <1>3, <1>5, <3>2 DEF StageInv, AssignPlan, CreateKey, CreateOrg, SetAttrs,
               ProvisionFails, Provisioning, LeaveProvision
        <3> QED BY <3>1, <3>2
    <2>3. pc' \in {"org", "attrs", "mark"} => keys'[Name[work']] > 0
        <3>1. CASE CreateKey
            BY <1>0, <1>1, <3>1 DEF CreateKey, CreatesKey, Tenant, GoOn, SyncTypeOK
        <3>2. CASE CreateOrg
            <4>1. keys' = keys /\ work' = work /\ keys[Name[work]] > 0
                BY <1>0, <3>2 DEF CreateOrg, CreatesOrg, GoOn, StageInv
            <4> QED BY <4>1
        <3>3. CASE CreateCustomer \/ AssignPlan \/ SetAttrs \/ ProvisionFails
            BY <3>3 DEF CreateCustomer, AssignPlan, SetAttrs, ProvisionFails, GoOn, LeaveProvision
        <3> QED BY <3>1, <3>2, <3>3
    <2>4. pc' \notin Deprovisioning
        BY <1>5 DEF Deprovisioning
    <2> QED BY <2>1, <2>2, <2>3, <2>4 DEF StageInv
<1>10. (provisioned \subseteq Present)'
    BY <1>0, <1>2, <1>4
<1>11. ProvisionedIsTrue'
    <2> SUFFICES ASSUME NEW g \in Groups, g \in provisioned'
                 PROVE  Name[g] \in customers' /\ keys'[Name[g]] > 0
        BY DEF ProvisionedIsTrue
    <2>1. Name[g] \in customers /\ keys[Name[g]] > 0
        BY <1>0, <1>4 DEF ProvisionedIsTrue, StageInv, Provisioning
    <2>2. Name[g] \in Names /\ keys[Name[g]] \in Nat /\ keys'[Name[g]] \in Nat
        BY <1>0, <1>7, SyncAssumption DEF SyncTypeOK
    <2> QED BY <1>3, <2>1, <2>2
<1> QED BY <1>2, <1>3, <1>7, <1>8, <1>9, <1>10, <1>11 DEF SyncInv

\* The steps of deprovisioning take from the tenant of a deleted group alone.
LEMMA DeprovisioningSteps ==
    ASSUME SyncInv, FreshNaming, Archive \/ DeleteKey \/ DeprovisionFails
    PROVE  /\ SyncInv' /\ kc' = kc
           /\ \A g \in Present : /\ Name[g] \in customers => Name[g] \in customers'
                                 /\ keys'[Name[g]] = keys[Name[g]]
<1> USE DEF keycloak, tenants, counters, Present
<1>0. SyncTypeOK /\ MemoryInv /\ StageInv /\ ProvisionedIsTrue /\ provisioned \subseteq Present
    BY DEF SyncInv
<1>1. pc \in Deprovisioning /\ work \in Groups /\ kc[work] = "deleted" /\ Tenant \in Names
    BY <1>0, SyncAssumption DEF Archive, DeleteKey, DeprovisionFails, StageInv, Deprovisioning, Tenant
<1>2. /\ kc' = kc /\ current' = current /\ provisioned' = provisioned
      /\ customers' \in {customers, customers \ {Tenant}} /\ plans' = plans /\ orgs' = orgs
      /\ keys' \in {keys, [keys EXCEPT ![Tenant] = IF @ = 0 THEN 0 ELSE @ - 1]}
    BY DEF Archive, DeleteKey, DeprovisionFails, Archives, DeletesKey, GoOn, LeaveDeprovision
<1>3. \A g \in Present : Name[g] # Tenant
    BY <1>1 DEF FreshNaming, Tenant
<1>4. \A g \in Present : /\ Name[g] \in customers => Name[g] \in customers'
                         /\ keys'[Name[g]] = keys[Name[g]]
    BY <1>0, <1>2, <1>3, SyncAssumption DEF SyncTypeOK
<1>5. \/ known' = known /\ work' = work /\ pc' = "list_keys"
      \/ known' = known \ {work} /\ work' = NoGroup /\ pc' = "removed"
    BY DEF Archive, DeleteKey, DeprovisionFails, GoOn, LeaveDeprovision
<1>6. failures' \in Nat /\ crashes' \in Nat
    BY <1>0 DEF SyncTypeOK, Archive, DeleteKey, DeprovisionFails, Failure
<1>7. keys' \in [Names -> Nat]
    BY <1>0, <1>1, <1>2 DEF SyncTypeOK
<1>8. SyncTypeOK'
    BY <1>0, <1>1, <1>2, <1>5, <1>6, <1>7 DEF SyncTypeOK
<1>9. MemoryInv'
    BY <1>0, <1>1, <1>2, <1>5 DEF MemoryInv, Deprovisioning
<1>10. StageInv'
    BY <1>1, <1>2, <1>5 DEF StageInv, Provisioning, Deprovisioning
<1>11. ProvisionedIsTrue' /\ (provisioned \subseteq Present)'
    BY <1>0, <1>2, <1>4 DEF ProvisionedIsTrue
<1> QED BY <1>2, <1>4, <1>8, <1>9, <1>10, <1>11 DEF SyncInv

\* The administrators: a group that is made has a name of its own, one that is
\* deleted takes its mark along.
LEMMA AdminSteps ==
    ASSUME SyncInv, NEW g \in Groups, CreateGroup(g) \/ DeleteGroup(g)
    PROVE  SyncInv' /\ UNCHANGED <<customers, keys>>
<1> USE DEF keycloak, tenants, counters, Present
<1>0. SyncTypeOK /\ MemoryInv /\ StageInv /\ ProvisionedIsTrue /\ provisioned \subseteq Present
    BY DEF SyncInv
<1>1. /\ UNCHANGED <<customers, plans, keys, orgs, pc, known, current, work, failures, crashes>>
      /\ provisioned' \subseteq provisioned
      /\ kc' \in [Groups -> {"unborn", "present", "deleted"}]
      /\ \A h \in Groups : h # g => kc'[h] = kc[h]
      /\ kc[g] # "unborn" => kc[g] = "present" /\ kc'[g] = "deleted" /\ g \notin provisioned'
      /\ kc[g] # "deleted" /\ kc'[g] # "unborn"
    BY <1>0 DEF SyncTypeOK, CreateGroup, DeleteGroup
<1>2. SyncTypeOK'
    BY <1>0, <1>1 DEF SyncTypeOK
<1>3. MemoryInv' /\ StageInv'
    BY <1>0, <1>1 DEF SyncTypeOK, MemoryInv, StageInv
<1>4. (provisioned \subseteq Present)'
    BY <1>0, <1>1
<1>5. ProvisionedIsTrue'
    BY <1>0, <1>1, <1>4 DEF ProvisionedIsTrue
<1> QED BY <1>1, <1>2, <1>3, <1>4, <1>5 DEF SyncInv

LEMMA SyncInvNext ==
    ASSUME SyncInv, FreshNaming, [SyncNext]_syncVars
    PROVE  SyncInv'
<1>1. CASE UNCHANGED syncVars
    BY <1>1 DEF syncVars, keycloak, tenants, counters, SyncInv, SyncTypeOK, MemoryInv, StageInv,
               ProvisionedIsTrue, Present
<1> QED BY <1>1, QuietSteps, ProvisioningSteps, DeprovisioningSteps, AdminSteps
        DEF SyncNext, Sync, Admin

\* Whatever the names, the group in work is one, which is all the types need.
SyncTypes ==
  /\ SyncTypeOK
  /\ pc \in Provisioning \cup Deprovisioning => work \in Groups

LEMMA SyncTypesNext == SyncTypes /\ [SyncNext]_syncVars => SyncTypes'
<1> SUFFICES ASSUME SyncTypes, [SyncNext]_syncVars PROVE SyncTypes'
    OBVIOUS
<1> USE DEF keycloak, tenants, counters
<1>0. SyncTypeOK
    BY DEF SyncTypes
<1>1. CASE Poll \/ PollFails \/ DetectFails \/ PassEnds \/ CrashSync
    <2>1. SyncTypeOK'
        BY <1>0, <1>1 DEF SyncTypeOK, Poll, PollFails, DetectFails, PassEnds, CrashSync, EndPass,
                          Failure, Present
    <2> QED BY <1>1, <2>1 DEF SyncTypes, Poll, PollFails, DetectFails, PassEnds, CrashSync, EndPass,
               Provisioning, Deprovisioning
<1>2. ASSUME NEW g \in Groups, Detect(g) \/ DetectRemoved(g)
      PROVE  SyncTypes'
    <2>1. SyncTypeOK'
        BY <1>0, <1>2 DEF SyncTypeOK, Detect, DetectRemoved, EndPass
    <2> QED BY <1>2, <2>1 DEF SyncTypes, Detect, DetectRemoved, EndPass, Provisioning, Deprovisioning
<1>3. CASE \/ CreateCustomer \/ AssignPlan \/ CreateKey \/ CreateOrg \/ GetAttrs \/ SetAttrs
           \/ ProvisionFails \/ Archive \/ ListKeys \/ DeleteKey \/ DeprovisionFails
    <2>1. pc \in Provisioning \cup Deprovisioning
        BY <1>3 DEF Provisioning, Deprovisioning, CreateCustomer, AssignPlan, CreateKey, CreateOrg,
                    GetAttrs, SetAttrs, ProvisionFails, Archive, ListKeys, DeleteKey, DeprovisionFails
    <2>2. work \in Groups /\ Tenant \in Names
        BY <1>0, <2>1, SyncAssumption DEF SyncTypes, Tenant
    <2>3. /\ kc' = kc /\ current' = current
          /\ provisioned' \in {provisioned, provisioned \cup {work}}
          /\ customers' \in {customers, customers \cup {Tenant}, customers \ {Tenant}}
          /\ plans' \in {plans, plans \cup {Tenant}} /\ orgs' \in {orgs, orgs \cup {Tenant}}
          /\ \/ keys' = keys
             \/ keys' = [keys EXCEPT ![Tenant] = @ + 1]
             \/ keys' = [keys EXCEPT ![Tenant] = IF @ = 0 THEN 0 ELSE @ - 1]
        BY <1>3 DEF CreateCustomer, AssignPlan, CreateKey, CreateOrg, GetAttrs, SetAttrs,
                    ProvisionFails, Archive, ListKeys, DeleteKey, DeprovisionFails, GoOn,
                    LeaveProvision, LeaveDeprovision, CreatesCustomer, AssignsPlan, CreatesKey,
                    CreatesOrg, Archives, DeletesKey
    <2>4. \/ /\ known' = known /\ work' = work
             /\ pc' \in {"plan", "key", "org", "attrs", "mark", "list_keys", "delete_key"}
          \/ /\ known' \in {known \cup {work}, known \ {work}} /\ work' = NoGroup
             /\ pc' \in {"detect", "removed"}
        BY <1>3 DEF CreateCustomer, AssignPlan, CreateKey, CreateOrg, GetAttrs, SetAttrs,
                    ProvisionFails, Archive, ListKeys, DeleteKey, DeprovisionFails, GoOn,
                    LeaveProvision, LeaveDeprovision
    <2>5. failures' \in Nat /\ crashes' \in Nat
        BY <1>0, <1>3 DEF SyncTypeOK, CreateCustomer, AssignPlan, CreateKey, CreateOrg, GetAttrs,
           SetAttrs, ProvisionFails, Archive, ListKeys, DeleteKey, DeprovisionFails, Failure
    <2>6. keys' \in [Names -> Nat]
        BY <1>0, <2>2, <2>3 DEF SyncTypeOK
    <2>7. SyncTypeOK'
        BY <1>0, <2>2, <2>3, <2>4, <2>5, <2>6 DEF SyncTypeOK
    <2> QED BY <2>2, <2>4, <2>7 DEF SyncTypes, Provisioning, Deprovisioning
<1>4. ASSUME NEW g \in Groups, CreateGroup(g) \/ DeleteGroup(g)
      PROVE  SyncTypes'
    BY <1>4 DEF SyncTypes, SyncTypeOK, CreateGroup, DeleteGroup
<1>5. CASE UNCHANGED syncVars
    BY <1>5 DEF syncVars, SyncTypes, SyncTypeOK
<1> QED BY <1>1, <1>2, <1>3, <1>4, <1>5 DEF SyncNext, Sync, Admin

\* Every variable keeps its type, whatever the groups are called (kc_lago_sync.py).
THEOREM SyncTypesAreKept == SyncSpec => []SyncTypeOK
<1>1. SyncInit => SyncTypes
    BY SyncAssumption DEF SyncInit, SyncTypes, SyncTypeOK, Provisioning, Deprovisioning
<1>2. SyncTypes => SyncTypeOK
    BY DEF SyncTypes
<1> QED BY <1>1, <1>2, SyncTypesNext, PTL DEF SyncSpec

\* Where no group takes the name of one that was there before (FreshNaming), a
\* group that is marked as provisioned has its customer and a key, through any
\* failures and restarts (sync_loop, provision_tenant).  Without that the late
\* deprovisioning of the old group takes what the new one was given.
THEOREM MarksAreTrue == ASSUME FreshNaming PROVE SyncSpec => []ProvisionedIsTrue
<1>1. SyncInv => ProvisionedIsTrue
    BY DEF SyncInv
<1>2. SyncInv /\ [SyncNext]_syncVars => SyncInv'
    BY SyncInvNext
<1> QED BY <1>1, <1>2, SyncInvInit, PTL DEF SyncSpec

\* Under the same assumption neither the customer nor the last key of a tenant is
\* taken away while its group is there, through any failures and restarts
\* (deprovision_tenant).
THEOREM LiveTenantsAreKept == ASSUME FreshNaming PROVE SyncSpec => LiveTenantsKeepAccess
<1>1. ASSUME SyncInv, [SyncNext]_syncVars
      PROVE  \A g \in Present : /\ Name[g] \in customers => Name[g] \in customers'
                                /\ keys[Name[g]] > 0 => keys'[Name[g]] > 0
    <2> SUFFICES ASSUME NEW g \in Present
                 PROVE  /\ Name[g] \in customers => Name[g] \in customers'
                        /\ keys[Name[g]] > 0 => keys'[Name[g]] > 0
        OBVIOUS
    <2>0. g \in Groups /\ Name[g] \in Names /\ keys[Name[g]] \in Nat /\ keys'[Name[g]] \in Nat
        BY <1>1, SyncInvNext, SyncAssumption DEF Present, SyncInv, SyncTypeOK
    <2>1. CASE UNCHANGED <<customers, keys>>
        BY <2>1
    <2>2. CASE CreateCustomer \/ AssignPlan \/ CreateKey \/ CreateOrg \/ SetAttrs \/ ProvisionFails
        BY <1>1, <2>0, <2>2, ProvisioningSteps
    <2>3. CASE Archive \/ DeleteKey \/ DeprovisionFails
        BY <1>1, <2>3, DeprovisioningSteps
    <2>4. CASE \E h \in Groups : CreateGroup(h) \/ DeleteGroup(h)
        BY <1>1, <2>1, <2>4, AdminSteps
    <2>5. CASE \/ Poll \/ PollFails \/ DetectFails \/ PassEnds \/ CrashSync
               \/ \E h \in Groups : Detect(h) \/ DetectRemoved(h)
               \/ ListKeys \/ GetAttrs
        BY <2>1, <2>5 DEF Poll, PollFails, DetectFails, PassEnds, CrashSync, Detect, DetectRemoved,
                         ListKeys, GetAttrs, tenants
    <2> QED BY <1>1, <2>1, <2>2, <2>3, <2>4, <2>5 DEF SyncNext, Sync, Admin, syncVars, tenants
<1>2. SyncInv /\ [SyncNext]_syncVars => SyncInv'
    BY SyncInvNext
<1>3. SyncInv /\ [SyncNext]_syncVars =>
        [\A g \in Present : /\ Name[g] \in customers => Name[g] \in customers'
                            /\ keys[Name[g]] > 0 => keys'[Name[g]] > 0]_syncVars
    BY <1>1
<1> QED BY <1>2, <1>3, SyncInvInit, PTL DEF SyncSpec, LiveTenantsKeepAccess

=============================================================================
