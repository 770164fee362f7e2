------------------------------- MODULE Tenants -------------------------------
(***************************************************************************)
(* Tenants with their quotas and usage, kept in two maps, and the access   *)
(* entries of their users, one per user.                                   *)
(***************************************************************************)
EXTENDS ServerClock, Integers, FiniteSets

CONSTANTS TenantIds,  \* fresh tenant ids (uuids)
          Users,      \* user ids
          Amounts,    \* quotas and usages, 0 for an unlimited quota
          TenantPaths \* paths: the tenant whose prefix a path has, whether it
                      \* has "/tenants/" in it, and the paths it begins with

VARIABLES quotas,  \* TenantManager.tenants: the quota of each
          usage,   \* TenantManager.usage
          access,  \* AccessControl.entries, by user
          issued,  \* tenant ids ever used
          ruling   \* the last answer of check_quota or check

tenantVars == <<quotas, usage, access, issued, ruling>>

Resources == {"storage", "files", "copies"}
Quota == [Resources -> Amounts]

ASSUME TenantAssumption ==
    /\ Amounts \subseteq Nat
    /\ 0 \in Amounts
    /\ \A p \in TenantPaths : p.within \in BOOLEAN /\ p.owner \in TenantIds \cup {Nothing}
    /\ Nothing \notin Quota

Roles == {"admin", "operator", "viewer"}
Permissions == {"backup", "restore", "delete", "policy", "admin"}
UserAccess == [tenant : TenantIds, role : Roles,
               restriction : {p.name : p \in TenantPaths} \cup {Nothing}]

TenantTypeOK ==
    /\ ClockTypeOK
    /\ quotas \in [TenantIds -> Quota \cup {Nothing}]
    /\ usage \in [TenantIds -> Quota \cup {Nothing}]
    /\ access \in [Users -> UserAccess \cup {Nothing}]
    /\ issued \subseteq TenantIds
    /\ ruling \in [over : SUBSET Resources] \cup [allowed : BOOLEAN] \cup {Nothing}

TenantInit ==
    /\ quotas = [t \in TenantIds |-> Nothing]
    /\ usage = [t \in TenantIds |-> Nothing]
    /\ access = [u \in Users |-> Nothing]
    /\ issued = {}
    /\ ruling = Nothing

Unused == [r \in Resources |-> 0]

Tenant(t) == quotas[t] # Nothing

-----------------------------------------------------------------------------

MakeTenant(t, quota) ==
    /\ Request
    /\ t \notin issued
    /\ issued' = issued \cup {t}
    /\ quotas' = [quotas EXCEPT ![t] = quota]
    /\ usage' = [usage EXCEPT ![t] = Unused]
    /\ UNCHANGED <<access, ruling>>

UpdateTenant(t, quota) ==
    /\ Request
    /\ Tenant(t)
    /\ quotas' = [quotas EXCEPT ![t] = quota]
    /\ UNCHANGED <<usage, access, issued, ruling>>

\* The access entries of the tenant's users stay behind.
DeleteTenant(t) ==
    /\ Request
    /\ Tenant(t)
    /\ quotas' = [quotas EXCEPT ![t] = Nothing]
    /\ usage' = [usage EXCEPT ![t] = Nothing]
    /\ UNCHANGED <<access, issued, ruling>>

\* A report for a tenant that is gone is refused.
UpdateUsage(t, used) ==
    /\ Request
    /\ usage' = IF Tenant(t) THEN [usage EXCEPT ![t] = used] ELSE usage
    /\ UNCHANGED <<quotas, access, issued, ruling>>

\* The resources over their limit; a quota of 0 does not limit.
Violations(quota, used) ==
    {r \in Resources : quota[r] > 0 /\ used[r] > quota[r]}

CheckQuota(t) ==
    /\ Request
    /\ Tenant(t)
    /\ ruling' = [over |-> Violations(quotas[t], usage[t])]
    /\ UNCHANGED <<quotas, usage, access, issued>>

\* A path owned by a tenant begins with /tenants/{id}/; one that has /tenants/
\* nowhere belongs to all, and one that has it elsewhere, or before the id of
\* nobody, to none.
IsPathOwned(t, path) ==
    /\ Request
    /\ ruling' = [allowed |-> path.owner = t \/ ~path.within]
    /\ UNCHANGED <<quotas, usage, access, issued>>

-----------------------------------------------------------------------------

RolePermissions(role) ==
    CASE role = "admin" -> Permissions
      [] role = "operator" -> {"backup", "restore", "delete"}
      [] role = "viewer" -> {"restore"}

\* A second grant replaces the first, whatever tenant it was for.
Grant(u, entry) ==
    /\ Request
    /\ access' = [access EXCEPT ![u] = entry]
    /\ UNCHANGED <<quotas, usage, issued, ruling>>

Revoke(u) ==
    /\ Request
    /\ access' = [access EXCEPT ![u] = Nothing]
    /\ UNCHANGED <<quotas, usage, issued, ruling>>

\* A restriction is a prefix of the paths it allows.
CheckAccess(u, permission, path, t) ==
    /\ Request
    /\ LET entry == access[u]
       IN  ruling' = [allowed |-> /\ entry # Nothing
                                  /\ entry.tenant = t
                                  /\ permission \in RolePermissions(entry.role)
                                  /\ entry.restriction \in path.under \cup {Nothing}]
    /\ UNCHANGED <<quotas, usage, access, issued>>

TenantNext ==
    \/ \E t \in TenantIds :
          \/ \E amounts \in Quota :
                \/ MakeTenant(t, amounts)
                \/ UpdateTenant(t, amounts)
                \/ UpdateUsage(t, amounts)
          \/ DeleteTenant(t)
          \/ CheckQuota(t)
          \/ \E path \in TenantPaths :
                \/ IsPathOwned(t, path)
                \/ \E u \in Users, permission \in Permissions :
                      CheckAccess(u, permission, path, t)
    \/ \E u \in Users : Revoke(u) \/ \E entry \in UserAccess : Grant(u, entry)
    \/ Passes /\ UNCHANGED tenantVars

TenantSpec == ClockInit /\ TenantInit /\ [][TenantNext]_<<clockVars, tenantVars>>

-----------------------------------------------------------------------------
(* Properties *)

\* The two maps stay in step: GET /tenants/:id/usage finds the usage of every
\* tenant, and a late usage report does not bring a deleted tenant's back.
UsageMatchesTenants ==
    \A t \in TenantIds : quotas[t] = Nothing <=> usage[t] = Nothing

=============================================================================
