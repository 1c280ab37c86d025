----------------------------- MODULE Visibility -----------------------------
(* Who may see a server or a group (app/core/visibility): one row of         *)
(* configuration per resource, with the users it was granted to.             *)
(*                                                                           *)
(* No handler suspends between its checks and its commit, so each is one     *)
(* step; what a handler knows of its user is older (acting).  A handler that *)
(* is refused, or whose commit fails, is Refuse of Resources.                *)
EXTENDS Resources

VARIABLE config \* resource -> its row of resource_visibility, or None

visibilityVars == <<config, resourceVars>>

VisibilityTypes == {"private", "specific_users", "role_based", "public"}

Configs == [type : VisibilityTypes, role : Roles \cup {None}, grants : SUBSET UserIds]

(* Types, and what only the handlers of the rows maintain: grants belong to  *)
(* specific_users, and a role to role_based.                                 *)
VisibilityTypeOK ==
    /\ config \in [Resources -> Configs \cup {None}]
    /\ \A r \in Resources : config[r] # None =>
        /\ config[r].grants # {} => config[r].type = "specific_users"
        /\ config[r].role # None <=> config[r].type = "role_based"

VisibilityInit == config = [r \in Resources |-> None]

Level == [r \in Roles |-> CASE r = "user" -> 1 [] r = "operator" -> 2 [] r = "admin" -> 3]

Allows(c, u) ==
    CASE c.type = "public"         -> TRUE
      [] c.type = "private"        -> FALSE
      [] c.type = "role_based"     -> Level[role[u]] >= Level[c.role]
      [] c.type = "specific_users" -> u \in c.grants

(* check_resource_access: no row means private.                              *)
CanAccess(u, r) ==
    \/ role[u] = "admin"
    \/ owner[r] = u
    \/ config[r] # None /\ Allows(config[r], u)

(* _check_resource_ownership_or_admin: an administrator's resource need not  *)
(* exist, and an owner keeps a deleted server.                               *)
Manages(u, r) == acting.role = "admin" \/ owner[r] = u

(* Mutant: the grants survive a change of type.                              *)
WithType_KeepsGrants(c, type, restriction) ==
    [type |-> type, role |-> restriction,
     grants |-> IF c # None THEN c.grants ELSE {}]

WithType(c, type, restriction) ==
    [type |-> type, role |-> restriction,
     grants |-> IF c # None /\ type = "specific_users" THEN c.grants ELSE {}]

(* A role is given with role_based, and only then.                           *)
ValidRole(type, restriction) == type = "role_based" <=> restriction # None

Stores(r, c) ==
    /\ config' = [config EXCEPT ![r] = c]
    /\ UNCHANGED tables

SetVisibility(u, r, type, restriction) ==
    /\ Serves(u) /\ Manages(u, r)
    /\ r \in scope.resources
    /\ ValidRole(type, restriction)
    /\ Stores(r, WithType(config[r], type, restriction))

SetsGrants(r, grants) == Stores(r, [config[r] EXCEPT !.grants = grants])

Grantable(c, to) == c # None /\ c.type = "specific_users" /\ to \notin c.grants

Grant(u, r, to) ==
    /\ Serves(u) /\ Manages(u, r)
    /\ to \in Registered
    /\ Grantable(config[r], to)
    /\ SetsGrants(r, config[r].grants \cup {to})

(* A user that is gone can still lose its grant.                             *)
Revocable(c, from) == c # None /\ from \in c.grants

Revoke(u, r, from) ==
    /\ Serves(u) /\ Manages(u, r)
    /\ Revocable(config[r], from)
    /\ SetsGrants(r, config[r].grants \ {from})

(* The resources that have no row, deleted servers included.                 *)
Missing(r) == Exists(r) /\ config[r] = None

MigrateAll ==
    config' = [r \in Resources |->
        IF Missing(r) THEN WithType(None, "public", None) ELSE config[r]]

ExecuteMigration(u) ==
    /\ Serves(u) /\ acting.role = "admin"
    /\ MigrateAll
    /\ UNCHANGED tables

(* At startup the migration is a best effort.                                *)
VisibilityBoot == MigrateAll \/ UNCHANGED config

VisibilityNext ==
    \E u \in UserIds :
        \/ \E r \in Resources :
            \/ \E type \in VisibilityTypes, restriction \in Roles \cup {None} :
                   SetVisibility(u, r, type, restriction)
            \/ \E other \in UserIds : Grant(u, r, other) \/ Revoke(u, r, other)
        \/ ExecuteMigration(u)

-----------------------------------------------------------------------------
Reaches(u, r) == role[u] # None /\ Exists(r) /\ CanAccess(u, r)

(* The request that a step ends came from the owner of the resource, or from *)
(* an administrator.                                                         *)
ByRight(r) == acting # None /\ acting' = None /\ Manages(acting.user, r)

(* A user reaches a resource that was out of reach only because the resource *)
(* or the user's role is new, because a resource without configuration was   *)
(* migrated, or by a request of an owner or administrator that opened the    *)
(* resource or granted it to this very user: no other change of type brings  *)
(* an old grant back, and no migration undoes a configuration.               *)
AccessGainedByRight ==
    [][\A u \in UserIds, r \in Resources :
        ~Reaches(u, r) /\ Reaches(u, r)' =>
            \/ role'[u] # role[u]
            \/ owner'[r] # owner[r]
            \/ config[r] = None /\ config'[r].type = "public"
            \/ /\ ByRight(r)
               /\ config'[r].type = "specific_users" =>
                    /\ config[r].type = "specific_users"
                    /\ u \in config'[r].grants \ config[r].grants]_visibilityVars
=============================================================================
