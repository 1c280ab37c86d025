------------------------------ MODULE Resources ------------------------------
(* Users, and the servers and groups they own, as far as other parts of the  *)
(* application refer to them by id; and the user on whose behalf the current *)
(* request acts.  Ids are SQLite row ids: the next one is one more than the  *)
(* highest in the table, so the id of a deleted user or group may come back. *)
EXTENDS Naturals, FiniteSetsExt

CONSTANTS
    UserIds, ServerIds, GroupIds, \* bounds: the ids that may be given
    Scopes, \* bound: the users and resources that take part, a set of records
    None

Roles == {"user", "operator", "admin"}

ASSUME ResourcesAssumption ==
    /\ UserIds \cup ServerIds \cup GroupIds \subseteq Nat \ {0}
    /\ Scopes \subseteq [users : SUBSET UserIds,
                        resources : SUBSET ({"server"} \X ServerIds \cup {"group"} \X GroupIds)]
    /\ None \notin Nat
    /\ None \notin Roles
    /\ None \notin [user : UserIds, role : Roles]

VARIABLES
    scope,   \* one of Scopes, which no step changes
    role,    \* user id -> role, or None
    owner,   \* resource -> the id of its owner, or None when there is no row
    deleted, \* servers whose row is marked as deleted
    acting   \* current_user of the request: who, and the role it read

tables == <<scope, role, owner, deleted>>
resourceVars == <<tables, acting>>

Servers == {"server"} \X ServerIds
Groups == {"group"} \X GroupIds
Resources == Servers \cup Groups

ResourcesTypeOK ==
    /\ scope \in Scopes
    /\ role \in [UserIds -> Roles \cup {None}]
    /\ owner \in [Resources -> UserIds \cup {None}]
    /\ deleted \in SUBSET {s \in Servers : owner[s] # None}
    /\ acting \in [user : UserIds, role : Roles] \cup {None}

ResourcesInit ==
    /\ scope \in Scopes
    /\ role = [u \in UserIds |-> None]
    /\ owner = [r \in Resources |-> None]
    /\ deleted = {}
    /\ acting = None

Registered == {u \in UserIds : role[u] # None}
Admins == {u \in UserIds : role[u] = "admin"}
Exists(r) == owner[r] # None
NextId(taken) == 1 + Max(taken \cup {0})

(* The first user is an administrator.                                       *)
Register(u) ==
    /\ u \in scope.users
    /\ u = NextId(Registered)
    /\ role' = [role EXCEPT ![u] = IF Registered = {} THEN "admin" ELSE "user"]
    /\ UNCHANGED <<scope, owner, deleted, acting>>

UpdateRole(u, new) ==
    /\ u \in Registered
    /\ role' = [role EXCEPT ![u] = new]
    /\ UNCHANGED <<scope, owner, deleted, acting>>

(* A row that is still an owner cannot be deleted: owner_id is not nullable. *)
(* The foreign keys of other tables are not enforced.                        *)
DeleteUser(u) ==
    /\ u \in Registered
    /\ Admins # {u}
    /\ \A r \in Resources : owner[r] # u
    /\ role' = [role EXCEPT ![u] = None]
    /\ UNCHANGED <<scope, owner, deleted, acting>>

(* get_current_user runs before the handler, in a thread of its own.         *)
Authenticate(u) ==
    /\ acting = None
    /\ u \in Registered
    /\ acting' = [user |-> u, role |-> role[u]]
    /\ UNCHANGED tables

(* A handler acts for the user of its request and ends it.                   *)
Serves(user) == acting # None /\ acting.user = user /\ acting' = None

Refuse ==
    /\ acting # None
    /\ acting' = None
    /\ UNCHANGED tables

Taken(kind) == {r[2] : r \in {x \in Resources : Exists(x) /\ x[1] = kind}}

(* Phase 1: every authenticated user may create servers and groups.          *)
Create(u, r) ==
    /\ Serves(u)
    /\ r \in scope.resources
    /\ r[2] = NextId(Taken(r[1]))
    /\ owner' = [owner EXCEPT ![r] = u]
    /\ UNCHANGED <<scope, role, deleted>>

(* The row of a server stays, and its id is never given again.               *)
DeleteServer(s) ==
    /\ s \in Servers /\ Exists(s)
    /\ deleted' = deleted \cup {s}
    /\ UNCHANGED <<scope, role, owner, acting>>

DeleteGroup(g) ==
    /\ g \in Groups /\ Exists(g)
    /\ owner' = [owner EXCEPT ![g] = None]
    /\ UNCHANGED <<scope, role, deleted, acting>>

ResourcesNext ==
    \/ \E u \in UserIds :
        \/ Register(u) \/ DeleteUser(u) \/ Authenticate(u)
        \/ \E new \in Roles : UpdateRole(u, new)
        \/ \E r \in Resources : Create(u, r)
    \/ \E r \in Resources : DeleteServer(r) \/ DeleteGroup(r)
    \/ Refuse
=============================================================================
