----------------------------- MODULE Accounts -----------------------------
(* User accounts, access tokens and refresh tokens (app/users, app/auth).   *)
(*                                                                          *)
(* The dependency get_current_user runs in a worker thread and hands the    *)
(* row it read to the handler, which runs later on the event loop.  The     *)
(* body of a handler never waits, so a handler is one action, but the user  *)
(* it acts for (captured) may have changed, or be gone, in between; the     *)
(* handler's session keeps showing it as it was read.                       *)
(*                                                                          *)
(* Passwords are abstracted to being right or wrong, e-mail addresses to    *)
(* nothing.  A user who owns a server or a group cannot be deleted (the     *)
(* owner column is NOT NULL): such a deletion changes nothing.              *)
EXTENDS LoginGuard

CONSTANTS
    None,
    MaxId,          \* bound: the ids of users are 1 .. MaxId
    Roles,          \* app.users.domain.value_objects.Role
    Requests,       \* authenticated requests in flight
    RefreshTokens,  \* the refresh tokens told apart
    MaxVersion      \* bound: versions of a user's tokens

ASSUME AccountAssumption ==
    /\ MaxId \in Nat \ {0}
    /\ MaxVersion \in Nat
    /\ {"user", "admin"} \subseteq Roles
    /\ None \notin 1 .. MaxId

VARIABLES
    users,     \* id -> row of the users table
    access,    \* the claims of the access tokens issued so far
    refresh,   \* refresh token -> the user it is valid for
    captured   \* request -> the user get_current_user read, or None

vars == <<users, access, refresh, captured, guardVars>>

Ids == 1 .. MaxId
Versions == 0 .. MaxVersion

User == [name : Names, role : Roles, active : BOOLEAN, approved : BOOLEAN,
         version : Versions]

Captured == [id : Ids, name : Names, role : Roles, version : Versions]

ASSUME NoneIsNoRow == None \notin User \cup Captured

TypeOK ==
    /\ users \in [Ids -> User \cup {None}]
    /\ access \subseteq [name : Names, version : Versions]
    /\ refresh \in [RefreshTokens -> Ids \cup {None}]
    /\ captured \in [Requests -> Captured \cup {None}]
    /\ GuardTypeOK

Init ==
    /\ users = [u \in Ids |-> None]
    /\ access = {}
    /\ refresh = [t \in RefreshTokens |-> None]
    /\ captured = [q \in Requests |-> None]
    /\ GuardInit

Live(us) == {u \in Ids : us[u] # None}
Admins(us) == {u \in Live(us) : us[u].role = "admin"}
ActiveAdmins(us) == {u \in Admins(us) : us[u].active}
Taken(n) == \E u \in Live(users) : users[u].name = n

(* The primary key is the largest id in use plus one.                       *)
NewId == Max(Live(users) \cup {0}) + 1

Token(row) == [name |-> row.name, version |-> row.version]

(* Mutant: the valid token is not revoked.                                  *)
Reissued_Kept(u, t) == [refresh EXCEPT ![t] = u]

(* create_refresh_token: the user's valid token is revoked and a new one    *)
(* issued.  A revoked token is never valid again: its value stands for a    *)
(* new token from then on.                                                  *)
Reissued(u, t) ==
    [x \in RefreshTokens |->
        IF x = t THEN u ELSE IF refresh[x] = u THEN None ELSE refresh[x]]

Revoked(u) ==
    [x \in RefreshTokens |-> IF refresh[x] = u THEN None ELSE refresh[x]]

(* Bound: logins fail before the first of them succeeds, and accounts       *)
(* change only while the guard remembers nothing.                           *)
Rests == access = {}
(***************************************************************************)
(* Registration, login, refresh and logout                                 *)
(***************************************************************************)
Register(n) ==
    /\ Calm
    /\ ~Taken(n)
    /\ NewId \in Ids
    /\ LET first == Live(users) = {} IN
       users' = [users EXCEPT ![NewId] =
                    [name |-> n, role |-> IF first THEN "admin" ELSE "user",
                     active |-> TRUE, approved |-> first, version |-> 0]]
    /\ UNCHANGED <<access, refresh, captured, guardVars>>

(* authenticate_user finds the account, active and approved, and the        *)
(* password right.                                                          *)
Login(u, i, t) ==
    /\ u \in Live(users)
    /\ ~Locked(users[u].name, i)
    /\ users[u].active /\ users[u].approved
    /\ refresh[t] \in {None, u}
    /\ access' = access \cup {Token(users[u])}
    /\ refresh' = Reissued(u, t)
    /\ RecordSuccess(users[u].name)
    /\ UNCHANGED <<users, captured>>

(* The name is unknown, the password wrong or the account inactive: 401.    *)
LoginRefused(n, i) ==
    /\ Rests
    /\ ~Locked(n, i)
    /\ RecordFailure(n, i)
    /\ UNCHANGED <<users, access, refresh, captured>>

(* The password is right and the account not approved: 403.                 *)
LoginPending(u, i) ==
    /\ Rests
    /\ u \in Live(users)
    /\ ~Locked(users[u].name, i)
    /\ users[u].active /\ ~users[u].approved
    /\ RecordError(users[u].name, i)
    /\ UNCHANGED <<users, access, refresh, captured>>

Refresh(t, new) ==
    /\ Calm
    /\ refresh[t] # None
    /\ LET u == refresh[t] IN
       /\ refresh[new] \in {None, u}
       /\ users[u] # None /\ users[u].active
       /\ access' = access \cup {Token(users[u])}
       /\ refresh' = Reissued(u, new)
    /\ UNCHANGED <<users, captured, guardVars>>

(* A logout, or the expiry of the token.                                    *)
Logout(t) ==
    /\ refresh[t] # None
    /\ refresh' = [refresh EXCEPT ![t] = None]
    /\ UNCHANGED <<users, access, captured, guardVars>>

(* _authenticate: the token names an active account and carries its         *)
(* version.                                                                 *)
Authenticate(q, u) ==
    /\ Calm
    /\ captured[q] = None
    /\ u \in Live(users)
    /\ users[u].active
    /\ Token(users[u]) \in access
    /\ captured' = [captured EXCEPT ![q] =
                        [id |-> u, name |-> users[u].name,
                         role |-> users[u].role, version |-> users[u].version]]
    /\ UNCHANGED <<users, access, refresh, guardVars>>
(***************************************************************************)
(* The handlers of authenticated requests                                  *)
(***************************************************************************)
Acts(q) == captured[q] # None

IsAdmin(q) == captured[q].role = "admin"

Done(q) == captured' = [captured EXCEPT ![q] = None]

Self(q, u) == captured[q].id = u

(* A refusal (403, 404, 400) or an error (500) leaves everything as it was. *)
Refuse(q) ==
    /\ Acts(q)
    /\ Done(q)
    /\ UNCHANGED <<users, access, refresh, guardVars>>

Approve(q, u) ==
    /\ Acts(q) /\ IsAdmin(q)
    /\ u \in Live(users)
    /\ users' = [users EXCEPT ![u].approved = TRUE]
    /\ Done(q)
    /\ UNCHANGED <<access, refresh, guardVars>>

(* An administrator's own row is shown as it was captured: setting a column *)
(* to the value it is shown with writes nothing.                            *)
UpdateRole(q, u, role) ==
    /\ Acts(q) /\ IsAdmin(q)
    /\ u \in Live(users)
    /\ users' = IF Self(q, u) /\ captured[q].role = role THEN users
                ELSE [users EXCEPT ![u].role = role]
    /\ Done(q)
    /\ UNCHANGED <<access, refresh, guardVars>>

MayDeactivate(q, u) ==
    /\ Acts(q) /\ IsAdmin(q)
    /\ u \in Live(users)
    /\ ~Self(q, u)
    /\ users[u].role = "admin" /\ users[u].active =>
           Cardinality(Admins(users)) > 1
    /\ users[u].version < MaxVersion

Deactivated(u) ==
    users' = [users EXCEPT ![u].active = FALSE, ![u].version = @ + 1]

(* Mutant: the refresh tokens are left alone.                               *)
Deactivate_NoRevocation(q, u) ==
    /\ MayDeactivate(q, u)
    /\ Deactivated(u)
    /\ Done(q)
    /\ UNCHANGED <<access, refresh, guardVars>>

Deactivate(q, u) ==
    /\ MayDeactivate(q, u)
    /\ Deactivated(u)
    /\ refresh' = Revoked(u)
    /\ Done(q)
    /\ UNCHANGED <<access, guardVars>>

(* The process dies between the two transactions of a deactivation; the     *)
(* requests in flight go with it.                                           *)
DeactivateCut(q, u) ==
    /\ MayDeactivate(q, u)
    /\ Deactivated(u)
    /\ captured' = [r \in Requests |-> None]
    /\ UNCHANGED <<access, refresh, guardVars>>

Reactivate(q, u) ==
    /\ Acts(q) /\ IsAdmin(q)
    /\ u \in Live(users)
    /\ users' = IF Self(q, u) THEN users
                ELSE [users EXCEPT ![u].active = TRUE]
    /\ Done(q)
    /\ UNCHANGED <<access, refresh, guardVars>>

(* The row goes, and its refresh tokens with it (cascade).                  *)
Deleted(u) ==
    /\ users' = [users EXCEPT ![u] = None]
    /\ refresh' = Revoked(u)

(* Mutant: off by one.                                                      *)
DeleteByAdmin_Last(q, u) ==
    /\ Acts(q) /\ IsAdmin(q)
    /\ u \in Live(users)
    /\ ~Self(q, u)
    /\ users[u].role = "admin" => Cardinality(Admins(users)) > 0
    /\ Deleted(u)
    /\ Done(q)
    /\ UNCHANGED <<access, guardVars>>

DeleteByAdmin(q, u) ==
    /\ Acts(q) /\ IsAdmin(q)
    /\ u \in Live(users)
    /\ ~Self(q, u)
    /\ users[u].role = "admin" => Cardinality(Admins(users)) > 1
    /\ Deleted(u)
    /\ Done(q)
    /\ UNCHANGED <<access, guardVars>>

DeleteAccount(q) ==
    /\ Acts(q)
    /\ IsAdmin(q) => Cardinality(Admins(users)) > 1
    /\ Deleted(captured[q].id)
    /\ Done(q)
    /\ UNCHANGED <<access, guardVars>>

(* The row in the handler's session was read before the handler ran, so the *)
(* token carries the captured version.                                      *)
Rename(q, n) ==
    /\ Acts(q)
    /\ n # captured[q].name
    /\ ~Taken(n)
    /\ LET u == captured[q].id IN
       /\ u \in Live(users)
       /\ users' = [users EXCEPT ![u].name = n]
       /\ access' = access \cup {[name |-> n, version |-> captured[q].version]}
    /\ Done(q)
    /\ UNCHANGED <<refresh, guardVars>>

(* The new version is one more than the captured one.                       *)
ChangePassword(q) ==
    /\ Acts(q)
    /\ captured[q].version < MaxVersion
    /\ LET u == captured[q].id IN
       /\ u \in Live(users)
       /\ users' = [users EXCEPT ![u].version = captured[q].version + 1]
       /\ access' = access \cup {Token(users'[u])}
    /\ Done(q)
    /\ UNCHANGED <<refresh, guardVars>>

GuardTick ==
    /\ ~Calm
    /\ Tick
    /\ UNCHANGED <<users, access, refresh, captured>>

Handle(q) ==
    \/ Refuse(q)
    \/ \E u \in Ids :
        \/ Approve(q, u)
        \/ \E r \in Roles : UpdateRole(q, u, r)
        \/ Deactivate(q, u)
        \/ DeactivateCut(q, u)
        \/ Reactivate(q, u)
        \/ DeleteByAdmin(q, u)
    \/ DeleteAccount(q)
    \/ \E n \in Names : Rename(q, n)
    \/ ChangePassword(q)

Next ==
    \/ \E n \in Names : Register(n)
    \/ \E u \in Ids, i \in Ips, t \in RefreshTokens : Login(u, i, t)
    \/ \E n \in Names, i \in Ips : LoginRefused(n, i)
    \/ \E u \in Ids, i \in Ips : LoginPending(u, i)
    \/ \E t, new \in RefreshTokens : Refresh(t, new)
    \/ \E t \in RefreshTokens : Logout(t)
    \/ \E q \in Requests, u \in Ids : Authenticate(q, u)
    \/ \E q \in Requests : Handle(q)
    \/ GuardTick

Spec == Init /\ [][Next]_vars
(***************************************************************************)
(* Properties                                                              *)
(***************************************************************************)
(* Names identify accounts, an account holds at most one valid refresh      *)
(* token, and none outlives its account, even when the id is given to a new *)
(* account.  (create_refresh_token, delete; the unique name is read and     *)
(* written in one go by register_user and update_user_info.)                *)
OneSession ==
    /\ \A u, v \in Live(users) : users[u].name = users[v].name => u = v
    /\ \A s, t \in RefreshTokens :
           refresh[s] # None /\ refresh[s] = refresh[t] => s = t
    /\ \A t \in RefreshTokens : refresh[t] # None => users[refresh[t]] # None

(* An account that is inactive and can still be refreshed once reactivated. *)
LeftBehind == {u \in Live(users) : /\ ~users[u].active
                                   /\ \E t \in RefreshTokens : refresh[t] = u}

(* Only the death of the process between its two transactions lets a        *)
(* deactivation leave the account's refresh token valid.                    *)
(* (deactivate_user, revoke_all_refresh_tokens_for.)                        *)
DeactivationRevokes ==
    [][\/ LeftBehind' \subseteq LeftBehind
       \/ \E q \in Requests, u \in Ids : DeactivateCut(q, u)]_vars

(* The guards count the rows of administrators, active or not.  The last row *)
(* goes only by a demotion, which no guard checks, or by the self-deletion   *)
(* of one who was no administrator yet when his request was authenticated.   *)
(* The last active administrator goes by these; by a deactivation or a       *)
(* deletion that an administrator asked for who is no active administrator   *)
(* any more when it runs, as of two who deactivate each other; and by a      *)
(* self-deletion while another administrator is inactive.  In no other way.  *)
(* (deactivate_user, delete_user_by_admin, delete_user_account.)             *)
AnAdminRemains ==
    [][/\ Admins(users) # {} /\ Admins(users') = {} =>
            \E q \in Requests :
                \/ \E u \in Ids, r \in Roles : UpdateRole(q, u, r)
                \/ DeleteAccount(q) /\ ~IsAdmin(q)
       /\ ActiveAdmins(users) # {} /\ ActiveAdmins(users') = {} =>
            \E q \in Requests :
                \/ \E u \in Ids, r \in Roles : UpdateRole(q, u, r)
                \/ /\ \E u \in Ids : \/ Deactivate(q, u) \/ DeactivateCut(q, u)
                                     \/ DeleteByAdmin(q, u)
                   /\ captured[q].id \notin ActiveAdmins(users)
                \/ /\ DeleteAccount(q)
                   /\ ~IsAdmin(q) \/ Admins(users) # ActiveAdmins(users)]_vars
============================================================================
