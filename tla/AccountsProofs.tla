-------------------------- MODULE AccountsProofs --------------------------
(* Proofs about Accounts, for any number of names, ids, requests and refresh *)
(* tokens, and any thresholds and windows of the login.                      *)
EXTENDS Accounts, FiniteSetTheorems, TLAPS

-----------------------------------------------------------------------------
(* The largest element of a set                                              *)

(* A finite set of numbers that is not empty has a largest element: the      *)
(* number of larger ones would otherwise be an injection into fewer values.  *)
LEMMA MaxIsLargest ==
    ASSUME NEW S \in SUBSET Nat, IsFiniteSet(S), S # {}
    PROVE  Max(S) \in S /\ \A y \in S : Max(S) >= y
<1> DEFINE Above(x) == {y \in S : y > x}
           f == [x \in S |-> Cardinality(Above(x))]
           top == Cardinality(S) - 1
<1>1. Cardinality(S) \in Nat /\ Cardinality(S) # 0
  BY FS_CardinalityType, FS_EmptySet
<1>2. ASSUME NEW x \in S
      PROVE  /\ IsFiniteSet(Above(x)) /\ Cardinality(Above(x)) \in 0 .. top
             /\ Cardinality(Above(x)) = 0 => \A y \in S : x >= y
  <2>1. Above(x) \in SUBSET S /\ x \in S /\ x \notin Above(x)
    OBVIOUS
  <2>2. IsFiniteSet(Above(x)) /\ Cardinality(Above(x)) <= Cardinality(S)
        /\ Cardinality(Above(x)) # Cardinality(S)
    <3> HIDE DEF Above
    <3>. QED
      BY <2>1, FS_Subset
  <2>3. Cardinality(Above(x)) \in Nat
    BY <2>2, FS_CardinalityType
  <2>4. Cardinality(Above(x)) = 0 => Above(x) = {}
    BY <2>2, FS_EmptySet
  <2>5. Above(x) = {} => \A y \in S : x >= y
    OBVIOUS
  <2>. QED
    BY <1>1, <2>2, <2>3, <2>4, <2>5
<1>3. ASSUME NEW x \in S, NEW y \in S, x < y
      PROVE  Cardinality(Above(x)) # Cardinality(Above(y))
  <2>1. x \in Nat /\ y \in Nat /\ \A z \in S : z \in Nat
    OBVIOUS
  <2>2. \A z \in S : z > y => z > x
    BY <1>3, <2>1
  <2>3. y \in Above(x) /\ y \notin Above(y)
    BY <1>3, <2>1
  <2>4. Above(y) \in SUBSET Above(x)
    BY <2>2
  <2>5. IsFiniteSet(Above(x)) /\ Above(x) # Above(y)
    BY <1>2, <2>3
  <2> HIDE DEF Above
  <2>6. Cardinality(Above(x)) = Cardinality(Above(y)) => Above(x) = Above(y)
    BY <2>4, <2>5, FS_Subset
  <2>. QED
    BY <2>5, <2>6
<1> HIDE DEF Above
<1>4. \E x \in S : Cardinality(Above(x)) = 0
  <2> SUFFICES ASSUME \A x \in S : Cardinality(Above(x)) # 0 PROVE FALSE
    OBVIOUS
  <2>1. f \in [S -> 1 .. top]
    BY <1>1, <1>2
  <2>2. top \in Nat /\ top < Cardinality(S)
    BY <1>1
  <2>3. IsFiniteSet(1 .. top) /\ Cardinality(1 .. top) = top
    BY <2>2, FS_Interval
  <2>4. ASSUME NEW x \in S, NEW y \in S, x # y
        PROVE  f[x] # f[y]
    <3>1. x \in Nat /\ y \in Nat
      OBVIOUS
    <3>2. x < y \/ y < x
      BY <2>4, <3>1
    <3>. QED
      BY <1>3, <3>2
  <2> HIDE DEF f, top
  <2>. QED
    BY <2>1, <2>2, <2>3, <2>4, FS_PigeonHole
<1>5. \E x \in S : \A y \in S : x >= y
  BY <1>2, <1>4
<1>. QED
  BY <1>5 DEF Max

(* The id of a new account is no account's.                                  *)
LEMMA NewIdIsNew == NewId \notin Live(users)
<1> DEFINE S == Live(users) \cup {0}
<1>1. Ids \subseteq Nat /\ IsFiniteSet(Ids)
  BY AccountAssumption, FS_Interval DEF AccountAssumption, Ids
<1>2. S \in SUBSET Nat /\ S # {}
  <2>1. Live(users) \subseteq Nat
    BY <1>1 DEF Live
  <2>2. 0 \in S
    OBVIOUS
  <2>3. S \subseteq Nat
    BY <2>1
  <2>. QED
    BY <2>2, <2>3
<1>3. IsFiniteSet(S)
  <2>1. Live(users) \in SUBSET Ids
    BY DEF Live
  <2>. QED
    BY <1>1, <2>1, FS_Subset, FS_AddElement
<1>4. Max(S) \in Nat /\ \A y \in S : Max(S) >= y
  <2> HIDE DEF S
  <2>. QED
    BY <1>2, <1>3, MaxIsLargest
<1>5. \A y \in Live(users) : y \in Nat /\ Max(S) >= y
  BY <1>2, <1>4
<1>6. NewId = Max(S) + 1
  BY DEF NewId
<1> HIDE DEF S
<1> DEFINE m == Max(S)
<1> HIDE DEF m
<1>7. m \in Nat /\ NewId = m + 1 /\ \A y \in Live(users) : y \in Nat /\ m >= y
  BY <1>4, <1>5, <1>6 DEF m
<1>. QED
  BY <1>7

-----------------------------------------------------------------------------
(* Types                                                                     *)

(* The types of the rows, the tokens and what requests have captured.        *)
AccountTypeOK ==
    /\ users \in [Ids -> User \cup {None}]
    /\ access \subseteq [name : Names, version : Versions]
    /\ refresh \in [RefreshTokens -> Ids \cup {None}]
    /\ captured \in [Requests -> Captured \cup {None}]

(* One row changes; the columns that are named keep their values.            *)
Edits(u, e) == u \in Live(users) /\ e \in User /\ users' = [users EXCEPT ![u] = e]

(* A row and the token that is issued for it.                                *)
LEMMA RowTyped ==
    ASSUME AccountTypeOK, NEW u \in Live(users)
    PROVE  /\ u \in Ids /\ users[u] \in User
           /\ Token(users[u]) \in [name : Names, version : Versions]
BY DEF AccountTypeOK, Live, Token, User

(* A change of one row, seen row by row.                                     *)
LEMMA EditsTyped ==
    ASSUME AccountTypeOK, NEW u, NEW e, Edits(u, e)
    PROVE  /\ users' \in [Ids -> User \cup {None}]
           /\ \A v \in Ids : users'[v] = IF v = u THEN e ELSE users[v]
           /\ users'[u] = e /\ e # None
           /\ Live(users') = Live(users)
<1>1. u \in Ids /\ e # None
  BY NoneIsNoRow DEF Edits, Live
<1>2. /\ users' \in [Ids -> User \cup {None}]
      /\ \A v \in Ids : users'[v] = IF v = u THEN e ELSE users[v]
  BY <1>1 DEF Edits, AccountTypeOK
<1>. QED
  BY <1>1, <1>2 DEF Live, Edits

LEMMA RegisterTyped ==
    ASSUME AccountTypeOK, NEW n \in Names, Register(n)
    PROVE  \E e \in User :
            /\ e.name = n /\ e.active /\ e # None
            /\ NewId \in Ids /\ users' = [users EXCEPT ![NewId] = e]
<1> DEFINE first == Live(users) = {}
           e == [name |-> n, role |-> IF first THEN "admin" ELSE "user",
                 active |-> TRUE, approved |-> first, version |-> 0]
<1>1. NewId \in Ids /\ users' = [users EXCEPT ![NewId] = e]
  BY DEF Register
<1>2. first \in BOOLEAN /\ 0 \in Versions
  BY AccountAssumption DEF AccountAssumption, Versions
<1> HIDE DEF first
<1>3. e \in User
  BY <1>2, AccountAssumption DEF AccountAssumption, User
<1>4. e.name = n /\ e.active /\ e # None
  BY <1>3, NoneIsNoRow
<1> HIDE DEF e
<1>. QED
  BY <1>1, <1>3, <1>4

LEMMA ApproveEdits ==
    ASSUME AccountTypeOK, NEW q \in Requests, NEW u \in Ids, Approve(q, u)
    PROVE  \E e : Edits(u, e) /\ e.name = users[u].name /\ e.role = users[u].role
                 /\ e.active = users[u].active
<1> DEFINE old == users[u]
           e == [old EXCEPT !.approved = TRUE]
<1>1. u \in Live(users) /\ users' = [users EXCEPT ![u] = e]
  BY DEF Approve
<1>2. old \in User
  BY <1>1, RowTyped
<1> HIDE DEF old
<1>3. e \in User /\ e.name = old.name /\ e.role = old.role /\ e.active = old.active
  BY <1>2 DEF User
<1> HIDE DEF e
<1>. QED
  BY <1>1, <1>3 DEF Edits, old

LEMMA UpdateRoleEdits ==
    ASSUME AccountTypeOK, NEW q \in Requests, NEW u \in Ids, NEW role \in Roles,
           UpdateRole(q, u, role)
    PROVE  \/ users' = users
           \/ \E e : Edits(u, e) /\ e.name = users[u].name /\ e.active = users[u].active
<1> DEFINE old == users[u]
           e == [old EXCEPT !.role = role]
<1>1. u \in Live(users) /\ (users' = users \/ users' = [users EXCEPT ![u] = e])
  BY DEF UpdateRole
<1>2. old \in User
  BY <1>1, RowTyped
<1> HIDE DEF old
<1>3. e \in User /\ e.name = old.name /\ e.active = old.active
  BY <1>2 DEF User
<1> HIDE DEF e
<1>. QED
  BY <1>1, <1>3 DEF Edits, old

LEMMA DeactivatedEdits ==
    ASSUME AccountTypeOK, NEW q \in Requests, NEW u \in Ids, MayDeactivate(q, u), Deactivated(u)
    PROVE  \E e : Edits(u, e) /\ e.name = users[u].name /\ e.role = users[u].role
<1> DEFINE old == users[u]
           e == [old EXCEPT !.active = FALSE, !.version = @ + 1]
<1>1. u \in Live(users) /\ users' = [users EXCEPT ![u] = e] /\ old.version < MaxVersion
  BY DEF MayDeactivate, Deactivated
<1>2. old \in User
  BY <1>1, RowTyped
<1> HIDE DEF old
<1>3. old.version + 1 \in Versions
  BY <1>1, <1>2, AccountAssumption DEF AccountAssumption, User, Versions
<1>4. e \in User /\ e.name = old.name /\ e.role = old.role
  BY <1>2, <1>3 DEF User
<1> HIDE DEF e
<1>. QED
  BY <1>1, <1>4 DEF Edits, old

LEMMA ReactivateEdits ==
    ASSUME AccountTypeOK, NEW q \in Requests, NEW u \in Ids, Reactivate(q, u)
    PROVE  \/ users' = users
           \/ \E e : Edits(u, e) /\ e.name = users[u].name /\ e.role = users[u].role /\ e.active
<1> DEFINE old == users[u]
           e == [old EXCEPT !.active = TRUE]
<1>1. u \in Live(users) /\ (users' = users \/ users' = [users EXCEPT ![u] = e])
  BY DEF Reactivate
<1>2. old \in User
  BY <1>1, RowTyped
<1> HIDE DEF old
<1>3. e \in User /\ e.name = old.name /\ e.role = old.role /\ e.active
  BY <1>2 DEF User
<1> HIDE DEF e
<1>. QED
  BY <1>1, <1>3 DEF Edits, old

LEMMA RenameEdits ==
    ASSUME AccountTypeOK, NEW q \in Requests, NEW n \in Names, Rename(q, n)
    PROVE  LET u == captured[q].id IN
           /\ ~Taken(n)
           /\ access' = access \cup {[name |-> n, version |-> captured[q].version]}
           /\ \E e : Edits(u, e) /\ e.name = n /\ e.role = users[u].role
                    /\ e.active = users[u].active
<1> DEFINE u == captured[q].id
           old == users[u]
           e == [old EXCEPT !.name = n]
<1>1. u \in Live(users) /\ users' = [users EXCEPT ![u] = e]
  BY DEF Rename
<1>2. old \in User
  BY <1>1, RowTyped
<1> HIDE DEF old
<1>3. e \in User /\ e.name = n /\ e.role = old.role /\ e.active = old.active
  BY <1>2 DEF User
<1> HIDE DEF e
<1>. QED
  BY <1>1, <1>3 DEF Edits, old, Rename

LEMMA ChangePasswordEdits ==
    ASSUME AccountTypeOK, NEW q \in Requests, ChangePassword(q)
    PROVE  LET u == captured[q].id IN
           /\ access' = access \cup {Token(users'[u])}
           /\ \E e : Edits(u, e) /\ e.name = users[u].name /\ e.role = users[u].role
                    /\ e.active = users[u].active
<1> DEFINE u == captured[q].id
           old == users[u]
           next == captured[q].version + 1
           e == [old EXCEPT !.version = next]
<1>1. u \in Live(users) /\ users' = [users EXCEPT ![u] = e]
  BY DEF ChangePassword
<1>2. old \in User
  BY <1>1, RowTyped
<1>3. next \in Versions
  <2>1. captured[q] \in Captured /\ captured[q].version < MaxVersion
    BY DEF ChangePassword, Acts, AccountTypeOK
  <2>. QED
    BY <2>1, AccountAssumption DEF AccountAssumption, Captured, Versions
<1> HIDE DEF old, next
<1>4. e \in User /\ e.name = old.name /\ e.role = old.role /\ e.active = old.active
  BY <1>2, <1>3 DEF User
<1> HIDE DEF e
<1>. QED
  BY <1>1, <1>4 DEF Edits, old, ChangePassword

(* What the handlers make of the rows, whichever handler it is.              *)
Edit(u, e) == Edits(u, e) /\ (e.name = users[u].name \/ ~Taken(e.name))

Edited == users' = users \/ \E u \in Ids, e \in User : Edit(u, e)

(* The handlers that change a row; those that delete one are not among them. *)
Handles(q) ==
    \/ Refuse(q)
    \/ \E u \in Ids :
        \/ Approve(q, u)
        \/ \E r \in Roles : UpdateRole(q, u, r)
        \/ Deactivate(q, u)
        \/ DeactivateCut(q, u)
        \/ Reactivate(q, u)
    \/ \E n \in Names : Rename(q, n)
    \/ ChangePassword(q)

Deletes(q, u) ==
    /\ u \in Ids
    /\ \/ DeleteByAdmin(q, u)
       \/ DeleteAccount(q) /\ u = captured[q].id

LEMMA HandleShapes ==
    ASSUME AccountTypeOK, NEW q \in Requests, Handle(q)
    PROVE  Handles(q) \/ \E u \in Ids : Deletes(q, u)
<1>1. CASE DeleteAccount(q)
  <2>1. captured[q].id \in Ids
    BY <1>1 DEF DeleteAccount, Acts, AccountTypeOK, Captured
  <2>2. Deletes(q, captured[q].id)
    BY <1>1, <2>1 DEF Deletes
  <2>. QED
    BY <2>1, <2>2
<1>2. ASSUME NEW u \in Ids, DeleteByAdmin(q, u)
      PROVE  \E v \in Ids : Deletes(q, v)
  <2>1. Deletes(q, u)
    BY <1>2 DEF Deletes
  <2>. QED
    BY <2>1
<1>. QED
  BY <1>1, <1>2, Zenon DEF Handle, Handles

LEMMA EditsAreEdits ==
    ASSUME NEW u, NEW e, Edits(u, e), e.name = users[u].name \/ ~Taken(e.name)
    PROVE  Edited
BY DEF Edited, Edit, Edits, Live

LEMMA HandlesEdited ==
    ASSUME AccountTypeOK, NEW q \in Requests, Handles(q)
    PROVE  Edited
<1>1. ASSUME NEW u \in Ids, Approve(q, u)
      PROVE  Edited
  BY <1>1, ApproveEdits, EditsAreEdits
<1>2. ASSUME NEW u \in Ids, NEW r \in Roles, UpdateRole(q, u, r)
      PROVE  Edited
  BY <1>2, UpdateRoleEdits, EditsAreEdits DEF Edited
<1>3. ASSUME NEW u \in Ids, Deactivate(q, u) \/ DeactivateCut(q, u)
      PROVE  Edited
  BY <1>3, DeactivatedEdits, EditsAreEdits DEF Deactivate, DeactivateCut
<1>4. ASSUME NEW u \in Ids, Reactivate(q, u)
      PROVE  Edited
  BY <1>4, ReactivateEdits, EditsAreEdits DEF Edited
<1>5. ASSUME NEW n \in Names, Rename(q, n)
      PROVE  Edited
  BY <1>5, RenameEdits, EditsAreEdits
<1>6. CASE ChangePassword(q)
  BY <1>6, ChangePasswordEdits, EditsAreEdits
<1>7. CASE Refuse(q)
  BY <1>7 DEF Refuse, Edited
<1>. QED
  BY <1>1, <1>2, <1>3, <1>4, <1>5, <1>6, <1>7 DEF Handles

(* The refresh tokens after each kind of change.                             *)
LEMMA TokensTyped ==
    ASSUME AccountTypeOK
    PROVE  /\ \A u \in Ids, t \in RefreshTokens : Reissued(u, t) \in [RefreshTokens -> Ids \cup {None}]
           /\ \A u : Revoked(u) \in [RefreshTokens -> Ids \cup {None}]
BY DEF AccountTypeOK, Reissued, Revoked

(* A handler revokes the tokens of one account or leaves them alone.         *)
LEMMA HandleTokens ==
    ASSUME AccountTypeOK, NEW q \in Requests, Handle(q)
    PROVE  refresh' = refresh \/ \E u : refresh' = Revoked(u)
BY DEF Handle, Refuse, Approve, UpdateRole, Deactivate, DeactivateCut, Reactivate,
       DeleteByAdmin, DeleteAccount, Deleted, Rename, ChangePassword

LEMMA HandleCaptured ==
    ASSUME AccountTypeOK, NEW q \in Requests, Handle(q)
    PROVE  captured' \in [Requests -> Captured \cup {None}]
<1>1. Done(q) \/ captured' = [r \in Requests |-> None]
  BY DEF Handle, Refuse, Approve, UpdateRole, Deactivate, DeactivateCut, Reactivate,
         DeleteByAdmin, DeleteAccount, Deleted, Rename, ChangePassword
<1>. QED
  BY <1>1 DEF Done, AccountTypeOK

LEMMA HandleAccess ==
    ASSUME AccountTypeOK, NEW q \in Requests, Handle(q)
    PROVE  access' \subseteq [name : Names, version : Versions]
<1>1. ASSUME NEW u, NEW e, Edits(u, e)
      PROVE  Token(users'[u]) \in [name : Names, version : Versions]
  BY <1>1, EditsTyped DEF Edits, Token, User
<1>2. ASSUME NEW n \in Names, Rename(q, n)
      PROVE  access' \subseteq [name : Names, version : Versions]
  <2>1. captured[q] \in Captured
    BY <1>2 DEF Rename, Acts, AccountTypeOK
  <2>2. [name |-> n, version |-> captured[q].version] \in [name : Names, version : Versions]
    BY <2>1 DEF Captured
  <2>. QED
    BY <1>2, <2>2, RenameEdits DEF AccountTypeOK
<1>3. CASE ChangePassword(q)
  BY <1>1, <1>3, ChangePasswordEdits DEF AccountTypeOK
<1>4. CASE access' = access
  BY <1>4 DEF AccountTypeOK
<1>. QED
  BY <1>2, <1>3, <1>4 DEF Handle, Refuse, Approve, UpdateRole, Deactivate, DeactivateCut,
       Reactivate, DeleteByAdmin, DeleteAccount

LEMMA HandleTyped ==
    ASSUME AccountTypeOK, NEW q \in Requests, Handle(q)
    PROVE  AccountTypeOK'
<1>1. users' \in [Ids -> User \cup {None}]
  <2>1. CASE Handles(q)
    BY <2>1, HandlesEdited, EditsTyped DEF Edited, Edit, AccountTypeOK
  <2>2. ASSUME NEW u \in Ids, Deletes(q, u)
        PROVE  users' \in [Ids -> User \cup {None}]
    BY <2>2 DEF Deletes, DeleteByAdmin, DeleteAccount, Deleted, AccountTypeOK
  <2>. QED
    BY <2>1, <2>2, HandleShapes
<1>2. refresh' \in [RefreshTokens -> Ids \cup {None}]
  BY HandleTokens, TokensTyped DEF AccountTypeOK
<1>. QED
  BY <1>1, <1>2, HandleCaptured, HandleAccess DEF AccountTypeOK

LEMMA AuthenticateTyped ==
    ASSUME AccountTypeOK, NEW q \in Requests, NEW u \in Ids, Authenticate(q, u)
    PROVE  AccountTypeOK'
<1> DEFINE row == users[u]
           c == [id |-> u, name |-> row.name, role |-> row.role, version |-> row.version]
<1>1. u \in Live(users) /\ captured' = [captured EXCEPT ![q] = c]
      /\ UNCHANGED <<users, access, refresh>>
  BY DEF Authenticate
<1>2. row \in User
  BY <1>1, RowTyped
<1> HIDE DEF row
<1>3. c \in Captured
  BY <1>2 DEF User, Captured
<1> HIDE DEF c
<1>. QED
  BY <1>1, <1>3 DEF AccountTypeOK

LEMMA StepTyped ==
    ASSUME AccountTypeOK, Next
    PROVE  AccountTypeOK'
<1>1. ASSUME NEW n \in Names, Register(n)
      PROVE  AccountTypeOK'
  <2>1. PICK e \in User : NewId \in Ids /\ users' = [users EXCEPT ![NewId] = e]
    BY <1>1, RegisterTyped
  <2>2. users' \in [Ids -> User \cup {None}]
    BY <2>1 DEF AccountTypeOK
  <2>. QED
    BY <1>1, <2>2 DEF Register, AccountTypeOK
<1>2. ASSUME NEW u \in Ids, NEW i \in Ips, NEW t \in RefreshTokens, Login(u, i, t)
      PROVE  AccountTypeOK'
  BY <1>2, TokensTyped, RowTyped DEF Login, AccountTypeOK
<1>3. ASSUME NEW t \in RefreshTokens, NEW new \in RefreshTokens, Refresh(t, new)
      PROVE  AccountTypeOK'
  <2> DEFINE u == refresh[t]
  <2>1. u \in Ids /\ u \in Live(users)
    BY <1>3 DEF Refresh, AccountTypeOK, Live
  <2>2. access' = access \cup {Token(users[u])} /\ refresh' = Reissued(u, new)
        /\ UNCHANGED <<users, captured>>
    BY <1>3 DEF Refresh
  <2> HIDE DEF u
  <2>. QED
    BY <2>1, <2>2, TokensTyped, RowTyped DEF AccountTypeOK
<1>4. ASSUME NEW t \in RefreshTokens, Logout(t)
      PROVE  AccountTypeOK'
  BY <1>4 DEF Logout, AccountTypeOK
<1>5. CASE UNCHANGED <<users, access, refresh, captured>>
  BY <1>5 DEF AccountTypeOK
<1>. QED
  BY <1>1, <1>2, <1>3, <1>4, <1>5, AuthenticateTyped, HandleTyped
     DEF Next, LoginRefused, LoginPending, GuardTick

LEMMA AccountTypes == Spec => []AccountTypeOK
<1>1. Init => AccountTypeOK
  BY DEF Init, AccountTypeOK
<1>2. AccountTypeOK /\ [Next]_vars => AccountTypeOK'
  BY StepTyped DEF vars, AccountTypeOK
<1>. QED
  BY <1>1, <1>2, PTL DEF Spec

-----------------------------------------------------------------------------
(* Names and refresh tokens                                                  *)

(* The parts of OneSession.                                                  *)
NamesDiffer == \A u, v \in Live(users) : users[u].name = users[v].name => u = v

OneToken == \A s, t \in RefreshTokens : refresh[s] # None /\ refresh[s] = refresh[t] => s = t

TokensLive == \A t \in RefreshTokens : refresh[t] # None => users[refresh[t]] # None

LEMMA SessionParts == OneSession <=> NamesDiffer /\ OneToken /\ TokensLive
BY DEF OneSession, NamesDiffer, OneToken, TokensLive

(* Reissuing and revoking leave an account at most one token.                *)
LEMMA TokensStaySingle ==
    ASSUME AccountTypeOK, OneToken, NEW u
    PROVE  /\ \A t \in RefreshTokens : refresh' = Reissued(u, t) => OneToken'
           /\ refresh' = Revoked(u) => OneToken'
BY DEF AccountTypeOK, OneToken, Reissued, Revoked

(* A changed row keeps its name or takes one that is free.                   *)
LEMMA EditsKeepSessions ==
    ASSUME AccountTypeOK, NamesDiffer, TokensLive, Edited,
           refresh' = refresh \/ \E u : refresh' = Revoked(u)
    PROVE  NamesDiffer' /\ TokensLive'
<1>1. refresh' \in [RefreshTokens -> Ids \cup {None}]
  BY TokensTyped DEF AccountTypeOK
<1>2. \A t \in RefreshTokens : refresh'[t] = None \/ refresh'[t] = refresh[t]
  BY DEF Revoked
<1>3. CASE users' = users
  BY <1>1, <1>2, <1>3 DEF NamesDiffer, TokensLive, Live
<1>4. ASSUME NEW u \in Ids, NEW e \in User, Edit(u, e)
      PROVE  NamesDiffer' /\ TokensLive'
  <2>1. /\ \A v \in Ids : users'[v] = IF v = u THEN e ELSE users[v]
        /\ e # None /\ Live(users') = Live(users)
    BY <1>4, EditsTyped DEF Edit
  <2>2. u \in Live(users) /\ (e.name = users[u].name \/ ~Taken(e.name))
    BY <1>4 DEF Edit, Edits
  <2>3. NamesDiffer'
    BY <2>1, <2>2 DEF NamesDiffer, Taken, Live
  <2>4. TokensLive'
    BY <1>1, <1>2, <2>1 DEF TokensLive
  <2>. QED
    BY <2>3, <2>4
<1>. QED
  BY <1>3, <1>4 DEF Edited

(* The tokens of an account go with it.                                      *)
LEMMA DeletionKeepsSessions ==
    ASSUME AccountTypeOK, NamesDiffer, TokensLive, NEW q \in Requests, NEW u, Deletes(q, u)
    PROVE  NamesDiffer' /\ TokensLive'
<1>1. u \in Ids /\ users' = [users EXCEPT ![u] = None] /\ refresh' = Revoked(u)
  BY DEF Deletes, DeleteByAdmin, DeleteAccount, Deleted
<1>2. \A v \in Ids : users'[v] = IF v = u THEN None ELSE users[v]
  BY <1>1 DEF AccountTypeOK
<1>3. NamesDiffer'
  BY <1>2 DEF NamesDiffer, Live
<1>4. \A t \in RefreshTokens : refresh'[t] # None => refresh'[t] = refresh[t] /\ refresh[t] # u
  BY <1>1 DEF Revoked
<1>5. \A t \in RefreshTokens : refresh[t] \in Ids \cup {None}
  BY DEF AccountTypeOK
<1>6. TokensLive'
  BY <1>2, <1>4, <1>5 DEF TokensLive
<1>. QED
  BY <1>3, <1>6

LEMMA StepKeepsSessions ==
    ASSUME AccountTypeOK, OneSession, Next
    PROVE  OneSession'
<1>0. NamesDiffer /\ OneToken /\ TokensLive
  BY SessionParts
<1>1. ASSUME NEW n \in Names, Register(n)
      PROVE  NamesDiffer' /\ OneToken' /\ TokensLive'
  <2>1. PICK e \in User : /\ e.name = n /\ e # None
                          /\ NewId \in Ids /\ users' = [users EXCEPT ![NewId] = e]
    BY <1>1, RegisterTyped
  <2>2. \A v \in Ids : users'[v] = IF v = NewId THEN e ELSE users[v]
    BY <2>1 DEF AccountTypeOK
  <2>3. ~Taken(n) /\ refresh' = refresh
    BY <1>1 DEF Register
  <2>4. NamesDiffer'
    BY <1>0, <2>1, <2>2, <2>3 DEF NamesDiffer, Live, Taken
  <2>5. TokensLive'
    BY <1>0, <2>1, <2>2, <2>3 DEF TokensLive, AccountTypeOK
  <2>. QED
    BY <1>0, <2>3, <2>4, <2>5 DEF OneToken
<1>2. ASSUME NEW u \in Ids, NEW t \in RefreshTokens, users[u] # None, users' = users,
             refresh' = Reissued(u, t)
      PROVE  NamesDiffer' /\ OneToken' /\ TokensLive'
  <2>1. OneToken'
    BY <1>0, <1>2, TokensStaySingle
  <2>. QED
    BY <1>0, <1>2, <2>1 DEF NamesDiffer, TokensLive, Live, Reissued
<1>3. ASSUME NEW u \in Ids, NEW i \in Ips, NEW t \in RefreshTokens, Login(u, i, t)
      PROVE  NamesDiffer' /\ OneToken' /\ TokensLive'
  BY <1>2, <1>3 DEF Login, Live
<1>4. ASSUME NEW t \in RefreshTokens, NEW new \in RefreshTokens, Refresh(t, new)
      PROVE  NamesDiffer' /\ OneToken' /\ TokensLive'
  <2> DEFINE u == refresh[t]
  <2>1. u \in Ids /\ users[u] # None /\ users' = users /\ refresh' = Reissued(u, new)
    BY <1>4 DEF Refresh, AccountTypeOK
  <2> HIDE DEF u
  <2>. QED
    BY <1>2, <2>1
<1>5. ASSUME NEW t \in RefreshTokens, Logout(t)
      PROVE  NamesDiffer' /\ OneToken' /\ TokensLive'
  BY <1>0, <1>5 DEF Logout, NamesDiffer, OneToken, TokensLive, Live, AccountTypeOK
<1>6. ASSUME users' = users, refresh' = refresh
      PROVE  NamesDiffer' /\ OneToken' /\ TokensLive'
  <2>1. NamesDiffer'
    BY <1>0, <1>6 DEF NamesDiffer, Live
  <2>2. OneToken'
    BY <1>0, <1>6 DEF OneToken
  <2>3. TokensLive'
    BY <1>0, <1>6 DEF TokensLive
  <2>. QED
    BY <2>1, <2>2, <2>3
<1>7. ASSUME NEW q \in Requests, Handle(q)
      PROVE  NamesDiffer' /\ OneToken' /\ TokensLive'
  <2>1. OneToken'
    <3>1. CASE refresh' = refresh
      BY <1>0, <3>1 DEF OneToken
    <3>. QED
      BY <1>0, <1>7, <3>1, HandleTokens, TokensStaySingle
  <2>2. CASE Handles(q)
    BY <1>0, <1>7, <2>1, <2>2, HandlesEdited, HandleTokens, EditsKeepSessions
  <2>3. ASSUME NEW u \in Ids, Deletes(q, u)
        PROVE  NamesDiffer' /\ OneToken' /\ TokensLive'
    BY <1>0, <2>1, <2>3, DeletionKeepsSessions
  <2>. QED
    BY <1>7, <2>2, <2>3, HandleShapes
<1>8. NamesDiffer' /\ OneToken' /\ TokensLive'
  <2>1. CASE \/ \E n \in Names, i \in Ips : LoginRefused(n, i)
             \/ \E u \in Ids, i \in Ips : LoginPending(u, i)
             \/ \E q \in Requests, u \in Ids : Authenticate(q, u)
             \/ GuardTick
    BY <1>6, <2>1 DEF LoginRefused, LoginPending, Authenticate, GuardTick
  <2>. QED
    BY <1>1, <1>3, <1>4, <1>5, <1>7, <2>1 DEF Next
<1>. QED
  BY <1>8 DEF OneSession, NamesDiffer, OneToken, TokensLive

(* Names identify accounts, an account holds at most one valid refresh token *)
(* and none outlives its account.                                            *)
THEOREM OneSessionAlways == Spec => []OneSession
<1>1. Init => OneSession
  BY DEF Init, OneSession, Live
<1>2. AccountTypeOK /\ OneSession /\ [Next]_vars => OneSession'
  BY StepKeepsSessions DEF vars, OneSession, Live
<1>. QED
  BY <1>1, <1>2, AccountTypes, PTL DEF Spec

-----------------------------------------------------------------------------
(* Deactivation                                                              *)

LeftShrinks == LeftBehind' \subseteq LeftBehind

(* An account that stays as active as it was, or becomes active, is not left *)
(* behind.                                                                   *)
LEMMA EditsLeaveNone ==
    ASSUME AccountTypeOK, NEW u, NEW e, Edits(u, e),
           e.active = users[u].active \/ e.active, refresh' = refresh
    PROVE  LeftShrinks
<1>1. /\ \A v \in Ids : users'[v] = IF v = u THEN e ELSE users[v]
      /\ Live(users') = Live(users)
  BY EditsTyped
<1>2. ASSUME NEW v \in LeftBehind'
      PROVE  v \in LeftBehind
  <2>1. /\ v \in Live(users) /\ v \in Ids /\ ~users'[v].active
        /\ \E t \in RefreshTokens : refresh[t] = v
    BY <1>1, <1>2 DEF LeftBehind, Live
  <2>2. ~users[v].active
    BY <1>1, <2>1
  <2>. QED
    BY <2>1, <2>2 DEF LeftBehind
<1>. QED
  BY <1>2 DEF LeftShrinks

(* A deactivation revokes the one token that could leave its account behind. *)
LEMMA RevokedLeavesNone ==
    ASSUME AccountTypeOK, NEW u \in Ids, NEW e,
           users' = [users EXCEPT ![u] = e], refresh' = Revoked(u)
    PROVE  LeftShrinks
<1>1. \A v \in Ids : v # u => users'[v] = users[v]
  BY DEF AccountTypeOK
<1>2. \A t \in RefreshTokens : refresh'[t] = IF refresh[t] = u THEN None ELSE refresh[t]
  BY DEF Revoked
<1>3. u # None
  BY AccountAssumption DEF AccountAssumption, Ids
<1>4. ASSUME NEW v \in LeftBehind'
      PROVE  v \in LeftBehind
  <2>1. PICK t \in RefreshTokens : refresh'[t] = v
    BY <1>4 DEF LeftBehind
  <2>2. v \in Ids /\ users'[v] # None /\ ~users'[v].active
    BY <1>4 DEF LeftBehind, Live
  <2>3. v # None
    BY <2>2, AccountAssumption DEF AccountAssumption, Ids
  <2>4. v # u /\ refresh[t] = v
    BY <1>2, <1>3, <2>1, <2>3
  <2>. QED
    BY <1>1, <2>2, <2>4 DEF LeftBehind, Live
<1>. QED
  BY <1>4 DEF LeftShrinks

(* A token is issued for an active account only.                             *)
LEMMA ReissuedLeavesNone ==
    ASSUME AccountTypeOK, NEW u \in Live(users), users[u].active,
           NEW t \in RefreshTokens, users' = users, refresh' = Reissued(u, t)
    PROVE  LeftShrinks
<1>1. \A x \in RefreshTokens : refresh'[x] \in {u, None, refresh[x]}
  BY DEF Reissued
<1>2. ASSUME NEW v \in LeftBehind'
      PROVE  v \in LeftBehind
  <2>1. PICK x \in RefreshTokens : refresh'[x] = v
    BY <1>2 DEF LeftBehind
  <2>2. v \in Ids /\ users[v] # None /\ ~users[v].active
    BY <1>2 DEF LeftBehind, Live
  <2>3. v # None
    BY <2>2, AccountAssumption DEF AccountAssumption, Ids
  <2>4. v # u
    BY <2>2
  <2>. QED
    BY <1>1, <2>1, <2>2, <2>3, <2>4 DEF LeftBehind, Live
<1>. QED
  BY <1>2 DEF LeftShrinks

LEMMA HandleLeavesNone ==
    ASSUME AccountTypeOK, NEW q \in Requests, Handle(q)
    PROVE  LeftShrinks \/ \E u \in Ids : DeactivateCut(q, u)
<1>1. CASE users' = users /\ refresh' = refresh
  BY <1>1 DEF LeftShrinks, LeftBehind, Live
<1>2. ASSUME NEW u \in Ids, Approve(q, u)
      PROVE  LeftShrinks
  BY <1>2, ApproveEdits, EditsLeaveNone DEF Approve
<1>3. ASSUME NEW u \in Ids, NEW r \in Roles, UpdateRole(q, u, r)
      PROVE  LeftShrinks
  BY <1>1, <1>3, UpdateRoleEdits, EditsLeaveNone DEF UpdateRole, LeftShrinks, LeftBehind, Live
<1>4. ASSUME NEW u \in Ids, Deactivate(q, u)
      PROVE  LeftShrinks
  <2>1. PICK e : Edits(u, e)
    BY <1>4, DeactivatedEdits DEF Deactivate
  <2>. QED
    BY <1>4, <2>1, RevokedLeavesNone DEF Deactivate, Edits
<1>5. ASSUME NEW u \in Ids, Reactivate(q, u)
      PROVE  LeftShrinks
  BY <1>5, ReactivateEdits, EditsLeaveNone DEF Reactivate, LeftShrinks, LeftBehind, Live
<1>6. ASSUME NEW n \in Names, Rename(q, n)
      PROVE  LeftShrinks
  BY <1>6, RenameEdits, EditsLeaveNone DEF Rename
<1>7. CASE ChangePassword(q)
  BY <1>7, ChangePasswordEdits, EditsLeaveNone DEF ChangePassword
<1>8. ASSUME NEW u \in Ids, Deletes(q, u)
      PROVE  LeftShrinks
  BY <1>8, RevokedLeavesNone DEF Deletes, DeleteByAdmin, DeleteAccount, Deleted
<1>9. CASE Refuse(q)
  BY <1>1, <1>9 DEF Refuse, LeftShrinks, LeftBehind, Live
<1>. QED
  BY <1>2, <1>3, <1>4, <1>5, <1>6, <1>7, <1>8, <1>9, HandleShapes DEF Handles

(* Only the death of the process between its two transactions lets a         *)
(* deactivation leave the account's refresh token valid.                     *)
THEOREM DeactivationAlwaysRevokes == Spec => DeactivationRevokes
<1>1. ASSUME AccountTypeOK, [Next]_vars
      PROVE  [LeftShrinks \/ \E q \in Requests, u \in Ids : DeactivateCut(q, u)]_vars
  <2>1. CASE users' = users /\ refresh' = refresh
    BY <2>1 DEF LeftShrinks, LeftBehind, Live
  <2>2. ASSUME NEW n \in Names, Register(n)
        PROVE  LeftShrinks
    <3>1. PICK e \in User : e.active /\ NewId \in Ids /\ users' = [users EXCEPT ![NewId] = e]
      BY <1>1, <2>2, RegisterTyped
    <3>2. \A v \in Ids : users'[v] = IF v = NewId THEN e ELSE users[v]
      BY <1>1, <3>1 DEF AccountTypeOK
    <3>3. refresh' = refresh
      BY <2>2 DEF Register
    <3>. QED
      BY <3>1, <3>2, <3>3 DEF LeftShrinks, LeftBehind, Live
  <2>3. ASSUME NEW u \in Ids, NEW i \in Ips, NEW t \in RefreshTokens, Login(u, i, t)
        PROVE  LeftShrinks
    BY <1>1, <2>3, ReissuedLeavesNone DEF Login
  <2>4. ASSUME NEW t \in RefreshTokens, NEW new \in RefreshTokens, Refresh(t, new)
        PROVE  LeftShrinks
    <3> DEFINE u == refresh[t]
    <3>1. u \in Live(users) /\ users[u].active /\ users' = users /\ refresh' = Reissued(u, new)
      BY <1>1, <2>4 DEF Refresh, AccountTypeOK, Live
    <3> HIDE DEF u
    <3>. QED
      BY <1>1, <3>1, ReissuedLeavesNone
  <2>5. ASSUME NEW t \in RefreshTokens, Logout(t)
        PROVE  LeftShrinks
    <3>1. users' = users /\ \A x \in RefreshTokens : refresh'[x] \in {None, refresh[x]}
      BY <1>1, <2>5 DEF Logout, AccountTypeOK
    <3>2. None \notin Ids
      BY AccountAssumption DEF AccountAssumption, Ids
    <3>. QED
      BY <3>1, <3>2 DEF LeftShrinks, LeftBehind, Live
  <2>6. CASE \/ \E n \in Names, i \in Ips : LoginRefused(n, i)
             \/ \E u \in Ids, i \in Ips : LoginPending(u, i)
             \/ \E q \in Requests, u \in Ids : Authenticate(q, u)
             \/ GuardTick
    BY <2>1, <2>6 DEF LoginRefused, LoginPending, Authenticate, GuardTick,
         LeftShrinks, LeftBehind, Live
  <2>7. CASE Next
    BY <1>1, <2>2, <2>3, <2>4, <2>5, <2>6, <2>7, HandleLeavesNone DEF Next
  <2>. QED
    BY <1>1, <2>7
<1>. QED
  BY <1>1, AccountTypes, PTL DEF Spec, DeactivationRevokes, LeftShrinks

-----------------------------------------------------------------------------
(* The last administrator                                                    *)

(* When there are two administrators, there is another one.                  *)
LEMMA AnotherAdmin ==
    ASSUME NEW u, Cardinality(Admins(users)) > 1
    PROVE  \E v \in Admins(users) : v # u
<1>1. SUFFICES ASSUME Admins(users) \subseteq {u}
               PROVE  FALSE
  OBVIOUS
<1>2. IsFiniteSet({u}) /\ Cardinality({u}) = 1
  BY FS_Singleton
<1>3. Admins(users) \in SUBSET {u}
  BY <1>1
<1>4. Cardinality(Admins(users)) <= 1 /\ Cardinality(Admins(users)) \in Nat
  BY <1>2, <1>3, FS_Subset, FS_CardinalityType
<1>. QED
  BY <1>4

(* Changes that keep the role of the row, and changes of no row.             *)
LEMMA EditsKeepAdmins ==
    ASSUME AccountTypeOK, NEW u, NEW e, Edits(u, e), e.role = users[u].role
    PROVE  Admins(users') = Admins(users)
<1>1. /\ \A v \in Ids : users'[v] = IF v = u THEN e ELSE users[v]
      /\ Live(users') = Live(users)
  BY EditsTyped
<1>. QED
  BY <1>1 DEF Admins, Live

(* The guards of the two deletions leave an administrator, unless the one    *)
(* who deletes himself was none when he was captured.                        *)
LEMMA DeletionLeavesAdmin ==
    ASSUME AccountTypeOK, NEW q \in Requests, NEW u, Deletes(q, u),
           Admins(users) # {}
    PROVE  Admins(users') # {} \/ (DeleteAccount(q) /\ ~IsAdmin(q))
<1>1. u \in Ids /\ users' = [users EXCEPT ![u] = None]
  BY DEF Deletes, DeleteByAdmin, DeleteAccount, Deleted
<1>2. \A v \in Admins(users) : v # u => v \in Admins(users')
  BY <1>1 DEF Admins, Live, AccountTypeOK
<1>3. CASE u \notin Admins(users)
  BY <1>2, <1>3
<1>4. CASE Cardinality(Admins(users)) > 1
  BY <1>2, <1>4, AnotherAdmin
<1>5. CASE u \in Admins(users) /\ DeleteByAdmin(q, u)
  BY <1>4, <1>5 DEF DeleteByAdmin, Admins
<1>6. CASE u \in Admins(users) /\ DeleteAccount(q)
  BY <1>4, <1>6 DEF DeleteAccount
<1>. QED
  BY <1>3, <1>5, <1>6 DEF Deletes

(* How a handler may take the last administrator's row.                      *)
RowTaken(q) ==
    \/ \E u \in Ids, r \in Roles : UpdateRole(q, u, r)
    \/ DeleteAccount(q) /\ ~IsAdmin(q)

LEMMA HandleLeavesAdmin ==
    ASSUME AccountTypeOK, NEW q \in Requests, Handle(q), Admins(users) # {}
    PROVE  Admins(users') # {} \/ RowTaken(q)
<1>1. ASSUME NEW u \in Ids, Approve(q, u)
      PROVE  Admins(users') # {}
  BY <1>1, ApproveEdits, EditsKeepAdmins
<1>2. ASSUME NEW u \in Ids, Deactivate(q, u) \/ DeactivateCut(q, u)
      PROVE  Admins(users') # {}
  BY <1>2, DeactivatedEdits, EditsKeepAdmins DEF Deactivate, DeactivateCut
<1>3. ASSUME NEW u \in Ids, Reactivate(q, u)
      PROVE  Admins(users') # {}
  BY <1>3, ReactivateEdits, EditsKeepAdmins
<1>4. ASSUME NEW n \in Names, Rename(q, n)
      PROVE  Admins(users') # {}
  BY <1>4, RenameEdits, EditsKeepAdmins
<1>5. CASE ChangePassword(q)
  BY <1>5, ChangePasswordEdits, EditsKeepAdmins
<1>6. CASE Refuse(q)
  BY <1>6 DEF Refuse
<1>7. ASSUME NEW u \in Ids, Deletes(q, u)
      PROVE  Admins(users') # {} \/ (DeleteAccount(q) /\ ~IsAdmin(q))
  BY <1>7, DeletionLeavesAdmin
<1>. QED
  BY <1>1, <1>2, <1>3, <1>4, <1>5, <1>6, <1>7, HandleShapes DEF Handles, RowTaken

(* Changes that keep the role of the row, and leave it active if it was.     *)
LEMMA EditsKeepActive ==
    ASSUME AccountTypeOK, NEW u, NEW e, Edits(u, e), e.role = users[u].role,
           users[u].active => e.active
    PROVE  ActiveAdmins(users) \subseteq ActiveAdmins(users')
<1>1. /\ \A v \in Ids : users'[v] = IF v = u THEN e ELSE users[v]
      /\ Live(users') = Live(users)
  BY EditsTyped
<1>. QED
  BY <1>1 DEF ActiveAdmins, Admins, Live

(* A row that is changed or deleted leaves the other active administrators.  *)
LEMMA OthersStayActive ==
    ASSUME AccountTypeOK, NEW u \in Ids, NEW w, users' = [users EXCEPT ![u] = w]
    PROVE  \A v \in ActiveAdmins(users) : v # u => v \in ActiveAdmins(users')
<1>1. \A v \in Ids : v # u => users'[v] = users[v]
  BY DEF AccountTypeOK
<1>. QED
  BY <1>1 DEF ActiveAdmins, Admins, Live

(* How a handler may take the last active administrator.                     *)
ActiveTaken(q) ==
    \/ \E u \in Ids, r \in Roles : UpdateRole(q, u, r)
    \/ /\ \E u \in Ids : \/ Deactivate(q, u) \/ DeactivateCut(q, u)
                         \/ DeleteByAdmin(q, u)
       /\ captured[q].id \notin ActiveAdmins(users)
    \/ /\ DeleteAccount(q)
       /\ ~IsAdmin(q) \/ Admins(users) # ActiveAdmins(users)

(* Who is an active administrator himself remains one when he deactivates or *)
(* deletes another.                                                          *)
LEMMA TakerStays ==
    ASSUME AccountTypeOK, NEW q \in Requests, NEW u \in Ids,
           Deactivate(q, u) \/ DeactivateCut(q, u) \/ DeleteByAdmin(q, u)
    PROVE  ActiveAdmins(users') # {} \/ ActiveTaken(q)
<1>1. PICK w : users' = [users EXCEPT ![u] = w]
  BY DEF Deactivate, DeactivateCut, DeleteByAdmin, Deactivated, Deleted
<1>2. captured[q].id # u
  BY DEF Deactivate, DeactivateCut, DeleteByAdmin, MayDeactivate, Self
<1>3. CASE captured[q].id \in ActiveAdmins(users)
  BY <1>1, <1>2, <1>3, OthersStayActive
<1>4. CASE captured[q].id \notin ActiveAdmins(users)
  BY <1>4 DEF ActiveTaken
<1>. QED
  BY <1>3, <1>4

(* Who deletes himself leaves another administrator, active unless one of    *)
(* them is not.                                                              *)
LEMMA LeaverLeavesActive ==
    ASSUME AccountTypeOK, NEW q \in Requests, DeleteAccount(q), captured[q].id \in Ids
    PROVE  ActiveAdmins(users') # {} \/ ActiveTaken(q)
<1> DEFINE u == captured[q].id
<1>1. SUFFICES ASSUME IsAdmin(q), Admins(users) = ActiveAdmins(users)
               PROVE  ActiveAdmins(users') # {}
  BY DEF ActiveTaken
<1>2. PICK v \in Admins(users) : v # u
  BY <1>1, AnotherAdmin DEF DeleteAccount
<1>3. users' = [users EXCEPT ![u] = None]
  BY DEF DeleteAccount, Deleted
<1> HIDE DEF u
<1>4. u \in Ids
  BY DEF u
<1>. QED
  BY <1>1, <1>2, <1>3, <1>4, OthersStayActive

LEMMA HandleLeavesActive ==
    ASSUME AccountTypeOK, NEW q \in Requests, Handle(q), ActiveAdmins(users) # {}
    PROVE  ActiveAdmins(users') # {} \/ ActiveTaken(q)
<1>1. ASSUME NEW u \in Ids, Approve(q, u)
      PROVE  ActiveAdmins(users') # {}
  BY <1>1, ApproveEdits, EditsKeepActive
<1>2. ASSUME NEW u \in Ids, Deactivate(q, u) \/ DeactivateCut(q, u)
      PROVE  ActiveAdmins(users') # {} \/ ActiveTaken(q)
  BY <1>2, TakerStays
<1>3. ASSUME NEW u \in Ids, Reactivate(q, u)
      PROVE  ActiveAdmins(users') # {}
  BY <1>3, ReactivateEdits, EditsKeepActive
<1>4. ASSUME NEW n \in Names, Rename(q, n)
      PROVE  ActiveAdmins(users') # {}
  BY <1>4, RenameEdits, EditsKeepActive
<1>5. CASE ChangePassword(q)
  BY <1>5, ChangePasswordEdits, EditsKeepActive
<1>6. CASE Refuse(q)
  BY <1>6 DEF Refuse
<1>7. ASSUME NEW u \in Ids, Deletes(q, u)
      PROVE  ActiveAdmins(users') # {} \/ ActiveTaken(q)
  BY <1>7, TakerStays, LeaverLeavesActive DEF Deletes
<1>8. ASSUME NEW u \in Ids, NEW r \in Roles, UpdateRole(q, u, r)
      PROVE  ActiveTaken(q)
  BY <1>8 DEF ActiveTaken
<1>. QED
  BY <1>1, <1>2, <1>3, <1>4, <1>5, <1>6, <1>7, <1>8, HandleShapes DEF Handles

(* A registration takes no administrator away.                               *)
LEMMA RegisterLeavesAdmins ==
    ASSUME AccountTypeOK, NEW n \in Names, Register(n)
    PROVE  Admins(users) \subseteq Admins(users') /\ ActiveAdmins(users) \subseteq ActiveAdmins(users')
<1>1. PICK e \in User : NewId \in Ids /\ users' = [users EXCEPT ![NewId] = e]
  BY RegisterTyped
<1>2. \A v \in Ids : v # NewId => users'[v] = users[v]
  BY <1>1 DEF AccountTypeOK
<1>. QED
  BY <1>2, NewIdIsNew DEF Admins, ActiveAdmins, Live

(* The last administrator's row goes only by a demotion or by the            *)
(* self-deletion of one who was captured as no administrator; the last       *)
(* active administrator by these, by one who asked for it and is none any    *)
(* more, or by a self-deletion beside an inactive administrator.             *)
(* (deactivate_user, delete_user_by_admin, delete_user_account.)             *)
THEOREM AdminAlwaysRemains == Spec => AnAdminRemains
<1> DEFINE Excused ==
        /\ Admins(users) # {} /\ Admins(users') = {} => \E q \in Requests : RowTaken(q)
        /\ ActiveAdmins(users) # {} /\ ActiveAdmins(users') = {} =>
              \E q \in Requests : ActiveTaken(q)
<1>1. ASSUME AccountTypeOK, [Next]_vars
      PROVE  [Excused]_vars
  <2> SUFFICES ASSUME Next PROVE Excused
    BY <1>1
  <2>1. CASE users' = users
    BY <2>1
  <2>2. ASSUME NEW n \in Names, Register(n)
        PROVE  Excused
    BY <1>1, <2>2, RegisterLeavesAdmins
  <2>3. ASSUME NEW q \in Requests, Handle(q)
        PROVE  Excused
    BY <1>1, <2>3, HandleLeavesAdmin, HandleLeavesActive
  <2>. QED
    BY <2>1, <2>2, <2>3 DEF Next, Login, LoginRefused, LoginPending, Refresh, Logout,
         Authenticate, GuardTick
<1>. QED
  BY <1>1, AccountTypes, PTL DEF Spec, AnAdminRemains, RowTaken, ActiveTaken

-----------------------------------------------------------------------------
(* The guard of the login                                                    *)

LEMMA OfTwo ==
    ASSUME NEW a \in Int, NEW b \in Int
    PROVE  /\ Max({a, b}) = IF a >= b THEN a ELSE b
           /\ Min({a, b}) = IF a <= b THEN a ELSE b
<1>1. \E x \in {a, b} : \A y \in {a, b} : x >= y
  OBVIOUS
<1>2. \E x \in {a, b} : \A y \in {a, b} : x <= y
  OBVIOUS
<1>3. Max({a, b}) \in {a, b} /\ \A y \in {a, b} : Max({a, b}) >= y
  BY <1>1 DEF Max
<1>4. Min({a, b}) \in {a, b} /\ \A y \in {a, b} : Min({a, b}) <= y
  BY <1>2 DEF Min
<1>. QED
  BY <1>3, <1>4

(* The number of subsets of a set with k elements.                           *)
LEMMA PowerOfTwo == \A k \in Nat : 2^k \in Nat \ {0}
<1> SUFFICES ASSUME NEW k \in Nat PROVE 2^k \in Nat \ {0}
  OBVIOUS
<1> DEFINE S == 1 .. k
<1>1. IsFiniteSet(S) /\ Cardinality(S) = k
  BY FS_Interval
<1> HIDE DEF S
<1>2. IsFiniteSet(SUBSET S) /\ Cardinality(SUBSET S) = 2^k
  BY <1>1, FS_SUBSET
<1>3. Cardinality(SUBSET S) \in Nat
  BY <1>2, FS_CardinalityType
<1>4. SUBSET S # {}
  <2>1. {} \in SUBSET S
    OBVIOUS
  <2>. QED
    BY <2>1
<1>5. Cardinality(SUBSET S) # 0
  BY <1>2, <1>4, FS_EmptySet
<1>. QED
  BY <1>2, <1>3, <1>5

LEMMA GuardConstants ==
    /\ NameThreshold \in Nat \ {0} /\ NameWindow \in Nat \ {0}
    /\ IpThreshold \in Nat \ {0} /\ IpWindow \in Nat \ {0}
    /\ LockoutBase \in Nat \ {0} /\ LockoutMax \in Nat \ {0} /\ MaxLockouts \in Nat \ {0}
    /\ Ages \subseteq Nat /\ 0 \in Ages
<1>1. /\ NameThreshold \in Nat \ {0} /\ NameWindow \in Nat \ {0}
      /\ IpThreshold \in Nat \ {0} /\ IpWindow \in Nat \ {0}
      /\ LockoutBase \in Nat \ {0} /\ LockoutMax \in Nat \ {0} /\ MaxLockouts \in Nat \ {0}
  BY GuardAssumption DEF GuardAssumption
<1>2. Max({NameWindow, IpWindow}) \in Nat \ {0}
  BY <1>1, OfTwo
<1>. QED
  BY <1>1, <1>2 DEF Ages

LEMMA DurationBounds ==
    ASSUME NEW count \in 1 .. MaxLockouts
    PROVE  /\ Duration(count) \in Nat \ {0}
           /\ Duration(count) >= LockoutBase \/ Duration(count) >= LockoutMax
<1> DEFINE exponent == Min({count - 1, 16})
           factor == 2^exponent
<1>1. exponent \in Nat
  <2>1. count - 1 \in Nat /\ count - 1 \in Int /\ 16 \in Int /\ 16 \in Nat
    BY GuardConstants
  <2>2. exponent = IF count - 1 <= 16 THEN count - 1 ELSE 16
    BY <2>1, OfTwo
  <2>. QED
    BY <2>1, <2>2
<1> HIDE DEF exponent
<1>2. factor \in Nat \ {0}
  BY <1>1, PowerOfTwo
<1> HIDE DEF factor
<1>3. LockoutBase * factor \in Nat /\ LockoutBase * factor >= LockoutBase
  BY <1>2, GuardConstants
<1> DEFINE product == LockoutBase * factor
<1>4. Duration(count) = Min({LockoutMax, product})
  BY DEF Duration, factor, exponent
<1>5. product \in Nat /\ product >= LockoutBase
  BY <1>3
<1> HIDE DEF product
<1>6. Min({LockoutMax, product}) = IF LockoutMax <= product THEN LockoutMax ELSE product
  BY <1>5, GuardConstants, OfTwo
<1>. QED
  BY <1>4, <1>5, <1>6, GuardConstants

(* The attempts of a table as they are some seconds later.                   *)
LEMMA AgedAttempts ==
    ASSUME NEW S, IsFiniteSet(S), NEW d
    PROVE  LET T == {Older(a, d) : a \in S} IN
           IsFiniteSet(T) /\ Cardinality(T) <= Cardinality(S)
<1> DEFINE T == {Older(a, d) : a \in S}
           f == [a \in S |-> Older(a, d)]
<1>1. f \in Surjection(S, T)
  BY DEF Surjection
<1> HIDE DEF f, T
<1>2. IsFiniteSet(T) /\ Cardinality(T) <= Cardinality(S)
  BY <1>1, FS_Surjection
<1>. QED
  BY <1>2 DEF T

LEMMA OlderTyped ==
    ASSUME NEW a \in Attempts, NEW d \in Nat
    PROVE  /\ a.age \in Nat /\ Older(a, d).age = a.age + d
           /\ Older(a, d).name = a.name /\ Older(a, d).ip = a.ip
           /\ a.age + d \in Ages => Older(a, d) \in Attempts
  BY GuardConstants DEF Attempts, Older

LEMMA AfterTimeTyped ==
    ASSUME GuardTypeOK, NEW d \in Nat
    PROVE  AfterTime(failures, d) \subseteq Attempts /\ IsFiniteSet(AfterTime(failures, d))
<1> DEFINE kept == {b \in failures : b.age + d \in Ages}
<1>1. kept \in SUBSET failures /\ failures \subseteq Attempts /\ IsFiniteSet(failures)
  BY DEF GuardTypeOK
<1>2. IsFiniteSet(kept)
  <2> HIDE DEF kept
  <2>. QED
    BY <1>1, FS_Subset
<1>3. AfterTime(failures, d) = {Older(a, d) : a \in kept}
  BY DEF AfterTime
<1>4. \A a \in kept : Older(a, d) \in Attempts
  BY <1>1, OlderTyped
<1> HIDE DEF kept
<1>5. IsFiniteSet({Older(a, d) : a \in kept})
  BY <1>2, AgedAttempts
<1>. QED
  BY <1>3, <1>4, <1>5

(* Time empties the windows.                                                 *)
LEMMA WindowsAfterTime ==
    ASSUME GuardTypeOK, NEW d \in Nat
    PROVE  /\ \A n : Cardinality(NameFailures(AfterTime(failures, d), n))
                        <= Cardinality(NameFailures(failures, n))
           /\ \A i : LET left == {a \in IpFailures(failures, i) : a.age + d < IpWindow} IN
                     Cardinality(IpFailures(AfterTime(failures, d), i)) <= Cardinality(left)
<1>1. failures \subseteq Attempts /\ IsFiniteSet(failures)
  BY DEF GuardTypeOK
<1>2. ASSUME NEW S \in SUBSET failures, NEW T \in SUBSET {Older(a, d) : a \in S}
      PROVE  Cardinality(T) <= Cardinality(S)
  <2> DEFINE U == {Older(a, d) : a \in S}
  <2>1. IsFiniteSet(S)
    BY <1>1, FS_Subset
  <2>2. IsFiniteSet(U) /\ Cardinality(U) <= Cardinality(S)
    BY <2>1, AgedAttempts
  <2>3. T \in SUBSET U
    OBVIOUS
  <2> HIDE DEF U
  <2>4. IsFiniteSet(T) /\ Cardinality(T) <= Cardinality(U)
    BY <2>2, <2>3, FS_Subset
  <2>5. Cardinality(T) \in Nat /\ Cardinality(U) \in Nat /\ Cardinality(S) \in Nat
    BY <2>1, <2>2, <2>4, FS_CardinalityType
  <2>. QED
    BY <2>2, <2>4, <2>5
<1>3. \A b \in AfterTime(failures, d) : \E a \in failures :
         /\ b = Older(a, d) /\ a.age \in Nat /\ b.age = a.age + d
         /\ b.name = a.name /\ b.ip = a.ip
  BY <1>1, OlderTyped DEF AfterTime
<1>4. ASSUME NEW n
      PROVE  Cardinality(NameFailures(AfterTime(failures, d), n))
                <= Cardinality(NameFailures(failures, n))
  <2>1. NameFailures(failures, n) \in SUBSET failures
    BY DEF NameFailures
  <2>2. NameFailures(AfterTime(failures, d), n)
          \in SUBSET {Older(a, d) : a \in NameFailures(failures, n)}
    BY <1>3, GuardConstants DEF NameFailures
  <2>. QED
    BY <1>2, <2>1, <2>2
<1>5. ASSUME NEW i
      PROVE  LET left == {a \in IpFailures(failures, i) : a.age + d < IpWindow} IN
             Cardinality(IpFailures(AfterTime(failures, d), i)) <= Cardinality(left)
  <2> DEFINE left == {a \in IpFailures(failures, i) : a.age + d < IpWindow}
  <2>1. left \in SUBSET failures
    BY DEF IpFailures
  <2>2. IpFailures(AfterTime(failures, d), i) \in SUBSET {Older(a, d) : a \in left}
    BY <1>3, GuardConstants DEF IpFailures
  <2> HIDE DEF left
  <2>3. Cardinality(IpFailures(AfterTime(failures, d), i)) <= Cardinality(left)
    BY <1>2, <2>1, <2>2
  <2>. QED
    BY <2>3 DEF left
<1>. QED
  BY <1>4, <1>5

(* The window of an address holds at most a threshold of failures.           *)
WindowsBounded == \A i \in Ips : Cardinality(IpFailures(failures, i)) <= IpThreshold

GuardInv == GuardTypeOK /\ WindowsBounded

(* A lock lasts until the failures that began it have left the window, and   *)
(* without one the threshold is not reached.                                 *)
LocksOutlast ==
    \A n \in Names :
        /\ lockLeft[n] > 0 =>
              \A a \in failures : a.name = n => NameWindow <= lockLeft[n] + a.age
        /\ lockLeft[n] = 0 => Cardinality(NameFailures(failures, n)) < NameThreshold

LEMMA WindowTypes ==
    ASSUME GuardTypeOK
    PROVE  /\ failures \subseteq Attempts /\ IsFiniteSet(failures)
           /\ \A i : /\ IpFailures(failures, i) \in SUBSET failures
                    /\ IsFiniteSet(IpFailures(failures, i))
                    /\ Cardinality(IpFailures(failures, i)) \in Nat
           /\ \A n : /\ NameFailures(failures, n) \in SUBSET failures
                    /\ IsFiniteSet(NameFailures(failures, n))
                    /\ Cardinality(NameFailures(failures, n)) \in Nat
<1>1. failures \subseteq Attempts /\ IsFiniteSet(failures)
  BY DEF GuardTypeOK
<1>2. \A S \in SUBSET failures : IsFiniteSet(S) /\ Cardinality(S) \in Nat
  BY <1>1, FS_Subset, FS_CardinalityType
<1>3. \A i : IpFailures(failures, i) \in SUBSET failures
  BY DEF IpFailures
<1>4. \A n : NameFailures(failures, n) \in SUBSET failures
  BY DEF NameFailures
<1>. QED
  BY <1>1, <1>2, <1>3, <1>4

LEMMA WindowTypesNext ==
    ASSUME GuardTypeOK'
    PROVE  /\ \A i : Cardinality(IpFailures(failures', i)) \in Nat
           /\ \A n : Cardinality(NameFailures(failures', n)) \in Nat
<1>1. IsFiniteSet(failures')
  BY DEF GuardTypeOK
<1>2. \A S \in SUBSET failures' : Cardinality(S) \in Nat
  BY <1>1, FS_Subset, FS_CardinalityType
<1>. QED
  BY <1>2 DEF IpFailures, NameFailures

(* The oldest failure of a blocked address, and what the client is told.     *)
LEMMA OldestFailure ==
    ASSUME GuardTypeOK, NEW i, Cardinality(IpFailures(failures, i)) >= IpThreshold
    PROVE  /\ \E a \in IpFailures(failures, i) : a.age = OldestAge(failures, i)
           /\ OldestAge(failures, i) \in Nat
           /\ IpRetry(failures, i) \in Nat \ {0}
           /\ IpRetry(failures, i) >= IpWindow - OldestAge(failures, i)
<1> DEFINE S == IpFailures(failures, i)
           ages == {a.age : a \in S}
           oldest == OldestAge(failures, i)
<1>1. S \in SUBSET Attempts /\ IsFiniteSet(S) /\ Cardinality(S) \in Nat
  BY WindowTypes
<1>2. S # {}
  BY <1>1, GuardConstants, FS_EmptySet
<1>3. ages \in SUBSET Nat /\ ages # {}
  BY <1>1, <1>2, GuardConstants DEF Attempts
<1>4. IsFiniteSet(ages)
  <2> DEFINE f == [a \in S |-> a.age]
  <2>1. f \in Surjection(S, ages)
    BY DEF Surjection
  <2> HIDE DEF f, ages, S
  <2>. QED
    BY <1>1, <2>1, FS_Surjection
<1>5. oldest = Max(ages)
  BY DEF OldestAge
<1>6. oldest \in ages
  <2> HIDE DEF ages, oldest
  <2>. QED
    BY <1>3, <1>4, <1>5, MaxIsLargest
<1>7. oldest \in Nat /\ \E a \in S : a.age = oldest
  BY <1>3, <1>6
<1>8. oldest < IpWindow
  BY <1>7 DEF IpFailures
<1>9. IpRetry(failures, i) = Max({1, Min({IpWindow, IpWindow - oldest})})
  BY <1>1, GuardConstants DEF IpRetry
<1> HIDE DEF oldest, S, ages
<1>10. Min({IpWindow, IpWindow - oldest}) = IpWindow - oldest
  BY <1>7, GuardConstants, OfTwo
<1>11. Max({1, IpWindow - oldest}) = IpWindow - oldest
  BY <1>7, <1>8, GuardConstants, OfTwo
<1>12. IpRetry(failures, i) = IpWindow - oldest
  BY <1>9, <1>10, <1>11
<1>. QED
  BY <1>7, <1>8, <1>12, GuardConstants DEF oldest, S

LEMMA RetryTypes ==
    ASSUME GuardTypeOK, NEW n \in Names, NEW i
    PROVE  /\ IpRetry(failures, i) \in Nat
           /\ IpRetry(failures, i) = 0 <=> Cardinality(IpFailures(failures, i)) < IpThreshold
           /\ NameRetry(lockLeft, n) \in Nat /\ NameRetry(lockLeft, n) >= lockLeft[n]
           /\ NameRetry(lockLeft, n) = 0 <=> lockLeft[n] = 0
           /\ lockLeft[n] \in Nat
           /\ Retry(failures, lockLeft, n, i) \in Nat
           /\ Retry(failures, lockLeft, n, i) >= NameRetry(lockLeft, n)
           /\ Retry(failures, lockLeft, n, i) >= IpRetry(failures, i)
           /\ ~Locked(n, i) => lockLeft[n] = 0 /\ IpRetry(failures, i) = 0
<1>1. Cardinality(IpFailures(failures, i)) \in Nat
  BY WindowTypes
<1>2. /\ IpRetry(failures, i) \in Nat
      /\ IpRetry(failures, i) = 0 <=> Cardinality(IpFailures(failures, i)) < IpThreshold
  <2>1. CASE Cardinality(IpFailures(failures, i)) < IpThreshold
    BY <2>1 DEF IpRetry
  <2>2. CASE ~(Cardinality(IpFailures(failures, i)) < IpThreshold)
    BY <1>1, <2>2, GuardConstants, OldestFailure
  <2>. QED
    BY <2>1, <2>2
<1>3. lockLeft[n] \in Nat
  BY DEF GuardTypeOK
<1>4. /\ NameRetry(lockLeft, n) \in Nat /\ NameRetry(lockLeft, n) >= lockLeft[n]
      /\ NameRetry(lockLeft, n) = 0 <=> lockLeft[n] = 0
  BY <1>3 DEF NameRetry
<1>5. Retry(failures, lockLeft, n, i)
         = IF NameRetry(lockLeft, n) >= IpRetry(failures, i)
           THEN NameRetry(lockLeft, n) ELSE IpRetry(failures, i)
  BY <1>2, <1>4, OfTwo DEF Retry
<1>. QED
  BY <1>2, <1>3, <1>4, <1>5 DEF Locked

(* An attempt that is counted adds one to the windows of its name and        *)
(* address, and nothing to the others.                                       *)
LEMMA CountedTyped ==
    ASSUME GuardTypeOK, NEW n \in Names, NEW i \in Ips
    PROVE  /\ Counted(n, i) \subseteq Attempts /\ IsFiniteSet(Counted(n, i))
           /\ \E a : a.name = n /\ a.ip = i /\ a.age = 0 /\ Counted(n, i) = failures \cup {a}
<1> DEFINE before == {a \in failures : a.name = n /\ a.ip = i /\ a.age = 0}
           number == Cardinality(before) + 1
           new == [name |-> n, ip |-> i, age |-> 0, number |-> number]
<1>1. failures \subseteq Attempts /\ IsFiniteSet(failures)
  BY DEF GuardTypeOK
<1>2. before \in SUBSET failures
  OBVIOUS
<1>3. Counted(n, i) = failures \cup {new}
  BY DEF Counted
<1> HIDE DEF before
<1>4. number \in Nat \ {0}
  BY <1>1, <1>2, FS_Subset, FS_CardinalityType
<1> HIDE DEF number
<1>5. new \in Attempts /\ new.name = n /\ new.ip = i /\ new.age = 0
  BY <1>4, GuardConstants DEF Attempts
<1> HIDE DEF new
<1>6. IsFiniteSet(failures \cup {new})
  BY <1>1, FS_AddElement
<1>. QED
  BY <1>1, <1>3, <1>5, <1>6

LEMMA CountedWindows ==
    ASSUME GuardTypeOK, NEW n \in Names, NEW i \in Ips, NEW j \in Ips, NEW m \in Names
    PROVE  /\ j # i => IpFailures(Counted(n, i), j) = IpFailures(failures, j)
           /\ Cardinality(IpFailures(Counted(n, i), i)) <= Cardinality(IpFailures(failures, i)) + 1
           /\ m # n => NameFailures(Counted(n, i), m) = NameFailures(failures, m)
<1>1. PICK a : a.name = n /\ a.ip = i /\ a.age = 0 /\ Counted(n, i) = failures \cup {a}
  BY CountedTyped
<1>2. j # i => IpFailures(Counted(n, i), j) = IpFailures(failures, j)
  BY <1>1 DEF IpFailures
<1>3. m # n => NameFailures(Counted(n, i), m) = NameFailures(failures, m)
  BY <1>1 DEF NameFailures
<1>4. IpFailures(Counted(n, i), i) = IpFailures(failures, i) \cup {a}
  BY <1>1, GuardConstants DEF IpFailures
<1>5. IsFiniteSet(IpFailures(failures, i)) /\ Cardinality(IpFailures(failures, i)) \in Nat
  BY WindowTypes
<1>6. Cardinality(IpFailures(failures, i) \cup {a}) <= Cardinality(IpFailures(failures, i)) + 1
  <2> DEFINE S == IpFailures(failures, i)
  <2> HIDE DEF S
  <2>1. IsFiniteSet(S) /\ Cardinality(S) \in Nat
    BY <1>5 DEF S
  <2>2. Cardinality(S \cup {a}) = IF a \in S THEN Cardinality(S) ELSE Cardinality(S) + 1
    BY <2>1, FS_AddElement
  <2>3. Cardinality(S \cup {a}) <= Cardinality(S) + 1
    BY <2>1, <2>2
  <2>. QED
    BY <2>3 DEF S
<1>. QED
  BY <1>2, <1>3, <1>4, <1>6

LEMMA MaybeLockTyped ==
    ASSUME GuardTypeOK, NEW attempts, NEW n \in Names, NEW attempt \in {"failure", "error"},
           MaybeLock(attempts, n, attempt)
    PROVE  /\ lockLeft' \in [Names -> Nat]
           /\ lockouts' \in [Names -> 0 .. MaxLockouts]
           /\ lockedBy' \in [Names -> {"nobody", "failure", "error"}]
           /\ \A m \in Names : m # n => lockLeft'[m] = lockLeft[m]
           /\ \/ /\ lockLeft' = lockLeft
                 /\ Cardinality(NameFailures(attempts, n)) < NameThreshold \/ lockLeft[n] > 0
              \/ /\ lockLeft[n] = 0 /\ lockedBy'[n] = attempt
                 /\ ~(Cardinality(NameFailures(attempts, n)) < NameThreshold)
                 /\ lockLeft'[n] \in Nat \ {0}
                 /\ lockLeft'[n] >= LockoutBase \/ lockLeft'[n] >= LockoutMax
<1>1. /\ lockLeft \in [Names -> Nat] /\ lockouts \in [Names -> 0 .. MaxLockouts]
      /\ lockedBy \in [Names -> {"nobody", "failure", "error"}]
      /\ lockLeft[n] \in Nat
  BY DEF GuardTypeOK
<1>2. CASE Cardinality(NameFailures(attempts, n)) < NameThreshold \/ lockLeft[n] > 0
  BY <1>1, <1>2 DEF MaybeLock
<1>3. CASE ~(Cardinality(NameFailures(attempts, n)) < NameThreshold \/ lockLeft[n] > 0)
  <2> DEFINE count == Min({lockouts[n] + 1, MaxLockouts})
  <2>1. /\ lockouts' = [lockouts EXCEPT ![n] = count]
        /\ lockLeft' = [lockLeft EXCEPT ![n] = Duration(count)]
        /\ lockedBy' = [lockedBy EXCEPT ![n] = attempt]
    BY <1>3 DEF MaybeLock
  <2>2. count \in 1 .. MaxLockouts
    <3>1. lockouts[n] + 1 \in Nat \ {0} /\ lockouts[n] + 1 \in Int
      <4>1. lockouts[n] \in 0 .. MaxLockouts
        BY ONLY <1>1, n \in Names
      <4>. QED
        BY ONLY <4>1, GuardConstants
    <3>2. count = IF lockouts[n] + 1 <= MaxLockouts THEN lockouts[n] + 1 ELSE MaxLockouts
      <4> DEFINE next == lockouts[n] + 1
      <4>1. next \in Int /\ MaxLockouts \in Int
        BY <3>1, GuardConstants
      <4> HIDE DEF next
      <4>2. Min({next, MaxLockouts}) = IF next <= MaxLockouts THEN next ELSE MaxLockouts
        BY ONLY <4>1, OfTwo
      <4>. QED
        BY ONLY <4>2 DEF next, count
    <3>. QED
      BY <3>1, <3>2, GuardConstants
  <2> HIDE DEF count
  <2>3. /\ Duration(count) \in Nat \ {0}
        /\ Duration(count) >= LockoutBase \/ Duration(count) >= LockoutMax
    BY <2>2, DurationBounds
  <2> DEFINE length == Duration(count)
  <2>4. /\ lockLeft' = [lockLeft EXCEPT ![n] = length]
        /\ length \in Nat \ {0}
        /\ length >= LockoutBase \/ length >= LockoutMax
    BY <2>1, <2>3
  <2>5. lockLeft[n] = 0 /\ ~(Cardinality(NameFailures(attempts, n)) < NameThreshold)
    BY <1>1, <1>3
  <2> HIDE DEF length
  <2>6. /\ lockLeft' \in [Names -> Nat] /\ lockLeft'[n] = length
        /\ \A m \in Names : m # n => lockLeft'[m] = lockLeft[m]
    BY <1>1, <2>4
  <2>7. lockouts' \in [Names -> 0 .. MaxLockouts]
    BY <1>1, <2>1, <2>2, GuardConstants
  <2>8. lockedBy' \in [Names -> {"nobody", "failure", "error"}] /\ lockedBy'[n] = attempt
    BY <1>1, <2>1
  <2>. QED
    BY <2>4, <2>5, <2>6, <2>7, <2>8
<1>. QED
  BY <1>2, <1>3

LEMMA TickTyped ==
    ASSUME GuardTypeOK, Tick
    PROVE  /\ GuardTypeOK'
           /\ failures' = AfterTime(failures, 1)
           /\ \A n \in Names : /\ lockLeft[n] \in Nat /\ lockLeft'[n] <= lockLeft[n]
                               /\ lockLeft[n] > 0 => lockLeft'[n] = lockLeft[n] - 1
<1>1. failures' \subseteq Attempts /\ IsFiniteSet(failures')
  BY AfterTimeTyped DEF Tick
<1>2. ASSUME NEW n \in Names
      PROVE  /\ lockLeft[n] \in Nat
             /\ lockLeft'[n] = IF lockLeft[n] > 0 THEN lockLeft[n] - 1 ELSE 0
  <2>1. lockLeft[n] \in Nat /\ 0 \in Int /\ lockLeft[n] - 1 \in Int
    BY DEF GuardTypeOK
  <2>2. lockLeft'[n] = Max({0, lockLeft[n] - 1})
    BY DEF Tick, LeftAfter
  <2>3. Max({0, lockLeft[n] - 1}) = IF 0 >= lockLeft[n] - 1 THEN 0 ELSE lockLeft[n] - 1
    BY <2>1, OfTwo
  <2>. QED
    BY <2>1, <2>2, <2>3
<1>3. lockLeft' \in [Names -> Nat]
  <2>1. \E f : lockLeft' = [n \in Names |-> f[n]]
    BY DEF Tick, LeftAfter
  <2>2. \A n \in Names : lockLeft'[n] \in Nat
    BY <1>2
  <2>. QED
    BY <2>1, <2>2
<1>4. /\ lockouts' = lockouts
      /\ lockedBy' \in [Names -> {"nobody", "failure", "error"}]
  BY DEF Tick, GuardTypeOK
<1>. QED
  BY <1>1, <1>2, <1>3, <1>4 DEF GuardTypeOK, Tick

(* What a step does to the guard.                                            *)
LEMMA GuardSteps ==
    ASSUME AccountTypeOK, Next
    PROVE  \/ UNCHANGED guardVars
           \/ \E n \in Names, i \in Ips :
                 ~Locked(n, i) /\ (RecordSuccess(n) \/ RecordFailure(n, i) \/ RecordError(n, i))
           \/ Tick
<1>1. ASSUME NEW u \in Live(users)
      PROVE  users[u].name \in Names
  BY <1>1, RowTyped DEF User
<1>2. ASSUME NEW u \in Ids, NEW i \in Ips, NEW t \in RefreshTokens, Login(u, i, t)
      PROVE  \E n \in Names : ~Locked(n, i) /\ RecordSuccess(n)
  BY <1>1, <1>2 DEF Login
<1>3. ASSUME NEW u \in Ids, NEW i \in Ips, LoginPending(u, i)
      PROVE  \E n \in Names : ~Locked(n, i) /\ RecordError(n, i)
  BY <1>1, <1>3 DEF LoginPending
<1>4. ASSUME NEW n \in Names, NEW i \in Ips, LoginRefused(n, i)
      PROVE  ~Locked(n, i) /\ RecordFailure(n, i)
  BY <1>4 DEF LoginRefused
<1>5. ASSUME NEW q \in Requests, Handle(q)
      PROVE  UNCHANGED guardVars
  BY <1>5 DEF Handle, Refuse, Approve, UpdateRole, Deactivate, DeactivateCut, Reactivate,
       DeleteByAdmin, DeleteAccount, Rename, ChangePassword
<1>. QED
  BY <1>2, <1>3, <1>4, <1>5 DEF Next, Register, Refresh, Logout, Authenticate, GuardTick

LEMMA GuardInvStep ==
    ASSUME AccountTypeOK, GuardInv, [Next]_vars
    PROVE  GuardInv'
<1>1. GuardTypeOK /\ WindowsBounded
  BY DEF GuardInv
<1>2. CASE UNCHANGED guardVars
  BY <1>1, <1>2 DEF GuardInv, GuardTypeOK, WindowsBounded, guardVars
<1>3. ASSUME NEW n \in Names, NEW i \in Ips, ~Locked(n, i), RecordSuccess(n)
      PROVE  GuardInv'
  BY <1>1, <1>3 DEF RecordSuccess, GuardInv, GuardTypeOK, WindowsBounded
<1>4. ASSUME NEW n \in Names, NEW i \in Ips, ~Locked(n, i), RecordFailure(n, i)
      PROVE  GuardInv'
  <2>1. failures' = Counted(n, i) /\ MaybeLock(Counted(n, i), n, "failure")
    BY <1>4 DEF RecordFailure
  <2>2. /\ lockLeft' \in [Names -> Nat]
        /\ lockouts' \in [Names -> 0 .. MaxLockouts]
        /\ lockedBy' \in [Names -> {"nobody", "failure", "error"}]
    BY <1>1, <2>1, MaybeLockTyped
  <2>3. GuardTypeOK'
    BY <1>1, <2>1, <2>2, CountedTyped DEF GuardTypeOK
  <2>4. Cardinality(IpFailures(failures, i)) < IpThreshold
    BY <1>1, <1>4, RetryTypes
  <2>5. ASSUME NEW j \in Ips PROVE Cardinality(IpFailures(failures', j)) <= IpThreshold
    <3>1. CASE j # i
      <4>1. IpFailures(failures', j) = IpFailures(failures, j)
        BY <1>1, <2>1, <3>1, CountedWindows
      <4>. QED
        BY <1>1, <4>1 DEF WindowsBounded
    <3>2. CASE j = i
      <4>1. Cardinality(IpFailures(failures', i)) <= Cardinality(IpFailures(failures, i)) + 1
        BY <1>1, <2>1, CountedWindows
      <4>2. Cardinality(IpFailures(failures, i)) \in Nat
            /\ Cardinality(IpFailures(failures', i)) \in Nat
        BY <1>1, <2>3, WindowTypes, WindowTypesNext
      <4>. QED
        BY <2>4, <3>2, <4>1, <4>2, GuardConstants
    <3>. QED
      BY <3>1, <3>2
  <2>. QED
    BY <2>3, <2>5 DEF GuardInv, WindowsBounded
<1>5. ASSUME NEW n \in Names, NEW i \in Ips, ~Locked(n, i), RecordError(n, i)
      PROVE  GuardInv'
  <2>1. failures' = failures /\ MaybeLock(failures, n, "error")
    BY <1>5 DEF RecordError
  <2>2. /\ lockLeft' \in [Names -> Nat]
        /\ lockouts' \in [Names -> 0 .. MaxLockouts]
        /\ lockedBy' \in [Names -> {"nobody", "failure", "error"}]
    BY <1>1, <2>1, MaybeLockTyped
  <2>. QED
    BY <1>1, <2>1, <2>2 DEF GuardInv, GuardTypeOK, WindowsBounded
<1>6. CASE Tick
  <2>1. GuardTypeOK' /\ failures' = AfterTime(failures, 1)
    BY <1>1, <1>6, TickTyped
  <2>2. ASSUME NEW i \in Ips PROVE Cardinality(IpFailures(failures', i)) <= IpThreshold
    <3> DEFINE left == {a \in IpFailures(failures, i) : a.age + 1 < IpWindow}
               now == IpFailures(failures, i)
    <3>1. Cardinality(IpFailures(failures', i)) <= Cardinality(left)
      BY <1>1, <2>1, WindowsAfterTime
    <3>2. left \in SUBSET now
      OBVIOUS
    <3>3. IsFiniteSet(now) /\ Cardinality(now) \in Nat /\ Cardinality(now) <= IpThreshold
      BY <1>1, WindowTypes DEF WindowsBounded
    <3> HIDE DEF left, now
    <3>4. Cardinality(left) \in Nat /\ Cardinality(left) <= Cardinality(now)
      BY <3>2, <3>3, FS_Subset, FS_CardinalityType
    <3>5. Cardinality(IpFailures(failures', i)) \in Nat
      BY <2>1, WindowTypesNext
    <3>. QED
      BY <3>1, <3>3, <3>4, <3>5, GuardConstants
  <2>. QED
    BY <2>1, <2>2 DEF GuardInv, WindowsBounded
<1>7. CASE Next
  BY <1>2, <1>3, <1>4, <1>5, <1>6, <1>7, GuardSteps
<1>. QED
  BY <1>2, <1>7 DEF vars

LEMMA GuardInvInit == Init => GuardInv
<1> SUFFICES ASSUME Init PROVE GuardInv
  OBVIOUS
<1>1. GuardInit
  BY DEF Init
<1>2. GuardTypeOK
  <2>1. failures = {} /\ IsFiniteSet(failures)
    BY <1>1, FS_EmptySet DEF GuardInit
  <2>. QED
    BY <1>1, <2>1, GuardConstants DEF GuardInit, GuardTypeOK
<1>3. ASSUME NEW i \in Ips PROVE Cardinality(IpFailures(failures, i)) <= IpThreshold
  <2>1. IpFailures(failures, i) = {}
    BY <1>1 DEF GuardInit, IpFailures
  <2>. QED
    BY <2>1, FS_EmptySet, GuardConstants
<1>. QED
  BY <1>2, <1>3 DEF GuardInv, WindowsBounded

LEMMA GuardInvAlways == Spec => []GuardInv
<1>1. AccountTypeOK /\ GuardInv /\ [Next]_vars => GuardInv'
  BY GuardInvStep
<1>. QED
  BY <1>1, GuardInvInit, AccountTypes, PTL DEF Spec

LEMMA RetryHonestFollows == GuardInv => RetryHonest
<1> SUFFICES ASSUME GuardInv, NEW n \in Names, NEW i \in Ips
             PROVE  LET wait == Retry(failures, lockLeft, n, i) IN
                    Retry(AfterTime(failures, wait), LeftAfter(lockLeft, wait), n, i) = 0
  BY DEF RetryHonest
<1> DEFINE wait == Retry(failures, lockLeft, n, i)
           later == AfterTime(failures, wait)
           now == IpFailures(failures, i)
           still == {a \in now : a.age + wait < IpWindow}
<1>1. GuardTypeOK /\ Cardinality(now) <= IpThreshold
  BY DEF GuardInv, WindowsBounded
<1>2. /\ wait \in Nat /\ wait >= NameRetry(lockLeft, n) /\ wait >= IpRetry(failures, i)
      /\ NameRetry(lockLeft, n) >= lockLeft[n] /\ NameRetry(lockLeft, n) \in Nat
      /\ lockLeft[n] \in Nat /\ IpRetry(failures, i) \in Nat
  BY <1>1, RetryTypes
<1>3. now \in SUBSET Attempts /\ IsFiniteSet(now) /\ Cardinality(now) \in Nat
  BY <1>1, WindowTypes
<1> HIDE DEF wait, now
<1>4. NameRetry(LeftAfter(lockLeft, wait), n) = 0
  <2>1. lockLeft[n] - wait <= 0 /\ lockLeft[n] - wait \in Int
    BY <1>2
  <2>2. Max({0, lockLeft[n] - wait}) = 0
    BY <2>1, OfTwo
  <2>. QED
    BY <2>2 DEF NameRetry, LeftAfter
<1>5. still \in SUBSET now
  OBVIOUS
<1>6. /\ IsFiniteSet(still) /\ Cardinality(still) \in Nat
      /\ Cardinality(still) <= Cardinality(now)
      /\ Cardinality(still) = Cardinality(now) => still = now
  <2> HIDE DEF still
  <2>. QED
    BY <1>3, <1>5, FS_Subset, FS_CardinalityType
<1>7. Cardinality(still) < IpThreshold
  <2>1. CASE Cardinality(now) < IpThreshold
    BY <1>3, <1>6, <2>1, GuardConstants
  <2>2. CASE ~(Cardinality(now) < IpThreshold)
    <3>1. Cardinality(now) >= IpThreshold
      BY <1>3, <2>2, GuardConstants
    <3>2. /\ \E a \in now : a.age = OldestAge(failures, i)
          /\ OldestAge(failures, i) \in Nat
          /\ IpRetry(failures, i) >= IpWindow - OldestAge(failures, i)
      BY <1>1, <3>1, OldestFailure DEF now
    <3>3. PICK a \in now : a.age = OldestAge(failures, i)
      BY <3>2
    <3>4. a.age + wait >= IpWindow
      BY <1>2, <3>2, <3>3, GuardConstants
    <3>5. a \notin still
      BY <1>2, <3>2, <3>3, <3>4, GuardConstants
    <3> HIDE DEF still
    <3>6. Cardinality(still) # Cardinality(now)
      BY <1>6, <3>3, <3>5
    <3>. QED
      BY <1>1, <1>3, <1>6, <3>6, GuardConstants
  <2>. QED
    BY <2>1, <2>2
<1>8. Cardinality(IpFailures(later, i)) <= Cardinality(still)
  BY <1>1, <1>2, WindowsAfterTime DEF now
<1>9. Cardinality(IpFailures(later, i)) \in Nat
  <2>1. later \subseteq Attempts /\ IsFiniteSet(later)
    BY <1>1, <1>2, AfterTimeTyped
  <2> HIDE DEF later
  <2>2. IpFailures(later, i) \in SUBSET later
    BY DEF IpFailures
  <2>. QED
    BY <2>1, <2>2, FS_Subset, FS_CardinalityType
<1> HIDE DEF later, still
<1>10. Cardinality(IpFailures(later, i)) < IpThreshold
  BY <1>6, <1>7, <1>8, <1>9, GuardConstants
<1>11. IpRetry(later, i) = 0
  BY <1>10 DEF IpRetry
<1>12. Max({0, 0}) = 0
  BY OfTwo
<1>13. Retry(later, LeftAfter(lockLeft, wait), n, i) = 0
  BY <1>4, <1>11, <1>12 DEF Retry
<1>. QED
  BY <1>13 DEF later, wait

(* Retry-After is honest, for any thresholds and windows: whoever waits as   *)
(* long as check_lockout said is let in, unless somebody tried the name or   *)
(* the address meanwhile.                                                    *)
THEOREM RetryAlwaysHonest == Spec => []RetryHonest
<1>. QED
  BY GuardInvAlways, RetryHonestFollows, PTL

(* Rows, tokens, what requests have captured, the failed attempts and the    *)
(* lockouts keep their types.                                                *)
THEOREM TypeCorrect == Spec => []TypeOK
<1>1. AccountTypeOK /\ GuardInv => TypeOK
  BY DEF AccountTypeOK, GuardInv, TypeOK
<1>. QED
  BY <1>1, AccountTypes, GuardInvAlways, PTL

-----------------------------------------------------------------------------
(* Lockouts                                                                  *)

LEMMA LocksOutlastStep ==
    ASSUME LockoutBase >= NameWindow, LockoutMax >= NameWindow,
           AccountTypeOK, GuardInv, LocksOutlast, [Next]_vars
    PROVE  /\ LocksOutlast'
           /\ [\A n \in Names : lockLeft'[n] > lockLeft[n] =>
                  lockLeft[n] = 0 /\ lockedBy'[n] = "failure"]_guardVars
<1> DEFINE Begins == \A n \in Names : lockLeft'[n] > lockLeft[n] =>
                         lockLeft[n] = 0 /\ lockedBy'[n] = "failure"
<1>1. GuardTypeOK
  BY DEF GuardInv
<1>2. \A n \in Names : lockLeft[n] \in Nat
  BY <1>1 DEF GuardTypeOK
<1>3. CASE UNCHANGED guardVars
  BY <1>3 DEF LocksOutlast, guardVars
<1>4. ASSUME NEW n \in Names, NEW i \in Ips, ~Locked(n, i), RecordSuccess(n)
      PROVE  LocksOutlast' /\ Begins
  <2>1. lockLeft[n] = 0
    BY <1>1, <1>4, RetryTypes
  <2>2. lockLeft' = lockLeft /\ failures' = failures
    BY <1>1, <1>4, <2>1 DEF RecordSuccess, GuardTypeOK
  <2>. QED
    BY <1>2, <2>2 DEF LocksOutlast
<1>5. ASSUME NEW n \in Names, NEW i \in Ips, ~Locked(n, i), RecordError(n, i)
      PROVE  LocksOutlast' /\ Begins
  <2>1. lockLeft[n] = 0 /\ Cardinality(NameFailures(failures, n)) < NameThreshold
    BY <1>1, <1>5, RetryTypes DEF LocksOutlast
  <2>2. lockLeft' = lockLeft /\ failures' = failures
    BY <1>5, <2>1 DEF RecordError, MaybeLock
  <2>. QED
    BY <1>2, <2>2 DEF LocksOutlast
<1>6. ASSUME NEW n \in Names, NEW i \in Ips, ~Locked(n, i), RecordFailure(n, i)
      PROVE  LocksOutlast' /\ Begins
  <2>1. failures' = Counted(n, i) /\ MaybeLock(Counted(n, i), n, "failure") /\ lockLeft[n] = 0
    BY <1>1, <1>6, RetryTypes DEF RecordFailure
  <2>2. PICK a : a.name = n /\ a.ip = i /\ a.age = 0 /\ failures' = failures \cup {a}
    BY <1>1, <2>1, CountedTyped
  <2>3. /\ \A m \in Names : m # n => lockLeft'[m] = lockLeft[m]
        /\ \/ /\ lockLeft' = lockLeft
              /\ Cardinality(NameFailures(failures', n)) < NameThreshold \/ lockLeft[n] > 0
           \/ /\ lockLeft[n] = 0 /\ lockedBy'[n] = "failure"
              /\ ~(Cardinality(NameFailures(failures', n)) < NameThreshold)
              /\ lockLeft'[n] \in Nat \ {0}
              /\ lockLeft'[n] >= LockoutBase \/ lockLeft'[n] >= LockoutMax
    BY <1>1, <2>1, MaybeLockTyped
  <2>4. Begins
    BY <1>2, <2>3
  <2>5. ASSUME NEW m \in Names, m # n
        PROVE  /\ lockLeft'[m] > 0 =>
                     \A b \in failures' : b.name = m => NameWindow <= lockLeft'[m] + b.age
               /\ lockLeft'[m] = 0 => Cardinality(NameFailures(failures', m)) < NameThreshold
    <3>1. lockLeft'[m] = lockLeft[m]
      BY <2>3, <2>5
    <3>2. NameFailures(failures', m) = NameFailures(failures, m)
      BY <1>1, <2>1, <2>5, CountedWindows
    <3>3. \A b \in failures' : b.name = m => b \in failures
      BY <2>2, <2>5
    <3>. QED
      BY <3>1, <3>2, <3>3 DEF LocksOutlast
  <2>6. /\ lockLeft'[n] > 0 =>
              \A b \in failures' : b.name = n => NameWindow <= lockLeft'[n] + b.age
        /\ lockLeft'[n] = 0 => Cardinality(NameFailures(failures', n)) < NameThreshold
    <3>1. CASE lockLeft' = lockLeft
      <4>1. lockLeft'[n] = 0 /\ lockLeft[n] = 0
        BY <2>1, <3>1
      <4>2. Cardinality(NameFailures(failures', n)) < NameThreshold
        <5>1. ~(lockLeft'[n] \in Nat \ {0}) /\ ~(lockLeft[n] > 0)
          BY ONLY <4>1
        <5>. QED
          BY ONLY <5>1, <2>3
      <4>. QED
        BY ONLY <4>1, <4>2
    <3>2. CASE lockLeft' # lockLeft
      <4>1. lockLeft'[n] \in Nat \ {0} /\ lockLeft'[n] >= NameWindow
        BY <2>3, <3>2, GuardConstants
      <4>2. \A b \in failures' : b.age \in Nat
        <5>1. failures \subseteq Attempts /\ Ages \subseteq Nat
          BY <1>1, GuardConstants DEF GuardTypeOK
        <5>2. \A b \in Attempts : b.age \in Ages
          BY ONLY DEF Attempts
        <5>3. \A b \in failures : b.age \in Nat
          BY ONLY <5>1, <5>2
        <5>. QED
          BY ONLY <2>2, <5>3
      <4>. QED
        BY <4>1, <4>2, GuardConstants
    <3>. QED
      BY <3>1, <3>2
  <2>7. LocksOutlast'
    BY <2>5, <2>6 DEF LocksOutlast
  <2>. QED
    BY <2>4, <2>7
<1>7. CASE Tick
  <2>1. /\ GuardTypeOK' /\ failures' = AfterTime(failures, 1)
        /\ \A n \in Names : /\ lockLeft[n] \in Nat /\ lockLeft'[n] <= lockLeft[n]
                            /\ lockLeft[n] > 0 => lockLeft'[n] = lockLeft[n] - 1
    BY <1>1, <1>7, TickTyped
  <2>2. \A n \in Names : lockLeft'[n] \in Nat
    BY <2>1 DEF GuardTypeOK
  <2>3. Begins
    BY <2>1, <2>2
  <2>4. \A b \in failures' : \E a \in failures :
           a.age \in Nat /\ b.age = a.age + 1 /\ b.name = a.name
    BY <1>1, <2>1, OlderTyped DEF AfterTime, GuardTypeOK
  <2>5. ASSUME NEW n \in Names, lockLeft[n] > 0, NEW b \in failures', b.name = n
        PROVE  NameWindow <= lockLeft'[n] + b.age
    <3>1. PICK a \in failures : a.age \in Nat /\ b.age = a.age + 1 /\ b.name = a.name
      BY <2>4
    <3>2. NameWindow <= lockLeft[n] + a.age
      BY <2>5, <3>1 DEF LocksOutlast
    <3>3. lockLeft'[n] = lockLeft[n] - 1 /\ lockLeft[n] \in Nat
      BY <2>1, <2>5
    <3>. QED
      BY <3>1, <3>2, <3>3, GuardConstants
  <2>6. ASSUME NEW n \in Names, lockLeft'[n] = 0
        PROVE  Cardinality(NameFailures(failures', n)) < NameThreshold
    <3>1. CASE lockLeft[n] > 0
      <4>1. \A b \in failures' : b.name = n => NameWindow <= b.age /\ b.age \in Nat
        BY <2>4, <2>5, <2>6, <3>1, GuardConstants
      <4>2. NameFailures(failures', n) = {}
        BY <4>1, GuardConstants DEF NameFailures
      <4>. QED
        BY <4>2, FS_EmptySet, GuardConstants
    <3>2. CASE lockLeft[n] = 0
      <4>1. Cardinality(NameFailures(failures, n)) < NameThreshold
        BY <3>2 DEF LocksOutlast
      <4>2. Cardinality(NameFailures(failures', n)) <= Cardinality(NameFailures(failures, n))
        BY <1>1, <2>1, WindowsAfterTime
      <4>3. Cardinality(NameFailures(failures, n)) \in Nat
            /\ Cardinality(NameFailures(failures', n)) \in Nat
        BY <1>1, <2>1, WindowTypes, WindowTypesNext
      <4>. QED
        BY <4>1, <4>2, <4>3, GuardConstants
    <3>. QED
      BY <2>1, <3>1, <3>2
  <2>7. \A n \in Names : lockLeft'[n] > 0 => lockLeft[n] > 0
    BY <2>1, <2>2
  <2>8. LocksOutlast'
    BY <2>5, <2>6, <2>7 DEF LocksOutlast
  <2>. QED
    BY <2>3, <2>8
<1>8. CASE Next
  <2>1. UNCHANGED guardVars \/ (LocksOutlast' /\ Begins)
    BY <1>4, <1>5, <1>6, <1>7, <1>8, GuardSteps
  <2>. QED
    BY <1>3, <2>1
<1>9. CASE UNCHANGED vars
  BY <1>3, <1>9 DEF vars
<1>. QED
  BY <1>8, <1>9

LEMMA LocksOutlastInit == Init => LocksOutlast
<1> SUFFICES ASSUME Init, NEW n \in Names
             PROVE  lockLeft[n] = 0 /\ Cardinality(NameFailures(failures, n)) < NameThreshold
  BY DEF LocksOutlast
<1>1. lockLeft[n] = 0 /\ NameFailures(failures, n) = {}
  BY DEF Init, GuardInit, NameFailures
<1>. QED
  BY <1>1, FS_EmptySet, GuardConstants

(* Where a lockout lasts at least as long as the window in which failures    *)
(* count, as it does with the settings' defaults (both 15 minutes), only     *)
(* wrong credentials begin a lockout, never the attempt of a user who waits  *)
(* for approval, and none is prolonged: _maybe_lock_username, which tests    *)
(* the threshold on such an attempt too, finds it reached only while locked. *)
THEOREM OnlyFailuresBeginLocks ==
    ASSUME LockoutBase >= NameWindow, LockoutMax >= NameWindow
    PROVE  Spec => OnlyFailuresLock
<1>1. AccountTypeOK /\ GuardInv /\ LocksOutlast /\ [Next]_vars => LocksOutlast'
  BY LocksOutlastStep
<1>2. AccountTypeOK /\ GuardInv /\ LocksOutlast /\ [Next]_vars
         => [\A n \in Names : lockLeft'[n] > lockLeft[n] =>
               lockLeft[n] = 0 /\ lockedBy'[n] = "failure"]_guardVars
  BY LocksOutlastStep
<1>. QED
  BY <1>1, <1>2, LocksOutlastInit, AccountTypes, GuardInvAlways, PTL
     DEF Spec, OnlyFailuresLock
===========================================================================
