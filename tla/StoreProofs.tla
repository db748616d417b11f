------------------------------ MODULE StoreProofs ------------------------------
(***************************************************************************)
(* Theorems about the accounts, the market quotes, the rotation of the     *)
(* harvest and its cursor.  Each is proved of the specification of its own *)
(* module, and carried over to MCSpec, whose runs check it.                *)
(***************************************************************************)
EXTENDS MCStore, FiniteSetTheorems, WellFoundedInduction, TLAPS

allVars == <<part, vars, dVars, wVars, cVars, rVars, pVars, mVars, uVars>>

\* What a step of the composition is for the part it takes.
LEMMA UserPart ==
    ASSUME [MCNext]_allVars
    PROVE  part' = part /\ (part \in UserParts => [U!Next]_uVars)
BY DEF allVars, MCNext, MarketParts, UserParts

LEMMA MarketPart ==
    ASSUME [MCNext]_allVars
    PROVE  part' = part /\ (part \in MarketParts => [M!Next]_mVars)
BY DEF allVars, MCNext, MarketParts, UserParts

-----------------------------------------------------------------------------
(***************************************************************************)
(* Accounts.  A demotion or a deletion is decided on a count that other    *)
(* requests outdate.  What keeps a superuser is not that count: it is the  *)
(* author of the request, another account, that had the role when the      *)
(* request was authorized, and that loses it to a crossing request only.   *)
(***************************************************************************)
Values == [Namespace -> Nat]
Ops == {"demote", "delete", "deactivate", "activate", "promote", "patch", "create", "create inactive",
        "", "boot", "put", "replace"}

Requests ==
    [op : Ops, actor : User \cup {Root}, target : User \cup {Root}, copy : {<<>>} \cup Values,
     key : Namespace \cup {""}, value : Nat]

Places == {"idle", "loading", "counting", "writing", "booting", "merging"}

UserTypes ==
    /\ users \in [User -> U!Row] /\ \A u \in User : users[u].super => users[u].is
    /\ prefs \in Values /\ acked \in Values /\ puts \in Nat
    /\ upc \in [Request -> Places] /\ req \in [Request -> Requests]
    /\ \A k \in Request : upc[k] = "merging" => req[k].copy \in Values
    /\ \A k \in Request : upc[k] \in {"loading", "counting", "writing"} => req[k].target \in User

LEMMA NobodyAsks == U!Nobody \in Requests /\ U!Nobody.op = "" /\ U!Nobody.target = Root
BY DEF U!Nobody, Requests, Ops

\* A request that ends leaves no trace but in the rows.
LEMMA DoneTypes ==
    ASSUME UserTypes, NEW k \in Request, U!Done(k)
    PROVE  /\ upc' \in [Request -> Places] /\ req' \in [Request -> Requests]
           /\ \A j \in Request : j # k => upc'[j] = upc[j] /\ req'[j] = req[j]
           /\ upc'[k] = "idle" /\ req'[k] = U!Nobody
<1> HIDE DEF U!Nobody
<1> QED  BY NobodyAsks DEF U!Done, UserTypes, Places

LEMMA GotoTypes ==
    ASSUME UserTypes, NEW k \in Request, NEW place \in Places, U!Goto(k, place)
    PROVE  /\ upc' \in [Request -> Places] /\ upc'[k] = place
           /\ \A j \in Request : j # k => upc'[j] = upc[j]
BY DEF U!Goto, UserTypes

\* What the gate leaves of a row.
LEMMA WrittenRow ==
    ASSUME NEW op, NEW old \in U!Row, old.super => old.is, NEW after \in U!Row, U!Written(op, old, after)
    PROVE  /\ after.super => after.is
           /\ old.super => after.super \/ op \in {"demote", "delete", "patch"}
<1> USE DEF U!Row
<1>1. CASE after = old  BY <1>1
<1>2. CASE after.super = old.super /\ after.is = old.is  BY <1>2
<1>3. CASE ~old.super /\ \E super \in BOOLEAN : after = U!Account(TRUE, super)
  BY <1>3 DEF U!Account
<1>4. CASE op = "demote" /\ ~after.super  BY <1>4
<1>5. CASE after = [old EXCEPT !.super = TRUE] /\ old.is  BY <1>5
<1>6. CASE op = "delete" /\ after = U!NoUser  BY <1>6 DEF U!NoUser
<1>7. CASE op = "patch" /\ after.is  BY <1>7
<1> QED  BY <1>1, <1>2, <1>3, <1>4, <1>5, <1>6, <1>7 DEF U!Written

LEMMA UserTypesInit == U!Init => UserTypes
<1> SUFFICES ASSUME U!Init PROVE UserTypes  OBVIOUS
<1>0. /\ U!NoUser \in U!Row /\ ~U!NoUser.super
      /\ U!Account(TRUE, TRUE) \in U!Row /\ U!Account(TRUE, TRUE).is
  BY DEF U!NoUser, U!Account, U!Row
<1>1. users \in [User -> U!Row] /\ \A u \in User : users[u].super => users[u].is
  BY <1>0 DEF U!Init
<1>2. upc \in [Request -> Places] /\ \A j \in Request : upc[j] = "idle"
  BY DEF U!Init, Places
<1> HIDE DEF U!Nobody
<1> QED  BY <1>1, <1>2, NobodyAsks DEF U!Init, UserTypes, Values

LEMMA UserTypesStep == ASSUME UserTypes, U!Next PROVE UserTypes'
<1> USE DEF U!roleVars, U!prefVars
<1>1. PICK k \in Request :
        \/ U!Authorize(k) \/ U!Load(k) \/ U!CountSuperusers(k) \/ U!WriteAccount(k) \/ U!Fail(k)
        \/ U!LookForSuperuser(k) \/ U!CreateSuperuser(k)
        \/ U!ReadPreferences(k) \/ U!WritePreferences(k)
  BY DEF U!Next
<1>0. /\ req[k] \in Requests /\ upc[k] \in Places /\ \A u \in User : users[u] \in U!Row
      /\ \A place : U!Goto(k, place) => \A j \in Request : j # k => upc'[j] = upc[j]
  BY DEF UserTypes, U!Goto
<1>a. ASSUME U!Done(k), UNCHANGED <<users, prefs, acked, puts>> PROVE UserTypes'
  BY <1>a, DoneTypes DEF UserTypes
<1>b. ASSUME NEW place \in {"counting", "writing"}, U!Goto(k, place), req[k].target \in User,
             UNCHANGED <<users, prefs, acked, puts, req>> PROVE UserTypes'
  BY <1>b, GotoTypes DEF UserTypes, Places
<1>2. CASE U!Authorize(k)
  <2>1. PICK op \in U!AdminOps, actor \in U!Superusers, target \in User :
           req' = [req EXCEPT ![k] = [U!Nobody EXCEPT !.op = op, !.actor = actor, !.target = target]]
    BY <1>2 DEF U!Authorize
  <2>2. /\ [U!Nobody EXCEPT !.op = op, !.actor = actor, !.target = target] \in Requests
        /\ [U!Nobody EXCEPT !.op = op, !.actor = actor, !.target = target].target = target
    BY DEF U!Nobody, Requests, U!Superusers, U!AdminOps, U!Removals, U!Creations, Ops
  <2>3. U!Goto(k, "loading") /\ UNCHANGED <<users, prefs, acked, puts>>  BY <1>2 DEF U!Authorize
  <2>4. upc' \in [Request -> Places] /\ upc'[k] = "loading"  BY <2>3, GotoTypes DEF Places
  <2> QED  BY <1>0, <2>1, <2>2, <2>3, <2>4 DEF UserTypes
<1>3. CASE U!Load(k)
  <2>1. CASE U!Done(k)  BY <1>a, <1>3, <2>1 DEF U!Load
  <2>2. CASE ~U!Done(k)
    <3>1. PICK place \in {"counting", "writing"} : U!Goto(k, place) /\ UNCHANGED req
      BY <1>3, <2>2 DEF U!Load
    <3>2. req[k].target \in User  BY <1>3 DEF U!Load, UserTypes
    <3> QED  BY <1>b, <1>3, <3>1, <3>2 DEF U!Load
  <2> QED  BY <2>1, <2>2
<1>4. CASE U!CountSuperusers(k)
  <2>1. CASE U!Done(k)  BY <1>a, <1>4, <2>1 DEF U!CountSuperusers
  <2>2. CASE U!Goto(k, "writing") /\ UNCHANGED req
    <3>1. req[k].target \in User  BY <1>4 DEF U!CountSuperusers, UserTypes
    <3> QED  BY <1>b, <1>4, <2>2, <3>1 DEF U!CountSuperusers
  <2> QED  BY <1>4, <2>1, <2>2 DEF U!CountSuperusers
<1>5. CASE U!WriteAccount(k)
  <2>1. PICK after \in U!Row : /\ U!Written(req[k].op, users[req[k].target], after)
                               /\ users' = [users EXCEPT ![req[k].target] = after]
    BY <1>5 DEF U!WriteAccount
  <2>2. req[k].target \in User  BY <1>5 DEF U!WriteAccount, UserTypes
  <2>3. after.super => after.is  BY <1>0, <2>1, <2>2, WrittenRow DEF UserTypes
  <2>4. users' \in [User -> U!Row] /\ \A u \in User : users'[u].super => users'[u].is
    BY <2>1, <2>2, <2>3 DEF UserTypes
  <2>5. UNCHANGED <<prefs, acked, puts>>  BY <1>5 DEF U!WriteAccount
  <2>6. CASE U!Done(k)
    BY <2>4, <2>5, <2>6, DoneTypes DEF UserTypes
  <2>7. CASE U!Goto(k, "writing") /\ req' = [req EXCEPT ![k].op = "deactivate"]
    <3>1. [req[k] EXCEPT !.op = "deactivate"] \in Requests  BY <1>0 DEF Requests, Ops
    <3>2. [req[k] EXCEPT !.op = "deactivate"].target = req[k].target  BY <1>0 DEF Requests
    <3>3. req' = [req EXCEPT ![k] = [req[k] EXCEPT !.op = "deactivate"]]  BY <2>7
    <3>4. upc' \in [Request -> Places] /\ upc'[k] = "writing"  BY <2>7, GotoTypes DEF Places
    <3> QED  BY <1>0, <2>2, <2>4, <2>5, <2>7, <3>1, <3>2, <3>3, <3>4 DEF UserTypes
  <2> QED  BY <1>5, <2>6, <2>7 DEF U!WriteAccount
<1>6. CASE U!Fail(k)  BY <1>a, <1>6 DEF U!Fail
<1>7. CASE U!LookForSuperuser(k)
  <2>1. [req[k] EXCEPT !.op = "boot"] \in Requests  BY <1>0 DEF Requests, Ops
  <2>2. req' = [req EXCEPT ![k] = [req[k] EXCEPT !.op = "boot"]]  BY <1>7 DEF U!LookForSuperuser
  <2>3. U!Goto(k, "booting") /\ UNCHANGED <<users, prefs, acked, puts>>  BY <1>7 DEF U!LookForSuperuser
  <2>4. upc' \in [Request -> Places] /\ upc'[k] = "booting"  BY <2>3, GotoTypes DEF Places
  <2> QED  BY <1>0, <2>1, <2>2, <2>3, <2>4 DEF UserTypes
<1>8. CASE U!CreateSuperuser(k)
  <2>1. U!Account(TRUE, TRUE) \in U!Row /\ U!Account(TRUE, TRUE).is  BY DEF U!Account, U!Row
  <2>2. users' \in [User -> U!Row] /\ \A u \in User : users'[u].super => users'[u].is
    BY <1>8, <2>1 DEF U!CreateSuperuser, UserTypes
  <2>3. U!Done(k) /\ UNCHANGED <<prefs, acked, puts>>  BY <1>8 DEF U!CreateSuperuser
  <2> QED  BY <2>2, <2>3, DoneTypes DEF UserTypes
<1>9. CASE U!ReadPreferences(k)
  <2>1. U!Goto(k, "merging") /\ puts' = puts + 1 /\ UNCHANGED <<users, prefs, acked>>
    BY <1>9 DEF U!ReadPreferences
  <2>2. puts' \in Nat /\ prefs \in Values  BY <2>1 DEF UserTypes
  <2>3. PICK op \in {"put", "replace"}, key \in Namespace :
           req' = [req EXCEPT ![k] = [U!Nobody EXCEPT !.op = op, !.key = key, !.copy = prefs, !.value = puts']]
    BY <1>9 DEF U!ReadPreferences
  <2>4. /\ [U!Nobody EXCEPT !.op = op, !.key = key, !.copy = prefs, !.value = puts'] \in Requests
        /\ [U!Nobody EXCEPT !.op = op, !.key = key, !.copy = prefs, !.value = puts'].copy = prefs
    BY <2>2 DEF U!Nobody, Requests, Ops
  <2>5. upc' \in [Request -> Places] /\ upc'[k] = "merging"  BY <2>1, GotoTypes DEF Places
  <2> QED  BY <1>0, <2>1, <2>2, <2>3, <2>4, <2>5 DEF UserTypes
<1>10. CASE U!WritePreferences(k)
  <2>1. U!Done(k) /\ UNCHANGED <<users, puts>>  BY <1>10 DEF U!WritePreferences
  <2>2. req[k].value \in Nat /\ req[k].copy \in Values /\ acked \in Values
    BY <1>0, <1>10 DEF U!WritePreferences, UserTypes, Requests
  <2>3. prefs' \in Values /\ acked' \in Values
    BY <1>10, <2>2 DEF U!WritePreferences, U!Merged, Values
  <2> QED  BY <2>1, <2>3, DoneTypes DEF UserTypes
<1> QED  BY <1>1, <1>2, <1>3, <1>4, <1>5, <1>6, <1>7, <1>8, <1>9, <1>10

LEMMA UserTypesStays == ASSUME UserTypes, [U!Next]_uVars PROVE UserTypes'
<1>1. CASE UNCHANGED uVars
  BY <1>1 DEF uVars, UserTypes
<1> QED  BY <1>1, UserTypesStep

\* Who removes somebody has the role, is somebody else, and is not being removed.
AuthorsRemain ==
    \A k \in Request : req[k].op \in U!Removals =>
        /\ req[k].actor \in U!Superusers /\ req[k].actor # req[k].target
        /\ \A j \in Request \ {k} : req[j].op \in U!Removals => req[j].target # req[k].actor

RoleInv == UserTypes /\ (~atOdds /\ ~patched => AuthorsRemain)

\* A write takes the role from its target only, and only if it is a removal or a PATCH.
LEMMA RoleLost ==
    ASSUME UserTypes, U!Next, ~patched', NEW u \in U!Superusers, u \notin U!Superusers'
    PROVE  \E k \in Request : U!WriteAccount(k) /\ req[k].op \in U!Removals /\ req[k].target = u
<1> USE DEF U!Superusers
<1>1. PICK k \in Request : U!WriteAccount(k) \/ U!CreateSuperuser(k) \/ users' = users
  BY DEF U!Next, U!Authorize, U!Load, U!CountSuperusers, U!Fail, U!LookForSuperuser,
         U!ReadPreferences, U!WritePreferences, U!roleVars
<1>2. users[u] \in U!Row /\ users[u].is  BY DEF UserTypes
<1>3. CASE U!CreateSuperuser(k)
  BY <1>2, <1>3 DEF U!CreateSuperuser, UserTypes
<1>4. CASE U!WriteAccount(k)
  <2>1. PICK after \in U!Row : /\ U!Written(req[k].op, users[req[k].target], after)
                               /\ users' = [users EXCEPT ![req[k].target] = after]
    BY <1>4 DEF U!WriteAccount
  <2>2. req[k].target = u /\ ~after.super  BY <2>1 DEF UserTypes
  <2>3. req[k].op \in {"demote", "delete", "patch"}  BY <1>2, <2>1, <2>2, WrittenRow
  <2>4. req[k].op # "patch"  BY <1>4 DEF U!WriteAccount
  <2> QED  BY <1>4, <2>2, <2>3, <2>4 DEF U!Removals
<1> QED  BY <1>1, <1>3, <1>4

\* A request that removes somebody has just been authorized, or stands as it was.
LEMMA RequestsStep ==
    ASSUME UserTypes, U!Next, NEW k \in Request, req'[k].op \in U!Removals
    PROVE  req'[k] = req[k] \/ U!Authorize(k)
<1> SUFFICES ASSUME req'[k] # req[k], ~U!Authorize(k) PROVE FALSE  OBVIOUS
<1> USE DEF U!roleVars, U!prefVars
<1>1. PICK j \in Request :
        \/ U!Authorize(j) \/ U!Load(j) \/ U!CountSuperusers(j) \/ U!WriteAccount(j) \/ U!Fail(j)
        \/ U!LookForSuperuser(j) \/ U!CreateSuperuser(j)
        \/ U!ReadPreferences(j) \/ U!WritePreferences(j)
  BY DEF U!Next
<1>2. \/ U!Done(j) \/ UNCHANGED req
      \/ U!Authorize(j)
      \/ req' = [req EXCEPT ![j].op = "deactivate"]
      \/ req' = [req EXCEPT ![j].op = "boot"]
      \/ \E op \in {"put", "replace"}, key \in Namespace :
            req' = [req EXCEPT ![j] = [U!Nobody EXCEPT !.op = op, !.key = key, !.copy = prefs, !.value = puts']]
  BY <1>1 DEF U!Load, U!CountSuperusers, U!WriteAccount, U!Fail, U!LookForSuperuser,
              U!CreateSuperuser, U!ReadPreferences, U!WritePreferences
<1>3. req[j] \in Requests /\ req \in [Request -> Requests]  BY DEF UserTypes
<1>4. k = j
  BY <1>2, <1>3, DoneTypes DEF U!Authorize
<1>5. CASE U!Done(j)
  BY <1>4, <1>5, DoneTypes, NobodyAsks DEF U!Removals
<1>6. CASE req' = [req EXCEPT ![j].op = "deactivate"] \/ req' = [req EXCEPT ![j].op = "boot"]
  <2>1. req'[j].op \in {"deactivate", "boot"}  BY <1>3, <1>6 DEF Requests
  <2> QED  BY <1>4, <2>1 DEF U!Removals
<1>7. ASSUME NEW op \in {"put", "replace"}, NEW key \in Namespace,
             req' = [req EXCEPT ![j] = [U!Nobody EXCEPT !.op = op, !.key = key, !.copy = prefs, !.value = puts']]
      PROVE  FALSE
  <2>1. [U!Nobody EXCEPT !.op = op, !.key = key, !.copy = prefs, !.value = puts'].op = op
    BY DEF U!Nobody
  <2> QED  BY <1>3, <1>4, <1>7, <2>1 DEF U!Removals
<1> QED  BY <1>2, <1>4, <1>5, <1>6, <1>7

\* What happened once is remembered.
LEMMA FlagsStay == ASSUME U!Next, ~atOdds', ~patched' PROVE ~atOdds /\ ~patched
<1>1. PICK k \in Request :
        \/ U!Authorize(k) \/ U!Load(k) \/ U!CountSuperusers(k) \/ U!WriteAccount(k) \/ U!Fail(k)
        \/ U!LookForSuperuser(k) \/ U!CreateSuperuser(k)
        \/ U!ReadPreferences(k) \/ U!WritePreferences(k)
  BY DEF U!Next
<1>2. CASE U!Authorize(k)
  <2>1. patched' = patched  BY <1>2 DEF U!Authorize
  <2>2. atOdds => atOdds'  BY <1>2 DEF U!Authorize
  <2> QED  BY <2>1, <2>2
<1>3. CASE U!WriteAccount(k)
  <2>1. atOdds' = atOdds  BY <1>3 DEF U!WriteAccount
  <2>2. patched => patched'  BY <1>3 DEF U!WriteAccount
  <2> QED  BY <2>1, <2>2
<1>4. CASE UNCHANGED <<atOdds, patched>>  BY <1>4
<1> QED  BY <1>1, <1>2, <1>3, <1>4 DEF U!Load, U!CountSuperusers, U!Fail, U!LookForSuperuser,
         U!CreateSuperuser, U!ReadPreferences, U!WritePreferences, U!roleVars

LEMMA RoleStep == ASSUME RoleInv, U!Next PROVE RoleInv'
<1>1. UserTypes /\ UserTypes'  BY UserTypesStep DEF RoleInv
<1> SUFFICES ASSUME ~atOdds', ~patched' PROVE AuthorsRemain'
  BY <1>1 DEF RoleInv
<1>2. ~atOdds /\ ~patched
  BY FlagsStay
<1>3. AuthorsRemain  BY <1>2 DEF RoleInv
<1>4. CASE \E k \in Request : U!Authorize(k)
  <2>1. PICK k \in Request : U!Authorize(k)  BY <1>4
  <2>a. PICK op \in U!AdminOps, actor \in U!Superusers, target \in User :
           /\ U!OthersOnly(op, actor, target)
           /\ req' = [req EXCEPT ![k] = [U!Nobody EXCEPT !.op = op, !.actor = actor, !.target = target]]
           /\ atOdds' = (atOdds \/ (op \in U!Removals /\ \E j \in Request \ {k} :
                           /\ req[j].op \in U!Removals
                           /\ req[j].target = actor \/ req[j].actor = target))
    BY <2>1 DEF U!Authorize
  <2>2. op \in U!Removals => \A j \in Request \ {k} : req[j].op \in U!Removals =>
               req[j].target # actor /\ req[j].actor # target
    BY <2>a
  <2>3. /\ req'[k].op = op /\ req'[k].actor = actor /\ req'[k].target = target
        /\ \A j \in Request \ {k} : req'[j] = req[j]
    <3>1. /\ [U!Nobody EXCEPT !.op = op, !.actor = actor, !.target = target].op = op
          /\ [U!Nobody EXCEPT !.op = op, !.actor = actor, !.target = target].actor = actor
          /\ [U!Nobody EXCEPT !.op = op, !.actor = actor, !.target = target].target = target
      BY DEF U!Nobody
    <3> QED  BY <1>1, <2>a, <3>1 DEF UserTypes
  <2>4. U!Superusers' = U!Superusers  BY <2>1 DEF U!Authorize, U!roleVars, U!Superusers
  <2> QED  BY <1>3, <2>a, <2>2, <2>3, <2>4 DEF AuthorsRemain, U!OthersOnly
<1>5. CASE \A k \in Request : ~U!Authorize(k)
  <2>1. \A k \in Request : req'[k].op \in U!Removals => req'[k] = req[k]
    BY <1>1, <1>5, RequestsStep
  <2>2. ASSUME NEW k \in Request, req'[k].op \in U!Removals PROVE req'[k].actor \in U!Superusers'
    <3> SUFFICES ASSUME req'[k].actor \notin U!Superusers' PROVE FALSE  OBVIOUS
    <3>1. req[k].actor \in U!Superusers /\ req[k].op \in U!Removals /\ req'[k].actor = req[k].actor
      BY <1>3, <2>1, <2>2 DEF AuthorsRemain
    <3>2. PICK j \in Request : req[j].op \in U!Removals /\ req[j].target = req[k].actor
      BY <1>1, <3>1, RoleLost
    <3> QED  BY <1>3, <3>1, <3>2 DEF AuthorsRemain
  <2> QED  BY <1>3, <2>1, <2>2 DEF AuthorsRemain
<1> QED  BY <1>4, <1>5

\* A removal leaves its author.
LEMMA RoleKept == ASSUME RoleInv, U!Next PROVE U!KeepsSuperuser
<1> SUFFICES ASSUME U!Superusers # {}, ~atOdds', ~patched', U!Superusers' = {} PROVE FALSE
  BY DEF U!KeepsSuperuser
<1>1. ~atOdds /\ ~patched
  BY FlagsStay
<1>2. UserTypes /\ AuthorsRemain  BY <1>1 DEF RoleInv
<1>3. PICK u \in U!Superusers : TRUE  OBVIOUS
<1>4. PICK k \in Request : U!WriteAccount(k) /\ req[k].op \in U!Removals /\ req[k].target = u
  BY <1>2, <1>3, RoleLost
<1>5. req[k].actor \in U!Superusers /\ req[k].actor # u  BY <1>2, <1>4 DEF AuthorsRemain
<1>6. users'[req[k].actor] = users[req[k].actor]
  <2>1. \E after \in U!Row : users' = [users EXCEPT ![req[k].target] = after]
    BY <1>4 DEF U!WriteAccount
  <2> QED  BY <1>2, <1>4, <1>5, <2>1 DEF UserTypes, U!Superusers
<1> QED  BY <1>5, <1>6 DEF U!Superusers

\* Once there is a superuser, one remains: whatever administrators do on their own or beside
\* requests of others (users/service.py:168-172), until a demotion or deletion crosses one that
\* takes its author's role, or the flags are changed by the PATCH of the profile.
THEOREM SuperuserStays == (U!Spec => U!SuperuserRemains) /\ (MCSpec => SuperuserRemains)
<1>1. ASSUME RoleInv, [U!Next]_uVars PROVE RoleInv' /\ [U!KeepsSuperuser]_uVars
  <2>1. CASE UNCHANGED uVars
    BY <1>1, <2>1 DEF RoleInv, UserTypes, AuthorsRemain, U!Superusers, uVars
  <2> QED  BY <1>1, <2>1, RoleStep, RoleKept
<1>2. U!Init => RoleInv
  <2>1. U!Init => AuthorsRemain  BY NobodyAsks DEF U!Init, AuthorsRemain, U!Removals
  <2> QED  BY <2>1, UserTypesInit DEF RoleInv
<1>3. U!Spec => U!SuperuserRemains
  <2>1. UNCHANGED U!vars <=> UNCHANGED uVars  BY DEF U!vars, uVars
  <2>2. ASSUME RoleInv, [U!Next]_(U!vars) PROVE RoleInv' /\ [U!KeepsSuperuser]_(U!vars)
    BY <1>1, <2>1, <2>2
  <2> QED  BY <1>2, <2>2, PTL DEF U!Spec, U!SuperuserRemains
<1>4. MCInit => (part \in UserParts => RoleInv)  BY <1>2 DEF MCInit
<1>5. ASSUME part \in UserParts => RoleInv, [MCNext]_allVars
      PROVE  /\ (part \in UserParts => RoleInv)'
             /\ [(part \in UserParts) => U!KeepsSuperuser]_uVars
  BY <1>1, <1>5, UserPart
<1>6. MCSpec => SuperuserRemains
  BY <1>4, <1>5, PTL DEF MCSpec, allVars, SuperuserRemains
<1> QED  BY <1>3, <1>6

-----------------------------------------------------------------------------
\* While no two writes of the preferences cross, the copy of the one that is under way is
\* what the row holds.
CopyInv ==
    /\ UserTypes
    /\ ~devices =>
         /\ prefs = acked
         /\ \A k \in Request : upc[k] = "merging" => req[k].copy = prefs
         /\ \A k, j \in Request : upc[k] = "merging" /\ upc[j] = "merging" => k = j

\* No other request writes the preferences, or takes up a copy.
LEMMA OthersKeepCopies ==
    ASSUME UserTypes, NEW k \in Request,
           \/ U!Authorize(k) \/ U!Load(k) \/ U!CountSuperusers(k) \/ U!WriteAccount(k) \/ U!Fail(k)
           \/ U!LookForSuperuser(k) \/ U!CreateSuperuser(k)
    PROVE  /\ UNCHANGED <<prefs, acked, devices>>
           /\ \A j \in Request : upc'[j] = "merging" => upc[j] = "merging" /\ req'[j] = req[j]
<1>1. UNCHANGED <<prefs, acked, devices>>
  BY DEF U!Authorize, U!Load, U!CountSuperusers, U!WriteAccount, U!Fail, U!LookForSuperuser,
         U!CreateSuperuser, U!prefVars
<1>2. \/ U!Done(k)
      \/ \E place \in {"loading", "counting", "writing", "booting"} : U!Goto(k, place)
  BY DEF U!Authorize, U!Load, U!CountSuperusers, U!WriteAccount, U!Fail, U!LookForSuperuser, U!CreateSuperuser
<1>3. \A j \in Request : j # k => req'[j] = req[j]
  <2>1. U!Done(k) \/ UNCHANGED req \/ \E v : req' = [req EXCEPT ![k] = v]
    BY DEF U!Authorize, U!Load, U!CountSuperusers, U!WriteAccount, U!Fail, U!LookForSuperuser, U!CreateSuperuser
  <2> QED  BY <2>1, DoneTypes DEF UserTypes
<1>4. CASE U!Done(k)
  BY <1>1, <1>3, <1>4, DoneTypes
<1>5. ASSUME NEW place \in {"loading", "counting", "writing", "booting"}, U!Goto(k, place)
      PROVE  \A j \in Request : upc'[j] = "merging" => upc[j] = "merging" /\ req'[j] = req[j]
  BY <1>3, <1>5, GotoTypes DEF Places
<1> QED  BY <1>1, <1>2, <1>4, <1>5

LEMMA CopyStep == ASSUME CopyInv, U!Next PROVE CopyInv'
<1>1. UserTypes /\ UserTypes'  BY UserTypesStep DEF CopyInv
<1> SUFFICES ASSUME ~devices'
             PROVE  /\ prefs' = acked'
                    /\ \A k \in Request : upc'[k] = "merging" => req'[k].copy = prefs'
                    /\ \A k, j \in Request : upc'[k] = "merging" /\ upc'[j] = "merging" => k = j
  BY <1>1 DEF CopyInv
<1>2. PICK k \in Request :
        \/ U!Authorize(k) \/ U!Load(k) \/ U!CountSuperusers(k) \/ U!WriteAccount(k) \/ U!Fail(k)
        \/ U!LookForSuperuser(k) \/ U!CreateSuperuser(k)
        \/ U!ReadPreferences(k) \/ U!WritePreferences(k)
  BY DEF U!Next
<1>3. CASE U!ReadPreferences(k)
  <2>1. ~devices /\ \A j \in Request : upc[j] # "merging"  BY <1>3 DEF U!ReadPreferences
  <2>2. PICK op \in {"put", "replace"}, key \in Namespace :
           req' = [req EXCEPT ![k] = [U!Nobody EXCEPT !.op = op, !.key = key, !.copy = prefs, !.value = puts']]
    BY <1>3 DEF U!ReadPreferences
  <2>3. [U!Nobody EXCEPT !.op = op, !.key = key, !.copy = prefs, !.value = puts'].copy = prefs
    BY DEF U!Nobody
  <2>4. req'[k].copy = prefs  BY <1>1, <2>2, <2>3 DEF UserTypes
  <2>5. \A j \in Request : upc'[j] = "merging" => j = k
    BY <1>1, <1>3, <2>1, GotoTypes DEF U!ReadPreferences, Places
  <2> QED  BY <1>3, <2>1, <2>4, <2>5 DEF U!ReadPreferences, CopyInv
<1>4. CASE U!WritePreferences(k)
  <2>1. ~devices /\ upc[k] = "merging" /\ U!Done(k)  BY <1>4 DEF U!WritePreferences
  <2>2. prefs = acked /\ req[k].copy = prefs  BY <2>1 DEF CopyInv
  <2>3. prefs' = acked'  BY <1>4, <2>2 DEF U!WritePreferences, U!Merged
  <2>4. \A j \in Request : upc'[j] # "merging"  BY <1>1, <2>1, DoneTypes DEF CopyInv
  <2> QED  BY <2>3, <2>4
<1>5. CASE ~U!ReadPreferences(k) /\ ~U!WritePreferences(k)
  <2>1. /\ UNCHANGED <<prefs, acked, devices>>
        /\ \A j \in Request : upc'[j] = "merging" => upc[j] = "merging" /\ req'[j] = req[j]
    BY <1>1, <1>2, <1>5, OthersKeepCopies
  <2> QED  BY <2>1 DEF CopyInv
<1> QED  BY <1>3, <1>4, <1>5

\* A confirmed key of the preferences stays as it was confirmed, whatever keys other pages
\* write ("preserving the rest", users/service.py:142), as long as no two writes cross.
THEOREM NamespacesStay == (U!Spec => []U!NamespacesKept) /\ (MCSpec => []NamespacesKept)
<1>1. ASSUME CopyInv, [U!Next]_uVars PROVE CopyInv'
  <2>1. CASE UNCHANGED uVars  BY <1>1, <2>1 DEF CopyInv, UserTypes, uVars
  <2> QED  BY <1>1, <2>1, CopyStep
<1>2. U!Init => CopyInv
  <2>1. U!Init => prefs = acked /\ \A k \in Request : upc[k] # "merging"  BY DEF U!Init
  <2> QED  BY <2>1, UserTypesInit DEF CopyInv
<1>3. CopyInv => U!NamespacesKept  BY DEF CopyInv, U!NamespacesKept
<1>4. U!Spec => []U!NamespacesKept
  <2>1. UNCHANGED U!vars <=> UNCHANGED uVars  BY DEF U!vars, uVars
  <2>2. ASSUME CopyInv, [U!Next]_(U!vars) PROVE CopyInv'
    BY <1>1, <2>1, <2>2
  <2> QED  BY <1>2, <1>3, <2>2, PTL DEF U!Spec
<1>5. MCInit => (part \in UserParts => CopyInv)  BY <1>2 DEF MCInit
<1>6. ASSUME part \in UserParts => CopyInv, [MCNext]_allVars PROVE (part \in UserParts => CopyInv)'
  BY <1>1, <1>6, UserPart
<1>7. (part \in UserParts => CopyInv) => NamespacesKept  BY <1>3 DEF NamespacesKept
<1>8. MCSpec => []NamespacesKept
  BY <1>5, <1>6, <1>7, PTL DEF MCSpec, allVars
<1> QED  BY <1>4, <1>8

-----------------------------------------------------------------------------
(***************************************************************************)
(* Market quotes.  An ingest writes the quotes of a rail in the order of   *)
(* the instruments: what it holds is before what it still has to write.    *)
(***************************************************************************)
LEMMA LeastOf == ASSUME NEW A \in SUBSET Nat, A # {} PROVE \E n \in A : \A m \in A : n <= m
<1>1. \A m, n \in Nat : m < n => <<m, n>> \in OpToRel(<, Nat)  BY DEF OpToRel
<1>2. \E less : (\A m, n \in Nat : m < n => <<m, n>> \in less) /\ \E n \in A : \A m \in A : ~(<<m, n>> \in less)
  BY <1>1, NatLessThanWellFounded, WFMin, Zenon
<1>3. PICK less : (\A m, n \in Nat : m < n => <<m, n>> \in less) /\ \E n \in A : \A m \in A : ~(<<m, n>> \in less)
  BY <1>2
<1>4. PICK n \in A : \A m \in A : ~(<<m, n>> \in less)  BY <1>3
<1>5. ASSUME NEW m \in A PROVE n <= m
  <2>1. m \in Nat /\ n \in Nat  OBVIOUS
  <2>2. ~(m < n)  BY <1>3, <1>4, <2>1, Zenon
  <2> QED  BY <2>1, <2>2
<1> QED  BY <1>5

\* The fields of the locals of an ingest.
Shaped(local) ==
    local \in [rail : {local.rail}, only : {local.only}, at : {local.at}, day : {local.day}, usd : {local.usd},
               dated : {local.dated}, quotes : {local.quotes}, written : {local.written}]

Steps == {"idle", "fetching", "dating", "writing", "logging", "raised"}
Holding == {"dating", "writing", "logging"}

\* The quotes are those of instruments of the rail; what is written comes before them.
InOrder(local) ==
    LET order == Instruments[local.rail] IN
    /\ local.rail \in M!Rail => DOMAIN local.quotes \subseteq {order[n] : n \in DOMAIN order}
    /\ \A w \in local.written : \E n \in DOMAIN order :
          order[n] = w[1] /\ \A m \in DOMAIN order : order[m] \in DOMAIN local.quotes => n < m

QuoteTypes ==
    /\ mpc \in [Ingestor -> Steps] /\ DOMAIN run = Ingestor /\ \A k \in Ingestor : Shaped(run[k])
    /\ \A k \in Ingestor : run[k].rail \in M!Rail \cup {""} /\ (run[k].rail = "" <=> mpc[k] = "idle")
    /\ \A k \in Ingestor : run[k].at \in Nat /\ (mpc[k] \notin {"writing", "logging"} => run[k].written = {})
    /\ quoted \in [M!Rail -> Nat]

OrderInv == QuoteTypes /\ \A k \in Ingestor : InOrder(run[k])

\* What the updates of the locals leave of them.
LEMMA BlankShape ==
    ASSUME NEW rail, NEW only
    PROVE  LET local == [M!Blank EXCEPT !.rail = rail, !.only = only] IN
           Shaped(local) /\ local.rail = rail /\ local.at = 0 /\ local.written = {} /\ DOMAIN local.quotes = {}
<1> DEFINE local == [M!Blank EXCEPT !.rail = rail, !.only = only]
<1>1. local.rail = rail /\ local.at = 0 /\ local.written = {} /\ local.quotes = <<>>
  BY DEF M!Blank
<1>2. Shaped(local)  BY DEF Shaped, M!Blank
<1> QED  BY <1>1, <1>2

LEMMA Blanks ==
    Shaped(M!Blank) /\ M!Blank.rail = "" /\ M!Blank.at = 0 /\ M!Blank.written = {} /\ DOMAIN M!Blank.quotes = {}
BY DEF Shaped, M!Blank

LEMMA RailIs == M!Rail = {"forex", "crypto", "commodities"} /\ "" \notin M!Rail /\ "end" \notin M!Rail
<1>1. DOMAIN M!Rails = {1, 2, 3} /\ M!Rails[1] = "forex" /\ M!Rails[2] = "crypto" /\ M!Rails[3] = "commodities"
  BY DEF M!Rails
<1>2. M!Rail = {M!Rails[n] : n \in DOMAIN M!Rails}  BY DEF M!Rail, M!ToSet
<1>3. M!Rail = {"forex", "crypto", "commodities"}  BY <1>1, <1>2
<1> QED  BY <1>3

\* Places of the instruments.
LEMMA ListedPlaces ==
    ASSUME NEW rail \in M!Rail
    PROVE  DOMAIN Instruments[rail] \subseteq Nat
BY PartsAssumption DEF M!InstrumentsAssumption

\* The item that is next is the first of those left.
LEMMA NextIsFirst ==
    ASSUME QuoteTypes, NEW k \in Ingestor, InOrder(run[k]), run[k].rail \in M!Rail, DOMAIN run[k].quotes # {}
    PROVE  LET order == Instruments[run[k].rail] IN
           /\ M!NextItem(k) \in DOMAIN run[k].quotes
           /\ \E n \in DOMAIN order : order[n] = M!NextItem(k)
                 /\ \A m \in DOMAIN order : order[m] \in DOMAIN run[k].quotes => n <= m
<1> DEFINE order == Instruments[run[k].rail]
           left == {n \in DOMAIN order : order[n] \in DOMAIN run[k].quotes}
<1>1. left # {} /\ left \in SUBSET Nat  BY ListedPlaces DEF InOrder
<1>2. \E n \in left : \A m \in left : n <= m
  <2> HIDE DEF left
  <2> QED  BY <1>1, LeastOf
<1>3. M!NextItem(k) = order[CHOOSE n \in left : \A m \in left : n <= m]
  BY DEF M!NextItem
<1>4. PICK n \in left : M!NextItem(k) = order[n] /\ \A m \in left : n <= m
  <2> DEFINE first == CHOOSE n \in left : \A m \in left : n <= m
  <2>1. first \in left /\ \A m \in left : first <= m
    <3> HIDE DEF left
    <3> QED  BY <1>2
  <2> QED  BY <1>3, <2>1
<1> QED  BY <1>4


\* What an ingest may be left with.
Proper(step, local) ==
    /\ step \in Steps /\ Shaped(local) /\ InOrder(local)
    /\ local.rail \in M!Rail \cup {""} /\ (local.rail = "" <=> step = "idle")
    /\ local.at \in Nat /\ (step \notin {"writing", "logging"} => local.written = {})

LEMMA AllProper ==
    OrderInv <=> /\ quoted \in [M!Rail -> Nat] /\ mpc \in [Ingestor -> Steps] /\ DOMAIN run = Ingestor
                 /\ \A k \in Ingestor : Proper(mpc[k], run[k])
BY DEF OrderInv, QuoteTypes, Proper

LEMMA GotoProper ==
    ASSUME OrderInv, NEW k \in Ingestor, NEW step, NEW local, M!Goto(k, step, local), Proper(step, local),
           quoted' \in [M!Rail -> Nat]
    PROVE  OrderInv'
<1>1. step \in Steps  BY DEF Proper
<1>2. mpc' \in [Ingestor -> Steps] /\ DOMAIN run' = Ingestor
  BY <1>1, AllProper DEF M!Goto
<1>3. \A j \in Ingestor : IF j = k THEN mpc'[j] = step /\ run'[j] = local ELSE mpc'[j] = mpc[j] /\ run'[j] = run[j]
  BY <1>1, AllProper DEF M!Goto
<1>4. \A j \in Ingestor : Proper(mpc'[j], run'[j])
  BY <1>3, AllProper
<1> QED  BY <1>2, <1>4 DEF OrderInv, QuoteTypes, Proper

LEMMA BlankProper ==
    /\ Proper("idle", M!Blank)
    /\ \A rail \in M!Rail : \A only : /\ Proper("fetching", [M!Blank EXCEPT !.rail = rail, !.only = only])
                                      /\ Proper("raised", [M!Blank EXCEPT !.rail = rail, !.only = only])
<1>1. "" \notin M!Rail  BY RailIs
<1>2. ASSUME NEW local, Shaped(local), local.written = {}, DOMAIN local.quotes = {} PROVE InOrder(local)
  BY <1>2 DEF InOrder
<1>3. Proper("idle", M!Blank)
  <2>1. InOrder(M!Blank)  BY <1>2, Blanks
  <2>2. M!Blank.at \in Nat  BY DEF M!Blank
  <2>3. "idle" \in Steps  BY DEF Steps
  <2> QED  BY <2>1, <2>2, <2>3, Blanks DEF Proper
<1>4. ASSUME NEW rail \in M!Rail, NEW only
      PROVE  /\ Proper("fetching", [M!Blank EXCEPT !.rail = rail, !.only = only])
             /\ Proper("raised", [M!Blank EXCEPT !.rail = rail, !.only = only])
  <2> DEFINE local == [M!Blank EXCEPT !.rail = rail, !.only = only]
  <2>1. Shaped(local) /\ local.rail = rail /\ local.at = 0 /\ local.written = {} /\ DOMAIN local.quotes = {}
    BY BlankShape
  <2> HIDE DEF local
  <2>2. InOrder(local)  BY <1>2, <2>1
  <2>3. "fetching" \in Steps /\ "raised" \in Steps  BY DEF Steps
  <2>4. local.at \in Nat  BY <2>1
  <2>5. Proper("fetching", local) /\ Proper("raised", local)
    BY <1>1, <2>1, <2>2, <2>3, <2>4 DEF Proper
  <2> QED  BY <2>5 DEF local
<1> QED  BY <1>3, <1>4

LEMMA NextRailProper ==
    ASSUME OrderInv, NEW k \in Ingestor, NEW rail \in M!Rail \cup {""}, NEW only, M!NextRail(k, rail, only),
           quoted' \in [M!Rail -> Nat]
    PROVE  OrderInv'
<1>1. "forex" \in M!Rail /\ "commodities" \in M!Rail  BY RailIs
<1>2. M!After(rail) \in M!Rail \cup {"end"}  BY RailIs DEF M!After
<1>3. \/ M!Goto(k, "idle", M!Blank)
      \/ \E next \in M!Rail : M!Goto(k, "fetching", [M!Blank EXCEPT !.rail = next, !.only = only])
  BY <1>1, <1>2 DEF M!NextRail
<1> QED  BY <1>3, BlankProper, GotoProper

\* The rail of an ingest is over, or rolled back.
LEMMA UndoneProper ==
    ASSUME NEW k \in Ingestor, run[k].rail \in M!Rail
    PROVE  Proper("raised", M!Undone(k))
BY BlankProper DEF M!Undone

LEMMA SettleProper ==
    ASSUME OrderInv, NEW k \in Ingestor, run[k].rail \in M!Rail, NEW losers \in SUBSET M!Losers(k), NEW refused,
           M!Settle(k, losers, refused), UNCHANGED quoted
    PROVE  OrderInv'
<1> DEFINE next == IF M!After(run[k].rail) = "end" THEN "idle" ELSE "fetching"
           local == IF M!After(run[k].rail) = "end" THEN M!Blank
                    ELSE [M!Blank EXCEPT !.rail = M!After(run[k].rail), !.only = run[k].only]
<1>1. Proper(next, local)
  <2>1. M!After(run[k].rail) \in M!Rail \cup {"end"}  BY RailIs DEF M!After
  <2> QED  BY <2>1, BlankProper
<1>2. \A j \in losers : Proper("raised", M!Undone(j))
  <2>1. \A j \in losers : j \in Ingestor /\ mpc[j] = "writing"  BY DEF M!Losers
  <2>2. \A j \in losers : run[j].rail \in M!Rail  BY <2>1, AllProper DEF Proper
  <2> QED  BY <2>1, <2>2, UndoneProper
<1>3. /\ mpc' = [j \in Ingestor |-> IF j = k THEN next ELSE IF j \in losers THEN "raised" ELSE mpc[j]]
      /\ run' = [j \in Ingestor |-> IF j = k THEN local ELSE IF j \in losers THEN M!Undone(j) ELSE run[j]]
  BY DEF M!Settle
<1> HIDE DEF next, local
<1>4. \A j \in Ingestor : Proper(mpc'[j], run'[j])
  BY <1>1, <1>2, <1>3, AllProper
<1>5. mpc' \in [Ingestor -> Steps]
  BY <1>3, <1>4 DEF Proper
<1>6. DOMAIN run' = Ingestor  BY <1>3
<1> QED  BY <1>4, <1>5, <1>6, AllProper DEF OrderInv, QuoteTypes, Proper

\* The first provider that answers with any coins, and what is asked for.
LEMMA RequestsAreListed ==
    ASSUME NEW rail \in M!Rail, NEW requested \in M!Requests(rail)
    PROVE  requested \subseteq M!ToSet(Instruments[rail])
<1>1. CASE rail # "crypto"
  BY <1>1 DEF M!Requests
<1>2. CASE rail = "crypto"
  <2>1. PICK answers \in M!Answers(rail) : requested = M!FirstAnswer(rail, answers)
    BY <1>2 DEF M!Requests
  <2> DEFINE some == {n \in DOMAIN M!Queue[rail] : answers[M!Queue[rail][n]] # {}}
             first == CHOOSE n \in some : \A m \in some : n <= m
  <2>2. DOMAIN M!Queue[rail] = {1, 2}  BY <1>2 DEF M!Queue
  <2>3. CASE some # {}
    <3>1. some \in SUBSET Nat  BY <2>2
    <3>2. first \in some
      <4>1. \E n \in some : \A m \in some : n <= m
        <5> HIDE DEF some
        <5> QED  BY <2>3, <3>1, LeastOf
      <4> QED  BY <4>1
    <3>3. requested = answers[M!Queue[rail][first]]  BY <2>1, <2>3 DEF M!FirstAnswer
    <3>4. answers \in [M!ToSet(M!Queue[rail]) -> SUBSET M!ToSet(Instruments[rail])]
      BY <2>1 DEF M!Answers
    <3>5. M!Queue[rail][first] \in M!ToSet(M!Queue[rail])
      BY <3>2 DEF M!ToSet
    <3> QED  BY <3>3, <3>4, <3>5
  <2>4. CASE some = {}  BY <2>1, <2>4 DEF M!FirstAnswer
  <2> QED  BY <2>3, <2>4
<1> QED  BY <1>1, <1>2

LEMMA OrderStep == ASSUME OrderInv, M!Next PROVE OrderInv'
<1> USE DEF M!dbVars
<1>1. CASE M!Midnight \/ M!RotateSecret
  BY <1>1 DEF M!Midnight, M!RotateSecret, OrderInv, QuoteTypes
<1>2. ASSUME NEW k \in Ingestor,
        \/ M!Begin(k) \/ M!Fetch(k) \/ M!FetchRaises(k)
        \/ M!EnsureDimDate(k) \/ M!WriteItem(k) \/ M!RefuseItem(k) \/ M!StatementRaises(k)
        \/ M!CommitWithLog(k) \/ M!LogRollsBack(k) \/ M!CommitCrypto(k) \/ M!LogCrypto(k)
        \/ M!LogError(k) \/ M!Abort(k)
      PROVE  OrderInv'
  <2>0. /\ quoted \in [M!Rail -> Nat] /\ Proper(mpc[k], run[k])
        /\ mpc[k] # "idle" => run[k].rail \in M!Rail
    BY AllProper DEF Proper
  <2>1. CASE M!Begin(k)
    BY <2>0, <2>1, NextRailProper DEF M!Begin
  <2>2. CASE M!Fetch(k)
    <3> DEFINE rail == run[k].rail
    <3>1. rail \in M!Rail /\ mpc[k] = "fetching" /\ quoted' = [quoted EXCEPT ![rail] = @ + 1]
      BY <2>0, <2>2 DEF M!Fetch
    <3>2. quoted' \in [M!Rail -> Nat]  BY <2>0, <3>1
    <3>3. PICK requested \in M!Requests(rail), answers \in M!Answers(rail) :
             LET quotes == M!GapFill(rail, requested, answers) IN
             \/ M!NextRail(k, rail, run[k].only)
             \/ M!Goto(k, "dating", [run[k] EXCEPT !.quotes = quotes, !.at = quoted'[rail],
                                                   !.usd = M!USD \in DOMAIN quotes])
      BY <2>2 DEF M!Fetch
    <3> DEFINE quotes == M!GapFill(rail, requested, answers)
               local == [run[k] EXCEPT !.quotes = quotes, !.at = quoted'[rail], !.usd = M!USD \in DOMAIN quotes]
    <3>4. DOMAIN quotes \subseteq requested  BY DEF M!GapFill
    <3>5. DOMAIN quotes \subseteq {Instruments[rail][n] : n \in DOMAIN Instruments[rail]}
      BY <3>1, <3>4, RequestsAreListed DEF M!ToSet
    <3> HIDE DEF quotes
    <3>6. /\ Shaped(local) /\ local.rail = rail /\ local.at = quoted'[rail] /\ local.written = run[k].written
          /\ local.quotes = quotes
      <4>1. Shaped(run[k])  BY <2>0 DEF Proper
      <4> DEFINE usd == M!USD \in DOMAIN quotes
                 fetched == quoted'[rail]
      <4>2. local = [run[k] EXCEPT !.quotes = quotes, !.at = fetched, !.usd = usd]  OBVIOUS
      <4> HIDE DEF usd, fetched, local
      <4>3. /\ Shaped(local) /\ local.rail = rail /\ local.at = fetched /\ local.written = run[k].written
            /\ local.quotes = quotes
        BY <4>1, <4>2 DEF Shaped
      <4> QED  BY <4>3 DEF fetched
    <3>7. CASE M!Goto(k, "dating", local)
      <4> HIDE DEF local
      <4>1. local.at \in Nat  BY <3>1, <3>2, <3>6
      <4>2. local.written = {}  BY <2>0, <3>1, <3>6 DEF Proper
      <4>3. InOrder(local)  BY <3>5, <3>6, <4>2 DEF InOrder
      <4>4. Proper("dating", local)
        BY <3>1, <3>6, <4>1, <4>2, <4>3, RailIs DEF Proper, Steps
      <4> QED  BY <3>2, <3>7, <4>4, GotoProper
    <3>8. CASE M!NextRail(k, rail, run[k].only)
      BY <3>1, <3>2, <3>8, NextRailProper
    <3> QED  BY <3>3, <3>7, <3>8 DEF quotes
  <2>3. CASE M!FetchRaises(k)
    BY <2>0, <2>3, UndoneProper, GotoProper DEF M!FetchRaises
  <2>4. CASE M!EnsureDimDate(k)
    <3>1. M!Goto(k, "writing", [run[k] EXCEPT !.day = today, !.dated = today \notin dim_date]) /\ quoted' = quoted
      BY <2>4 DEF M!EnsureDimDate
    <3> DEFINE local == [run[k] EXCEPT !.day = today, !.dated = today \notin dim_date]
    <3>2. /\ Shaped(local) /\ local.rail = run[k].rail /\ local.at = run[k].at /\ local.written = run[k].written
          /\ local.quotes = run[k].quotes
      <4>1. Shaped(run[k])  BY <2>0 DEF Proper
      <4> DEFINE dated == today \notin dim_date
      <4>2. local = [run[k] EXCEPT !.day = today, !.dated = dated]  OBVIOUS
      <4> HIDE DEF dated, local
      <4> QED  BY <4>1, <4>2 DEF Shaped
    <3>3. mpc[k] = "dating"  BY <2>4 DEF M!EnsureDimDate
    <3> HIDE DEF local
    <3>4. Proper("writing", local)
      BY <2>0, <3>2, <3>3 DEF Proper, Steps, InOrder
    <3> QED  BY <2>0, <3>1, <3>4, GotoProper DEF local
  <2>5. CASE M!WriteItem(k)
    <3> DEFINE item == M!NextItem(k)
               rest == DOMAIN run[k].quotes \ {item}
               w == <<item, run[k].quotes[item]>>
               quotes == [j \in rest |-> run[k].quotes[j]]
               local == [run[k] EXCEPT !.written = @ \cup {w}, !.quotes = quotes]
    <3>1. mpc[k] = "writing" /\ DOMAIN run[k].quotes # {} /\ M!Goto(k, "writing", local) /\ quoted' = quoted
      BY <2>5 DEF M!WriteItem
    <3>2. /\ Shaped(local) /\ local.rail = run[k].rail /\ local.at = run[k].at /\ local.quotes = quotes
          /\ local.written = run[k].written \cup {w}
      <4>1. Shaped(run[k])  BY <2>0 DEF Proper
      <4>2. local = [run[k] EXCEPT !.written = @ \cup {w}, !.quotes = quotes]  OBVIOUS
      <4> HIDE DEF w, quotes, local
      <4> QED  BY <4>1, <4>2 DEF Shaped
    <3>3. DOMAIN quotes = rest /\ w[1] = item  OBVIOUS
    <3> HIDE DEF w, quotes, local
    <3>4. InOrder(local)
      <4> DEFINE order == Instruments[run[k].rail]
      <4>1. InOrder(run[k]) /\ run[k].rail \in M!Rail  BY <2>0, <3>1 DEF Proper
      <4>2. DOMAIN order \subseteq Nat  BY <4>1, ListedPlaces
      <4>3. PICK n \in DOMAIN order : order[n] = item /\ \A m \in DOMAIN order :
               order[m] \in DOMAIN run[k].quotes => n <= m
        <5>1. QuoteTypes  BY DEF OrderInv
        <5> QED  BY <3>1, <4>1, <5>1, NextIsFirst
      <4> HIDE DEF item
      <4>4. \A m \in DOMAIN order : order[m] \in rest => n < m  BY <4>2, <4>3
      <4>5. \A v \in run[k].written : \E o \in DOMAIN order :
               order[o] = v[1] /\ \A m \in DOMAIN order : order[m] \in rest => o < m
        BY <4>1 DEF InOrder
      <4>6. \A v \in local.written : \E o \in DOMAIN order :
               order[o] = v[1] /\ \A m \in DOMAIN order : order[m] \in rest => o < m
        BY <3>2, <3>3, <4>3, <4>4, <4>5
      <4> QED  BY <3>2, <3>3, <4>1, <4>6 DEF InOrder
    <3>5. Proper("writing", local)  BY <2>0, <3>1, <3>2, <3>4 DEF Proper
    <3> QED  BY <2>0, <3>1, <3>5, GotoProper
  <2>6. CASE M!RefuseItem(k)
    <3> DEFINE rest == DOMAIN run[k].quotes \ {M!NextItem(k)}
               quotes == [j \in rest |-> run[k].quotes[j]]
               local == [run[k] EXCEPT !.quotes = quotes]
    <3>1. mpc[k] = "writing" /\ M!Goto(k, "writing", local) /\ quoted' = quoted
      BY <2>6 DEF M!RefuseItem
    <3>2. /\ Shaped(local) /\ local.rail = run[k].rail /\ local.at = run[k].at /\ local.quotes = quotes
          /\ local.written = run[k].written
      <4>1. Shaped(run[k])  BY <2>0 DEF Proper
      <4> HIDE DEF quotes
      <4>2. local = [run[k] EXCEPT !.quotes = quotes]  OBVIOUS
      <4> HIDE DEF local
      <4> QED  BY <4>1, <4>2 DEF Shaped
    <3>3. DOMAIN quotes \subseteq DOMAIN run[k].quotes  OBVIOUS
    <3> HIDE DEF quotes, local
    <3>4. InOrder(local)
      <4>1. InOrder(run[k]) /\ run[k].rail \in M!Rail  BY <2>0, <3>1 DEF Proper
      <4> QED  BY <3>2, <3>3, <4>1 DEF InOrder
    <3>5. Proper("writing", local)  BY <2>0, <3>1, <3>2, <3>4 DEF Proper
    <3> QED  BY <2>0, <3>1, <3>5, GotoProper
  <2>7. CASE M!StatementRaises(k)
    BY <2>0, <2>7, UndoneProper, GotoProper DEF M!StatementRaises
  <2>8. CASE M!CommitWithLog(k)
    BY <2>0, <2>8, SettleProper DEF M!CommitWithLog, M!Written
  <2>9. CASE M!LogRollsBack(k)
    BY <2>0, <2>9, SettleProper DEF M!LogRollsBack, M!Written
  <2>10. CASE M!CommitCrypto(k)
    <3>1. PICK losers \in SUBSET M!Losers(k) :
             /\ mpc' = [j \in Ingestor |-> IF j = k THEN "logging" ELSE IF j \in losers THEN "raised" ELSE mpc[j]]
             /\ run' = [j \in Ingestor |-> IF j \in losers THEN M!Undone(j) ELSE run[j]]
      BY <2>10 DEF M!CommitCrypto
    <3>2. \A j \in losers : j \in Ingestor /\ mpc[j] = "writing" /\ Proper("raised", M!Undone(j))
      <4>1. \A j \in losers : j \in Ingestor /\ mpc[j] = "writing"  BY DEF M!Losers
      <4>2. \A j \in losers : run[j].rail \in M!Rail  BY <4>1, AllProper DEF Proper
      <4> QED  BY <4>1, <4>2, UndoneProper
    <3>3. k \notin losers  BY DEF M!Losers, M!Waits
    <3>4. Proper("logging", run[k])
      BY <2>0, <2>10 DEF M!CommitCrypto, M!Written, Proper, Steps
    <3>5. \A j \in Ingestor : Proper(mpc'[j], run'[j])
      BY <3>1, <3>2, <3>3, <3>4, AllProper
    <3>6. mpc' \in [Ingestor -> Steps] /\ DOMAIN run' = Ingestor
      BY <3>1, <3>5 DEF Proper
    <3> QED  BY <2>0, <2>10, <3>5, <3>6, AllProper DEF M!CommitCrypto, OrderInv, QuoteTypes, Proper
  <2>11. CASE M!LogCrypto(k)
    BY <2>0, <2>11, SettleProper DEF M!LogCrypto
  <2>12. CASE M!LogError(k)
    BY <2>0, <2>12, NextRailProper DEF M!LogError
  <2>13. CASE M!Abort(k)
    BY <2>0, <2>13, BlankProper, GotoProper DEF M!Abort
  <2> QED  BY <1>2, <2>1, <2>2, <2>3, <2>4, <2>5, <2>6, <2>7, <2>8, <2>9, <2>10, <2>11, <2>12, <2>13
<1> QED  BY <1>1, <1>2 DEF M!Next, M!Ingest

LEMMA OrderInit == M!Init => OrderInv
<1> SUFFICES ASSUME M!Init PROVE OrderInv  OBVIOUS
<1>1. mpc \in [Ingestor -> Steps] /\ DOMAIN run = Ingestor /\ quoted \in [M!Rail -> Nat]
  BY DEF M!Init, Steps
<1>2. \A k \in Ingestor : mpc[k] = "idle" /\ run[k] = M!Blank  BY DEF M!Init
<1> QED  BY <1>1, <1>2, AllProper, BlankProper

LEMMA OrderStays == ASSUME OrderInv, [M!Next]_mVars PROVE OrderInv'
<1>1. CASE UNCHANGED mVars  BY <1>1 DEF mVars, OrderInv, QuoteTypes
<1> QED  BY <1>1, OrderStep

\* Who waits for a row while it writes is behind its holder.
LEMMA Behind ==
    ASSUME OrderInv, NEW k \in Ingestor, NEW j \in Ingestor, M!Waits(k, j), mpc[k] = "writing"
    PROVE  /\ run[k].rail = run[j].rail /\ run[k].rail \in M!Rail /\ DOMAIN run[k].quotes # {}
           /\ LET order == Instruments[run[k].rail] IN
              \E n \in DOMAIN order :
                /\ \E o \in DOMAIN order : /\ order[o] \in DOMAIN run[k].quotes /\ o <= n
                /\ \A m \in DOMAIN order : order[m] \in DOMAIN run[j].quotes => n < m
<1> DEFINE order == Instruments[run[k].rail]
<1>1. DOMAIN run[k].quotes # {} /\ M!NextKey(k) \in M!Held(j)  BY DEF M!Waits
<1>2. PICK w \in run[j].written : M!NextKey(k) = M!Key(j, w[1], w[2])
  BY <1>1 DEF M!Held
<1>3. run[k].rail = run[j].rail /\ M!NextItem(k) = w[1]
  BY <1>2 DEF M!NextKey, M!Key
<1>4. run[k].rail \in M!Rail /\ InOrder(run[k]) /\ InOrder(run[j])  BY AllProper DEF Proper
<1>5. M!NextItem(k) \in DOMAIN run[k].quotes
  <2>1. QuoteTypes  BY DEF OrderInv
  <2> QED  BY <1>1, <1>4, <2>1, NextIsFirst
<1>6. PICK n \in DOMAIN order :
         order[n] = w[1] /\ \A m \in DOMAIN order : order[m] \in DOMAIN run[j].quotes => n < m
  BY <1>3, <1>4 DEF InOrder
<1>7. n \in Nat  BY <1>4, ListedPlaces
<1> QED  BY <1>1, <1>3, <1>4, <1>5, <1>6, <1>7

LEMMA NoWayBack == OrderInv => M!NoEmbrace
<1> SUFFICES ASSUME OrderInv, NEW k \in Ingestor, NEW j \in Ingestor, M!Waits(k, j), M!Waits(j, k)
             PROVE  FALSE
  BY DEF M!NoEmbrace
<1> DEFINE order == Instruments[run[k].rail]
<1>1. mpc[k] = "writing" /\ mpc[j] = "writing"  BY DEF M!Waits
<1>2. PICK n \in DOMAIN order :
         /\ \E o \in DOMAIN order : order[o] \in DOMAIN run[k].quotes /\ o <= n
         /\ \A m \in DOMAIN order : order[m] \in DOMAIN run[j].quotes => n < m
  BY <1>1, Behind
<1>3. run[j].rail = run[k].rail /\ run[k].rail \in M!Rail  BY <1>1, Behind
<1>4. PICK l \in DOMAIN order :
         /\ \E o \in DOMAIN order : order[o] \in DOMAIN run[j].quotes /\ o <= l
         /\ \A m \in DOMAIN order : order[m] \in DOMAIN run[k].quotes => l < m
  <2>1. LET its == Instruments[run[j].rail] IN
        \E v \in DOMAIN its :
         /\ \E o \in DOMAIN its : its[o] \in DOMAIN run[j].quotes /\ o <= v
         /\ \A m \in DOMAIN its : its[m] \in DOMAIN run[k].quotes => v < m
    BY <1>1, Behind
  <2> QED  BY <1>3, <2>1
<1>5. DOMAIN order \subseteq Nat  BY <1>3, ListedPlaces
<1>6. n < l /\ l < n  BY <1>2, <1>4, <1>5
<1> QED  BY <1>5, <1>6

\* Two ingests that write the same rail, of the schedule and of an administrator, never wait
\* for each other's rows, whatever quotes each of them got and whatever was refused: both go
\* through the instruments of the rail in one order.
THEOREM NoIngestEmbrace == (M!Spec => []M!NoEmbrace) /\ (MCSpec => []NoEmbrace)
<1>1. M!Spec => []M!NoEmbrace
  <2>1. UNCHANGED M!vars <=> UNCHANGED mVars  BY DEF M!vars, M!dbVars, mVars
  <2>2. ASSUME OrderInv, [M!Next]_(M!vars) PROVE OrderInv'
    BY <2>1, <2>2, OrderStays
  <2> QED  BY <2>2, OrderInit, NoWayBack, PTL DEF M!Spec
<1>2. MCInit => (part \in MarketParts => OrderInv)  BY OrderInit DEF MCInit
<1>3. ASSUME part \in MarketParts => OrderInv, [MCNext]_allVars PROVE (part \in MarketParts => OrderInv)'
  BY <1>3, OrderStays, MarketPart
<1>4. (part \in MarketParts => OrderInv) => NoEmbrace  BY NoWayBack DEF NoEmbrace
<1>5. MCSpec => []NoEmbrace
  BY <1>2, <1>3, <1>4, PTL DEF MCSpec, allVars
<1> QED  BY <1>1, <1>5

-----------------------------------------------------------------------------
\* A row of the key is there, of that fetch or of a later one if the ingests of the rail did
\* not cross.
Backed(rows, crossed, key, since) ==
    \E f \in rows : M!KeyOf(f) = key /\ (f.at >= since \/ key[1] \in crossed)

\* While two ingests of a rail have not crossed, who holds quotes of it holds the newest.
Newest ==
    /\ \A e \in stored : e.key[1] \in M!Rail /\ e.at \in Nat /\ e.at <= quoted[e.key[1]]
    /\ \A k \in Ingestor : mpc[k] \in Holding =>
          /\ run[k].at <= quoted[run[k].rail]
          /\ run[k].rail \notin met =>
                /\ \A j \in Ingestor : mpc[j] \in Holding /\ run[j].rail = run[k].rail => j = k
                /\ \A e \in stored : e.key[1] = run[k].rail => e.at <= run[k].at

Reported ==
    /\ \A e \in stored : (e.refused /\ e.key[1] # "crypto") \/ Backed(facts, met, e.key, e.at)
    /\ \A k \in Ingestor : mpc[k] = "logging" => 
          run[k].rail = "crypto" /\ \A key \in M!Held(k) : Backed(facts, met, key, run[k].at)

StoredInv == OrderInv /\ Newest /\ Reported

\* A step that reports nothing, writes no row and takes up no quotes.
LEMMA QuietStep ==
    ASSUME StoredInv, OrderInv', UNCHANGED <<facts, stored, met>>,
           \A rail \in M!Rail : quoted'[rail] >= quoted[rail],
           \A k \in Ingestor : mpc'[k] \in Holding =>
              mpc[k] \in Holding /\ run'[k].rail = run[k].rail /\ run'[k].at = run[k].at,
           \A k \in Ingestor : mpc'[k] = "logging" => mpc[k] = "logging" /\ run'[k] = run[k]
    PROVE  StoredInv'
<1>1. \A rail \in M!Rail : quoted[rail] \in Nat /\ quoted'[rail] \in Nat
  BY AllProper DEF StoredInv, OrderInv, QuoteTypes
<1>2. \A k \in Ingestor : run[k].at \in Nat /\ run'[k].at \in Nat /\ (mpc[k] \in Holding => run[k].rail \in M!Rail)
  BY DEF StoredInv, OrderInv, QuoteTypes, Holding
<1>3. Newest'  BY <1>1, <1>2 DEF StoredInv, Newest
<1>5. \A k \in Ingestor : mpc'[k] = "logging" => M!Held(k)' = M!Held(k)
  BY DEF M!Held, M!Key
<1>6. Reported'  BY <1>5 DEF StoredInv, Reported, Holding
<1> QED  BY <1>3, <1>6 DEF StoredInv

\* The rows of a commit replace those of their keys.
LEMMA RowsReplace ==
    ASSUME StoredInv, NEW k \in Ingestor, mpc[k] = "writing", M!CommitRows(k), UNCHANGED met
    PROVE  /\ \A key \in M!Held(k) : Backed(facts', met', key, run[k].at)
           /\ \A key, since : Backed(facts, met, key, since) /\ key \notin M!Held(k) => Backed(facts', met', key, since)
           /\ \A e \in stored : Backed(facts, met, e.key, e.at) => Backed(facts', met', e.key, e.at)
           /\ \A j \in Ingestor : mpc[j] = "logging" => \A key \in M!Held(j) : Backed(facts', met', key, run[j].at)
<1>1. run[k].at \in Nat /\ run[k].rail \in M!Rail /\ mpc[k] \in Holding
  BY AllProper DEF StoredInv, Proper, Holding
<1>2. ASSUME NEW w \in run[k].written
      PROVE  \E f \in facts' : M!KeyOf(f) = M!Key(k, w[1], w[2]) /\ f.at = run[k].at
  <2>1. M!Row(k, w) \in facts'  BY DEF M!CommitRows
  <2>2. M!KeyOf(M!Row(k, w)) = M!Key(k, w[1], w[2]) /\ M!Row(k, w).at = run[k].at
    BY DEF M!KeyOf, M!Row, M!Key
  <2> QED  BY <2>1, <2>2
<1>3. \A key \in M!Held(k) : \E f \in facts' : M!KeyOf(f) = key /\ f.at = run[k].at
  BY <1>2 DEF M!Held
<1>4. \A key \in M!Held(k) : key[1] = run[k].rail  BY DEF M!Held, M!Key
<1>5. \A key \in M!Held(k) : Backed(facts', met', key, run[k].at)
  BY <1>1, <1>3 DEF Backed
<1>6. \A key, since : Backed(facts, met, key, since) /\ key \notin M!Held(k) => Backed(facts', met', key, since)
  BY DEF Backed, M!CommitRows
<1>7. ASSUME NEW e \in stored, Backed(facts, met, e.key, e.at), e.key \in M!Held(k) PROVE Backed(facts', met', e.key, e.at)
  <2>1. PICK f \in facts' : M!KeyOf(f) = e.key /\ f.at = run[k].at  BY <1>3, <1>7
  <2>2. e.key[1] = run[k].rail  BY <1>4, <1>7
  <2>3. e.at \in Nat  BY DEF StoredInv, Newest
  <2>4. run[k].rail \notin met => e.at <= run[k].at  BY <1>1, <2>2 DEF StoredInv, Newest
  <2> QED  BY <1>1, <2>1, <2>2, <2>3, <2>4 DEF Backed
<1>8. ASSUME NEW j \in Ingestor, mpc[j] = "logging", NEW key \in M!Held(j) PROVE Backed(facts', met', key, run[j].at)
  <2>1. Backed(facts, met, key, run[j].at)  BY <1>8 DEF StoredInv, Reported
  <2>2. CASE key \in M!Held(k)
    <3>1. run[j].rail = run[k].rail  BY <1>4, <2>2 DEF M!Held, M!Key
    <3>2. run[k].rail \in met  BY <1>1, <1>8, <3>1 DEF StoredInv, Newest, Holding
    <3> QED  BY <1>3, <1>4, <2>2, <3>2 DEF Backed
  <2> QED  BY <1>6, <2>1, <2>2
<1>9. \A e \in stored : Backed(facts, met, e.key, e.at) => Backed(facts', met', e.key, e.at)
  BY <1>6, <1>7
<1> QED  BY <1>5, <1>6, <1>8, <1>9

\* A rail that is settled: what it reports is backed, or its log row was refused.
LEMMA SettleStep ==
    ASSUME StoredInv, OrderInv', NEW k \in Ingestor, mpc[k] \in {"writing", "logging"},
           NEW losers \in SUBSET M!Losers(k), NEW refused, M!Settle(k, losers, refused), UNCHANGED <<quoted, met>>,
           \/ refused /\ run[k].rail # "crypto"
           \/ \A key \in M!Held(k) : Backed(facts', met', key, run[k].at),
           \A e \in stored : Backed(facts, met, e.key, e.at) => Backed(facts', met', e.key, e.at),
           \A j \in Ingestor : mpc[j] = "logging" => \A key \in M!Held(j) : Backed(facts', met', key, run[j].at)
    PROVE  StoredInv'
<1>1. run[k].at \in Nat /\ run[k].rail \in M!Rail /\ mpc[k] \in Holding
  BY AllProper DEF StoredInv, Proper, Holding
<1>2. \A key \in M!Held(k) : key[1] = run[k].rail  BY DEF M!Held, M!Key
<1>3. \A e \in stored' : \/ e \in stored /\ e.key \notin M!Held(k)
                         \/ e.key \in M!Held(k) /\ e.at = run[k].at /\ e.refused = refused
  BY DEF M!Settle
<1>4. mpc'[k] \notin Holding  BY DEF M!Settle, Holding
<1>5. \A j \in Ingestor : mpc'[j] \in Holding => j # k /\ mpc'[j] = mpc[j] /\ run'[j] = run[j]
  BY <1>4 DEF M!Settle, Holding
<1>6. Newest'
  <2>1. \A e \in stored' : e.key[1] \in M!Rail /\ e.at \in Nat /\ e.at <= quoted'[e.key[1]]
    BY <1>1, <1>2, <1>3 DEF StoredInv, Newest
  <2>2. ASSUME NEW j \in Ingestor, mpc'[j] \in Holding, run'[j].rail \notin met'
        PROVE  \A e \in stored' : e.key[1] = run'[j].rail => e.at <= run'[j].at
    <3>1. j # k /\ mpc[j] \in Holding /\ run'[j] = run[j] /\ run[j].rail \notin met  BY <1>5, <2>2
    <3>2. run[j].rail # run[k].rail  BY <1>1, <3>1 DEF StoredInv, Newest
    <3> QED  BY <1>2, <1>3, <3>1, <3>2 DEF StoredInv, Newest
  <2> QED  BY <1>5, <2>1, <2>2 DEF StoredInv, Newest
<1>7. Reported'
  <2>1. \A e \in stored' : (e.refused /\ e.key[1] # "crypto") \/ Backed(facts', met', e.key, e.at)
    <3> SUFFICES ASSUME NEW e \in stored' PROVE (e.refused /\ e.key[1] # "crypto") \/ Backed(facts', met', e.key, e.at)
      OBVIOUS
    <3>1. CASE e \in stored  BY <3>1 DEF StoredInv, Reported
    <3>2. CASE e.key \in M!Held(k) /\ e.at = run[k].at /\ e.refused = refused
      BY <1>2, <3>2
    <3> QED  BY <1>3, <3>1, <3>2
  <2>2. \A j \in Ingestor : mpc'[j] = "logging" =>
           run'[j].rail = "crypto" /\ \A key \in M!Held(j)' : Backed(facts', met', key, run'[j].at)
    <3>1. \A j \in Ingestor : mpc'[j] = "logging" => mpc[j] = "logging" /\ run'[j] = run[j]
      BY <1>5 DEF Holding
    <3>2. \A j \in Ingestor : mpc'[j] = "logging" => M!Held(j)' = M!Held(j)
      BY <3>1 DEF M!Held, M!Key
    <3> QED  BY <3>1, <3>2 DEF StoredInv, Reported
  <2> QED  BY <2>1, <2>2 DEF Reported, Backed
<1> QED  BY <1>6, <1>7 DEF StoredInv

\* The other ingests keep what they are at.
LEMMA GotoQuiet ==
    ASSUME StoredInv, OrderInv', NEW k \in Ingestor, NEW step, NEW local, M!Goto(k, step, local),
           UNCHANGED <<facts, stored, met>>, \A rail \in M!Rail : quoted'[rail] >= quoted[rail],
           step \in Holding => step # "logging" /\ mpc[k] \in Holding /\ local.rail = run[k].rail /\ local.at = run[k].at
    PROVE  StoredInv'
<1>1. mpc \in [Ingestor -> Steps] /\ DOMAIN run = Ingestor  BY AllProper DEF StoredInv
<1>2. \A j \in Ingestor : IF j = k THEN mpc'[j] = step /\ run'[j] = local ELSE mpc'[j] = mpc[j] /\ run'[j] = run[j]
  BY <1>1 DEF M!Goto
<1> QED  BY <1>2, QuietStep DEF Holding

LEMMA NextRailQuiet ==
    ASSUME StoredInv, OrderInv', NEW k \in Ingestor, NEW rail, NEW only, M!NextRail(k, rail, only),
           UNCHANGED <<facts, stored, met>>, \A each \in M!Rail : quoted'[each] >= quoted[each]
    PROVE  StoredInv'
<1>1. \E step \in {"idle", "fetching"}, local \in {run'[k]} : M!Goto(k, step, local)
  <2>1. \E step \in {"idle", "fetching"} : \E local : M!Goto(k, step, local)
    BY DEF M!NextRail
  <2>2. \A step, local : M!Goto(k, step, local) => run'[k] = local
    BY AllProper DEF StoredInv, M!Goto
  <2> QED  BY <2>1, <2>2
<1> QED  BY <1>1, GotoQuiet DEF Holding

LEMMA FetchStep ==
    ASSUME StoredInv, OrderInv', NEW k \in Ingestor, M!Fetch(k)
    PROVE  StoredInv'
<1> DEFINE rail == run[k].rail
<1>0. mpc[k] = "fetching"  BY DEF M!Fetch
<1>1. rail \in M!Rail /\ quoted' = [quoted EXCEPT ![rail] = @ + 1] /\ UNCHANGED <<facts, stored>>
  BY <1>0, AllProper DEF M!Fetch, M!dbVars, StoredInv, Proper
<1>2. \A each \in M!Rail : quoted[each] \in Nat /\ quoted'[each] = IF each = rail THEN quoted[each] + 1 ELSE quoted[each]
  BY <1>1, AllProper DEF StoredInv
<1>3. CASE M!NextRail(k, rail, run[k].only) /\ UNCHANGED met
  BY <1>1, <1>2, <1>3, NextRailQuiet
<1>4. CASE ~(M!NextRail(k, rail, run[k].only) /\ UNCHANGED met)
  <2>1. PICK quotes : /\ M!Goto(k, "dating", [run[k] EXCEPT !.quotes = quotes, !.at = quoted'[rail],
                                                           !.usd = M!USD \in DOMAIN quotes])
                      /\ met' = IF \E j \in Ingestor \ {k} : run[j].rail = rail /\ mpc[j] # "fetching"
                                THEN met \cup {rail} ELSE met
    BY <1>4 DEF M!Fetch
  <2>2. mpc \in [Ingestor -> Steps] /\ DOMAIN run = Ingestor /\ Shaped(run[k])
    BY AllProper DEF StoredInv, Proper
  <2> DEFINE local == [run[k] EXCEPT !.quotes = quotes, !.at = quoted'[rail], !.usd = M!USD \in DOMAIN quotes]
  <2>3. local.rail = rail /\ local.at = quoted'[rail]
    <3> DEFINE usd == M!USD \in DOMAIN quotes
               fetched == quoted'[rail]
    <3>1. local = [run[k] EXCEPT !.quotes = quotes, !.at = fetched, !.usd = usd]  OBVIOUS
    <3> HIDE DEF usd, fetched, local
    <3>2. local.rail = rail /\ local.at = fetched  BY <2>2, <3>1 DEF Shaped
    <3> QED  BY <3>2 DEF fetched
  <2> HIDE DEF local
  <2>4. /\ mpc'[k] = "dating" /\ run'[k] = local
        /\ \A j \in Ingestor : j # k => mpc'[j] = mpc[j] /\ run'[j] = run[j]
    BY <2>1, <2>2 DEF M!Goto, local
  <2>5. met \subseteq met' /\ (rail \notin met' => \A j \in Ingestor : mpc[j] \in Holding => run[j].rail # rail)
    BY <1>0, <2>1 DEF Holding
  <2>6. \A j \in Ingestor : run[j].at \in Nat /\ (mpc[j] \in Holding => run[j].rail \in M!Rail)
    BY DEF StoredInv, OrderInv, QuoteTypes, Holding
  <2>7. Newest'
    <3>1. \A e \in stored' : e.key[1] \in M!Rail /\ e.at \in Nat /\ e.at <= quoted'[e.key[1]]
      BY <1>1, <1>2 DEF StoredInv, Newest
    <3>2. ASSUME NEW j \in Ingestor, mpc'[j] \in Holding
          PROVE  /\ run'[j].at <= quoted'[run'[j].rail]
                 /\ run'[j].rail \notin met' =>
                      /\ \A o \in Ingestor : mpc'[o] \in Holding /\ run'[o].rail = run'[j].rail => o = j
                      /\ \A e \in stored' : e.key[1] = run'[j].rail => e.at <= run'[j].at
      <4>1. CASE j = k
        <5>1. run'[j].rail = rail /\ run'[j].at = quoted'[rail] /\ quoted'[rail] = quoted[rail] + 1
          BY <1>1, <1>2, <2>3, <2>4, <4>1
        <5>2. rail \notin met' => \A o \in Ingestor : mpc'[o] \in Holding /\ run'[o].rail = rail => o = j
          BY <2>4, <2>5, <4>1
        <5>3. \A e \in stored' : e.key[1] = rail => e.at <= quoted[rail] /\ e.at \in Nat
          BY <1>1 DEF StoredInv, Newest
        <5> QED  BY <1>1, <1>2, <5>1, <5>2, <5>3
      <4>2. CASE j # k
        <5>1. mpc[j] \in Holding /\ run'[j] = run[j]  BY <2>4, <3>2, <4>2
        <5>2. run[j].rail \notin met' => run[j].rail # rail /\ run[j].rail \notin met  BY <2>5, <5>1
        <5>3. run[j].at <= quoted'[run[j].rail]
          BY <1>2, <2>6, <5>1 DEF StoredInv, Newest
        <5> QED  BY <1>1, <2>3, <2>4, <5>1, <5>2, <5>3 DEF StoredInv, Newest
      <4> QED  BY <4>1, <4>2
    <3> QED  BY <3>1, <3>2 DEF Newest
  <2>8. \A key, since : Backed(facts, met, key, since) => Backed(facts', met', key, since)
    BY <1>1, <2>5 DEF Backed
  <2>9. \A j \in Ingestor : mpc'[j] = "logging" => mpc[j] = "logging" /\ run'[j] = run[j] /\ M!Held(j)' = M!Held(j)
    BY <2>4 DEF M!Held, M!Key
  <2>10. Reported'  BY <1>1, <2>8, <2>9 DEF StoredInv, Reported
  <2> QED  BY <2>7, <2>10 DEF StoredInv
<1> QED  BY <1>3, <1>4

LEMMA StoredStep == ASSUME StoredInv, M!Next PROVE StoredInv'
<1> USE DEF M!dbVars
<1>0. OrderInv /\ OrderInv'  BY OrderStep DEF StoredInv
<1>1. \A rail \in M!Rail : quoted[rail] \in Nat  BY <1>0, AllProper
<1>2. CASE M!Midnight \/ M!RotateSecret
  BY <1>0, <1>1, <1>2, QuietStep DEF M!Midnight, M!RotateSecret
<1>3. ASSUME NEW k \in Ingestor,
        \/ M!Begin(k) \/ M!Fetch(k) \/ M!FetchRaises(k)
        \/ M!EnsureDimDate(k) \/ M!WriteItem(k) \/ M!RefuseItem(k) \/ M!StatementRaises(k)
        \/ M!CommitWithLog(k) \/ M!LogRollsBack(k) \/ M!CommitCrypto(k) \/ M!LogCrypto(k)
        \/ M!LogError(k) \/ M!Abort(k)
      PROVE  StoredInv'
  <2>0. Shaped(run[k]) /\ (mpc[k] # "idle" => run[k].rail \in M!Rail)  BY <1>0, AllProper DEF Proper
  <2>1. CASE M!Begin(k)
    <3>1. PICK only \in BOOLEAN : M!NextRail(k, "", only)  BY <2>1 DEF M!Begin
    <3>2. UNCHANGED <<quoted, facts, stored, met>>  BY <2>1 DEF M!Begin
    <3>3. \A each \in M!Rail : quoted'[each] >= quoted[each]  BY <1>1, <3>2
    <3> QED  BY <1>0, <3>1, <3>2, <3>3, NextRailQuiet, Zenon
  <2>2. CASE M!Fetch(k)
    BY <1>0, <2>2, FetchStep
  <2>3. CASE M!FetchRaises(k)
    BY <1>0, <1>1, <2>3, GotoQuiet DEF M!FetchRaises, Holding
  <2>4. CASE M!EnsureDimDate(k)
    <3> DEFINE dated == today \notin dim_date
               local == [run[k] EXCEPT !.day = today, !.dated = dated]
    <3>1. M!Goto(k, "writing", local) /\ mpc[k] = "dating" /\ UNCHANGED <<quoted, facts, stored, met>>
      BY <2>4 DEF M!EnsureDimDate
    <3> HIDE DEF dated
    <3>2. local.rail = run[k].rail /\ local.at = run[k].at  BY <2>0 DEF Shaped
    <3> HIDE DEF local
    <3> QED  BY <1>0, <1>1, <3>1, <3>2, GotoQuiet DEF Holding
  <2>5. CASE M!WriteItem(k)
    <3> DEFINE w == <<M!NextItem(k), run[k].quotes[M!NextItem(k)]>>
               quotes == [j \in DOMAIN run[k].quotes \ {M!NextItem(k)} |-> run[k].quotes[j]]
               local == [run[k] EXCEPT !.written = @ \cup {w}, !.quotes = quotes]
    <3>1. M!Goto(k, "writing", local) /\ mpc[k] = "writing" /\ UNCHANGED <<quoted, facts, stored, met>>
      BY <2>5 DEF M!WriteItem
    <3> HIDE DEF w, quotes
    <3>2. local.rail = run[k].rail /\ local.at = run[k].at  BY <2>0 DEF Shaped
    <3> HIDE DEF local
    <3> QED  BY <1>0, <1>1, <3>1, <3>2, GotoQuiet DEF Holding
  <2>6. CASE M!RefuseItem(k)
    <3> DEFINE quotes == [j \in DOMAIN run[k].quotes \ {M!NextItem(k)} |-> run[k].quotes[j]]
               local == [run[k] EXCEPT !.quotes = quotes]
    <3>1. M!Goto(k, "writing", local) /\ mpc[k] = "writing" /\ UNCHANGED <<quoted, facts, stored, met>>
      BY <2>6 DEF M!RefuseItem
    <3> HIDE DEF quotes
    <3>2. local.rail = run[k].rail /\ local.at = run[k].at  BY <2>0 DEF Shaped
    <3> HIDE DEF local
    <3> QED  BY <1>0, <1>1, <3>1, <3>2, GotoQuiet DEF Holding
  <2>7. CASE M!StatementRaises(k)
    BY <1>0, <1>1, <2>7, GotoQuiet DEF M!StatementRaises, Holding
  <2>8. CASE M!CommitWithLog(k)
    <3>1. mpc[k] = "writing" /\ M!CommitRows(k) /\ UNCHANGED <<quoted, met>>
      BY <2>8 DEF M!CommitWithLog, M!Written
    <3>2. PICK losers \in SUBSET M!Losers(k) : M!Settle(k, losers, FALSE)
      BY <2>8 DEF M!CommitWithLog
    <3>3. /\ \A key \in M!Held(k) : Backed(facts', met', key, run[k].at)
          /\ \A e \in stored : Backed(facts, met, e.key, e.at) => Backed(facts', met', e.key, e.at)
          /\ \A j \in Ingestor : mpc[j] = "logging" => \A key \in M!Held(j) : Backed(facts', met', key, run[j].at)
      BY <3>1, RowsReplace
    <3> QED  BY <1>0, <3>1, <3>2, <3>3, SettleStep
  <2>9. CASE M!LogRollsBack(k)
    <3>1. /\ mpc[k] = "writing" /\ run[k].rail # "crypto" /\ M!Settle(k, {}, TRUE)
          /\ UNCHANGED <<quoted, met, facts>>
      BY <2>9 DEF M!LogRollsBack, M!Written
    <3>2. \A j \in Ingestor : mpc[j] = "logging" => \A key \in M!Held(j) : Backed(facts', met', key, run[j].at)
      BY <3>1 DEF StoredInv, Reported
    <3> QED  BY <1>0, <3>1, <3>2, SettleStep
  <2>10. CASE M!CommitCrypto(k)
    <3>1. /\ mpc[k] = "writing" /\ run[k].rail = "crypto" /\ M!CommitRows(k) /\ UNCHANGED <<quoted, met, stored>>
      BY <2>10 DEF M!CommitCrypto, M!Written
    <3>2. PICK losers \in SUBSET M!Losers(k) :
             /\ mpc' = [j \in Ingestor |-> IF j = k THEN "logging" ELSE IF j \in losers THEN "raised" ELSE mpc[j]]
             /\ run' = [j \in Ingestor |-> IF j \in losers THEN M!Undone(j) ELSE run[j]]
      BY <2>10 DEF M!CommitCrypto
    <3>3. k \notin losers  BY DEF M!Losers, M!Waits
    <3>4. \A j \in Ingestor : mpc'[j] \in Holding => mpc[j] \in Holding /\ run'[j] = run[j]
      BY <3>1, <3>2, <3>3 DEF Holding
    <3>5. Newest'  BY <3>1, <3>4 DEF StoredInv, Newest
    <3>6. /\ \A key \in M!Held(k) : Backed(facts', met', key, run[k].at)
          /\ \A e \in stored : Backed(facts, met, e.key, e.at) => Backed(facts', met', e.key, e.at)
          /\ \A j \in Ingestor : mpc[j] = "logging" => \A key \in M!Held(j) : Backed(facts', met', key, run[j].at)
      BY <3>1, RowsReplace
    <3>7. \A j \in Ingestor : mpc'[j] = "logging" =>
             (j = k \/ mpc[j] = "logging") /\ run'[j] = run[j] /\ M!Held(j)' = M!Held(j)
      BY <3>2, <3>3 DEF M!Held, M!Key
    <3>8. Reported'  BY <3>1, <3>6, <3>7 DEF StoredInv, Reported
    <3> QED  BY <1>0, <3>5, <3>8 DEF StoredInv
  <2>11. CASE M!LogCrypto(k)
    <3>1. mpc[k] = "logging" /\ M!Settle(k, {}, FALSE) /\ UNCHANGED <<quoted, met, facts>>
      BY <2>11 DEF M!LogCrypto
    <3>2. \A j \in Ingestor : mpc[j] = "logging" => \A key \in M!Held(j) : Backed(facts', met', key, run[j].at)
      BY <3>1 DEF StoredInv, Reported
    <3> QED  BY <1>0, <3>1, <3>2, SettleStep
  <2>12. CASE M!LogError(k)
    BY <1>0, <1>1, <2>12, NextRailQuiet DEF M!LogError
  <2>13. CASE M!Abort(k)
    BY <1>0, <1>1, <2>13, GotoQuiet DEF M!Abort, Holding
  <2> QED  BY <1>3, <2>1, <2>2, <2>3, <2>4, <2>5, <2>6, <2>7, <2>8, <2>9, <2>10, <2>11, <2>12, <2>13
<1> QED  BY <1>2, <1>3 DEF M!Next, M!Ingest

\* What an ingest counts as stored is in the table, that quote or, while two ingests of the
\* rail did not cross, a later one; but for the rows of a forex or commodity ingest whose log
\* row the gate refused (logs_write.py:147).
THEOREM ReportsHold == (M!Spec => []M!ReportedIsStored) /\ (MCSpec => []ReportedIsStored)
<1>1. M!Init => StoredInv
  <2>1. M!Init => stored = {} /\ \A k \in Ingestor : mpc[k] = "idle"  BY DEF M!Init
  <2> QED  BY <2>1, OrderInit DEF StoredInv, Newest, Reported, Holding
<1>2. ASSUME StoredInv, [M!Next]_mVars PROVE StoredInv'
  <2>1. CASE UNCHANGED mVars
    <3>1. UNCHANGED <<today, quoted, dim_date, facts, rotated, mpc, run, stored, met>>  BY <2>1 DEF mVars
    <3>2. OrderInv'  BY <1>2, OrderStays DEF StoredInv
    <3>3. Newest'  BY <1>2, <3>1 DEF StoredInv, Newest
    <3>4. \A k \in Ingestor : M!Held(k)' = M!Held(k)  BY <3>1 DEF M!Held, M!Key
    <3>5. Reported'  BY <1>2, <3>1, <3>4 DEF StoredInv, Reported
    <3> QED  BY <3>2, <3>3, <3>5 DEF StoredInv
  <2> QED  BY <1>2, <2>1, StoredStep
<1>3. StoredInv => M!ReportedIsStored
  BY DEF StoredInv, Reported, Backed, M!ReportedIsStored
<1>4. M!Spec => []M!ReportedIsStored
  <2>1. UNCHANGED M!vars <=> UNCHANGED mVars  BY DEF M!vars, M!dbVars, mVars
  <2>2. ASSUME StoredInv, [M!Next]_(M!vars) PROVE StoredInv'
    BY <1>2, <2>1, <2>2
  <2> QED  BY <1>1, <1>3, <2>2, PTL DEF M!Spec
<1>5. MCInit => (part \in MarketParts => StoredInv)  BY <1>1 DEF MCInit
<1>6. ASSUME part \in MarketParts => StoredInv, [MCNext]_allVars PROVE (part \in MarketParts => StoredInv)'
  BY <1>2, <1>6, MarketPart
<1>7. (part \in MarketParts => StoredInv) => ReportedIsStored  BY <1>3 DEF ReportedIsStored
<1>8. MCSpec => []ReportedIsStored
  BY <1>5, <1>6, <1>7, PTL DEF MCSpec, allVars
<1> QED  BY <1>4, <1>8

\* What a step of the composition is for the rotation.
LEMMA RotationPart ==
    ASSUME [MCNext]_allVars
    PROVE  part' = part /\ (part = "rotation" => [R!Next]_rVars)
BY DEF allVars, MCNext, MarketParts, UserParts

-----------------------------------------------------------------------------
(***************************************************************************)
(* The rotation of the shops.  While a shop waits, each tick that read its *)
(* present score picks shops that were not picked since; so a ticker comes *)
(* to its rounds without it once per shop at most, and to one pick more by *)
(* scores it had read before.                                              *)
(***************************************************************************)
RotationTypes ==
    /\ rClock \in Nat /\ rScore \in [Shop -> Nat] /\ rWait \in [Shop -> Nat]
    /\ rTick \in [Ticker -> {"idle", "ranked"}] /\ rRanked \in [Ticker -> [Shop -> Nat]]
    /\ \A o \in Shop : rScore[o] <= rClock /\ \A t \in Ticker : rRanked[t][o] <= rScore[o]

\* The ticks without a shop: counted per ticker (count), with the shops each
\* picked by its present score (taken), and who has picked by an older one (old).
Counted(count) == {c \in Ticker \X Nat : c[2] < count[c[1]]}

Charged(o, count, taken, old) ==
    /\ count \in [Ticker -> Nat] /\ taken \in [Ticker -> SUBSET (Shop \ {o})] /\ old \subseteq Ticker
    /\ IsFiniteSet(Counted(count)) /\ Cardinality(Counted(count)) = rWait[o]
    /\ \A t \in Ticker :
          /\ count[t] * PerTick <= Cardinality(taken[t]) + (IF t \in old THEN PerTick ELSE 0)
          /\ \A e \in taken[t] : rScore[e] > rScore[o]
          /\ rTick[t] = "ranked" /\ rRanked[t][o] = rScore[o] => \A e \in taken[t] : rRanked[t][e] > rScore[o]
          /\ rTick[t] = "ranked" /\ t \in old => rRanked[t][o] = rScore[o]
    /\ \E t \in Ticker : t \notin old /\ (rTick[t] = "ranked" => rRanked[t][o] = rScore[o])

RotationInv ==
    /\ RotationTypes
    /\ \A o \in Shop : \E count, taken, old : Charged(o, count, taken, old)

LEMMA SameFinite == ASSUME NEW S PROVE (R!IsFiniteSet(S) <=> IsFiniteSet(S)) /\ R!Cardinality(S) = Cardinality(S)
BY DEF R!IsFiniteSet, IsFiniteSet, R!Cardinality, Cardinality

LEMMA RotationAssumed ==
    /\ IsFiniteSet(Shop) /\ IsFiniteSet(Ticker) /\ Ticker # {} /\ PerTick \in Nat \ {0}
    /\ Cardinality(Shop) \in Nat /\ Cardinality(Ticker) \in Nat
<1>1. IsFiniteSet(Shop) /\ IsFiniteSet(Ticker) /\ Ticker # {} /\ PerTick \in Nat \ {0}
  BY PartsAssumption, SameFinite DEF R!RotationAssumption
<1>2. Cardinality(Shop) \in Nat  BY <1>1, FS_CardinalityType
<1>3. Cardinality(Ticker) \in Nat  BY <1>1, FS_CardinalityType
<1> QED  BY <1>1, <1>2, <1>3

\* The ticks of a ticker without a shop are fewer than the rounds, and as many with an older pick.
LEMMA RoundsBound ==
    ASSUME NEW n \in Nat, NEW d \in Nat \ {0}, NEW k \in Nat, k * d < n
    PROVE  k < (n + d - 1) \div d
<1>1. (n + d - 1) \div d \in Int /\ n + d - 1 < ((n + d - 1) \div d + 1) * d  BY SMTT(20)
<1> DEFINE rnds == (n + d - 1) \div d
<1>2. rnds \in Int /\ n + d - 1 < (rnds + 1) * d  BY <1>1
<1> HIDE DEF rnds
<1>3. (rnds + 1) * d = rnds * d + d  BY <1>2, SMTT(20)
<1>4. k * d + 1 <= n  BY SMTT(20)
<1>5. k * d < rnds * d  BY <1>2, <1>3, <1>4
<1>6. k < rnds
  <2> SUFFICES ASSUME rnds <= k PROVE FALSE  BY <1>2
  <2>1. \E e \in Nat : k = rnds + e  BY <1>2
  <2>2. PICK e \in Nat : k = rnds + e  BY <2>1
  <2>3. k * d = rnds * d + e * d  BY <2>2, <1>2, SMTT(20)
  <2>4. e * d >= 0  BY SMTT(20)
  <2> QED  BY <2>3, <2>4, <1>5, <1>2
<1> QED  BY <1>6 DEF rnds

\* What is charged fits the rounds, but for the ticker that has not picked by older scores.
LEMMA ChargedBound ==
    ASSUME RotationTypes, NEW o \in Shop, NEW count, NEW taken, NEW old, Charged(o, count, taken, old)
    PROVE  rWait[o] < R!Rounds * Cardinality(Ticker)
<1> DEFINE n == Cardinality(Shop)
<1> DEFINE rounds == (n + PerTick - 1) \div PerTick
<1>0. IsFiniteSet(Shop) /\ IsFiniteSet(Ticker) /\ PerTick \in Nat \ {0} /\ n \in Nat /\ Cardinality(Ticker) \in Nat
  BY RotationAssumed
<1>1. R!Rounds = rounds  BY SameFinite DEF R!Rounds
<1>2. \A t \in Ticker : IsFiniteSet(taken[t]) /\ Cardinality(taken[t]) \in Nat /\ Cardinality(taken[t]) < n
  <2> TAKE t \in Ticker
  <2>1. IsFiniteSet(Shop \ {o}) /\ Cardinality(Shop \ {o}) = n - 1  BY <1>0, FS_RemoveElement
  <2>2. taken[t] \in SUBSET (Shop \ {o})  BY DEF Charged
  <2>3. IsFiniteSet(taken[t]) /\ Cardinality(taken[t]) <= n - 1  BY <2>1, <2>2, FS_Subset
  <2>4. Cardinality(taken[t]) \in Nat  BY <2>3, FS_CardinalityType
  <2> QED  BY <1>0, <2>3, <2>4
<1> HIDE DEF n
<1>3. rounds \in Nat /\ 0 < rounds
  <2>1. \E t \in Ticker : TRUE  BY RotationAssumed
  <2>2. 0 < n  BY <1>0, <1>2, <2>1
  <2>3. 0 * PerTick < n  BY <1>0, <2>2
  <2>4. 0 < rounds  BY <1>0, <2>3, RoundsBound
  <2>5. rounds \in Int  BY <1>0, SMTT(20)
  <2> QED  BY <2>4, <2>5
<1>4. \A t \in Ticker : count[t] \in Nat /\ count[t] <= rounds /\ (t \notin old => count[t] < rounds)
  <2> TAKE t \in Ticker
  <2>1. count[t] \in Nat /\ count[t] * PerTick <= Cardinality(taken[t]) + (IF t \in old THEN PerTick ELSE 0)
    BY DEF Charged
  <2>2. CASE t \notin old
    <3>1. count[t] * PerTick \in Int  BY <1>0, <2>1, SMTT(20)
    <3>2. count[t] * PerTick < n  BY <1>0, <1>2, <2>1, <2>2, <3>1
    <3>3. count[t] < rounds  BY <1>0, <2>1, <3>2, RoundsBound
    <3> QED  BY <2>1, <3>3, <1>3
  <2>3. CASE t \in old /\ count[t] = 0  BY <2>3, <1>3
  <2>4. CASE t \in old /\ count[t] # 0
    <3>1. count[t] - 1 \in Nat  BY <2>1, <2>4
    <3>2. count[t] * PerTick = (count[t] - 1) * PerTick + PerTick  BY <1>0, <2>1, SMTT(20)
    <3>3. (count[t] - 1) * PerTick \in Int  BY <1>0, <2>1, SMTT(20)
    <3>4. (count[t] - 1) * PerTick < n  BY <1>0, <1>2, <2>1, <2>4, <3>2, <3>3
    <3>5. count[t] - 1 < rounds  BY <1>0, <3>1, <3>4, RoundsBound
    <3> QED  BY <2>1, <2>4, <3>5, <1>3
  <2> QED  BY <2>2, <2>3, <2>4
<1> HIDE DEF rounds
<1>5. PICK t0 \in Ticker : t0 \notin old  BY DEF Charged
<1> DEFINE all == Ticker \X (0..rounds - 1)
<1> DEFINE spared == <<t0, rounds - 1>>
<1>6. IsFiniteSet(all) /\ Cardinality(all) = Cardinality(Ticker) * rounds
  <2>1. IsFiniteSet(0..rounds - 1) /\ Cardinality(0..rounds - 1) = rounds
    <3>1. 0 \in Int /\ rounds - 1 \in Int /\ ~(0 > rounds - 1) /\ rounds - 1 - 0 + 1 = rounds  BY <1>3
    <3> QED  BY <3>1, FS_Interval
  <2> QED  BY <1>0, <2>1, FS_Product
<1>7. Counted(count) \subseteq all \ {spared}
  <2> SUFFICES ASSUME NEW c \in Counted(count) PROVE c \in all /\ c # spared  OBVIOUS
  <2>1. c \in Ticker \X Nat /\ c[2] < count[c[1]]  BY DEF Counted
  <2>2. PICK t \in Ticker, k \in Nat : c = <<t, k>>  BY <2>1
  <2>3. k < count[t]  BY <2>1, <2>2
  <2>4. k \in 0..rounds - 1  BY <1>3, <1>4, <2>3
  <2>5. t \notin old => k # rounds - 1  BY <1>3, <1>4, <2>3
  <2> QED  BY <1>5, <2>2, <2>4, <2>5
<1>8. spared \in all  BY <1>3
<1>9. IsFiniteSet(all \ {spared}) /\ Cardinality(all \ {spared}) = Cardinality(all) - 1
  BY <1>6, <1>8, FS_RemoveElement
<1>10. Cardinality(Counted(count)) <= Cardinality(all \ {spared})  BY <1>7, <1>9, FS_Subset
<1>11. rWait[o] \in Nat /\ rWait[o] = Cardinality(Counted(count))  BY DEF Charged, RotationTypes
<1>12. Cardinality(Ticker) * rounds = rounds * Cardinality(Ticker)  BY <1>0, <1>3, SMTT(20)
<1>13. rounds * Cardinality(Ticker) \in Int  BY <1>0, <1>3, SMTT(20)
<1> HIDE DEF all, spared
<1>14. rWait[o] < rounds * Cardinality(Ticker)  BY <1>6, <1>9, <1>10, <1>11, <1>12, <1>13
<1> QED  BY <1>1, <1>14

\* One more tick of t without the shop.
LEMMA CountOneMore ==
    ASSUME NEW count \in [Ticker -> Nat], NEW t \in Ticker, IsFiniteSet(Counted(count))
    PROVE  LET more == [count EXCEPT ![t] = @ + 1]
           IN  /\ more \in [Ticker -> Nat] /\ IsFiniteSet(Counted(more))
               /\ Cardinality(Counted(more)) = Cardinality(Counted(count)) + 1
<1> DEFINE more == [count EXCEPT ![t] = @ + 1]
<1> DEFINE c == <<t, count[t]>>
<1>1. more \in [Ticker -> Nat]  OBVIOUS
<1>2. Counted(more) = Counted(count) \cup {c}
  <2>1. ASSUME NEW e, e \in Counted(more) PROVE e \in Counted(count) \cup {c}
    <3>1. PICK f \in Ticker, k \in Nat : e = <<f, k>> /\ k < more[f]  BY <2>1 DEF Counted
    <3>2. CASE f = t
      <4>1. k < count[t] \/ k = count[t]  BY <3>1, <3>2
      <4> QED  BY <3>1, <3>2, <4>1 DEF Counted
    <3>3. CASE f # t  BY <3>1, <3>3 DEF Counted
    <3> QED  BY <3>2, <3>3
  <2>2. ASSUME NEW e, e \in Counted(count) \cup {c} PROVE e \in Counted(more)
    <3>1. CASE e = c
      <4>1. count[t] < more[t]  OBVIOUS
      <4> QED  BY <3>1, <4>1 DEF Counted
    <3>2. CASE e \in Counted(count)
      <4>1. PICK f \in Ticker, k \in Nat : e = <<f, k>> /\ k < count[f]  BY <3>2 DEF Counted
      <4>2. k < more[f]
        <5>1. more[f] = IF f = t THEN count[t] + 1 ELSE count[f]  OBVIOUS
        <5> QED  BY <4>1, <5>1
      <4> HIDE DEF more
      <4> QED  BY <4>1, <4>2 DEF Counted
    <3> QED  BY <2>2, <3>1, <3>2
  <2> QED  BY <2>1, <2>2
<1>3. c \notin Counted(count)  BY DEF Counted
<1>4. IsFiniteSet(Counted(count) \cup {c}) /\ Cardinality(Counted(count) \cup {c}) = Cardinality(Counted(count)) + 1
  BY <1>3, FS_AddElement
<1> QED  BY <1>1, <1>2, <1>4

\* A tick reads the scores: it knows the present one of every shop.
LEMMA ReadKeepsCharge ==
    ASSUME RotationTypes, NEW t \in Ticker, R!TickRead(t), NEW o \in Shop,
           NEW count, NEW taken, NEW old, Charged(o, count, taken, old)
    PROVE  Charged(o, count, taken, old)'
<1> QED  BY DEF Charged, RotationTypes, R!TickRead

LEMMA DeathKeepsCharge ==
    ASSUME RotationTypes, NEW t \in Ticker, R!TickDies(t), NEW o \in Shop,
           NEW count, NEW taken, NEW old, Charged(o, count, taken, old)
    PROVE  Charged(o, count, taken, old)'
<1> QED  BY DEF Charged, RotationTypes, R!TickDies

\* A shop that is picked starts anew.
LEMMA PickClears ==
    ASSUME RotationTypes, NEW t \in Ticker, rTick[t] = "ranked", NEW picked \in SUBSET Shop,
           NEW o \in picked,
           rTick' = [rTick EXCEPT ![t] = "idle"], rRanked' = rRanked,
           rWait' = [e \in Shop |-> IF e \in picked THEN 0 ELSE rWait[e] + 1]
    PROVE  Charged(o, [f \in Ticker |-> 0], [f \in Ticker |-> {}], {})'
<1> DEFINE none == [f \in Ticker |-> 0]
<1>1. Counted(none) = {}
  <2> SUFFICES ASSUME NEW c \in Counted(none) PROVE FALSE  OBVIOUS
  <2>1. c[1] \in Ticker /\ c[2] \in Nat /\ c[2] < none[c[1]]  BY DEF Counted
  <2>2. none[c[1]] = 0  BY <2>1
  <2> HIDE DEF none
  <2> QED  BY <2>1, <2>2
<1>2. IsFiniteSet(Counted(none)) /\ Cardinality(Counted(none)) = 0  BY <1>1, FS_EmptySet
<1>3. \A f \in Ticker : none[f] = 0 /\ 0 * PerTick = 0 /\ Cardinality({}) = 0
  BY FS_EmptySet, RotationAssumed
<1>4. none \in [Ticker -> Nat]  OBVIOUS
<1>5. rWait'[o] = 0 /\ rTick'[t] = "idle"  BY DEF RotationTypes
<1> HIDE DEF none
<1>6. \A f \in Ticker : none[f] * PerTick <= Cardinality({}) + 0  BY <1>3
<1>7. Charged(o, none, [f \in Ticker |-> {}], {})'
  BY <1>2, <1>4, <1>5, <1>6 DEF Charged, Counted
<1> QED  BY <1>7 DEF none

\* Every shop is picked when they are no more than a tick has.
LEMMA PicksFull ==
    ASSUME NEW picked \in SUBSET Shop, Cardinality(picked) = R!Picks, NEW o \in Shop \ picked
    PROVE  IsFiniteSet(picked) /\ Cardinality(picked) = PerTick
<1>1. IsFiniteSet(picked) /\ (Cardinality(picked) = Cardinality(Shop) => picked = Shop)
  BY RotationAssumed, FS_Subset
<1> QED  BY <1>1, SameFinite DEF R!Picks

\* A shop that is left out is charged one tick more, of the ticker's round or of its old scores.
LEMMA PickCharges ==
    ASSUME RotationTypes, NEW t \in Ticker, rTick[t] = "ranked", NEW picked \in SUBSET Shop,
           NEW o \in Shop \ picked, IsFiniteSet(picked), Cardinality(picked) = PerTick,
           R!Stalest(rRanked[t], picked), rClock' = rClock + 1,
           rScore' = [e \in Shop |-> IF e \in picked THEN rClock' ELSE rScore[e]],
           rWait' = [e \in Shop |-> IF e \in picked THEN 0 ELSE rWait[e] + 1],
           rTick' = [rTick EXCEPT ![t] = "idle"], rRanked' = rRanked,
           NEW count, NEW taken, NEW old, Charged(o, count, taken, old)
    PROVE  \E more, all, olds : Charged(o, more, all, olds)'
<1> DEFINE more == [count EXCEPT ![t] = @ + 1]
<1>0. PerTick \in Nat \ {0} /\ IsFiniteSet(Shop)  BY RotationAssumed
<1>1. more \in [Ticker -> Nat] /\ IsFiniteSet(Counted(more))
      /\ Cardinality(Counted(more)) = Cardinality(Counted(count)) + 1
  BY CountOneMore DEF Charged
<1>2. rScore'[o] = rScore[o] /\ rWait'[o] = rWait[o] + 1 /\ Cardinality(Counted(more)) = rWait'[o]
  BY <1>1 DEF Charged, RotationTypes
<1>3. \A e \in picked : rScore'[e] > rScore[o]  BY DEF RotationTypes
<1>4. \A f \in Ticker : \A e \in taken[f] : rScore'[e] > rScore[o]
  BY <1>3 DEF Charged, RotationTypes
<1>5. \A f \in Ticker : taken[f] \in SUBSET (Shop \ {o}) /\ Cardinality(taken[f]) \in Nat /\ IsFiniteSet(taken[f])
  <2> TAKE f \in Ticker
  <2>1. taken[f] \in SUBSET (Shop \ {o})  BY DEF Charged
  <2>2. IsFiniteSet(taken[f])  BY <1>0, <2>1, FS_Subset
  <2> QED  BY <2>1, <2>2, FS_CardinalityType
<1>6. more[t] = count[t] + 1 /\ (\A f \in Ticker \ {t} : more[f] = count[f]) /\ \A f \in Ticker : count[f] \in Nat
  BY DEF Charged
<1>7. more[t] * PerTick = count[t] * PerTick + PerTick /\ count[t] * PerTick \in Int
  BY <1>0, <1>6, SMTT(20)
<1>8. rTick'[t] = "idle" /\ \A f \in Ticker : f # t => rTick'[f] = rTick[f]  BY DEF RotationTypes
<1> HIDE DEF more
<1>9. CASE rRanked[t][o] = rScore[o]
  <2> DEFINE all == [taken EXCEPT ![t] = @ \cup picked]
  <2>1. \A e \in picked : e \notin taken[t]
    <3> TAKE e \in picked
    <3>1. rRanked[t][e] <= rScore[o]  BY <1>9 DEF R!Stalest
    <3>2. rRanked[t][e] \in Nat /\ rScore[o] \in Nat  BY DEF RotationTypes
    <3>3. e \in taken[t] => rRanked[t][e] > rScore[o]  BY <1>9 DEF Charged
    <3> QED  BY <3>1, <3>2, <3>3
  <2>2. Cardinality(taken[t] \cup picked) = Cardinality(taken[t]) + PerTick
    <3>1. taken[t] \cap picked = {}  BY <2>1
    <3>2. Cardinality(taken[t] \cup picked) = Cardinality(taken[t]) + Cardinality(picked) - Cardinality(taken[t] \cap picked)
      BY <1>5, FS_Union
    <3>3. Cardinality({}) = 0  BY FS_EmptySet
    <3>4. Cardinality(taken[t]) \in Nat  BY <1>5
    <3>5. Cardinality(taken[t] \cup picked) = Cardinality(taken[t]) + PerTick - 0  BY <3>1, <3>2, <3>3
    <3> QED  BY <1>0, <3>4, <3>5
  <2>3. all \in [Ticker -> SUBSET (Shop \ {o})]  BY <1>5 DEF Charged
  <2>4. all[t] = taken[t] \cup picked /\ \A f \in Ticker \ {t} : all[f] = taken[f]  BY DEF Charged
  <2> HIDE DEF all
  <2>5. \A f \in Ticker : more[f] * PerTick <= Cardinality(all[f]) + (IF f \in old THEN PerTick ELSE 0)
    <3> TAKE f \in Ticker
    <3>1. count[f] * PerTick <= Cardinality(taken[f]) + (IF f \in old THEN PerTick ELSE 0)  BY DEF Charged
    <3>2. CASE f = t
      <4>1. Cardinality(taken[t]) \in Nat  BY <1>5
      <4>2. count[t] * PerTick <= Cardinality(taken[t]) + (IF t \in old THEN PerTick ELSE 0)  BY <3>1, <3>2
      <4>3. Cardinality(all[t]) = Cardinality(taken[t]) + PerTick  BY <2>2, <2>4
      <4>4. more[t] * PerTick <= Cardinality(all[t]) + (IF t \in old THEN PerTick ELSE 0)
        <5> HIDE <1>5
        <5> QED  BY <1>0, <1>7, <4>1, <4>2, <4>3
      <4> QED  BY <3>2, <4>4
    <3>3. CASE f # t  BY <1>6, <2>4, <3>1, <3>3
    <3> QED  BY <3>2, <3>3
  <2>6. \A f \in Ticker : \A e \in all[f] : rScore'[e] > rScore'[o]  BY <1>2, <1>3, <1>4, <2>4
  <2>7. \A f \in Ticker : rTick'[f] = "ranked" /\ rRanked[f][o] = rScore[o] => \A e \in all[f] : rRanked[f][e] > rScore[o]
    BY <1>8, <2>4 DEF Charged
  <2>8. \A f \in Ticker : rTick'[f] = "ranked" /\ f \in old => rRanked[f][o] = rScore[o]  BY <1>8 DEF Charged
  <2>9. \E f \in Ticker : f \notin old /\ (rTick'[f] = "ranked" => rRanked[f][o] = rScore[o])
    BY <1>8 DEF Charged
  <2>10. Charged(o, more, all, old)'
    BY <1>1, <1>2, <2>3, <2>5, <2>6, <2>7, <2>8, <2>9 DEF Charged, Counted
  <2> QED  BY <2>10
<1>10. CASE rRanked[t][o] # rScore[o]
  <2> DEFINE olds == old \cup {t}
  <2>1. t \notin old  BY <1>10 DEF Charged
  <2>5. \A f \in Ticker : more[f] * PerTick <= Cardinality(taken[f]) + (IF f \in olds THEN PerTick ELSE 0)
    <3> TAKE f \in Ticker
    <3>1. count[f] * PerTick <= Cardinality(taken[f]) + (IF f \in old THEN PerTick ELSE 0)  BY DEF Charged
    <3>2. CASE f = t  BY <1>0, <1>5, <1>7, <2>1, <3>1, <3>2
    <3>3. CASE f # t  BY <1>6, <3>1, <3>3
    <3> QED  BY <3>2, <3>3
  <2>6. \A f \in Ticker : \A e \in taken[f] : rScore'[e] > rScore'[o]  BY <1>2, <1>4
  <2>7. \A f \in Ticker : rTick'[f] = "ranked" /\ rRanked[f][o] = rScore[o] => \A e \in taken[f] : rRanked[f][e] > rScore[o]
    BY <1>8 DEF Charged
  <2>8. \A f \in Ticker : rTick'[f] = "ranked" /\ f \in olds => rRanked[f][o] = rScore[o]  BY <1>8 DEF Charged
  <2>9. \E f \in Ticker : f \notin olds /\ (rTick'[f] = "ranked" => rRanked[f][o] = rScore[o])
    <3>1. PICK f \in Ticker : f \notin old /\ (rTick[f] = "ranked" => rRanked[f][o] = rScore[o])  BY DEF Charged
    <3>2. f # t  BY <1>10, <3>1
    <3> QED  BY <1>8, <3>1, <3>2
  <2>10. olds \subseteq Ticker /\ taken \in [Ticker -> SUBSET (Shop \ {o})]  BY DEF Charged
  <2> HIDE DEF olds
  <2>11. Charged(o, more, taken, olds)'
    BY <1>1, <1>2, <2>5, <2>6, <2>7, <2>8, <2>9, <2>10 DEF Charged, Counted
  <2> QED  BY <2>11
<1> QED  BY <1>9, <1>10

LEMMA RotationInit == R!Init => RotationInv
<1> SUFFICES ASSUME R!Init PROVE RotationInv  OBVIOUS
<1>1. RotationTypes  BY DEF R!Init, RotationTypes
<1> DEFINE none == [f \in Ticker |-> 0]
<1>2. \A f \in Ticker : none[f] = 0  OBVIOUS
<1>3. Counted(none) = {}
  <2> SUFFICES ASSUME NEW c \in Counted(none) PROVE FALSE  OBVIOUS
  <2>1. c[1] \in Ticker /\ c[2] \in Nat /\ c[2] < none[c[1]]  BY DEF Counted
  <2>2. none[c[1]] = 0  BY <2>1
  <2> HIDE DEF none
  <2> QED  BY <2>1, <2>2
<1>4. IsFiniteSet(Counted(none)) /\ Cardinality(Counted(none)) = 0  BY <1>3, FS_EmptySet
<1>5. \A f \in Ticker : none[f] * PerTick <= Cardinality({}) + 0
  BY <1>2, FS_EmptySet, RotationAssumed
<1>6. none \in [Ticker -> Nat]  OBVIOUS
<1>7. (\E t \in Ticker : TRUE) /\ (\A t \in Ticker : rTick[t] = "idle") /\ \A o \in Shop : rWait[o] = 0
  BY RotationAssumed DEF R!Init
<1> HIDE DEF none
<1>8. \A o \in Shop : Charged(o, none, [f \in Ticker |-> {}], {})
  BY <1>4, <1>5, <1>6, <1>7 DEF Charged
<1> QED  BY <1>1, <1>8 DEF RotationInv

LEMMA RotationStep == ASSUME RotationInv, [R!Next]_rVars PROVE RotationInv'
<1>0. RotationTypes  BY DEF RotationInv
<1>1. CASE UNCHANGED rVars
  <2>1. RotationTypes'  BY <1>0, <1>1 DEF RotationTypes, rVars
  <2>2. \A o \in Shop : \A count, taken, old : Charged(o, count, taken, old) => Charged(o, count, taken, old)'
    BY <1>1 DEF Charged, Counted, rVars
  <2> QED  BY <2>1, <2>2 DEF RotationInv
<1>2. ASSUME NEW t \in Ticker, R!TickRead(t) PROVE RotationInv'
  <2>1. RotationTypes'  BY <1>0, <1>2 DEF RotationTypes, R!TickRead
  <2> QED  BY <1>0, <1>2, <2>1, ReadKeepsCharge DEF RotationInv
<1>3. ASSUME NEW t \in Ticker, R!TickDies(t) PROVE RotationInv'
  <2>1. RotationTypes'  BY <1>0, <1>3 DEF RotationTypes, R!TickDies
  <2> QED  BY <1>0, <1>3, <2>1, DeathKeepsCharge DEF RotationInv
<1>4. ASSUME NEW t \in Ticker, R!TickPick(t) PROVE RotationInv'
  <2>1. PICK picked \in SUBSET Shop :
           /\ Cardinality(picked) = R!Picks /\ R!Stalest(rRanked[t], picked)
           /\ rScore' = [e \in Shop |-> IF e \in picked THEN rClock' ELSE rScore[e]]
           /\ rWait' = [e \in Shop |-> IF e \in picked THEN 0 ELSE rWait[e] + 1]
    BY <1>4, SameFinite DEF R!TickPick
  <2>2. rTick[t] = "ranked" /\ rClock' = rClock + 1 /\ rTick' = [rTick EXCEPT ![t] = "idle"] /\ rRanked' = rRanked
    BY <1>4 DEF R!TickPick
  <2>3. RotationTypes'  BY <1>0, <2>1, <2>2 DEF RotationTypes
  <2>4. ASSUME NEW o \in picked PROVE \E count, taken, old : Charged(o, count, taken, old)'
    BY <1>0, <2>1, <2>2, PickClears
  <2>5. ASSUME NEW o \in Shop \ picked PROVE \E count, taken, old : Charged(o, count, taken, old)'
    <3>1. IsFiniteSet(picked) /\ Cardinality(picked) = PerTick  BY <2>1, PicksFull
    <3>2. PICK count, taken, old : Charged(o, count, taken, old)  BY DEF RotationInv
    <3> QED  BY <1>0, <2>1, <2>2, <3>1, <3>2, PickCharges
  <2> QED  BY <2>3, <2>4, <2>5 DEF RotationInv
<1> QED  BY <1>1, <1>2, <1>3, <1>4 DEF R!Next

\* No shop waits longer than one round of all shops for every ticker that runs beside another
\* (harvest_tasks.py:411-424), however many shops there are and whatever scores a late or
\* redelivered tick picks by.
THEOREM NoShopWaits == (R!Spec => []R!NoShopStarves) /\ (MCSpec => [](part = "rotation" => R!NoShopStarves))
<1>1. RotationInv => R!NoShopStarves
  <2> SUFFICES ASSUME RotationInv, NEW o \in Shop PROVE rWait[o] < R!Rounds * Cardinality(Ticker)
    BY SameFinite DEF R!NoShopStarves
  <2> QED  BY ChargedBound DEF RotationInv
<1>2. R!Spec => []R!NoShopStarves
  <2>1. UNCHANGED R!vars <=> UNCHANGED rVars  BY DEF R!vars, rVars
  <2>2. ASSUME RotationInv, [R!Next]_(R!vars) PROVE RotationInv'
    BY <2>1, <2>2, RotationStep
  <2> QED  BY <1>1, <2>2, RotationInit, PTL DEF R!Spec
<1>3. MCInit => (part = "rotation" => RotationInv)  BY RotationInit DEF MCInit
<1>4. ASSUME part = "rotation" => RotationInv, [MCNext]_allVars PROVE (part = "rotation" => RotationInv)'
  BY <1>4, RotationStep, RotationPart
<1>5. MCSpec => [](part = "rotation" => R!NoShopStarves)
  BY <1>1, <1>3, <1>4, PTL DEF MCSpec, allVars
<1> QED  BY <1>2, <1>5

LEMMA CursorPart ==
    ASSUME [MCNext]_allVars
    PROVE  part' = part /\ (part = "harvest" => [C!Next]_cVars)
BY DEF allVars, MCNext, MarketParts, UserParts

-----------------------------------------------------------------------------
(***************************************************************************)
(* The cursor of the list pages.  A place in a category is the end of a    *)
(* chain of "next" links whose other pages were asked for in this pass; so *)
(* a walk that stops following them has closed a circle, has come to the   *)
(* last page, or has as many as it may have.                               *)
(***************************************************************************)
CursorTypes ==
    /\ cCats \in CategoryLists /\ cVersion \in 0..MaxLists /\ cCursor \in C!Place
    /\ cPc \in [Walker -> {"idle", "load", "probe", "walk", "save"}]
    /\ cMine \in [Walker -> C!Place] /\ cVisited \in [Walker -> SUBSET C!ListPage]
    /\ cList \in [Walker -> [cats : CategoryLists \cup {<<>>}, version : 0..MaxLists]]

\* Which list a run reads, and of which one its place is.
ListsRead ==
    /\ cCursor.from <= cVersion \/ cCursor.from = C!NoVersion
    /\ \A w \in Walker :
          /\ cPc[w] # "idle" =>
                /\ cList[w].cats # <<>> /\ cList[w].version <= cVersion
                /\ cList[w].version = cVersion => cList[w].cats = cCats
          /\ cPc[w] = "load" => cVisited[w] = {}
          /\ cPc[w] = "probe" => cVisited[w] = {}
          /\ cPc[w] \in {"probe", "walk", "save"} => cMine[w].from \in {cList[w].version, C!NoVersion}

\* Of the pages asked for or given up (all), as of a version of the list.
Covered(all, version, pass, first) ==
    \A page \in {first} \cup C!Tails(MaxPages - 1, first) : <<version, pass, page>> \in all

PageAt(list, c) == IF c.next # NoPage THEN c.next ELSE list[c.cat + 1]

\* seen: the pages the walk remembers of the category.
GoodPlace(all, version, list, c, seen) ==
    /\ \A k \in 1..Len(list) : k <= c.cat => Covered(all, version, c.pass, list[k])
    /\ c.cat < Len(list) =>
          \E chain \in C!Chains(c.page, list[c.cat + 1]) :
              /\ chain[c.page] = PageAt(list, c)
              /\ \A i \in 0..c.page - 1 : <<version, c.pass, chain[i]>> \in all
              /\ seen \subseteq {chain[i] : i \in 0..c.page - 1}

CursorInv ==
    /\ CursorTypes /\ ListsRead
    /\ cCursor.from = cVersion => GoodPlace(cAsked \cup cBehind, cVersion, cCats, cCursor, {})
    /\ \A w \in Walker :
          /\ cPc[w] \in {"probe", "walk"} /\ cMine[w].from = cVersion =>
                GoodPlace(cAsked \cup cBehind, cVersion, cCats, cMine[w], cVisited[w])
          /\ cPc[w] = "save" /\ cMine[w].from = cVersion =>
                GoodPlace(cAsked \cup cBehind, cVersion, cCats, cMine[w], {})

LEMMA LinksAssumed ==
    /\ NoPage \notin C!ListPage /\ \A page \in C!ListPage : NextLinks[page] \in C!ListPage \cup {NoPage}
    /\ \A l \in CategoryLists : l \in Seq(C!ListPage)
    /\ MaxPages \in Nat \ {0} /\ MaxLists \in Nat
BY PartsAssumption DEF C!LinksAssumption

LEMMA ChainFacts ==
    ASSUME NEW n \in Nat, NEW first, NEW chain \in C!Chains(n, first)
    PROVE  /\ chain \in [0..n -> C!ListPage] /\ chain[0] = first
           /\ \A i \in 0..n : i # 0 => i - 1 \in 0..n /\ chain[i] = NextLinks[chain[i - 1]]
<1>1. chain \in [0..n -> C!ListPage] /\ chain[0] = first /\ \A i \in 1..n : chain[i] = NextLinks[chain[i - 1]]
  BY DEF C!Chains
<1> QED  BY <1>1

\* There is one chain from a page.
LEMMA ChainsAgree ==
    ASSUME NEW n \in Nat, NEW m \in Nat, NEW first, NEW c \in C!Chains(n, first), NEW d \in C!Chains(m, first),
           NEW i \in 0..n, i \in 0..m
    PROVE  c[i] = d[i]
<1> DEFINE A == {j \in Nat : j <= n /\ j <= m /\ c[j] # d[j]}
<1> SUFFICES ASSUME c[i] # d[i] PROVE FALSE  OBVIOUS
<1>1. i \in A  OBVIOUS
<1>2. A \in SUBSET Nat /\ A # {}  BY <1>1
<1> HIDE DEF A
<1>3. PICK j \in A : \A k \in A : j <= k  BY <1>2, LeastOf
<1>4. j \in Nat /\ j <= n /\ j <= m /\ c[j] # d[j]  BY DEF A
<1>5. c[0] = first /\ d[0] = first  BY ChainFacts
<1>6. j # 0  BY <1>4, <1>5
<1>7. j - 1 \in Nat /\ ~(j <= j - 1) /\ j - 1 <= n /\ j - 1 <= m  BY <1>4, <1>6
<1>8. j - 1 \notin A  BY <1>3, <1>7
<1>9. c[j - 1] = d[j - 1]  BY <1>7, <1>8 DEF A
<1>10. j \in 0..n /\ j \in 0..m  BY <1>4
<1>11. c[j] = NextLinks[c[j - 1]] /\ d[j] = NextLinks[d[j - 1]]  BY <1>6, <1>10, ChainFacts
<1> QED  BY <1>4, <1>9, <1>11

\* A chain does not leave a set of pages that no link leaves.
LEMMA ChainStays ==
    ASSUME NEW m \in Nat, NEW first, NEW d \in C!Chains(m, first), NEW X, first \in X,
           \A page \in X : NextLinks[page] \in X \/ NextLinks[page] = NoPage,
           NEW i \in 0..m
    PROVE  d[i] \in X
<1> DEFINE A == {j \in Nat : j <= m /\ d[j] \notin X}
<1> SUFFICES ASSUME d[i] \notin X PROVE FALSE  OBVIOUS
<1>1. i \in A  OBVIOUS
<1>2. A \in SUBSET Nat /\ A # {}  BY <1>1
<1> HIDE DEF A
<1>3. PICK j \in A : \A k \in A : j <= k  BY <1>2, LeastOf
<1>4. j \in Nat /\ j <= m /\ d[j] \notin X  BY DEF A
<1>5. d[0] = first  BY ChainFacts
<1>6. j # 0  BY <1>4, <1>5
<1>7. j - 1 \in Nat /\ ~(j <= j - 1) /\ j - 1 <= m  BY <1>4, <1>6
<1>8. j - 1 \notin A  BY <1>3, <1>7
<1>9. d[j - 1] \in X  BY <1>7, <1>8 DEF A
<1>10. j \in 0..m  BY <1>4
<1>11. d[j] = NextLinks[d[j - 1]] /\ d \in [0..m -> C!ListPage]  BY <1>6, <1>10, ChainFacts
<1>12. d[j] \in C!ListPage  BY <1>10, <1>11
<1>13. d[j] # NoPage  BY <1>12, LinksAssumed
<1> QED  BY <1>4, <1>9, <1>11, <1>13

LEMMA ChainGrows ==
    ASSUME NEW n \in Nat, NEW first, NEW c \in C!Chains(n, first), NEW next \in C!ListPage, next = NextLinks[c[n]]
    PROVE  LET longer == [i \in 0..n + 1 |-> IF i <= n THEN c[i] ELSE next]
           IN  /\ longer \in C!Chains(n + 1, first) /\ longer[n + 1] = next
               /\ \A i \in 0..n : longer[i] = c[i]
<1> DEFINE longer == [i \in 0..n + 1 |-> IF i <= n THEN c[i] ELSE next]
<1>1. c \in [0..n -> C!ListPage] /\ c[0] = first /\ \A i \in 0..n : i # 0 => c[i] = NextLinks[c[i - 1]]
  BY ChainFacts
<1>2. longer \in [0..n + 1 -> C!ListPage]  BY <1>1
<1>3. longer[n + 1] = next /\ \A i \in 0..n : longer[i] = c[i]  OBVIOUS
<1>4. longer[0] = first  BY <1>1
<1>5. ASSUME NEW i \in 1..n + 1 PROVE longer[i] = NextLinks[longer[i - 1]]
  <2>1. CASE i = n + 1
    <3>1. i - 1 = n /\ n \in 0..n  BY <2>1
    <3> QED  BY <1>3, <2>1, <3>1
  <2>2. CASE i # n + 1
    <3>1. i \in 0..n /\ i # 0 /\ i - 1 \in 0..n  BY <2>2
    <3> QED  BY <1>1, <1>3, <3>1
  <2> QED  BY <2>1, <2>2
<1> HIDE DEF longer
<1>6. longer \in C!Chains(n + 1, first)  BY <1>2, <1>4, <1>5 DEF C!Chains
<1> QED  BY <1>3, <1>6 DEF longer

\* What follows on a chain is behind.
LEMMA ChainTail ==
    ASSUME NEW m \in Nat, NEW first, NEW d \in C!Chains(m, first), NEW k \in 0..m, NEW n \in Nat,
           k < m, m - k <= n
    PROVE  d[m] \in C!Tails(n, d[k])
<1> DEFINE l == m - k
<1> DEFINE rest == [i \in 0..l |-> d[i + k]]
<1>1. d \in [0..m -> C!ListPage] /\ \A i \in 0..m : i # 0 => d[i] = NextLinks[d[i - 1]]  BY ChainFacts
<1>2. l \in 1..n /\ l \in Nat /\ l + k = m  OBVIOUS
<1>3. \A i \in 0..l : i + k \in 0..m  BY <1>2
<1>4. rest \in [0..l -> C!ListPage] /\ rest[0] = d[k] /\ rest[l] = d[m]  BY <1>1, <1>2, <1>3
<1>5. ASSUME NEW i \in 1..l PROVE rest[i] = NextLinks[rest[i - 1]]
  <2>1. i + k \in 0..m /\ i + k # 0 /\ (i + k) - 1 = (i - 1) + k /\ i \in 0..l /\ i - 1 \in 0..l  BY <1>2
  <2> QED  BY <1>1, <2>1
<1> HIDE DEF rest, l
<1>6. rest \in C!Chains(l, d[k])  BY <1>4, <1>5 DEF C!Chains
<1> QED  BY <1>2, <1>4, <1>6 DEF C!Tails

LEMMA TailChain ==
    ASSUME NEW n \in Nat, NEW first, NEW page \in C!Tails(n, first)
    PROVE  \E m \in 1..n : \E d \in C!Chains(m, first) : d[m] = page
BY DEF C!Tails

\* A category that is left behind a page with offers has been asked for as far as it goes.
LEMMA HarvestedCovers ==
    ASSUME NEW n \in 0..MaxPages - 1, NEW first \in C!ListPage, NEW chain \in C!Chains(n, first), NEW A,
           \A i \in 0..n : chain[i] \in A,
           \/ NextLinks[chain[n]] = NoPage
           \/ NextLinks[chain[n]] \in {chain[i] : i \in 0..n}
           \/ n + 1 >= MaxPages
    PROVE  \A page \in {first} \cup C!Tails(MaxPages - 1, first) : page \in A
<1>0. n \in Nat /\ MaxPages \in Nat \ {0} /\ MaxPages - 1 \in Nat  BY LinksAssumed
<1>1. chain[0] = first /\ 0 \in 0..n /\ n \in 0..n  BY <1>0, ChainFacts
<1>2. ASSUME NEW page \in C!Tails(MaxPages - 1, first) PROVE page \in A
  <2>1. PICK m \in 1..MaxPages - 1 : \E d \in C!Chains(m, first) : d[m] = page  BY <1>0, <1>2, TailChain
  <2>2. PICK d \in C!Chains(m, first) : d[m] = page  BY <2>1
  <2>3. m \in Nat /\ m \in 0..m /\ m <= MaxPages - 1  BY <1>0
  <2>4. CASE n + 1 >= MaxPages
    <3>1. m \in 0..n  BY <1>0, <2>3, <2>4
    <3>2. chain[m] = d[m]  BY <1>0, <2>3, <3>1, ChainsAgree
    <3> QED  BY <2>2, <3>1, <3>2
  <2>5. CASE NextLinks[chain[n]] = NoPage \/ NextLinks[chain[n]] \in {chain[i] : i \in 0..n}
    <3> DEFINE X == {chain[i] : i \in 0..n}
    <3>1. first \in X  BY <1>1
    <3>2. ASSUME NEW i \in 0..n PROVE NextLinks[chain[i]] \in X \/ NextLinks[chain[i]] = NoPage
      <4>1. CASE i = n  BY <2>5, <4>1
      <4>2. CASE i # n
        <5>1. i + 1 \in 0..n /\ i + 1 # 0 /\ (i + 1) - 1 = i  BY <1>0, <4>2
        <5>2. chain[i + 1] = NextLinks[chain[i]]  BY <1>0, <5>1, ChainFacts
        <5> QED  BY <5>1, <5>2
      <4> QED  BY <4>1, <4>2
    <3>3. \A q_ \in X : NextLinks[q_] \in X \/ NextLinks[q_] = NoPage  BY <3>2
    <3> HIDE DEF X
    <3>4. d[m] \in X  BY <2>3, <3>1, <3>3, ChainStays
    <3> QED  BY <2>2, <3>4 DEF X
  <2> QED  BY <2>4, <2>5
<1> QED  BY <1>1, <1>2

\* One that is given up at a page that cannot be had: what is behind it is told.
LEMMA GivenUpCovers ==
    ASSUME NEW n \in 0..MaxPages - 1, NEW first \in C!ListPage, NEW chain \in C!Chains(n, first), NEW A,
           \A i \in 0..n : chain[i] \in A, C!Tails(MaxPages, chain[n]) \subseteq A
    PROVE  \A page \in {first} \cup C!Tails(MaxPages - 1, first) : page \in A
<1>0. n \in Nat /\ MaxPages \in Nat \ {0} /\ MaxPages - 1 \in Nat  BY LinksAssumed
<1>1. chain[0] = first /\ 0 \in 0..n /\ n \in 0..n  BY <1>0, ChainFacts
<1>2. ASSUME NEW page \in C!Tails(MaxPages - 1, first) PROVE page \in A
  <2>1. PICK m \in 1..MaxPages - 1 : \E d \in C!Chains(m, first) : d[m] = page  BY <1>0, <1>2, TailChain
  <2>2. PICK d \in C!Chains(m, first) : d[m] = page  BY <2>1
  <2>3. m \in Nat /\ m \in 0..m /\ m <= MaxPages - 1  BY <1>0
  <2>4. CASE m <= n
    <3>1. m \in 0..n  BY <2>3, <2>4
    <3>2. chain[m] = d[m]  BY <1>0, <2>3, <3>1, ChainsAgree
    <3> QED  BY <2>2, <3>1, <3>2
  <2>5. CASE n < m
    <3>1. n \in 0..m /\ m - n <= MaxPages  BY <1>0, <2>3, <2>5
    <3>2. chain[n] = d[n]  BY <1>0, <1>1, <2>3, <3>1, ChainsAgree
    <3>3. d[m] \in C!Tails(MaxPages, d[n])  BY <1>0, <2>3, <2>5, <3>1, ChainTail
    <3> QED  BY <2>2, <3>2, <3>3
  <2> QED  BY <1>0, <2>3, <2>4, <2>5
<1> QED  BY <1>1, <1>2

LEMMA PlaceGrows ==
    ASSUME NEW all, NEW more, all \subseteq more, NEW version, NEW l, NEW c, NEW seen, NEW less, less \subseteq seen,
           GoodPlace(all, version, l, c, seen)
    PROVE  GoodPlace(more, version, l, c, less)
BY Zenon DEF GoodPlace, Covered

\* The first page of a category is a chain.
LEMMA CategoryBegins ==
    ASSUME NEW all, NEW version, NEW l \in Seq(C!ListPage), NEW c \in C!Place, c.next = NoPage, c.page = 0,
           \A k \in 1..Len(l) : k <= c.cat => Covered(all, version, c.pass, l[k])
    PROVE  GoodPlace(all, version, l, c, {})
<1> SUFFICES ASSUME c.cat < Len(l)
             PROVE  \E chain \in C!Chains(0, l[c.cat + 1]) :
                       chain[0] = PageAt(l, c) /\ \A i \in 0..-1 : <<version, c.pass, chain[i]>> \in all
  BY DEF GoodPlace
<1>1. c.cat \in Nat  BY DEF C!Place
<1> DEFINE first == l[c.cat + 1]
<1>2. first \in C!ListPage
  <2>1. Len(l) \in Nat /\ c.cat + 1 \in 1..Len(l)  BY <1>1
  <2> QED  BY <2>1
<1> DEFINE chain == [i \in 0..0 |-> first]
<1>3. PageAt(l, c) = first  BY DEF PageAt
<1> HIDE DEF first
<1>4. chain \in [0..0 -> C!ListPage] /\ chain[0] = first /\ 1..0 = {} /\ 0..-1 = {}  BY <1>2
<1>5. chain \in C!Chains(0, first)  BY <1>4 DEF C!Chains
<1> HIDE DEF chain
<1> QED  BY <1>3, <1>4, <1>5 DEF first

LEMMA PlaceFields ==
    ASSUME NEW c \in C!Place
    PROVE  /\ c.cat \in Nat /\ c.next \in C!ListPage \cup {NoPage} /\ c.page \in 0..MaxPages - 1
           /\ c.pass \in Nat /\ c.from \in Nat
BY DEF C!Place

LEMMA NextPlace ==
    ASSUME NEW c \in C!Place
    PROVE  /\ C!NextCategory(c) \in C!Place /\ C!NextCategory(c).cat = c.cat + 1 /\ C!NextCategory(c).next = NoPage
           /\ C!NextCategory(c).page = 0 /\ C!NextCategory(c).pass = c.pass /\ C!NextCategory(c).from = c.from
<1>1. 0 \in 0..MaxPages - 1 /\ c.cat + 1 \in Nat  BY LinksAssumed, PlaceFields
<1>2. [c EXCEPT !.cat = c.cat + 1, !.next = NoPage, !.page = 0] \in C!Place  BY <1>1 DEF C!Place
<1> QED  BY <1>2 DEF C!NextCategory, C!Place

LEMMA CategoryEnds ==
    ASSUME NEW all, NEW version, NEW l \in Seq(C!ListPage), NEW c \in C!Place,
           \A k \in 1..Len(l) : k <= c.cat => Covered(all, version, c.pass, l[k]),
           Covered(all, version, c.pass, l[c.cat + 1])
    PROVE  GoodPlace(all, version, l, C!NextCategory(c), {})
<1> DEFINE n == C!NextCategory(c)
<1>1. n \in C!Place /\ n.next = NoPage /\ n.page = 0 /\ n.pass = c.pass /\ n.cat = c.cat + 1  BY NextPlace
<1>2. c.cat \in Nat /\ Len(l) \in Nat  BY PlaceFields
<1> HIDE DEF n
<1>3. \A k \in 1..Len(l) : k <= n.cat => Covered(all, version, n.pass, l[k])
  <2> TAKE k \in 1..Len(l)
  <2>1. CASE k = c.cat + 1  BY <1>1, <2>1
  <2>2. CASE k # c.cat + 1  BY <1>1, <1>2, <2>2
  <2> QED  BY <2>1, <2>2
<1>4. GoodPlace(all, version, l, n, {})  BY <1>1, <1>3, CategoryBegins
<1> QED  BY <1>4 DEF n

\* The chain of a place, with its page.
WholeChain(all, version, l, c, seen) ==
    \E chain \in C!Chains(c.page, l[c.cat + 1]) :
        /\ chain[c.page] = PageAt(l, c)
        /\ \A i \in 0..c.page : <<version, c.pass, chain[i]>> \in all
        /\ seen \cup {PageAt(l, c)} \subseteq {chain[i] : i \in 0..c.page}

LEMMA PlaceChain ==
    ASSUME NEW all, NEW version, NEW l \in Seq(C!ListPage), NEW c \in C!Place, c.cat < Len(l), NEW seen,
           GoodPlace(all, version, l, c, seen), <<version, c.pass, PageAt(l, c)>> \in all
    PROVE  /\ l[c.cat + 1] \in C!ListPage /\ PageAt(l, c) \in C!ListPage
           /\ WholeChain(all, version, l, c, seen)
<1>1. c.cat \in Nat /\ c.page \in Nat /\ c.next \in C!ListPage \cup {NoPage}  BY PlaceFields, LinksAssumed
<1>2. Len(l) \in Nat /\ c.cat + 1 \in 1..Len(l)  BY <1>1
<1>3. l[c.cat + 1] \in C!ListPage  BY <1>2
<1>4. PageAt(l, c) \in C!ListPage  BY <1>1, <1>3 DEF PageAt
<1>5. PICK chain \in C!Chains(c.page, l[c.cat + 1]) :
              /\ chain[c.page] = PageAt(l, c)
              /\ \A i \in 0..c.page - 1 : <<version, c.pass, chain[i]>> \in all
              /\ seen \subseteq {chain[i] : i \in 0..c.page - 1}
  BY DEF GoodPlace
<1>6. \A i \in 0..c.page : i = c.page \/ i \in 0..c.page - 1  BY <1>1
<1>7. \A i \in 0..c.page : <<version, c.pass, chain[i]>> \in all  BY <1>5, <1>6
<1>8. c.page \in 0..c.page /\ \A i \in 0..c.page - 1 : i \in 0..c.page  BY <1>1
<1>9. seen \cup {PageAt(l, c)} \subseteq {chain[i] : i \in 0..c.page}  BY <1>5, <1>8
<1>10. WholeChain(all, version, l, c, seen)  BY <1>5, <1>7, <1>9 DEF WholeChain
<1> QED  BY <1>3, <1>4, <1>10

LEMMA FollowGood ==
    ASSUME NEW all, NEW version, NEW l \in Seq(C!ListPage), NEW c \in C!Place, c.cat < Len(l), NEW seen,
           GoodPlace(all, version, l, c, seen), <<version, c.pass, PageAt(l, c)>> \in all,
           NEW next, next = NextLinks[PageAt(l, c)], next # NoPage,
           c.page + 1 < MaxPages
    PROVE  /\ [c EXCEPT !.next = next, !.page = @ + 1] \in C!Place
           /\ GoodPlace(all, version, l, [c EXCEPT !.next = next, !.page = @ + 1], seen \cup {PageAt(l, c)})
<1> DEFINE d == [c EXCEPT !.next = next, !.page = c.page + 1]
<1> DEFINE first == l[c.cat + 1]
<1>0. c.page \in Nat /\ c.page + 1 \in 0..MaxPages - 1 /\ c.page + 1 - 1 = c.page  BY PlaceFields, LinksAssumed
<1>1. PageAt(l, c) \in C!ListPage  BY PlaceChain
<1>2. next \in C!ListPage  BY <1>1, LinksAssumed
<1>3. d \in C!Place /\ d.cat = c.cat /\ d.pass = c.pass /\ d.next = next /\ d.page = c.page + 1
  BY <1>0, <1>2 DEF C!Place
<1>14. WholeChain(all, version, l, c, seen)  BY PlaceChain
<1>4. PICK chain \in C!Chains(c.page, first) :
              /\ chain[c.page] = PageAt(l, c)
              /\ \A i \in 0..c.page : <<version, c.pass, chain[i]>> \in all
              /\ seen \cup {PageAt(l, c)} \subseteq {chain[i] : i \in 0..c.page}
  BY <1>14 DEF WholeChain
<1>5. next = NextLinks[chain[c.page]]  BY <1>4
<1> DEFINE longer == [i \in 0..c.page + 1 |-> IF i <= c.page THEN chain[i] ELSE next]
<1>6. longer \in C!Chains(c.page + 1, first) /\ longer[c.page + 1] = next /\ \A i \in 0..c.page : longer[i] = chain[i]
  BY <1>0, <1>2, <1>5, ChainGrows
<1> HIDE DEF longer, d, first
<1>7. {chain[i] : i \in 0..c.page} = {longer[i] : i \in 0..c.page}  BY <1>6
<1>8. \A i \in 0..c.page : <<version, c.pass, longer[i]>> \in all  BY <1>4, <1>6
<1>9. PageAt(l, d) = next  BY <1>3 DEF PageAt
<1>10. \E ch \in C!Chains(d.page, l[d.cat + 1]) :
              /\ ch[d.page] = PageAt(l, d)
              /\ \A i \in 0..d.page - 1 : <<version, d.pass, ch[i]>> \in all
              /\ seen \cup {PageAt(l, c)} \subseteq {ch[i] : i \in 0..d.page - 1}
  <2>1. d.page - 1 = c.page  BY <1>0, <1>3
  <2>2. longer \in C!Chains(d.page, l[d.cat + 1]) /\ longer[d.page] = PageAt(l, d)  BY <1>3, <1>6, <1>9 DEF first
  <2> QED  BY <1>3, <1>4, <1>7, <1>8, <2>1, <2>2
<1>11. \A k \in 1..Len(l) : k <= d.cat => Covered(all, version, d.pass, l[k])  BY <1>3 DEF GoodPlace
<1>12. GoodPlace(all, version, l, d, seen \cup {PageAt(l, c)})  BY <1>10, <1>11 DEF GoodPlace
<1> QED  BY <1>3, <1>12 DEF d

LEMMA DoneGood ==
    ASSUME NEW all, NEW version, NEW l \in Seq(C!ListPage), NEW c \in C!Place, c.cat < Len(l), NEW seen,
           GoodPlace(all, version, l, c, seen), <<version, c.pass, PageAt(l, c)>> \in all,
           \/ NextLinks[PageAt(l, c)] = NoPage
           \/ NextLinks[PageAt(l, c)] \in seen \cup {PageAt(l, c)}
           \/ c.page + 1 >= MaxPages
           \/ \A q_ \in C!Tails(MaxPages, PageAt(l, c)) : <<version, c.pass, q_>> \in all
    PROVE  GoodPlace(all, version, l, C!NextCategory(c), {})
<1> DEFINE first == l[c.cat + 1]
<1> DEFINE A == {q_ \in C!ListPage : <<version, c.pass, q_>> \in all}
<1>0. c.page \in 0..MaxPages - 1 /\ c.page \in Nat  BY PlaceFields, LinksAssumed
<1>8. WholeChain(all, version, l, c, seen)  BY PlaceChain
<1>1. PICK chain \in C!Chains(c.page, first) :
              /\ chain[c.page] = PageAt(l, c)
              /\ \A i \in 0..c.page : <<version, c.pass, chain[i]>> \in all
              /\ seen \cup {PageAt(l, c)} \subseteq {chain[i] : i \in 0..c.page}
  BY <1>8 DEF WholeChain
<1>2. first \in C!ListPage  BY PlaceChain
<1>3. chain \in [0..c.page -> C!ListPage]  BY <1>0, ChainFacts
<1>4. \A i \in 0..c.page : chain[i] \in A  BY <1>1, <1>3
<1> HIDE DEF first
<1>5. \A q_ \in {first} \cup C!Tails(MaxPages - 1, first) : q_ \in A
  <2>1. CASE \/ NextLinks[PageAt(l, c)] = NoPage
             \/ NextLinks[PageAt(l, c)] \in seen \cup {PageAt(l, c)}
             \/ c.page + 1 >= MaxPages
    <3>1. \/ NextLinks[chain[c.page]] = NoPage
          \/ NextLinks[chain[c.page]] \in {chain[i] : i \in 0..c.page}
          \/ c.page + 1 >= MaxPages
      BY <1>1, <2>1
    <3> HIDE DEF A
    <3> QED  BY <1>0, <1>2, <1>4, <3>1, HarvestedCovers
  <2>2. CASE \A q_ \in C!Tails(MaxPages, PageAt(l, c)) : <<version, c.pass, q_>> \in all
    <3>1. \A q_ \in C!Tails(MaxPages, PageAt(l, c)) : q_ \in C!ListPage
      <4> TAKE q_ \in C!Tails(MaxPages, PageAt(l, c))
      <4>1. PICK m \in 1..MaxPages : \E d \in C!Chains(m, PageAt(l, c)) : d[m] = q_
        BY LinksAssumed, TailChain
      <4>2. PICK d \in C!Chains(m, PageAt(l, c)) : d[m] = q_  BY <4>1
      <4>3. m \in Nat /\ m \in 0..m  BY LinksAssumed
      <4>4. d \in [0..m -> C!ListPage]  BY <4>3, ChainFacts
      <4> QED  BY <4>2, <4>3, <4>4
    <3>2. C!Tails(MaxPages, chain[c.page]) \subseteq A  BY <1>1, <2>2, <3>1
    <3> HIDE DEF A
    <3> QED  BY <1>0, <1>2, <1>4, <3>2, GivenUpCovers
  <2> QED  BY <2>1, <2>2
<1>6. Covered(all, version, c.pass, first)  BY <1>5 DEF Covered
<1>7. \A k \in 1..Len(l) : k <= c.cat => Covered(all, version, c.pass, l[k])  BY DEF GoodPlace
<1> QED  BY <1>6, <1>7, CategoryEnds DEF first

All == cAsked \cup cBehind

\* What a run does touches its own place only; the pages told grow.
LEMMA OwnPlace ==
    ASSUME CursorInv, NEW w \in Walker, CursorTypes', ListsRead',
           cCats' = cCats, cVersion' = cVersion, cCursor' = cCursor,
           cAsked \subseteq cAsked', cBehind \subseteq cBehind',
           \A v \in Walker : v # w => cPc'[v] = cPc[v] /\ cMine'[v] = cMine[v] /\ cVisited'[v] = cVisited[v],
           cPc'[w] \in {"probe", "walk"} /\ cMine'[w].from = cVersion =>
                GoodPlace(All', cVersion, cCats, cMine'[w], cVisited'[w]),
           cPc'[w] = "save" /\ cMine'[w].from = cVersion =>
                GoodPlace(All', cVersion, cCats, cMine'[w], {})
    PROVE  CursorInv'
<1>1. All \subseteq All'  BY DEF All
<1>2. cCursor.from = cVersion => GoodPlace(All', cVersion, cCats, cCursor, {})
  <2>1. cCursor.from = cVersion => GoodPlace(All, cVersion, cCats, cCursor, {})  BY DEF CursorInv, All
  <2>2. {} \subseteq {}  OBVIOUS
  <2> QED  BY <1>1, <2>1, <2>2, PlaceGrows
<1>3. ASSUME NEW v \in Walker
      PROVE  /\ cPc'[v] \in {"probe", "walk"} /\ cMine'[v].from = cVersion =>
                    GoodPlace(All', cVersion, cCats, cMine'[v], cVisited'[v])
             /\ cPc'[v] = "save" /\ cMine'[v].from = cVersion =>
                    GoodPlace(All', cVersion, cCats, cMine'[v], {})
  <2>1. CASE v = w  BY <2>1
  <2>2. CASE v # w
    <3>1. cPc'[v] = cPc[v] /\ cMine'[v] = cMine[v] /\ cVisited'[v] = cVisited[v]  BY <2>2
    <3>2. cPc[v] \in {"probe", "walk"} /\ cMine[v].from = cVersion =>
                GoodPlace(All, cVersion, cCats, cMine[v], cVisited[v])
      BY DEF CursorInv, All
    <3>3. cPc[v] = "save" /\ cMine[v].from = cVersion => GoodPlace(All, cVersion, cCats, cMine[v], {})
      BY DEF CursorInv, All
    <3>4. {} \subseteq {} /\ cVisited[v] \subseteq cVisited[v]  OBVIOUS
    <3> QED  BY <1>1, <3>1, <3>2, <3>3, <3>4, PlaceGrows
  <2> QED  BY <2>1, <2>2
<1> QED  BY <1>2, <1>3 DEF CursorInv, All

\* Past the last category the place is the first page of the next pass.
LEMMA WrappedPlace ==
    ASSUME CursorInv, NEW w \in Walker, cPc[w] \in {"walk"}
    PROVE  /\ C!Wrapped(w) \in C!Place /\ C!PageUrl(w) \in C!ListPage
           /\ C!Wrapped(w).cat < Len(cList[w].cats)
           /\ C!Wrapped(w).from \in {cList[w].version, C!NoVersion} /\ cList[w].version <= cVersion
           /\ C!Seen(w) \subseteq C!ListPage
           /\ C!Wrapped(w).from = cVersion =>
                 /\ C!PageUrl(w) = PageAt(cCats, C!Wrapped(w)) /\ cList[w].cats = cCats
                 /\ cCats \in Seq(C!ListPage)
                 /\ \E old : GoodPlace(All, cVersion, cCats, C!Wrapped(w), old)
                             /\ C!Seen(w) = old \cup {C!PageUrl(w)}
<1> DEFINE c == C!Wrapped(w)
<1> DEFINE l == cList[w].cats
<1> DEFINE new == [C!Fresh EXCEPT !.pass = cMine[w].pass + 1, !.from = cList[w].version]
<1>1. l \in Seq(C!ListPage) /\ Len(l) \in Nat /\ Len(l) > 0 /\ cList[w].version \in 0..MaxLists /\ cList[w].version <= cVersion
  <2>1. l \in CategoryLists /\ cList[w].version \in 0..MaxLists  BY DEF CursorInv, CursorTypes, ListsRead
  <2>2. l \in Seq(C!ListPage) /\ l # <<>>  BY <2>1, LinksAssumed DEF CursorInv, ListsRead
  <2> HIDE DEF l
  <2>3. Len(l) \in Nat /\ Len(l) > 0  BY <2>2
  <2> QED  BY <2>1, <2>2, <2>3 DEF CursorInv, ListsRead
<1>2. cMine[w] \in C!Place /\ cMine[w].from \in {cList[w].version, C!NoVersion} /\ cVisited[w] \subseteq C!ListPage
  BY DEF CursorInv, CursorTypes, ListsRead
<1>3. new \in C!Place /\ new.cat = 0 /\ new.next = NoPage /\ new.page = 0 /\ new.pass = cMine[w].pass + 1
      /\ new.from = cList[w].version
  <2>1. cMine[w].pass + 1 \in Nat /\ 0 \in 0..MaxPages - 1 /\ cList[w].version \in Nat  BY <1>1, <1>2, PlaceFields, LinksAssumed
  <2> QED  BY <2>1 DEF C!Fresh, C!Place
<1> HIDE DEF new
<1>4. c = IF cMine[w].cat >= Len(l) THEN new ELSE cMine[w]  BY DEF C!Wrapped, new
<1>5. c \in C!Place /\ c.cat < Len(l) /\ c.from \in {cList[w].version, C!NoVersion}
  <2>1. cMine[w].cat \in Nat  BY <1>2, PlaceFields
  <2> HIDE DEF c, l
  <2>2. CASE cMine[w].cat >= Len(l)  BY <1>1, <1>3, <1>4, <2>2
  <2>3. CASE cMine[w].cat < Len(l)
    <3>1. c = cMine[w]  BY <1>1, <1>4, <2>1, <2>3
    <3> QED  BY <1>2, <2>3, <3>1
  <2> QED  BY <1>1, <2>1, <2>2, <2>3
<1>6. C!PageUrl(w) = PageAt(l, c)  BY DEF C!PageUrl, PageAt
<1>7. PageAt(l, c) \in C!ListPage
  <2>1. c.cat \in Nat /\ c.next \in C!ListPage \cup {NoPage}  BY <1>5, PlaceFields
  <2> HIDE DEF c, l
  <2>2. c.cat + 1 \in 1..Len(l)  BY <1>1, <1>5, <2>1
  <2>3. l[c.cat + 1] \in C!ListPage  BY <1>1, <2>2
  <2> QED  BY <2>1, <2>3 DEF PageAt
<1>8. C!Seen(w) \subseteq C!ListPage  BY <1>2, <1>6, <1>7 DEF C!Seen
<1>9. ASSUME c.from = cVersion
      PROVE  l = cCats /\ \E old : GoodPlace(All, cVersion, cCats, c, old) /\ C!Seen(w) = old \cup {C!PageUrl(w)}
  <2>1. cVersion # C!NoVersion  BY LinksAssumed DEF CursorInv, CursorTypes, C!NoVersion
  <2>2. cList[w].version = cVersion  BY <1>5, <1>9, <2>1
  <2>3. l = cCats  BY <2>2 DEF CursorInv, ListsRead
  <2>4. CASE cMine[w].cat >= Len(l)
    <3>1. c = new /\ c # cMine[w]
      <4>1. c = new  BY <1>4, <2>4
      <4>2. cMine[w].pass \in Nat  BY <1>2, PlaceFields
      <4> HIDE DEF c
      <4>3. c.pass # cMine[w].pass  BY <1>3, <4>1, <4>2
      <4> QED  BY <4>1, <4>3
    <3>2. GoodPlace(All, cVersion, l, new, {})
      <4>1. \A k \in 1..Len(l) : ~(k <= 0)  BY <1>1
      <4> QED  BY <1>1, <1>3, <4>1, CategoryBegins
    <3>3. C!Seen(w) = {} \cup {C!PageUrl(w)}  BY <3>1 DEF C!Seen
    <3> QED  BY <2>3, <3>1, <3>2, <3>3
  <2>5. CASE ~(cMine[w].cat >= Len(l))
    <3>1. c = cMine[w]  BY <1>4, <2>5
    <3>2. GoodPlace(All, cVersion, cCats, cMine[w], cVisited[w])  BY <1>9, <3>1 DEF CursorInv, All
    <3>3. C!Seen(w) = cVisited[w] \cup {C!PageUrl(w)}  BY <3>1 DEF C!Seen
    <3> QED  BY <2>3, <3>1, <3>2, <3>3
  <2> QED  BY <2>4, <2>5
<1>10. c.from = cVersion => cCats \in Seq(C!ListPage)  BY <1>1, <1>9
<1> QED  BY <1>1, <1>5, <1>6, <1>7, <1>8, <1>9, <1>10

\* A page with offers.
LEMMA HarvestedStep ==
    ASSUME CursorInv, NEW w \in Walker, C!PageHarvested(w)
    PROVE  CursorInv'
<1> DEFINE c == C!Wrapped(w)
<1> DEFINE next == NextLinks[C!PageUrl(w)]
<1> DEFINE follow == next # NoPage /\ next \notin C!Seen(w) /\ c.page + 1 < MaxPages
<1> DEFINE to == IF follow THEN [c EXCEPT !.next = next, !.page = @ + 1] ELSE C!NextCategory(c)
<1> DEFINE seen == IF follow THEN C!Seen(w) ELSE {}
<1>1. /\ cPc[w] = "walk" /\ cMine' = [cMine EXCEPT ![w] = to] /\ cVisited' = [cVisited EXCEPT ![w] = seen]
      /\ cAsked' = cAsked \cup {<<c.from, c.pass, C!PageUrl(w)>>}
      /\ UNCHANGED <<cCats, cVersion, cCursor, cPc, cList, cBehind>>
  BY DEF C!PageHarvested
<1>2. /\ c \in C!Place /\ C!PageUrl(w) \in C!ListPage /\ c.cat < Len(cList[w].cats)
      /\ c.from \in {cList[w].version, C!NoVersion} /\ cList[w].version <= cVersion /\ C!Seen(w) \subseteq C!ListPage
  BY <1>1, WrappedPlace
<1>3. next \in C!ListPage \cup {NoPage}  BY <1>2, LinksAssumed
<1>4. to \in C!Place /\ to.from = c.from /\ seen \subseteq C!ListPage
  <2>1. CASE follow
    <3>1. c.page + 1 \in 0..MaxPages - 1  BY <1>2, <2>1, PlaceFields, LinksAssumed
    <3>2. next \in C!ListPage  BY <1>3, <2>1
    <3> HIDE DEF c, next
    <3>3. [c EXCEPT !.next = next, !.page = c.page + 1] \in C!Place
          /\ [c EXCEPT !.next = next, !.page = c.page + 1].from = c.from
      BY <1>2, <3>1, <3>2 DEF C!Place
    <3> QED  BY <1>2, <2>1, <3>3
  <2>2. CASE ~follow  BY <1>2, <2>2, NextPlace
  <2> QED  BY <2>1, <2>2
<1>5. c.from = cVersion => GoodPlace(All', cVersion, cCats, to, seen)
  <2> SUFFICES ASSUME c.from = cVersion PROVE GoodPlace(All', cVersion, cCats, to, seen)  OBVIOUS
  <2>1. /\ C!PageUrl(w) = PageAt(cCats, c) /\ cList[w].cats = cCats /\ cCats \in Seq(C!ListPage)
        /\ \E old : GoodPlace(All, cVersion, cCats, c, old) /\ C!Seen(w) = old \cup {C!PageUrl(w)}
    BY <1>1, WrappedPlace
  <2>2. PICK old : GoodPlace(All, cVersion, cCats, c, old) /\ C!Seen(w) = old \cup {C!PageUrl(w)}  BY <2>1
  <2>3. All \subseteq All' /\ <<cVersion, c.pass, C!PageUrl(w)>> \in All'  BY <1>1 DEF All
  <2>4. c.cat < Len(cCats)  BY <1>2, <2>1
  <2> HIDE DEF c
  <2>5. old \subseteq old  OBVIOUS
  <2>6. GoodPlace(All', cVersion, cCats, c, old)  BY <2>2, <2>3, <2>5, PlaceGrows
  <2>7. CASE follow
    <3>1. GoodPlace(All', cVersion, cCats, [c EXCEPT !.next = next, !.page = @ + 1], old \cup {PageAt(cCats, c)})
      BY <1>2, <2>1, <2>3, <2>4, <2>6, <2>7, FollowGood
    <3> QED  BY <2>1, <2>2, <2>7, <3>1
  <2>8. CASE ~follow
    <3>1. \/ NextLinks[PageAt(cCats, c)] = NoPage
          \/ NextLinks[PageAt(cCats, c)] \in old \cup {PageAt(cCats, c)}
          \/ c.page + 1 >= MaxPages
      BY <1>2, <2>1, <2>2, <2>8, PlaceFields, LinksAssumed
    <3>2. GoodPlace(All', cVersion, cCats, C!NextCategory(c), {})
      BY <1>2, <2>1, <2>3, <2>4, <2>6, <3>1, DoneGood
    <3> QED  BY <2>8, <3>2
  <2> QED  BY <2>7, <2>8
<1> HIDE DEF c, to, seen
<1>6. CursorTypes'  BY <1>1, <1>4 DEF CursorInv, CursorTypes
<1>7. cMine \in [Walker -> C!Place] /\ cVisited \in [Walker -> SUBSET C!ListPage]  BY DEF CursorInv, CursorTypes
<1>8. cMine'[w] = to /\ cVisited'[w] = seen
      /\ \A v \in Walker : v # w => cMine'[v] = cMine[v] /\ cVisited'[v] = cVisited[v]
  BY <1>1, <1>7
<1>9. ListsRead'  BY <1>1, <1>2, <1>4, <1>8 DEF CursorInv, ListsRead
<1>10. cAsked \subseteq cAsked' /\ cBehind \subseteq cBehind'  BY <1>1
<1>11. cPc'[w] = "walk"  BY <1>1
<1> QED  BY <1>1, <1>4, <1>5, <1>6, <1>8, <1>9, <1>10, <1>11, OwnPlace

\* A page that cannot be had.
LEMMA EmptyStep ==
    ASSUME CursorInv, NEW w \in Walker, C!PageEmpty(w)
    PROVE  CursorInv'
<1> DEFINE c == C!Wrapped(w)
<1> DEFINE to == C!NextCategory(c)
<1>1. /\ cPc[w] = "walk" /\ cMine' = [cMine EXCEPT ![w] = to] /\ cVisited' = [cVisited EXCEPT ![w] = {}]
      /\ cAsked' = cAsked \cup {<<c.from, c.pass, C!PageUrl(w)>>}
      /\ cBehind' = cBehind \cup {<<c.from, c.pass, page>> : page \in C!Tails(MaxPages, C!PageUrl(w))}
      /\ UNCHANGED <<cCats, cVersion, cCursor, cPc, cList>>
  BY DEF C!PageEmpty
<1>2. /\ c \in C!Place /\ C!PageUrl(w) \in C!ListPage /\ c.cat < Len(cList[w].cats)
      /\ c.from \in {cList[w].version, C!NoVersion} /\ cList[w].version <= cVersion
  BY <1>1, WrappedPlace
<1>4. to \in C!Place /\ to.from = c.from  BY <1>2, NextPlace
<1>5. c.from = cVersion => GoodPlace(All', cVersion, cCats, to, {})
  <2> SUFFICES ASSUME c.from = cVersion PROVE GoodPlace(All', cVersion, cCats, to, {})  OBVIOUS
  <2>1. /\ C!PageUrl(w) = PageAt(cCats, c) /\ cList[w].cats = cCats /\ cCats \in Seq(C!ListPage)
        /\ \E old : GoodPlace(All, cVersion, cCats, c, old) /\ C!Seen(w) = old \cup {C!PageUrl(w)}
    BY <1>1, WrappedPlace
  <2>2. PICK old : GoodPlace(All, cVersion, cCats, c, old) /\ C!Seen(w) = old \cup {C!PageUrl(w)}  BY <2>1
  <2>3. All \subseteq All' /\ <<cVersion, c.pass, C!PageUrl(w)>> \in All'
        /\ \A page \in C!Tails(MaxPages, C!PageUrl(w)) : <<cVersion, c.pass, page>> \in All'
    BY <1>1 DEF All
  <2>4. c.cat < Len(cCats)  BY <1>2, <2>1
  <2> HIDE DEF c
  <2>5. old \subseteq old  OBVIOUS
  <2>6. GoodPlace(All', cVersion, cCats, c, old)  BY <2>2, <2>3, <2>5, PlaceGrows
  <2>7. \A page \in C!Tails(MaxPages, PageAt(cCats, c)) : <<cVersion, c.pass, page>> \in All'  BY <2>1, <2>3
  <2> QED  BY <1>2, <2>1, <2>3, <2>4, <2>6, <2>7, DoneGood
<1> HIDE DEF c, to
<1>6. CursorTypes'  BY <1>1, <1>4 DEF CursorInv, CursorTypes
<1>7. cMine \in [Walker -> C!Place] /\ cVisited \in [Walker -> SUBSET C!ListPage]  BY DEF CursorInv, CursorTypes
<1>8. cMine'[w] = to /\ cVisited'[w] = {}
      /\ \A v \in Walker : v # w => cMine'[v] = cMine[v] /\ cVisited'[v] = cVisited[v]
  BY <1>1, <1>7
<1>9. ListsRead'  BY <1>1, <1>2, <1>4, <1>8 DEF CursorInv, ListsRead
<1>10. cAsked \subseteq cAsked' /\ cBehind \subseteq cBehind'  BY <1>1
<1>11. cPc'[w] = "walk"  BY <1>1
<1> QED  BY <1>1, <1>4, <1>5, <1>6, <1>8, <1>9, <1>10, <1>11, OwnPlace

LEMMA GotoFacts ==
    ASSUME CursorInv, NEW w \in Walker, NEW to \in {"idle", "load", "probe", "walk", "save"}, C!Goto(w, to)
    PROVE  /\ cPc' \in [Walker -> {"idle", "load", "probe", "walk", "save"}] /\ cPc'[w] = to
           /\ \A v \in Walker : v # w => cPc'[v] = cPc[v]
BY DEF CursorInv, CursorTypes, C!Goto

\* The run stops at the page the budget refused.
LEMMA StopStep ==
    ASSUME CursorInv, NEW w \in Walker, C!BudgetStop(w)
    PROVE  CursorInv'
<1> DEFINE c == C!Wrapped(w)
<1>1. /\ cPc[w] = "walk" /\ cMine' = [cMine EXCEPT ![w] = c] /\ C!Goto(w, "save")
      /\ UNCHANGED <<cCats, cVersion, cCursor, cList, cVisited, cAsked, cBehind>>
  BY DEF C!BudgetStop, C!StoppedAt
<1>2. c \in C!Place /\ c.from \in {cList[w].version, C!NoVersion} /\ cList[w].version <= cVersion
  BY <1>1, WrappedPlace
<1>3. c.from = cVersion => GoodPlace(All', cVersion, cCats, c, {})
  <2> SUFFICES ASSUME c.from = cVersion PROVE GoodPlace(All', cVersion, cCats, c, {})  OBVIOUS
  <2>1. PICK old : GoodPlace(All, cVersion, cCats, c, old)  BY <1>1, WrappedPlace
  <2>2. All \subseteq All' /\ {} \subseteq old  BY <1>1 DEF All
  <2> HIDE DEF c
  <2> QED  BY <2>1, <2>2, PlaceGrows
<1> HIDE DEF c
<1>4. /\ cPc' \in [Walker -> {"idle", "load", "probe", "walk", "save"}] /\ cPc'[w] = "save"
      /\ \A v \in Walker : v # w => cPc'[v] = cPc[v]
  BY <1>1, GotoFacts
<1>5. cMine \in [Walker -> C!Place]  BY DEF CursorInv, CursorTypes
<1>6. CursorTypes'  BY <1>1, <1>2, <1>4 DEF CursorInv, CursorTypes
<1>7. cMine'[w] = c /\ \A v \in Walker : v # w => cMine'[v] = cMine[v] /\ cVisited'[v] = cVisited[v]
  BY <1>1, <1>5
<1>8. ListsRead'  BY <1>1, <1>2, <1>4, <1>7 DEF CursorInv, ListsRead
<1>9. cAsked \subseteq cAsked' /\ cBehind \subseteq cBehind'  BY <1>1
<1> QED  BY <1>1, <1>3, <1>4, <1>6, <1>7, <1>8, <1>9, OwnPlace

\* The steps that leave the places of the runs as they are.
LEMMA PlainStep ==
    ASSUME CursorInv, NEW w \in Walker,
           C!Begin(w) \/ C!Probe(w) \/ C!QuotaReached(w) \/ C!Dies(w)
    PROVE  CursorInv'
<1>0. /\ cCats' = cCats /\ cVersion' = cVersion /\ cCursor' = cCursor /\ cMine' = cMine
      /\ cAsked' = cAsked /\ cBehind' = cBehind
  BY DEF C!Begin, C!Probe, C!QuotaReached, C!Dies
<1>1. cMine \in [Walker -> C!Place] /\ cVisited \in [Walker -> SUBSET C!ListPage] /\ CursorTypes /\ ListsRead
      /\ cList \in [Walker -> [cats : CategoryLists \cup {<<>>}, version : 0..MaxLists]]
      /\ cVersion \in 0..MaxLists /\ cCats \in CategoryLists
  BY DEF CursorInv, CursorTypes
<1>2. CASE C!Begin(w)
  <2>1. /\ cList' = [cList EXCEPT ![w] = [cats |-> cCats, version |-> cVersion]]
        /\ cVisited' = [cVisited EXCEPT ![w] = {}] /\ C!Goto(w, "load") /\ cCats # <<>>
    BY <1>2 DEF C!Begin
  <2>2. /\ cPc' \in [Walker -> {"idle", "load", "probe", "walk", "save"}] /\ cPc'[w] = "load"
        /\ \A v \in Walker : v # w => cPc'[v] = cPc[v]
    BY <2>1, GotoFacts
  <2>3. CursorTypes'  BY <1>0, <1>1, <2>1, <2>2 DEF CursorTypes
  <2>4. /\ cVisited'[w] = {} /\ cList'[w].cats = cCats /\ cList'[w].version = cVersion
        /\ \A v \in Walker : v # w => cVisited'[v] = cVisited[v] /\ cList'[v] = cList[v]
    BY <1>1, <2>1
  <2>6. cVersion <= cVersion  BY <1>1
  <2>7. C!NoVersion' = C!NoVersion  BY DEF C!NoVersion
  <2>8. ASSUME NEW v \in Walker, v # w
        PROVE  /\ cPc'[v] # "idle" =>
                    /\ cList'[v].cats # <<>> /\ cList'[v].version <= cVersion
                    /\ cList'[v].version = cVersion => cList'[v].cats = cCats
               /\ cPc'[v] = "load" => cVisited'[v] = {}
               /\ cPc'[v] = "probe" => cVisited'[v] = {}
               /\ cPc'[v] \in {"probe", "walk", "save"} => cMine[v].from \in {cList'[v].version, C!NoVersion}
    BY <1>1, <2>2, <2>4, <2>8 DEF ListsRead
  <2>5. ListsRead'  BY <1>0, <1>1, <2>1, <2>2, <2>4, <2>6, <2>7, <2>8 DEF ListsRead
  <2> QED  BY <1>0, <2>2, <2>3, <2>4, <2>5, OwnPlace
<1>3. CASE C!Probe(w)
  <2>1. C!Goto(w, "walk") /\ cPc[w] = "probe" /\ cVisited' = cVisited /\ cList' = cList  BY <1>3 DEF C!Probe
  <2>2. /\ cPc' \in [Walker -> {"idle", "load", "probe", "walk", "save"}] /\ cPc'[w] = "walk"
        /\ \A v \in Walker : v # w => cPc'[v] = cPc[v]
    BY <2>1, GotoFacts
  <2>3. CursorTypes'  BY <1>0, <1>1, <2>1, <2>2 DEF CursorTypes
  <2>5. ListsRead'  BY <1>0, <1>1, <2>1, <2>2 DEF ListsRead
  <2>6. cMine'[w].from = cVersion => GoodPlace(All', cVersion, cCats, cMine'[w], cVisited'[w])
    BY <1>0, <2>1 DEF CursorInv, All
  <2> QED  BY <1>0, <2>1, <2>2, <2>3, <2>5, <2>6, OwnPlace
<1>4. CASE C!QuotaReached(w)
  <2>1. C!Goto(w, "save") /\ cPc[w] = "walk" /\ cVisited' = cVisited /\ cList' = cList  BY <1>4 DEF C!QuotaReached
  <2>2. /\ cPc' \in [Walker -> {"idle", "load", "probe", "walk", "save"}] /\ cPc'[w] = "save"
        /\ \A v \in Walker : v # w => cPc'[v] = cPc[v]
    BY <2>1, GotoFacts
  <2>3. CursorTypes'  BY <1>0, <1>1, <2>1, <2>2 DEF CursorTypes
  <2>5. ListsRead'  BY <1>0, <1>1, <2>1, <2>2 DEF ListsRead
  <2>6. cMine'[w].from = cVersion => GoodPlace(All', cVersion, cCats, cMine'[w], {})
    <3>1. cMine[w].from = cVersion => GoodPlace(All, cVersion, cCats, cMine[w], cVisited[w])
      BY <2>1 DEF CursorInv, All
    <3>2. All \subseteq All' /\ {} \subseteq cVisited[w]  BY <1>0 DEF All
    <3> QED  BY <1>0, <3>1, <3>2, PlaceGrows
  <2> QED  BY <1>0, <2>1, <2>2, <2>3, <2>5, <2>6, OwnPlace
<1>5. CASE C!Dies(w)
  <2>1. C!Goto(w, "idle") /\ cVisited' = cVisited /\ cList' = cList  BY <1>5 DEF C!Dies
  <2>2. /\ cPc' \in [Walker -> {"idle", "load", "probe", "walk", "save"}] /\ cPc'[w] = "idle"
        /\ \A v \in Walker : v # w => cPc'[v] = cPc[v]
    BY <2>1, GotoFacts
  <2>3. CursorTypes'  BY <1>0, <1>1, <2>1, <2>2 DEF CursorTypes
  <2>5. ListsRead'  BY <1>0, <1>1, <2>1, <2>2 DEF ListsRead
  <2> QED  BY <1>0, <2>1, <2>2, <2>3, <2>5, OwnPlace
<1> QED  BY <1>2, <1>3, <1>4, <1>5

\* A cursor into another list is of no pass.
LEMMA LoadStep ==
    ASSUME CursorInv, NEW w \in Walker, C!LoadCursor(w)
    PROVE  CursorInv'
<1> DEFINE to == IF cCursor.from = cList[w].version THEN cCursor ELSE [cCursor EXCEPT !.from = C!NoVersion]
<1>1. /\ cPc[w] = "load" /\ cMine' = [cMine EXCEPT ![w] = to]
      /\ C!Goto(w, "probe") \/ C!Goto(w, "walk")
      /\ UNCHANGED <<cCats, cVersion, cCursor, cList, cVisited, cAsked, cBehind>>
  BY DEF C!LoadCursor
<1>2. to \in C!Place /\ to.from \in {cList[w].version, C!NoVersion} /\ (to.from = cVersion => to = cCursor)
  <2>1. cCursor \in C!Place /\ cVersion \in 0..MaxLists  BY DEF CursorInv, CursorTypes
  <2>2. C!NoVersion \in Nat /\ C!NoVersion # cVersion  BY <2>1, LinksAssumed DEF C!NoVersion
  <2> DEFINE none == [cCursor EXCEPT !.from = C!NoVersion]
  <2>3. none \in C!Place /\ none.from = C!NoVersion  BY <2>1, <2>2 DEF C!Place
  <2> QED  BY <2>1, <2>2, <2>3
<1> HIDE DEF to
<1>3. /\ cPc' \in [Walker -> {"idle", "load", "probe", "walk", "save"}] /\ cPc'[w] \in {"probe", "walk"}
      /\ \A v \in Walker : v # w => cPc'[v] = cPc[v]
  BY <1>1, GotoFacts
<1>4. cMine \in [Walker -> C!Place]  BY DEF CursorInv, CursorTypes
<1>5. cMine'[w] = to /\ \A v \in Walker : v # w => cMine'[v] = cMine[v] /\ cVisited'[v] = cVisited[v]
  BY <1>1, <1>4
<1>6. CursorTypes'  BY <1>1, <1>2, <1>3 DEF CursorInv, CursorTypes
<1>7. cVisited[w] = {}  BY <1>1 DEF CursorInv, ListsRead
<1>8. ListsRead'  BY <1>1, <1>2, <1>3, <1>5, <1>7 DEF CursorInv, ListsRead
<1>9. to.from = cVersion => GoodPlace(All', cVersion, cCats, to, cVisited'[w])
  BY <1>1, <1>2, <1>7 DEF CursorInv, All
<1> QED  BY <1>1, <1>3, <1>5, <1>6, <1>8, <1>9, OwnPlace

LEMMA SaveStep ==
    ASSUME CursorInv, NEW w \in Walker, C!SaveCursor(w)
    PROVE  CursorInv'
<1>1. /\ cPc[w] = "save" /\ cCursor' = cMine[w] /\ C!Goto(w, "idle")
      /\ UNCHANGED <<cCats, cVersion, cMine, cList, cVisited, cAsked, cBehind>>
  BY DEF C!SaveCursor
<1>2. /\ cPc' \in [Walker -> {"idle", "load", "probe", "walk", "save"}] /\ cPc'[w] = "idle"
      /\ \A v \in Walker : v # w => cPc'[v] = cPc[v]
  BY <1>1, GotoFacts
<1>3. CursorTypes'  BY <1>1, <1>2 DEF CursorInv, CursorTypes
<1>4. cMine[w].from <= cVersion \/ cMine[w].from = C!NoVersion  BY <1>1 DEF CursorInv, ListsRead
<1>5. ListsRead'  BY <1>1, <1>2, <1>4 DEF CursorInv, ListsRead
<1>6. cMine[w].from = cVersion => GoodPlace(All, cVersion, cCats, cMine[w], {})  BY <1>1 DEF CursorInv, All
<1>7. All' = All  BY <1>1 DEF All
<1>8. \A v \in Walker : cPc'[v] # "idle" => cPc'[v] = cPc[v]  BY <1>2
<1>9. ASSUME NEW v \in Walker
      PROVE  /\ cPc'[v] \in {"probe", "walk"} /\ cMine'[v].from = cVersion =>
                    GoodPlace(All', cVersion, cCats, cMine'[v], cVisited'[v])
             /\ cPc'[v] = "save" /\ cMine'[v].from = cVersion =>
                    GoodPlace(All', cVersion, cCats, cMine'[v], {})
  BY <1>1, <1>7, <1>8 DEF CursorInv, All
<1> QED  BY <1>1, <1>3, <1>5, <1>6, <1>7, <1>9 DEF CursorInv, All

\* No place is of the list that comes.
LEMMA ReplaceStep == ASSUME CursorInv, C!ReplaceList PROVE CursorInv'
<1>1. /\ cVersion < MaxLists /\ cVersion' = cVersion + 1 /\ cCats' \in CategoryLists
      /\ UNCHANGED <<cCursor, cPc, cMine, cList, cVisited>>
  BY DEF C!ReplaceList
<1>2. cVersion \in 0..MaxLists /\ MaxLists \in Nat /\ C!NoVersion = MaxLists + 1  BY LinksAssumed DEF CursorInv, CursorTypes, C!NoVersion
<1>3. cVersion' \in 0..MaxLists /\ cVersion <= cVersion' /\ cVersion' # C!NoVersion /\ \A n \in Nat : n <= cVersion => n # cVersion' /\ n <= cVersion'
  BY <1>1, <1>2
<1>4. cCursor.from \in Nat /\ \A w \in Walker : cList[w].version \in Nat
  BY PlaceFields, LinksAssumed DEF CursorInv, CursorTypes
<1>5. CursorTypes'  BY <1>1, <1>3 DEF CursorInv, CursorTypes
<1>6. ListsRead'  BY <1>1, <1>3, <1>4 DEF CursorInv, ListsRead, C!NoVersion
<1>7. cCursor'.from # cVersion'  BY <1>1, <1>3, <1>4 DEF CursorInv, ListsRead
<1>8. \A w \in Walker : cPc'[w] \in {"probe", "walk", "save"} => cMine'[w].from # cVersion'
  BY <1>1, <1>3, <1>4 DEF CursorInv, ListsRead
<1> QED  BY <1>5, <1>6, <1>7, <1>8 DEF CursorInv

LEMMA CursorInit == C!Init => CursorInv
<1> SUFFICES ASSUME C!Init PROVE CursorInv  OBVIOUS
<1>0. 0 \in 0..MaxLists /\ 0 \in 0..MaxPages - 1 /\ C!NoVersion = MaxLists + 1 /\ MaxLists \in Nat  BY LinksAssumed DEF C!NoVersion
<1>1. C!Fresh \in C!Place /\ C!Fresh.cat = 0 /\ C!Fresh.next = NoPage /\ C!Fresh.page = 0 /\ C!Fresh.from = 0
  BY <1>0 DEF C!Fresh, C!Place
<1>2. /\ cCats \in CategoryLists /\ cVersion = 0 /\ cCursor = C!Fresh /\ cPc = [w \in Walker |-> "idle"]
      /\ cMine = [w \in Walker |-> C!Fresh] /\ cList = [w \in Walker |-> [cats |-> <<>>, version |-> 0]]
      /\ cVisited = [w \in Walker |-> {}]
  BY DEF C!Init
<1> HIDE DEF C!Fresh
<1>3. CursorTypes  BY <1>0, <1>1, <1>2 DEF CursorTypes
<1>4. ListsRead  BY <1>0, <1>1, <1>2 DEF ListsRead
<1>5. GoodPlace(cAsked \cup cBehind, cVersion, cCats, cCursor, {})
  <2>1. cCats \in Seq(C!ListPage)  BY <1>2, LinksAssumed
  <2>2. \A k \in 1..Len(cCats) : ~(k <= 0)  OBVIOUS
  <2> QED  BY <1>1, <1>2, <2>1, <2>2, CategoryBegins
<1> QED  BY <1>2, <1>3, <1>4, <1>5 DEF CursorInv

LEMMA CursorStep == ASSUME CursorInv, [C!Next]_cVars PROVE CursorInv'
<1>1. CASE UNCHANGED cVars
  BY <1>1 DEF CursorInv, CursorTypes, ListsRead, cVars
<1>2. CASE C!ModeExpires
  BY <1>2 DEF CursorInv, CursorTypes, ListsRead, C!ModeExpires
<1>3. ASSUME NEW w \in Walker,
             C!Begin(w) \/ C!LoadCursor(w) \/ C!Probe(w) \/ C!PageHarvested(w) \/ C!PageEmpty(w) \/ C!BudgetStop(w)
             \/ C!QuotaReached(w) \/ C!SaveCursor(w) \/ C!Dies(w)
      PROVE  CursorInv'
  BY <1>3, PlainStep, LoadStep, HarvestedStep, EmptyStep, StopStep, SaveStep
<1> QED  BY <1>1, <1>2, <1>3, ReplaceStep DEF C!Next

\* When the cursor has passed a category, each of its pages was asked for in this pass or lies
\* behind one that failed (harvest_tasks.py:201-340), for all lists and links, whatever runs
\* overlap, die, or are stopped by the budget; until the list is replaced under the pass.
THEOREM PassLeavesNothing == (C!Spec => []C!PassComplete) /\ (MCSpec => [](part = "harvest" => C!PassComplete))
<1>1. CursorInv => C!PassComplete
  <2> SUFFICES ASSUME CursorInv, cCursor.from = cVersion,
                      NEW k \in 1..(IF cCursor.cat < Len(cCats) THEN cCursor.cat ELSE Len(cCats)),
                      NEW page \in {cCats[k]} \cup C!Tails(MaxPages - 1, cCats[k])
               PROVE  <<cVersion, cCursor.pass, page>> \in cAsked \cup cBehind
    BY DEF C!PassComplete
  <2>1. cCursor \in C!Place /\ cCats \in Seq(C!ListPage)  BY LinksAssumed DEF CursorInv, CursorTypes
  <2>2. cCursor.cat \in Nat /\ Len(cCats) \in Nat  BY <2>1, PlaceFields
  <2>3. k \in 1..Len(cCats) /\ k <= cCursor.cat  BY <2>2
  <2>4. Covered(cAsked \cup cBehind, cVersion, cCursor.pass, cCats[k])  BY <2>3 DEF CursorInv, GoodPlace
  <2> QED  BY <2>4 DEF Covered
<1>2. C!Spec => []C!PassComplete
  <2>1. UNCHANGED C!vars <=> UNCHANGED cVars  BY DEF C!vars, cVars
  <2>2. ASSUME CursorInv, [C!Next]_(C!vars) PROVE CursorInv'
    BY <2>1, <2>2, CursorStep
  <2> QED  BY <1>1, <2>2, CursorInit, PTL DEF C!Spec
<1>3. MCInit => (part = "harvest" => CursorInv)  BY CursorInit DEF MCInit
<1>4. ASSUME part = "harvest" => CursorInv, [MCNext]_allVars PROVE (part = "harvest" => CursorInv)'
  BY <1>4, CursorStep, CursorPart
<1>5. MCSpec => [](part = "harvest" => C!PassComplete)
  BY <1>1, <1>3, <1>4, PTL DEF MCSpec, allVars
<1> QED  BY <1>2, <1>5

\* Both halves of what the runs check: a pass leaves no page of a category out, and no shop
\* waits longer than its rounds (harvest_tasks.py:201-340, 411-424).
THEOREM HarvestIsCovered == MCSpec => []HarvestCovers
<1>1. HarvestCovers <=> (part = "harvest" => C!PassComplete) /\ (part = "rotation" => R!NoShopStarves)
  BY DEF HarvestCovers
<1> QED  BY <1>1, NoShopWaits, PassLeavesNothing, PTL
=============================================================================
