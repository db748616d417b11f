------------------------------- MODULE UserAccounts -------------------------------
(***************************************************************************)
(* The accounts (modules/users, modules/core/admin_service.py and the      *)
(* writes of modules/persist/user_write.py): what administrators do to     *)
(* accounts and their roles, the superuser that a start of the backend     *)
(* creates when there is none, and the preferences of one user, a single   *)
(* JSON value that the pages of the frontend share by namespaces.          *)
(*                                                                         *)
(* A request reads in the session of the API and writes in another one, in *)
(* a thread; nothing is locked in between.                                 *)
(***************************************************************************)
EXTENDS Naturals, FiniteSets

CONSTANTS
    User,          \* ids, one of them of the bootstrap account
    Root,          \* of these, the bootstrap account: its email is configured
    Request,       \* requests, or starts of the backend, that may be under way
    Namespace,     \* keys of the preferences
    MaxPuts        \* bound on the writes of preferences

VARIABLES
    users,         \* the rows: NoUser, or the flags is_active and is_superuser
    prefs, acked,  \* the preferences, and what was last confirmed of each key
    puts,          \* writes of preferences so far
    upc, req,      \* where each request is, and its locals
    atOdds,        \* two requests have crossed, one of which takes its role from the author of the other
    patched,       \* PATCH /admin/users/{id} has changed flags: it checks nothing
    devices        \* two writes of the preferences have crossed

vars == <<users, prefs, acked, puts, upc, req, atOdds, patched, devices>>

NoUser == [active |-> FALSE, super |-> FALSE, is |-> FALSE]
Account(active, super) == [active |-> active, super |-> super, is |-> TRUE]
Nobody == [op |-> "", actor |-> Root, target |-> Root, copy |-> <<>>, key |-> "", value |-> 0]

Superusers == {u \in User : users[u].super}

Init ==
    /\ \/ users = [u \in User |-> NoUser]
       \/ users = [u \in User |-> IF u = Root THEN Account(TRUE, TRUE) ELSE NoUser]
    /\ prefs = [n \in Namespace |-> 0] /\ acked = prefs /\ puts = 0
    /\ upc = [r \in Request |-> "idle"] /\ req = [r \in Request |-> Nobody]
    /\ atOdds = FALSE /\ patched = FALSE /\ devices = FALSE

Goto(r, pc) == upc' = [upc EXCEPT ![r] = pc]
Done(r) == upc' = [upc EXCEPT ![r] = "idle"] /\ req' = [req EXCEPT ![r] = Nobody]

prefVars == <<prefs, acked, puts, devices>>
roleVars == <<users, atOdds, patched>>

-----------------------------------------------------------------------------
(***************************************************************************)
(* Administration: POST, PATCH and DELETE under /admin/users.              *)
(***************************************************************************)

Removals == {"demote", "delete"}
Creations == {"create", "create inactive"}
AdminOps == Removals \cup {"deactivate", "activate", "promote", "patch"} \cup Creations

\* Mutant: an administrator may turn on its own account.
OthersOnlyAnyone(op, actor, target) == TRUE

\* "You cannot ... your own account".
OthersOnly(op, actor, target) == op \in Removals \cup {"deactivate"} => actor # target

\* get_current_superuser asks for the role.  Ids of new accounts are fresh.
Authorize(r) ==
    /\ upc[r] = "idle"
    /\ \E op \in AdminOps, actor \in Superusers, target \in User :
          /\ OthersOnly(op, actor, target)
          /\ req' = [req EXCEPT ![r] = [Nobody EXCEPT !.op = op, !.actor = actor, !.target = target]]
          /\ atOdds' = (atOdds \/ (op \in Removals /\ \E q \in Request \ {r} :
                           /\ req[q].op \in Removals
                           /\ req[q].target = actor \/ req[q].actor = target))
    /\ Goto(r, "loading")
    /\ UNCHANGED <<users, patched, prefVars>>

\* db.get: whether the account is there, and whether it has the role, decides
\* what else is asked.
Load(r) ==
    LET op == req[r].op row == users[req[r].target] IN
    /\ upc[r] = "loading"
    /\ IF op \in Creations
       THEN IF row.is THEN Done(r) ELSE Goto(r, "writing") /\ UNCHANGED req
       ELSE IF ~row.is THEN Done(r)
       ELSE /\ Goto(r, IF op \in Removals \cup {"deactivate"} /\ row.super THEN "counting" ELSE "writing")
            /\ UNCHANGED req
    /\ UNCHANGED <<roleVars, prefVars>>

\* "the last superuser": of the active ones when somebody is deactivated.
CountSuperusers(r) ==
    LET counted == IF req[r].op = "deactivate" THEN {u \in Superusers : users[u].active} ELSE Superusers IN
    /\ upc[r] = "counting"
    /\ IF Cardinality(counted) <= 1 THEN Done(r) ELSE Goto(r, "writing") /\ UNCHANGED req
    /\ UNCHANGED <<roleVars, prefVars>>

\* The USER door lets nobody be activated again; an update of an account that
\* has gone meanwhile touches no row; an insert of one that is there fails.
DoorPasses(op) == op # "activate"

Row == [active : BOOLEAN, super : BOOLEAN, is : BOOLEAN]

\* What the gate leaves of a row.
Written(op, row, after) ==
    \/ op \in Creations /\ row.is /\ after = row
    \/ op \in Creations /\ ~row.is /\ \E super \in BOOLEAN : after = Account(TRUE, super)
    \/ op \notin Creations /\ ~row.is /\ after = row
    \/ op = "demote" /\ row.is /\ after = [row EXCEPT !.super = FALSE]
    \/ op = "promote" /\ row.is /\ after = [row EXCEPT !.super = TRUE]
    \/ op = "deactivate" /\ row.is /\ after = [row EXCEPT !.active = FALSE]
    \/ op = "delete" /\ row.is /\ after = NoUser
    \/ op = "patch" /\ row.is /\ after.is /\ after.active \in {row.active, FALSE}

\* One transaction; an account that is to be inactive is created active, and
\* deactivated by a second one.
WriteAccount(r) ==
    LET op == req[r].op target == req[r].target IN
    /\ upc[r] = "writing" /\ DoorPasses(op)
    /\ \E after \in Row : Written(op, users[target], after) /\ users' = [users EXCEPT ![target] = after]
    /\ patched' = (patched \/ op = "patch")
    /\ IF op = "create inactive" /\ ~users[target].is
       THEN Goto(r, "writing") /\ req' = [req EXCEPT ![r].op = "deactivate"]
       ELSE Done(r)
    /\ UNCHANGED <<atOdds, prefVars>>

\* Refused by the door, failed at the gate, or the process died: nothing is written.
Fail(r) ==
    /\ upc[r] # "idle"
    /\ Done(r)
    /\ UNCHANGED <<roleVars, prefVars>>

-----------------------------------------------------------------------------
(***************************************************************************)
(* ensure_superuser, at the start of each backend process.                 *)
(***************************************************************************)

\* One superuser is enough; of several the query raises, and the start gives
\* up after its retries.
LookForSuperuser(r) ==
    /\ upc[r] = "idle" /\ Superusers = {}
    /\ Goto(r, "booting") /\ req' = [req EXCEPT ![r].op = "boot"]
    /\ UNCHANGED <<roleVars, prefVars>>

\* The insert fails when another process was faster, or the email is taken.
CreateSuperuser(r) ==
    /\ upc[r] = "booting"
    /\ users' = [users EXCEPT ![Root] = IF @.is THEN @ ELSE Account(TRUE, TRUE)]
    /\ Done(r)
    /\ UNCHANGED <<atOdds, patched, prefVars>>

-----------------------------------------------------------------------------
(***************************************************************************)
(* The preferences: PUT /users/me/preferences, /users/me/favorites and     *)
(* /markets/preferences replace one key of the JSON value, PUT /users/me   *)
(* all of it.                                                              *)
(***************************************************************************)

\* The row of the user is read when the request is authenticated.
ReadPreferences(r) ==
    /\ upc[r] = "idle" /\ puts < MaxPuts
    /\ puts' = puts + 1
    /\ \E op \in {"put", "replace"}, key \in Namespace :
          req' = [req EXCEPT ![r] = [Nobody EXCEPT !.op = op, !.key = key, !.copy = prefs, !.value = puts']]
    /\ Goto(r, "merging")
    /\ devices' = (devices \/ \E q \in Request : upc[q] = "merging")
    /\ UNCHANGED <<roleVars, prefs, acked>>

\* Mutant: the update carries the one key only.
MergedAlone(r) ==
    [n \in Namespace |-> IF n = req[r].key \/ req[r].op = "replace" THEN req[r].value ELSE 0]

\* put_preferences_namespace: the other keys as they were in the copy.
Merged(r) ==
    [n \in Namespace |-> IF n = req[r].key \/ req[r].op = "replace" THEN req[r].value ELSE req[r].copy[n]]

\* The update writes the whole value; the answer confirms what was asked for.
WritePreferences(r) ==
    /\ upc[r] = "merging"
    /\ prefs' = Merged(r)
    /\ acked' = [n \in Namespace |-> IF n = req[r].key \/ req[r].op = "replace" THEN req[r].value ELSE acked[n]]
    /\ Done(r)
    /\ UNCHANGED <<roleVars, puts, devices>>

Next ==
    \E r \in Request :
        \/ Authorize(r) \/ Load(r) \/ CountSuperusers(r) \/ WriteAccount(r) \/ Fail(r)
        \/ LookForSuperuser(r) \/ CreateSuperuser(r)
        \/ ReadPreferences(r) \/ WritePreferences(r)

Spec == Init /\ [][Next]_vars

-----------------------------------------------------------------------------
TypeOK ==
    /\ \A u \in User : users[u] = NoUser \/ \E a, s \in BOOLEAN : users[u] = Account(a, s)
    /\ {prefs, acked} \subseteq [Namespace -> 0..MaxPuts] /\ puts \in 0..MaxPuts
    /\ upc \in [Request -> {"idle", "loading", "counting", "writing", "booting", "merging"}]
    /\ {atOdds, patched, devices} \subseteq BOOLEAN

\* Somebody administers the system: once a start has created a superuser,
\* whatever administrators do to each other and to themselves, on their own or
\* beside requests of others, one remains ("cannot remove the role from the last superuser", "cannot delete
\* the last superuser", users/service.py:168-172), as long as nobody is demoted or
\* deleted while demoting or deleting somebody, each counting the other, and
\* nobody's flags are changed by the PATCH of the profile, which does not count.
KeepsSuperuser == Superusers # {} => atOdds' \/ patched' \/ Superusers' # {}
SuperuserRemains == [][KeepsSuperuser]_vars

\* "Replace ONE namespace inside users.preferences, preserving the rest"
\* (users/service.py:142): what was confirmed of a key stays until the key is
\* written again, whatever other pages write, unless two writes cross.
NamespacesKept == ~devices => \A n \in Namespace : prefs[n] = acked[n]
=============================================================================
