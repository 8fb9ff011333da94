------------------------------ MODULE Accounts ------------------------------
(* The accounts of an installation (apps/settings_app, apps/core): user rows,  *)
(* the requests that create, edit and delete them, and API keys.  A request    *)
(* commits each statement by itself (no ATOMIC_REQUESTS), so a row it has read *)
(* and a count it has taken may be out of date when it saves.  The forms and   *)
(* the login pages only decide whether a request begins.                       *)
EXTENDS Naturals, FiniteSets

CONSTANTS
    Users,        \* primary keys a user row may get
    Names,        \* usernames that are typed
    Passwords,    \* passwords of at least MIN_PASSWORD_LENGTH characters
    Short,        \* a password that is too short
    Empty,        \* an empty form field
    ApiKeys,      \* primary keys an API key may get
    Desks,        \* requests in progress at a time
    MaxRequests   \* bound: requests begun

VARIABLES
    users,        \* mantecato_user: the row of a key, or NoUser
    keys,         \* report rows of type api-key, or NoKey
    desk,         \* the request of each slot
    begun,        \* requests begun, for the bound
    raced         \* history: a request saved after its reading was overtaken

accountVars == <<users, keys, desk, begun, raced>>

Roles == {"user", "admin"}
Scopes == {"read", "write", "admin"}
NoUser == [role |-> "none"]
NoKey == [owner |-> Empty]
Revoked == [owner |-> Empty, revoked |-> TRUE]   \* a key id is never used again
Idle == [kind |-> "idle"]

NewUser(name, role, pw) ==
    [name |-> name, role |-> role, pw |-> pw, default |-> FALSE, deleted |-> FALSE]

Exists(u) == users[u] # NoUser
IsActive(u) == Exists(u) /\ ~users[u].deleted
IsStaff(u) == users[u].role = "admin"
ActiveAdmins == {u \in Users : IsActive(u) /\ IsStaff(u)}

-----------------------------------------------------------------------------
(* Forms: what is typed, and what passes.                                      *)

LongEnough(pw) == pw \in Passwords
CreateFormValid(f) == f.name \in Names /\ LongEnough(f.pw) /\ f.again = f.pw
EditFormValid(f) == f.again = f.pw /\ (f.pw = Empty \/ LongEnough(f.pw))
ChangeFormValid(f) == f.current # Empty /\ LongEnough(f.pw) /\ f.again = f.pw

\* a form without scopes asks for both; unknown scopes are refused
ScopesGranted(asked) == IF asked = {} THEN {"read", "write"} ELSE asked
ScopesValid(asked) == asked \subseteq Scopes

Typed == Passwords \cup {Short, Empty}
CreateForms ==
    {f \in [name : Names \cup {Empty}, role : Roles, pw : Typed, again : Typed] : CreateFormValid(f)}
EditForms == {f \in [role : Roles, pw : Typed, again : Typed] : EditFormValid(f)}
ChangeForms == {f \in [current : Typed, pw : Typed, again : Typed] : ChangeFormValid(f)}

-----------------------------------------------------------------------------
(* Beginning a request: the session's user is read once (external: Django's    *)
(* authentication), and admin views refuse users who are not staff then.       *)

AdminRequired(u) == IsActive(u) /\ IsStaff(u)
LoginRequired(u) == IsActive(u)

Begin(d, r) ==
    /\ desk[d] = Idle
    /\ begun < MaxRequests
    /\ begun' = begun + 1
    /\ desk' = [desk EXCEPT ![d] = r]

Goto(d, phase) == desk' = [desk EXCEPT ![d].phase = phase]
Finish(d) == desk' = [desk EXCEPT ![d] = Idle]
At(d, kinds, phase) == desk[d].kind \in kinds /\ desk[d].phase = phase

PostUserCreate(d) ==
    \E u \in Users, f \in CreateForms :
        /\ AdminRequired(u)
        /\ Begin(d, [kind |-> "create", phase |-> "check", overtaken |-> FALSE,
                     row |-> NewUser(f.name, f.role, f.pw), default |-> FALSE])
        /\ UNCHANGED <<users, keys, raced>>

PostUserEdit(d) ==
    \E u, t \in Users, f \in EditForms :
        /\ AdminRequired(u)
        /\ IsActive(t)                          \* get_user, before the form
        /\ Begin(d, [kind |-> "edit", phase |-> "load", overtaken |-> FALSE,
                     target |-> t, role |-> f.role, pw |-> f.pw, seen |-> NoUser])
        /\ UNCHANGED <<users, keys, raced>>

PostUserDelete(d) ==
    \E u, t \in Users :
        /\ AdminRequired(u)
        /\ Begin(d, [kind |-> "delete", phase |-> "load", overtaken |-> FALSE,
                     actor |-> u, target |-> t, seen |-> NoUser])
        /\ UNCHANGED <<users, keys, raced>>

PostAccount(d) ==
    \E u \in Users, f \in ChangeForms :
        /\ LoginRequired(u)
        /\ Begin(d, [kind |-> "own", phase |-> "verify", overtaken |-> FALSE,
                     target |-> u, seen |-> users[u], current |-> f.current, pw |-> f.pw])
        /\ UNCHANGED <<users, keys, raced>>

\* the createuser command, run by an operator: the same check, a flag afterwards
RunCreateUser(d) ==
    \E f \in CreateForms, flag \in BOOLEAN :
        /\ Begin(d, [kind |-> "command", phase |-> "check", overtaken |-> FALSE,
                     row |-> NewUser(f.name, f.role, f.pw), default |-> flag])
        /\ UNCHANGED <<users, keys, raced>>

-----------------------------------------------------------------------------
(* Creating: the name is looked up among active users, the column is unique    *)
(* over all of them.  The second failure is an error page.                     *)

NameTaken(name) == \E u \in Users : IsActive(u) /\ users[u].name = name
NameStored(name) == \E u \in Users : Exists(u) /\ users[u].name = name

\* a saved role or deletion overtakes the readings of the requests in progress
Overtake(except) ==
    [d \in Desks |-> IF d = except \/ desk[d] = Idle THEN desk[d]
                     ELSE [desk[d] EXCEPT !.overtaken = TRUE]]

CheckName(d) ==
    /\ At(d, {"create", "command"}, "check")
    /\ IF NameTaken(desk[d].row.name) THEN Finish(d) ELSE Goto(d, "insert")
    /\ UNCHANGED <<users, keys, begun, raced>>

InsertUser(d) ==
    /\ At(d, {"create", "command"}, "insert")
    /\ \/ /\ ~NameStored(desk[d].row.name)
          /\ \E u \in {v \in Users : ~Exists(v)} :
                /\ users' = [users EXCEPT ![u] = desk[d].row]
                /\ desk' = [Overtake(d) EXCEPT ![d] =
                              IF desk[d].default
                              THEN [kind |-> "command", phase |-> "flag",
                                    overtaken |-> FALSE, target |-> u]
                              ELSE Idle]
       \/ /\ NameStored(desk[d].row.name)
          /\ Finish(d)
          /\ UNCHANGED users
    /\ UNCHANGED <<keys, begun, raced>>

FlagDefault(d) ==
    /\ At(d, {"command"}, "flag")
    /\ users' = [users EXCEPT ![desk[d].target].default = TRUE]
    /\ Finish(d)
    /\ UNCHANGED <<keys, begun, raced>>

-----------------------------------------------------------------------------
(* Editing: read the row, count the admins when one is demoted, save the row's *)
(* role, password and flag as they were read or typed.                         *)

Demotes(r) == r.kind = "edit" /\ r.seen.role = "admin" /\ r.role = "user"

LoadForEdit(d) ==
    /\ At(d, {"edit"}, "load")
    /\ LET t == desk[d].target
           r == [desk[d] EXCEPT !.seen = users[t], !.overtaken = FALSE]
       IN IF IsActive(t)
          THEN desk' = [desk EXCEPT ![d] =
                          [r EXCEPT !.phase = IF Demotes(r) THEN "count" ELSE "save"]]
          ELSE Finish(d)
    /\ UNCHANGED <<users, keys, begun, raced>>

CountAdmins(d) ==
    /\ At(d, {"edit", "delete"}, "count")
    /\ IF Cardinality(ActiveAdmins) <= 1 THEN Finish(d) ELSE Goto(d, "save")
    /\ UNCHANGED <<users, keys, begun, raced>>

SaveWholeRow(row, r) ==
    [r.seen EXCEPT !.role = r.role, !.pw = IF r.pw # Empty THEN r.pw ELSE @]

\* save(update_fields = role, password, password_is_default): other columns stay
EditedRow(row, r) ==
    [row EXCEPT !.role = r.role,
                !.pw = IF r.pw # Empty THEN r.pw ELSE r.seen.pw,
                !.default = IF r.pw # Empty THEN FALSE ELSE r.seen.default]

SaveRow(d, u, row) ==
    /\ users' = [users EXCEPT ![u] = row]
    /\ raced' = (raced \/ desk[d].overtaken)
    /\ desk' = [(IF row.role # users[u].role \/ row.deleted # users[u].deleted
                 THEN Overtake(d) ELSE desk) EXCEPT ![d] = Idle]
    /\ UNCHANGED <<keys, begun>>

SaveEdit(d) ==
    /\ At(d, {"edit"}, "save")
    /\ SaveRow(d, desk[d].target, EditedRow(users[desk[d].target], desk[d]))

-----------------------------------------------------------------------------
(* Deleting is a flag; nobody deletes himself, and the last admin stays.       *)

LoadForDeleteAlways(d) ==
    /\ At(d, {"delete"}, "load")
    /\ IF desk[d].target # desk[d].actor /\ IsActive(desk[d].target)
       THEN desk' = [desk EXCEPT ![d].seen = users[desk[d].target],
                                 ![d].overtaken = FALSE, ![d].phase = "save"]
       ELSE Finish(d)
    /\ UNCHANGED <<users, keys, begun, raced>>

LoadForDelete(d) ==
    /\ At(d, {"delete"}, "load")
    /\ LET t == desk[d].target
       IN IF t # desk[d].actor /\ IsActive(t)
          THEN desk' = [desk EXCEPT ![d].seen = users[t], ![d].overtaken = FALSE,
                          ![d].phase = IF IsStaff(t) THEN "count" ELSE "save"]
          ELSE Finish(d)
    /\ UNCHANGED <<users, keys, begun, raced>>

SaveDelete(d) ==
    /\ At(d, {"delete"}, "save")
    /\ SaveRow(d, desk[d].target, [users[desk[d].target] EXCEPT !.deleted = TRUE])

-----------------------------------------------------------------------------
(* The user's own password: checked against the row that authentication read.  *)

VerifyOwn(d) ==
    /\ At(d, {"own"}, "verify")
    /\ IF desk[d].current = desk[d].seen.pw THEN Goto(d, "save") ELSE Finish(d)
    /\ UNCHANGED <<users, keys, begun, raced>>

SaveOwn(d) ==
    /\ At(d, {"own"}, "save")
    /\ SaveRow(d, desk[d].target,
               [users[desk[d].target] EXCEPT !.pw = desk[d].pw, !.default = FALSE])

-----------------------------------------------------------------------------
(* API keys.  Whoever presents a key acts for its owner with its scopes; a key *)
(* needs the admin scope to mint one that has it.  Presenting a key may write  *)
(* its lastUsedAt, in a statement after the one that found it; a row that has  *)
(* gone in between makes that save fail, which reads as an invalid key.        *)

IsKey(k) == keys[k] \notin {NoKey, Revoked}

StoreKey(u, asked) ==
    \E k \in ApiKeys :
        /\ keys[k] = NoKey
        /\ ScopesValid(asked)
        /\ keys' = [keys EXCEPT ![k] = [owner |-> u, scopes |-> asked, used |-> FALSE]]

PostApiKey(u) ==
    /\ LoginRequired(u)
    /\ \E asked \in SUBSET Scopes : StoreKey(u, ScopesGranted(asked))
    /\ UNCHANGED <<users, desk, begun, raced>>

MayMint(scopes, asked) == "write" \in scopes /\ ("admin" \in asked => "admin" \in scopes)

ApiCreateKey(k) ==
    /\ IsKey(k)
    /\ \E asked \in SUBSET Scopes :
          /\ MayMint(keys[k].scopes, asked)
          /\ \/ StoreKey(keys[k].owner, asked)
             \/ asked = {} /\ StoreKey(keys[k].owner, ScopesGranted({}))   \* none named
    /\ UNCHANGED <<users, desk, begun, raced>>

RemoveKey(u, k) ==
    /\ IsKey(k) /\ keys[k].owner = u
    /\ keys' = [keys EXCEPT ![k] = Revoked]
    /\ UNCHANGED <<users, desk, begun, raced>>

PresentKey(d, k) ==
    /\ IsKey(k)
    /\ ~keys[k].used
    /\ Begin(d, [kind |-> "key", phase |-> "touch", overtaken |-> FALSE,
                 key |-> k, seen |-> keys[k]])
    /\ UNCHANGED <<users, keys, raced>>

\* save(update_fields = parameters) of a row that has gone raises, and the caller
\* is told the key is invalid
TouchKey(d) ==
    /\ At(d, {"key"}, "touch")
    /\ IF IsKey(desk[d].key)
       THEN keys' = [keys EXCEPT ![desk[d].key] =
                       [@ EXCEPT !.scopes = desk[d].seen.scopes, !.used = TRUE]]
       ELSE UNCHANGED keys
    /\ Finish(d)
    /\ UNCHANGED <<users, begun, raced>>

-----------------------------------------------------------------------------
InitAccounts ==
    /\ \E admins \in SUBSET Users : \E n \in [admins -> Names], pw \in Passwords :
          /\ Cardinality(admins) = 2
          /\ \A a, b \in admins : a # b => n[a] # n[b]
          /\ users = [u \in Users |-> IF u \in admins THEN NewUser(n[u], "admin", pw)
                                      ELSE NoUser]
    /\ keys = [k \in ApiKeys |-> NoKey]
    /\ desk = [d \in Desks |-> Idle]
    /\ begun = 0
    /\ raced = FALSE

NextAccounts ==
    \/ \E d \in Desks :
          \/ PostUserCreate(d) \/ RunCreateUser(d) \/ CheckName(d)
          \/ InsertUser(d) \/ FlagDefault(d)
          \/ PostUserEdit(d) \/ LoadForEdit(d) \/ CountAdmins(d) \/ SaveEdit(d)
          \/ PostUserDelete(d) \/ LoadForDelete(d) \/ SaveDelete(d)
          \/ PostAccount(d) \/ VerifyOwn(d) \/ SaveOwn(d)
          \/ TouchKey(d)
          \/ \E k \in ApiKeys : PresentKey(d, k)
    \/ \E u \in Users : PostApiKey(u)
    \/ \E k \in ApiKeys : ApiCreateKey(k) \/ \E u \in Users : RemoveKey(u, k)

AccountsSpec == InitAccounts /\ [][NextAccounts]_accountVars

-----------------------------------------------------------------------------
(* The anti-lockout guards (update_user_account, soft_delete_user) are enough   *)
(* for requests that follow one another: an installation is without an active   *)
(* admin only if some request saved on a reading that another had overtaken.    *)
LockoutNeedsARace == ActiveAdmins = {} => raced

(* What has been deleted stays deleted although requests still hold copies of   *)
(* it: no late save revives a user, and no lastUsedAt write a revoked key.      *)
DeletedStaysDeleted ==
    [][/\ \A u \in Users : Exists(u) /\ users[u].deleted => users'[u].deleted
       /\ \A k \in ApiKeys : keys[k] = Revoked => keys'[k] = Revoked]_accountVars

-----------------------------------------------------------------------------
(* The inductive invariant behind LockoutNeedsARace and DeletedStaysDeleted.    *)

UserRow == [name : Names, role : Roles, pw : Passwords, default : BOOLEAN, deleted : BOOLEAN]
KeyRow == [owner : Users, scopes : SUBSET Scopes, used : BOOLEAN]

\* a request in progress, by what it does
CreateRequests ==
    [kind : {"create", "command"}, phase : {"check", "insert"}, overtaken : BOOLEAN,
     row : UserRow, default : BOOLEAN]
FlagRequests ==
    [kind : {"command"}, phase : {"flag"}, overtaken : BOOLEAN, target : Users]
EditRequests ==
    [kind : {"edit"}, phase : {"load", "count", "save"}, overtaken : BOOLEAN,
     target : Users, role : Roles, pw : Passwords \cup {Empty}, seen : {NoUser} \cup UserRow]
DeleteRequests ==
    [kind : {"delete"}, phase : {"load", "count", "save"}, overtaken : BOOLEAN,
     actor : Users, target : Users, seen : {NoUser} \cup UserRow]
OwnRequests ==
    [kind : {"own"}, phase : {"verify", "save"}, overtaken : BOOLEAN, target : Users,
     seen : UserRow, current : Typed, pw : Passwords]
KeyRequests ==
    [kind : {"key"}, phase : {"touch"}, overtaken : BOOLEAN, key : ApiKeys, seen : KeyRow]
Requests == CreateRequests \cup FlagRequests \cup EditRequests \cup DeleteRequests
            \cup OwnRequests \cup KeyRequests

AccountsTyped ==
    /\ users \in [Users -> {NoUser} \cup UserRow]
    /\ keys \in [ApiKeys -> {NoKey, Revoked} \cup KeyRow]
    /\ desk \in [Desks -> {Idle} \cup Requests]
    /\ raced \in BOOLEAN

\* a row that a request has read, or made, is there to be saved
HasRow(r) == r.kind \in {"own", "edit", "delete", "command"} /\ r.phase \in {"verify", "count", "save", "flag"}
TargetsInv ==
    \A d \in Desks : HasRow(desk[d]) =>
        Exists(desk[d].target) /\ (desk[d].kind # "command" => desk[d].seen \in UserRow)

\* the reading of a request that nothing has overtaken: the row is as it was read,
\* and whoever saves the loss of an administrator leaves another one
TakesAnAdmin(r) == Demotes(r) \/ (r.kind = "delete" /\ r.seen.role = "admin")
ReadingHolds(r) ==
    r.kind \in {"edit", "delete"} /\ r.phase # "load" /\ ~r.overtaken =>
        /\ ~users[r.target].deleted /\ users[r.target].role = r.seen.role
        /\ r.phase = "save" /\ TakesAnAdmin(r) => \E a \in ActiveAdmins : a # r.target
ReadingsInv == \A d \in Desks : ReadingHolds(desk[d])
=============================================================================
