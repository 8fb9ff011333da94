--------------------------- MODULE AccountProofs ---------------------------
(* Proofs about accounts and API keys (Accounts).                              *)
EXTENDS Accounts, FiniteSetTheorems, TLAPS

(***************************************************************************)
(* A request that is about to take an administrator away has counted two,  *)
(* and unless its reading is overtaken the other one is still there when   *)
(* it saves: every save that changes a role or a deletion marks all other  *)
(* requests overtaken.                                                     *)
(***************************************************************************)

AccountsInv == AccountsTyped /\ TargetsInv /\ ReadingsInv /\ LockoutNeedsARace

\* What a request is follows from its kind, and which fields it has.
LEMMA RequestKinds ==
  ASSUME NEW r \in {Idle} \cup Requests
  PROVE  /\ r.kind = "idle" => r = Idle
         /\ r.kind = "create" => r \in CreateRequests
         /\ r.kind = "command" => r \in CreateRequests \cup FlagRequests
         /\ r.kind = "command" /\ r.phase = "flag" => r \in FlagRequests
         /\ r.kind \in {"create", "command"} /\ r.phase # "flag" => r \in CreateRequests
         /\ r.kind = "edit" => r \in EditRequests
         /\ r.kind = "delete" => r \in DeleteRequests
         /\ r.kind = "own" => r \in OwnRequests
         /\ r.kind = "key" => r \in KeyRequests
         /\ r # Idle => r \in Requests
  <1>1. CASE r = Idle
    BY <1>1 DEF Idle
  <1>2. CASE r \in CreateRequests
    <2>1. r.kind \in {"create", "command"} /\ r.phase \in {"check", "insert"}
      BY <1>2 DEF CreateRequests
    <2> QED BY <1>2, <2>1 DEF Requests
  <1>3. CASE r \in FlagRequests
    <2>1. r.kind = "command" /\ r.phase = "flag"
      BY <1>3 DEF FlagRequests
    <2> QED BY <1>3, <2>1 DEF Requests
  <1>4. CASE r \in EditRequests
    <2>1. r.kind = "edit"
      BY <1>4 DEF EditRequests
    <2> QED BY <1>4, <2>1 DEF Requests
  <1>5. CASE r \in DeleteRequests
    <2>1. r.kind = "delete"
      BY <1>5 DEF DeleteRequests
    <2> QED BY <1>5, <2>1 DEF Requests
  <1>6. CASE r \in OwnRequests
    <2>1. r.kind = "own"
      BY <1>6 DEF OwnRequests
    <2> QED BY <1>6, <2>1 DEF Requests
  <1>7. CASE r \in KeyRequests
    <2>1. r.kind = "key"
      BY <1>7 DEF KeyRequests
    <2> QED BY <1>7, <2>1 DEF Requests
  <1> QED BY <1>1, <1>2, <1>3, <1>4, <1>5, <1>6, <1>7 DEF Requests

\* A request that is overtaken stays what it is.
LEMMA OvertakenRequest ==
  ASSUME NEW r \in Requests, NEW s, s = [r EXCEPT !.overtaken = TRUE]
  PROVE  /\ s \in Requests /\ s.overtaken /\ s.kind = r.kind /\ s.phase = r.phase
         /\ HasRow(r) => s.target = r.target /\ (r.kind # "command" => s.seen = r.seen)
  <1>1. CASE r \in CreateRequests
    <2>1. s \in CreateRequests /\ s.overtaken /\ s.kind = r.kind /\ s.phase = r.phase
      BY <1>1 DEF CreateRequests
    <2>2. ~HasRow(r)
      BY <1>1 DEF CreateRequests, HasRow
    <2> QED BY <2>1, <2>2 DEF Requests
  <1>2. CASE r \in FlagRequests
    <2>1. /\ s \in FlagRequests /\ s.overtaken /\ s.kind = r.kind /\ s.phase = r.phase
          /\ s.target = r.target /\ r.kind = "command"
      BY <1>2 DEF FlagRequests
    <2> QED BY <2>1 DEF Requests
  <1>3. CASE r \in EditRequests
    <2>1. /\ s \in EditRequests /\ s.overtaken /\ s.kind = r.kind /\ s.phase = r.phase
          /\ s.target = r.target /\ s.seen = r.seen
      BY <1>3 DEF EditRequests
    <2> QED BY <2>1 DEF Requests
  <1>4. CASE r \in DeleteRequests
    <2>1. /\ s \in DeleteRequests /\ s.overtaken /\ s.kind = r.kind /\ s.phase = r.phase
          /\ s.target = r.target /\ s.seen = r.seen
      BY <1>4 DEF DeleteRequests
    <2> QED BY <2>1 DEF Requests
  <1>5. CASE r \in OwnRequests
    <2>1. /\ s \in OwnRequests /\ s.overtaken /\ s.kind = r.kind /\ s.phase = r.phase
          /\ s.target = r.target /\ s.seen = r.seen
      BY <1>5 DEF OwnRequests
    <2> QED BY <2>1 DEF Requests
  <1>6. CASE r \in KeyRequests
    <2>1. s \in KeyRequests /\ s.overtaken /\ s.kind = r.kind /\ s.phase = r.phase
      BY <1>6 DEF KeyRequests
    <2>2. ~HasRow(r)
      BY <1>6 DEF KeyRequests, HasRow
    <2> QED BY <2>1, <2>2 DEF Requests
  <1> QED BY <1>1, <1>2, <1>3, <1>4, <1>5, <1>6 DEF Requests

\* A row that is there is a whole row.
LEMMA RowsAreWhole ==
  ASSUME AccountsTyped, NEW u \in Users
  PROVE  Exists(u) <=> users[u] \in UserRow
  BY DEF AccountsTyped, Exists, NoUser, UserRow, Roles

\* A step of one request that saves nothing.
LEMMA OneDesk ==
  ASSUME AccountsInv, UNCHANGED <<users, raced>>, keys' \in [ApiKeys -> {NoKey, Revoked} \cup KeyRow],
         NEW d \in Desks, NEW r \in {Idle} \cup Requests, desk' = [desk EXCEPT ![d] = r],
         HasRow(r) => Exists(r.target) /\ (r.kind # "command" => r.seen \in UserRow),
         ReadingHolds(r)
  PROVE  AccountsInv'
  <1>1. AccountsTyped'
    BY DEF AccountsInv, AccountsTyped
  <1>2. \A e \in Desks : desk'[e] = IF e = d THEN r ELSE desk[e]
    BY DEF AccountsInv, AccountsTyped
  <1>3. TargetsInv'
    BY <1>2 DEF AccountsInv, TargetsInv, Exists
  <1>4. ActiveAdmins' = ActiveAdmins
    BY DEF ActiveAdmins, IsActive, IsStaff, Exists
  <1>5. ReadingsInv'
    <2> SUFFICES ASSUME NEW e \in Desks PROVE ReadingHolds(desk[e])'
      BY DEF ReadingsInv
    <2>1. CASE e = d
      BY <2>1, <1>2, <1>4 DEF ReadingHolds
    <2>2. CASE e # d
      <3>1. ReadingHolds(desk[e]) /\ desk'[e] = desk[e]
        BY <2>2, <1>2 DEF AccountsInv, ReadingsInv
      <3> QED BY <3>1, <1>4 DEF ReadingHolds
    <2> QED BY <2>1, <2>2
  <1>6. LockoutNeedsARace'
    BY <1>4 DEF AccountsInv, LockoutNeedsARace
  <1> QED BY <1>1, <1>3, <1>5, <1>6 DEF AccountsInv

\* Requests begin without a row, the change of one's own password excepted: its
\* row is the one the session was authenticated with.
LEMMA RequestsBegin ==
  ASSUME AccountsInv, NEW d \in Desks,
         \/ PostUserCreate(d) \/ PostUserEdit(d) \/ PostUserDelete(d) \/ PostAccount(d)
         \/ RunCreateUser(d) \/ \E k \in ApiKeys : PresentKey(d, k)
  PROVE  AccountsInv'
  <1>0. /\ UNCHANGED <<users, keys, raced>> /\ AccountsTyped
        /\ keys' \in [ApiKeys -> {NoKey, Revoked} \cup KeyRow]
    BY DEF PostUserCreate, PostUserEdit, PostUserDelete, PostAccount, RunCreateUser, PresentKey,
           AccountsInv, AccountsTyped
  <1>1. ASSUME NEW f \in CreateForms, NEW flag \in BOOLEAN, NEW kind \in {"create", "command"},
               Begin(d, [kind |-> kind, phase |-> "check", overtaken |-> FALSE,
                         row |-> NewUser(f.name, f.role, f.pw), default |-> flag])
        PROVE  AccountsInv'
    <2> DEFINE row == NewUser(f.name, f.role, f.pw)
               r == [kind |-> kind, phase |-> "check", overtaken |-> FALSE, row |-> row,
                     default |-> flag]
    <2>1. f.name \in Names /\ f.role \in Roles /\ f.pw \in Passwords
      BY DEF CreateForms, CreateFormValid, LongEnough
    <2>2. row \in UserRow
      BY <2>1 DEF NewUser, UserRow
    <2>3. desk' = [desk EXCEPT ![d] = r]
      BY <1>1 DEF Begin
    <2> HIDE DEF row
    <2>4. r \in CreateRequests /\ ~HasRow(r) /\ ReadingHolds(r)
      BY <2>2 DEF CreateRequests, HasRow, ReadingHolds
    <2>5. r \in Requests
      BY <2>4 DEF Requests
    <2> HIDE DEF r
    <2> QED BY <1>0, <2>3, <2>4, <2>5, OneDesk
  <1>2. CASE PostUserCreate(d) \/ RunCreateUser(d)
    BY <1>1, <1>2 DEF PostUserCreate, RunCreateUser
  <1>3. CASE PostUserEdit(d)
    <2>1. PICK t \in Users, f \in EditForms :
            desk' = [desk EXCEPT ![d] = [kind |-> "edit", phase |-> "load", overtaken |-> FALSE,
                                         target |-> t, role |-> f.role, pw |-> f.pw, seen |-> NoUser]]
      BY <1>3 DEF PostUserEdit, Begin
    <2> DEFINE r == [kind |-> "edit", phase |-> "load", overtaken |-> FALSE,
                     target |-> t, role |-> f.role, pw |-> f.pw, seen |-> NoUser]
    <2>2. f.role \in Roles /\ f.pw \in Passwords \cup {Empty}
      BY DEF EditForms, EditFormValid, LongEnough
    <2>3. r \in EditRequests /\ ~HasRow(r) /\ ReadingHolds(r)
      BY <2>2 DEF EditRequests, HasRow, ReadingHolds
    <2>4. r \in Requests
      BY <2>3 DEF Requests
    <2> HIDE DEF r
    <2> QED BY <1>0, <2>1, <2>3, <2>4, OneDesk DEF r
  <1>4. CASE PostUserDelete(d)
    <2>1. PICK u \in Users, t \in Users :
            desk' = [desk EXCEPT ![d] = [kind |-> "delete", phase |-> "load", overtaken |-> FALSE,
                                         actor |-> u, target |-> t, seen |-> NoUser]]
      BY <1>4 DEF PostUserDelete, Begin
    <2> DEFINE r == [kind |-> "delete", phase |-> "load", overtaken |-> FALSE,
                     actor |-> u, target |-> t, seen |-> NoUser]
    <2>2. r \in DeleteRequests /\ ~HasRow(r) /\ ReadingHolds(r)
      BY DEF DeleteRequests, HasRow, ReadingHolds
    <2>3. r \in Requests
      BY <2>2 DEF Requests
    <2> HIDE DEF r
    <2> QED BY <1>0, <2>1, <2>2, <2>3, OneDesk DEF r
  <1>5. CASE PostAccount(d)
    <2>1. PICK u \in Users, f \in ChangeForms :
            /\ IsActive(u)
            /\ desk' = [desk EXCEPT ![d] = [kind |-> "own", phase |-> "verify", overtaken |-> FALSE,
                                            target |-> u, seen |-> users[u], current |-> f.current,
                                            pw |-> f.pw]]
      BY <1>5 DEF PostAccount, Begin, LoginRequired
    <2> DEFINE r == [kind |-> "own", phase |-> "verify", overtaken |-> FALSE, target |-> u,
                     seen |-> users[u], current |-> f.current, pw |-> f.pw]
    <2>2. f.current \in Typed /\ f.pw \in Passwords
      BY DEF ChangeForms, ChangeFormValid, LongEnough
    <2>3. Exists(u) /\ users[u] \in UserRow
      BY <1>0, <2>1, RowsAreWhole DEF IsActive
    <2>4. r \in OwnRequests /\ r.target = u /\ r.seen \in UserRow /\ ReadingHolds(r)
      BY <2>2, <2>3 DEF OwnRequests, ReadingHolds
    <2>5. r \in Requests
      BY <2>4 DEF Requests
    <2> HIDE DEF r
    <2> QED BY <1>0, <2>1, <2>3, <2>4, <2>5, OneDesk DEF r
  <1>6. CASE \E k \in ApiKeys : PresentKey(d, k)
    <2>1. PICK k \in ApiKeys :
            /\ IsKey(k)
            /\ desk' = [desk EXCEPT ![d] = [kind |-> "key", phase |-> "touch", overtaken |-> FALSE,
                                            key |-> k, seen |-> keys[k]]]
      BY <1>6 DEF PresentKey, Begin
    <2> DEFINE r == [kind |-> "key", phase |-> "touch", overtaken |-> FALSE, key |-> k,
                     seen |-> keys[k]]
    <2>2. keys[k] \in KeyRow
      BY <1>0, <2>1 DEF AccountsTyped, IsKey
    <2>3. r \in KeyRequests /\ ~HasRow(r) /\ ReadingHolds(r)
      BY <2>2 DEF KeyRequests, HasRow, ReadingHolds
    <2>4. r \in Requests
      BY <2>3 DEF Requests
    <2> HIDE DEF r
    <2> QED BY <1>0, <2>1, <2>3, <2>4, OneDesk DEF r
  <1> QED BY <1>2, <1>3, <1>4, <1>5, <1>6

\* Whoever has counted more than one administrator leaves one.
LEMMA AnotherAdmin ==
  ASSUME NEW t, ~(Cardinality(ActiveAdmins) <= 1)
  PROVE  \E a \in ActiveAdmins : a # t
  <1> SUFFICES ASSUME \A a \in ActiveAdmins : a = t
               PROVE  Cardinality(ActiveAdmins) <= 1
    OBVIOUS
  <1>1. ActiveAdmins = {} \/ ActiveAdmins = {t}
    OBVIOUS
  <1>2. Cardinality({}) = 0 /\ Cardinality({t}) = 1
    BY FS_EmptySet, FS_Singleton
  <1> QED BY <1>1, <1>2

\* Checks, readings and counts: they save nothing.
LEMMA RequestsRead ==
  ASSUME AccountsInv, NEW d \in Desks,
         \/ CheckName(d) \/ LoadForEdit(d) \/ CountAdmins(d) \/ LoadForDelete(d) \/ VerifyOwn(d)
         \/ TouchKey(d)
  PROVE  AccountsInv'
  <1>0. /\ UNCHANGED <<users, raced>> /\ AccountsTyped
        /\ desk \in [Desks -> {Idle} \cup Requests]
        /\ desk[d] \in {Idle} \cup Requests
        /\ keys \in [ApiKeys -> {NoKey, Revoked} \cup KeyRow]
        /\ ReadingHolds(desk[d])
        /\ HasRow(desk[d]) => Exists(desk[d].target) /\ (desk[d].kind # "command" => desk[d].seen \in UserRow)
    BY DEF CheckName, LoadForEdit, CountAdmins, LoadForDelete, VerifyOwn, TouchKey,
           AccountsInv, AccountsTyped, TargetsInv, ReadingsInv
  <1>1. ASSUME Finish(d), keys' \in [ApiKeys -> {NoKey, Revoked} \cup KeyRow]
        PROVE  AccountsInv'
    <2>1. desk' = [desk EXCEPT ![d] = Idle] /\ ~HasRow(Idle) /\ ReadingHolds(Idle)
      BY <1>1 DEF Finish, HasRow, ReadingHolds, Idle
    <2> QED BY <1>0, <1>1, <2>1, OneDesk
  <1>2. CASE CheckName(d)
    <2>1. keys' = keys /\ desk[d].kind \in {"create", "command"} /\ desk[d].phase = "check"
          /\ (Finish(d) \/ desk' = [desk EXCEPT ![d] = [desk[d] EXCEPT !.phase = "insert"]])
      BY <1>2 DEF CheckName, At, Goto
    <2> DEFINE r == [desk[d] EXCEPT !.phase = "insert"]
    <2>2. desk[d] \in CreateRequests
      BY <1>0, <2>1, RequestKinds
    <2>3. r \in CreateRequests /\ ~HasRow(r) /\ ReadingHolds(r)
      BY <2>2 DEF CreateRequests, HasRow, ReadingHolds
    <2>4. r \in Requests
      BY <2>3 DEF Requests
    <2> HIDE DEF r
    <2> QED BY <1>0, <1>1, <2>1, <2>3, <2>4, OneDesk DEF r
  <1>3. CASE LoadForEdit(d)
    <2> DEFINE t == desk[d].target
               q == [desk[d] EXCEPT !.seen = users[t], !.overtaken = FALSE]
               phase == IF Demotes(q) THEN "count" ELSE "save"
               r == [q EXCEPT !.phase = phase]
    <2>1. /\ keys' = keys /\ desk[d].kind = "edit" /\ desk[d].phase = "load"
          /\ \/ Finish(d)
             \/ IsActive(t) /\ desk' = [desk EXCEPT ![d] = r]
      BY <1>3 DEF LoadForEdit, At
    <2>2. desk[d] \in EditRequests /\ t \in Users
      <3>1. desk[d] \in EditRequests
        BY <1>0, <2>1, RequestKinds
      <3> QED BY <3>1 DEF EditRequests
    <2>3. ASSUME IsActive(t)
          PROVE  /\ r \in EditRequests /\ r.target = t /\ r.seen = users[t] /\ r.kind = "edit"
                 /\ Exists(t) /\ users[t] \in UserRow /\ ReadingHolds(r)
      <3>1. Exists(t) /\ users[t] \in UserRow /\ ~users[t].deleted
        BY <1>0, <2>2, <2>3, RowsAreWhole DEF IsActive
      <3>2. /\ q \in EditRequests /\ q.target = t /\ q.seen = users[t] /\ q.kind = "edit"
        BY <2>2, <3>1 DEF EditRequests
      <3>3. phase \in {"count", "save"} /\ (phase = "save" => ~Demotes(q))
        OBVIOUS
      <3> HIDE DEF q, phase
      <3>4. /\ r \in EditRequests /\ r.target = t /\ r.seen = users[t] /\ r.kind = "edit"
            /\ r.phase = phase /\ r.role = q.role
        BY <3>2, <3>3 DEF EditRequests
      <3> HIDE DEF r
      <3>5. r.phase = "save" => ~TakesAnAdmin(r)
        BY <3>2, <3>3, <3>4 DEF TakesAnAdmin, Demotes
      <3> QED BY <3>1, <3>4, <3>5 DEF ReadingHolds
    <2>4. r \in EditRequests => r \in Requests
      BY DEF Requests
    <2> HIDE DEF r
    <2>5. CASE Finish(d)
      BY <2>1, <2>5, <1>0, <1>1
    <2>6. CASE IsActive(t) /\ desk' = [desk EXCEPT ![d] = r]
      BY <2>1, <2>3, <2>4, <2>6, <1>0, OneDesk
    <2> QED BY <2>1, <2>5, <2>6 DEF r
  <1>4. CASE CountAdmins(d)
    <2> DEFINE r == [desk[d] EXCEPT !.phase = "save"]
    <2>1. /\ keys' = keys /\ desk[d].kind \in {"edit", "delete"} /\ desk[d].phase = "count"
          /\ \/ Finish(d)
             \/ ~(Cardinality(ActiveAdmins) <= 1) /\ desk' = [desk EXCEPT ![d] = r]
      <3>1. \/ Finish(d)
            \/ ~(Cardinality(ActiveAdmins) <= 1) /\ Goto(d, "save")
        <4>1. CASE Cardinality(ActiveAdmins) <= 1
          BY <1>4, <4>1 DEF CountAdmins
        <4>2. CASE ~(Cardinality(ActiveAdmins) <= 1)
          BY <1>4, <4>2 DEF CountAdmins
        <4> QED BY <4>1, <4>2
      <3>2. Goto(d, "save") => desk' = [desk EXCEPT ![d] = r]
        BY DEF Goto
      <3>3. keys' = keys /\ desk[d].kind \in {"edit", "delete"} /\ desk[d].phase = "count"
        BY <1>4 DEF CountAdmins, At
      <3> QED BY <3>1, <3>2, <3>3
    <2>2. /\ r \in Requests /\ r.kind = desk[d].kind /\ r.target = desk[d].target
          /\ r.seen = desk[d].seen /\ r.phase = "save" /\ r.overtaken = desk[d].overtaken
      <3>1. CASE desk[d].kind = "edit"
        <4>1. desk[d] \in EditRequests
          BY <1>0, <3>1, RequestKinds
        <4>2. /\ r \in EditRequests /\ r.kind = desk[d].kind /\ r.target = desk[d].target
              /\ r.seen = desk[d].seen /\ r.phase = "save" /\ r.overtaken = desk[d].overtaken
          BY <4>1 DEF EditRequests
        <4> QED BY <4>2 DEF Requests
      <3>2. CASE desk[d].kind = "delete"
        <4>1. desk[d] \in DeleteRequests
          BY <1>0, <3>2, RequestKinds
        <4>2. /\ r \in DeleteRequests /\ r.kind = desk[d].kind /\ r.target = desk[d].target
              /\ r.seen = desk[d].seen /\ r.phase = "save" /\ r.overtaken = desk[d].overtaken
          BY <4>1 DEF DeleteRequests
        <4> QED BY <4>2 DEF Requests
      <3> QED BY <2>1, <3>1, <3>2
    <2>3. HasRow(desk[d])
      BY <2>1 DEF HasRow
    <2> HIDE DEF r
    <2>4. CASE Finish(d)
      BY <2>1, <2>4, <1>0, <1>1
    <2>5. CASE ~(Cardinality(ActiveAdmins) <= 1) /\ desk' = [desk EXCEPT ![d] = r]
      <3>1. \E a \in ActiveAdmins : a # r.target
        BY <2>5, AnotherAdmin
      <3>2. ReadingHolds(r)
        BY <1>0, <2>1, <2>2, <3>1 DEF ReadingHolds
      <3> QED BY <1>0, <2>1, <2>2, <2>3, <2>5, <3>2, OneDesk
    <2> QED BY <2>1, <2>4, <2>5
  <1>5. CASE LoadForDelete(d)
    <2> DEFINE t == desk[d].target
               phase == IF IsStaff(t) THEN "count" ELSE "save"
               r == [desk[d] EXCEPT !.seen = users[t], !.overtaken = FALSE, !.phase = phase]
    <2>1. /\ keys' = keys /\ desk[d].kind = "delete" /\ desk[d].phase = "load"
      BY <1>5 DEF LoadForDelete, At
    <2>2. desk[d] \in DeleteRequests /\ t \in Users
      <3>1. desk[d] \in DeleteRequests
        BY <1>0, <2>1, RequestKinds
      <3> QED BY <3>1 DEF DeleteRequests
    <2>3. \/ Finish(d)
          \/ IsActive(t) /\ desk' = [desk EXCEPT ![d] = r]
      BY <1>0, <1>5, <2>2 DEF LoadForDelete, DeleteRequests
    <2>4. ASSUME IsActive(t)
          PROVE  /\ r \in DeleteRequests /\ r.target = t /\ r.seen = users[t] /\ r.kind = "delete"
                 /\ Exists(t) /\ users[t] \in UserRow /\ ReadingHolds(r)
      <3>1. Exists(t) /\ users[t] \in UserRow /\ ~users[t].deleted
        BY <1>0, <2>2, <2>4, RowsAreWhole DEF IsActive
      <3>2. phase \in {"count", "save"} /\ (phase = "save" => users[t].role # "admin")
        BY DEF IsStaff
      <3> HIDE DEF phase
      <3>3. /\ r \in DeleteRequests /\ r.target = t /\ r.seen = users[t] /\ r.kind = "delete"
            /\ r.phase = phase
        BY <2>2, <3>1, <3>2 DEF DeleteRequests
      <3> HIDE DEF r
      <3>4. r.phase = "save" => ~TakesAnAdmin(r)
        BY <3>2, <3>3 DEF TakesAnAdmin, Demotes
      <3> QED BY <3>1, <3>3, <3>4 DEF ReadingHolds
    <2>5. r \in DeleteRequests => r \in Requests
      BY DEF Requests
    <2> HIDE DEF r
    <2>6. CASE Finish(d)
      BY <2>1, <2>6, <1>0, <1>1
    <2>7. CASE IsActive(t) /\ desk' = [desk EXCEPT ![d] = r]
      BY <2>1, <2>4, <2>5, <2>7, <1>0, OneDesk
    <2> QED BY <2>3, <2>6, <2>7 DEF r
  <1>6. CASE VerifyOwn(d)
    <2> DEFINE r == [desk[d] EXCEPT !.phase = "save"]
    <2>1. /\ keys' = keys /\ desk[d].kind = "own" /\ desk[d].phase = "verify"
          /\ Finish(d) \/ desk' = [desk EXCEPT ![d] = r]
      BY <1>6 DEF VerifyOwn, At, Goto
    <2>2. desk[d] \in OwnRequests /\ HasRow(desk[d])
      BY <1>0, <2>1, RequestKinds DEF HasRow
    <2>3. r \in OwnRequests /\ r.target = desk[d].target /\ r.seen = desk[d].seen /\ r.kind = "own"
      BY <2>2 DEF OwnRequests
    <2>4. r \in Requests
      BY <2>3 DEF Requests
    <2> HIDE DEF r
    <2>5. ReadingHolds(r)
      BY <2>3 DEF ReadingHolds
    <2> QED BY <1>0, <1>1, <2>1, <2>2, <2>3, <2>4, <2>5, OneDesk
  <1>7. CASE TouchKey(d)
    <2> DEFINE k == desk[d].key
               row == [keys[k] EXCEPT !.scopes = desk[d].seen.scopes, !.used = TRUE]
    <2>1. /\ Finish(d) /\ desk[d].kind = "key"
          /\ IF IsKey(k) THEN keys' = [keys EXCEPT ![k] = row] ELSE keys' = keys
      BY <1>7 DEF TouchKey, At
    <2>2. k \in ApiKeys /\ desk[d].seen \in KeyRow
      <3>1. desk[d] \in KeyRequests
        BY <1>0, <2>1, RequestKinds
      <3> QED BY <3>1 DEF KeyRequests
    <2>3. IsKey(k) => row \in KeyRow
      <3>1. IsKey(k) => keys[k] \in KeyRow
        BY <1>0, <2>2 DEF IsKey
      <3> QED BY <2>2, <3>1 DEF KeyRow
    <2> HIDE DEF row, k
    <2> QED BY <1>0, <1>1, <2>1, <2>2, <2>3
  <1> QED BY <1>2, <1>3, <1>4, <1>5, <1>6, <1>7

\* The readings of the other requests are overtaken, and the requests go on.
LEMMA OvertakenDesks ==
  ASSUME desk \in [Desks -> {Idle} \cup Requests], NEW d \in Desks, NEW e \in Desks \ {d},
         NEW r \in {Idle} \cup Requests, desk' = [Overtake(d) EXCEPT ![d] = r]
  PROVE  /\ desk' \in [Desks -> {Idle} \cup Requests] /\ desk'[d] = r
         /\ HasRow(desk'[e]) => /\ HasRow(desk[e]) /\ desk'[e].target = desk[e].target
                                /\ desk'[e].kind = desk[e].kind
                                /\ desk[e].kind # "command" => desk'[e].seen = desk[e].seen
         /\ desk'[e] = Idle \/ desk'[e].overtaken
  <1> DEFINE O == Overtake(d)
  <1>1. /\ O = [c \in Desks |-> O[c]]
        /\ \A c \in Desks : O[c] = IF c = d \/ desk[c] = Idle THEN desk[c]
                                   ELSE [desk[c] EXCEPT !.overtaken = TRUE]
    BY DEF Overtake
  <1> HIDE DEF O
  <1>2. \A c \in Desks : O[c] \in {Idle} \cup Requests
    BY <1>1, OvertakenRequest
  <1>3. desk' = [O EXCEPT ![d] = r]
    BY DEF O
  <1>4. /\ desk' \in [Desks -> {Idle} \cup Requests] /\ desk'[d] = r /\ desk'[e] = O[e]
    BY <1>1, <1>2, <1>3
  <1>5. CASE desk[e] = Idle
    BY <1>1, <1>4, <1>5 DEF HasRow, Idle
  <1>6. CASE desk[e] # Idle
    <2> DEFINE s == [desk[e] EXCEPT !.overtaken = TRUE]
    <2>1. desk[e] \in Requests /\ desk'[e] = s
      BY <1>1, <1>4, <1>6
    <2>2. /\ s \in Requests /\ s.overtaken /\ s.kind = desk[e].kind /\ s.phase = desk[e].phase
          /\ HasRow(desk[e]) => s.target = desk[e].target
                                /\ (desk[e].kind # "command" => s.seen = desk[e].seen)
      BY <2>1, OvertakenRequest
    <2> HIDE DEF s
    <2>3. HasRow(s) <=> HasRow(desk[e])
      BY <2>2 DEF HasRow
    <2> QED BY <1>4, <2>1, <2>2, <2>3
  <1> QED BY <1>4, <1>5, <1>6

\* A request that saves a row.
LEMMA RowIsSaved ==
  ASSUME AccountsInv, NEW d \in Desks, NEW u \in Users, NEW row \in UserRow, Exists(u),
         SaveRow(d, u, row), desk[d] # Idle,
         ~desk[d].overtaken /\ ActiveAdmins # {} =>
            \E a \in ActiveAdmins : a # u \/ (row.role = "admin" /\ ~row.deleted)
  PROVE  AccountsInv'
  <1>0. /\ AccountsTyped /\ TargetsInv /\ ReadingsInv /\ LockoutNeedsARace
        /\ users \in [Users -> {NoUser} \cup UserRow] /\ desk \in [Desks -> {Idle} \cup Requests]
        /\ users[u] \in UserRow /\ desk[d] \in Requests /\ desk[d].overtaken \in BOOLEAN
        /\ raced \in BOOLEAN
    <2>1. users[u] \in UserRow
      BY RowsAreWhole DEF AccountsInv
    <2>2. desk[d] \in Requests
      BY DEF AccountsInv, AccountsTyped
    <2>3. desk[d].overtaken \in BOOLEAN
      BY <2>2 DEF Requests, CreateRequests, FlagRequests, EditRequests, DeleteRequests,
                  OwnRequests, KeyRequests
    <2> QED BY <2>1, <2>2, <2>3 DEF AccountsInv, AccountsTyped
  <1> DEFINE changes == row.role # users[u].role \/ row.deleted # users[u].deleted
  <1>1. /\ users' = [users EXCEPT ![u] = row]
        /\ raced' = (raced \/ desk[d].overtaken)
        /\ changes => desk' = [Overtake(d) EXCEPT ![d] = Idle]
        /\ ~changes => desk' = [desk EXCEPT ![d] = Idle]
        /\ UNCHANGED <<keys, begun>>
    BY DEF SaveRow
  <1>2. /\ \A v \in Users : users'[v] = IF v = u THEN row ELSE users[v]
        /\ users' \in [Users -> {NoUser} \cup UserRow]
    BY <1>0, <1>1
  <1>3. \A v \in Users : Exists(v)' <=> Exists(v)
    BY <1>0, <1>2, RowsAreWhole DEF Exists, NoUser, UserRow, Roles
  <1>4. /\ desk' \in [Desks -> {Idle} \cup Requests] /\ desk'[d] = Idle
        /\ \A e \in Desks \ {d} :
             /\ HasRow(desk'[e]) => /\ HasRow(desk[e]) /\ desk'[e].target = desk[e].target
                                    /\ desk'[e].kind = desk[e].kind
                                    /\ desk[e].kind # "command" => desk'[e].seen = desk[e].seen
             /\ changes => desk'[e] = Idle \/ desk'[e].overtaken
             /\ ~changes => desk'[e] = desk[e]
    <2>1. CASE changes
      <3>0. desk' = [Overtake(d) EXCEPT ![d] = Idle]
        BY <1>1, <2>1
      <3>1. CASE \E e \in Desks : e # d
        BY <1>0, <2>1, <3>0, <3>1, OvertakenDesks
      <3>2. CASE Desks = {d}
        BY <1>0, <3>0, <3>2 DEF Overtake
      <3> QED BY <3>1, <3>2
    <2>2. CASE ~changes
      BY <1>0, <1>1, <2>2
    <2> QED BY <2>1, <2>2
  <1>5. ~HasRow(Idle)
    BY DEF HasRow, Idle
  <1>6. AccountsTyped'
    BY <1>0, <1>1, <1>2, <1>4 DEF AccountsTyped
  <1>7. TargetsInv'
    <2> SUFFICES ASSUME NEW e \in Desks, HasRow(desk'[e])
                 PROVE  /\ users'[desk'[e].target] # NoUser
                        /\ desk'[e].kind # "command" => desk'[e].seen \in UserRow
      BY DEF TargetsInv, HasRow, Exists
    <2>1. /\ e # d /\ HasRow(desk[e]) /\ desk'[e].target = desk[e].target
          /\ desk'[e].kind = desk[e].kind
          /\ desk[e].kind # "command" => desk'[e].seen = desk[e].seen
      BY <1>4, <1>5
    <2>2. Exists(desk[e].target) /\ (desk[e].kind # "command" => desk[e].seen \in UserRow)
      BY <1>0, <2>1 DEF TargetsInv
    <2>3. desk[e].target \in Users
      <3>1. desk[e] \in {Idle} \cup Requests
        BY <1>0
      <3>2. desk[e] \in FlagRequests \cup EditRequests \cup DeleteRequests \cup OwnRequests
        BY <2>1, <3>1, RequestKinds DEF HasRow, CreateRequests
      <3> QED BY <3>2 DEF FlagRequests, EditRequests, DeleteRequests, OwnRequests
    <2> QED BY <1>3, <2>1, <2>2, <2>3 DEF Exists
  <1>8. ReadingsInv'
    <2> SUFFICES ASSUME NEW e \in Desks PROVE ReadingHolds(desk[e])'
      BY DEF ReadingsInv
    <2>1. CASE e = d
      BY <1>4, <2>1 DEF ReadingHolds, Idle
    <2>2. CASE e # d /\ changes
      BY <1>4, <2>2 DEF ReadingHolds, Idle
    <2>3. CASE e # d /\ ~changes
      <3>1. desk'[e] = desk[e] /\ ReadingHolds(desk[e])
        BY <1>0, <1>4, <2>3 DEF ReadingsInv
      <3>2. \A v \in Users : users'[v].role = users[v].role /\ users'[v].deleted = users[v].deleted
        BY <1>2, <2>3
      <3>3. ActiveAdmins' = ActiveAdmins
        BY <1>3, <3>2 DEF ActiveAdmins, IsActive, IsStaff
      <3>4. desk[e].kind \in {"edit", "delete"} => desk[e].target \in Users
        <4>1. desk[e] \in {Idle} \cup Requests
          BY <1>0
        <4>2. desk[e].kind \in {"edit", "delete"} => desk[e] \in EditRequests \cup DeleteRequests
          BY <4>1, RequestKinds
        <4> QED BY <4>2 DEF EditRequests, DeleteRequests
      <3> HIDE DEF changes
      <3> QED BY <3>1, <3>2, <3>3, <3>4 DEF ReadingHolds
    <2> QED BY <2>1, <2>2, <2>3
  <1>9. LockoutNeedsARace'
    <2> SUFFICES ASSUME ~raced' PROVE ActiveAdmins' # {}
      BY DEF LockoutNeedsARace
    <2>1. ~raced /\ ~desk[d].overtaken
      BY <1>0, <1>1
    <2>2. PICK a \in ActiveAdmins : a # u \/ (row.role = "admin" /\ ~row.deleted)
      BY <1>0, <2>1 DEF LockoutNeedsARace
    <2>3. a \in ActiveAdmins'
      BY <1>2, <1>3, <2>2 DEF ActiveAdmins, IsActive, IsStaff
    <2> QED BY <2>3
  <1> QED BY <1>6, <1>7, <1>8, <1>9 DEF AccountsInv

\* Saves: of an edit, of a deletion, of one's own password.
LEMMA RequestsSave ==
  ASSUME AccountsInv, NEW d \in Desks,
         SaveEdit(d) \/ SaveDelete(d) \/ SaveOwn(d)
  PROVE  AccountsInv'
  <1> DEFINE t == desk[d].target
  <1>0. /\ AccountsTyped /\ desk[d] \in {Idle} \cup Requests /\ ReadingHolds(desk[d])
        /\ HasRow(desk[d]) => Exists(t) /\ (desk[d].kind # "command" => desk[d].seen \in UserRow)
    BY DEF AccountsInv, AccountsTyped, TargetsInv, ReadingsInv
  <1>1. /\ desk[d].kind \in {"edit", "delete", "own"} /\ desk[d].phase = "save"
        /\ HasRow(desk[d]) /\ desk[d] # Idle
    BY DEF SaveEdit, SaveDelete, SaveOwn, At, HasRow, Idle
  <1>2. t \in Users /\ desk[d].overtaken \in BOOLEAN
    <2>1. desk[d] \in EditRequests \cup DeleteRequests \cup OwnRequests
      BY <1>0, <1>1, RequestKinds
    <2> QED BY <2>1 DEF EditRequests, DeleteRequests, OwnRequests
  <1>3. Exists(t) /\ users[t] \in UserRow
    BY <1>0, <1>1, <1>2, RowsAreWhole
  <1>4. t \in ActiveAdmins <=> users[t].role = "admin" /\ ~users[t].deleted
    BY <1>2, <1>3 DEF ActiveAdmins, IsActive, IsStaff
  <1>5. CASE SaveEdit(d)
    <2> DEFINE row == EditedRow(users[t], desk[d])
    <2>1. SaveRow(d, t, row) /\ desk[d].kind = "edit"
      BY <1>5 DEF SaveEdit, At
    <2>2. desk[d] \in EditRequests
      BY <1>0, <2>1, RequestKinds
    <2>3. desk[d].role \in Roles /\ desk[d].pw \in Passwords \cup {Empty} /\ desk[d].seen \in UserRow
      BY <1>0, <1>1, <2>1, <2>2 DEF EditRequests
    <2>4. row \in UserRow /\ row.role = desk[d].role /\ row.deleted = users[t].deleted
      <3> DEFINE p == IF desk[d].pw # Empty THEN desk[d].pw ELSE desk[d].seen.pw
                 f == IF desk[d].pw # Empty THEN FALSE ELSE desk[d].seen.default
      <3>1. p \in Passwords /\ f \in BOOLEAN
        BY <2>3 DEF UserRow
      <3>2. row = [users[t] EXCEPT !.role = desk[d].role, !.pw = p, !.default = f]
        BY DEF EditedRow
      <3> HIDE DEF p, f, row
      <3> QED BY <1>3, <2>3, <3>1, <3>2 DEF UserRow
    <2> HIDE DEF row
    <2>5. ASSUME ~desk[d].overtaken, NEW b \in ActiveAdmins
          PROVE  \E a \in ActiveAdmins : a # t \/ (row.role = "admin" /\ ~row.deleted)
      <3>1. users[t].role = desk[d].seen.role /\ (TakesAnAdmin(desk[d]) => \E a \in ActiveAdmins : a # t)
        BY <1>0, <1>1, <2>1, <2>5 DEF ReadingHolds
      <3>2. CASE b # t
        BY <3>2
      <3>3. CASE b = t
        <4>1. users[t].role = "admin" /\ ~users[t].deleted
          BY <1>4, <3>3
        <4>2. Demotes(desk[d]) \/ desk[d].role = "admin"
          BY <2>1, <2>3, <3>1, <4>1 DEF Demotes, Roles
        <4> QED BY <2>4, <3>1, <3>3, <4>1, <4>2 DEF TakesAnAdmin
      <3> QED BY <3>2, <3>3
    <2> HIDE DEF t
    <2> QED BY <1>1, <1>2, <1>3, <2>1, <2>4, <2>5, RowIsSaved
  <1>6. CASE SaveDelete(d)
    <2> DEFINE row == [users[t] EXCEPT !.deleted = TRUE]
    <2>1. SaveRow(d, t, row) /\ desk[d].kind = "delete"
      BY <1>6 DEF SaveDelete, At
    <2>2. row \in UserRow
      BY <1>3 DEF UserRow
    <2> HIDE DEF row
    <2>3. ASSUME ~desk[d].overtaken, NEW b \in ActiveAdmins
          PROVE  \E a \in ActiveAdmins : a # t
      <3>1. users[t].role = desk[d].seen.role /\ (TakesAnAdmin(desk[d]) => \E a \in ActiveAdmins : a # t)
        BY <1>0, <1>1, <2>1, <2>3 DEF ReadingHolds
      <3> QED BY <1>4, <2>1, <3>1 DEF TakesAnAdmin
    <2> HIDE DEF t
    <2> QED BY <1>1, <1>2, <1>3, <2>1, <2>2, <2>3, RowIsSaved
  <1>7. CASE SaveOwn(d)
    <2> DEFINE row == [users[t] EXCEPT !.pw = desk[d].pw, !.default = FALSE]
    <2>1. SaveRow(d, t, row) /\ desk[d].kind = "own"
      BY <1>7 DEF SaveOwn, At
    <2>2. desk[d].pw \in Passwords
      <3>1. desk[d] \in OwnRequests
        BY <1>0, <2>1, RequestKinds
      <3> QED BY <3>1 DEF OwnRequests
    <2>3. row \in UserRow /\ row.role = users[t].role /\ row.deleted = users[t].deleted
      BY <1>3, <2>2 DEF UserRow
    <2> HIDE DEF row
    <2>4. ASSUME NEW b \in ActiveAdmins
          PROVE  \E a \in ActiveAdmins : a # t \/ (row.role = "admin" /\ ~row.deleted)
      BY <1>4, <2>3
    <2> HIDE DEF t
    <2> QED BY <1>1, <1>2, <1>3, <2>1, <2>3, <2>4, RowIsSaved
  <1> QED BY <1>5, <1>6, <1>7

\* A new row, and the flag of a default password.
LEMMA RowsBegin ==
  ASSUME AccountsInv, NEW d \in Desks, InsertUser(d) \/ FlagDefault(d)
  PROVE  AccountsInv'
  <1>0. /\ AccountsTyped /\ TargetsInv /\ ReadingsInv /\ LockoutNeedsARace
        /\ users \in [Users -> {NoUser} \cup UserRow] /\ desk \in [Desks -> {Idle} \cup Requests]
        /\ desk[d] \in {Idle} \cup Requests /\ keys' = keys /\ raced' = raced /\ raced \in BOOLEAN
    BY DEF AccountsInv, AccountsTyped, InsertUser, FlagDefault
  <1>1. ASSUME Finish(d), users' = users
        PROVE  AccountsInv'
    <2>1. desk' = [desk EXCEPT ![d] = Idle] /\ ~HasRow(Idle) /\ ReadingHolds(Idle)
      BY <1>1 DEF Finish, HasRow, ReadingHolds, Idle
    <2>2. keys' \in [ApiKeys -> {NoKey, Revoked} \cup KeyRow]
      BY <1>0 DEF AccountsTyped
    <2> QED BY <1>0, <1>1, <2>1, <2>2, OneDesk
  <1>2. ASSUME NEW u \in Users, ~Exists(u), NEW row \in UserRow, users' = [users EXCEPT ![u] = row],
               NEW r \in {Idle} \cup Requests, desk' = [Overtake(d) EXCEPT ![d] = r],
               HasRow(r) => r.target = u /\ r.kind = "command"
        PROVE  AccountsInv'
    <2>1. /\ \A v \in Users : users'[v] = IF v = u THEN row ELSE users[v]
          /\ users' \in [Users -> {NoUser} \cup UserRow]
      BY <1>0, <1>2
    <2>2. \A v \in Users : Exists(v) => users'[v] = users[v]
      BY <1>2, <2>1
    <2>3. users'[u] # NoUser
      BY <2>1 DEF NoUser, UserRow, Roles
    <2>4. /\ desk' \in [Desks -> {Idle} \cup Requests] /\ desk'[d] = r
          /\ \A e \in Desks \ {d} :
               /\ HasRow(desk'[e]) => /\ HasRow(desk[e]) /\ desk'[e].target = desk[e].target
                                      /\ desk'[e].kind = desk[e].kind
                                      /\ desk[e].kind # "command" => desk'[e].seen = desk[e].seen
               /\ desk'[e] = Idle \/ desk'[e].overtaken
      <3>1. CASE \E e \in Desks : e # d
        BY <1>0, <1>2, <3>1, OvertakenDesks
      <3>2. CASE Desks = {d}
        BY <1>0, <1>2, <3>2 DEF Overtake
      <3> QED BY <3>1, <3>2
    <2>5. AccountsTyped'
      BY <1>0, <2>1, <2>4 DEF AccountsTyped
    <2>6. TargetsInv'
      <3> SUFFICES ASSUME NEW e \in Desks, HasRow(desk'[e])
                   PROVE  /\ users'[desk'[e].target] # NoUser
                          /\ desk'[e].kind # "command" => desk'[e].seen \in UserRow
        BY DEF TargetsInv, HasRow, Exists
      <3>1. CASE e = d
        BY <1>2, <2>3, <2>4, <3>1
      <3>2. CASE e # d
        <4>1. /\ HasRow(desk[e]) /\ desk'[e].target = desk[e].target
              /\ desk'[e].kind = desk[e].kind
              /\ desk[e].kind # "command" => desk'[e].seen = desk[e].seen
          BY <2>4, <3>2
        <4>2. Exists(desk[e].target) /\ (desk[e].kind # "command" => desk[e].seen \in UserRow)
          BY <1>0, <4>1 DEF TargetsInv
        <4>3. desk[e].target \in Users
          <5>1. desk[e] \in {Idle} \cup Requests
            BY <1>0
          <5>2. desk[e] \in FlagRequests \cup EditRequests \cup DeleteRequests \cup OwnRequests
            BY <4>1, <5>1, RequestKinds DEF HasRow, CreateRequests
          <5> QED BY <5>2 DEF FlagRequests, EditRequests, DeleteRequests, OwnRequests
        <4> QED BY <2>2, <4>1, <4>2, <4>3 DEF Exists
      <3> QED BY <3>1, <3>2
    <2>7. ReadingsInv'
      <3> SUFFICES ASSUME NEW e \in Desks PROVE ReadingHolds(desk[e])'
        BY DEF ReadingsInv
      <3>1. CASE e # d
        BY <2>4, <3>1 DEF ReadingHolds, Idle
      <3>2. CASE e = d
        <4>1. r.kind \in {"edit", "delete"} => r.phase = "load"
          <5>1. r.kind \in {"edit", "delete"} => r \in EditRequests \cup DeleteRequests
            BY <1>2, RequestKinds
          <5>2. r.kind \in {"edit", "delete"} => r.phase \in {"load", "count", "save"}
            BY <5>1 DEF EditRequests, DeleteRequests
          <5> QED BY <1>2, <5>2 DEF HasRow
        <4> QED BY <2>4, <3>2, <4>1 DEF ReadingHolds
      <3> QED BY <3>1, <3>2
    <2>8. LockoutNeedsARace'
      <3>1. \A a \in ActiveAdmins : a \in ActiveAdmins'
        BY <2>2, <1>0 DEF ActiveAdmins, IsActive, IsStaff, Exists
      <3> QED BY <1>0, <3>1 DEF LockoutNeedsARace
    <2> QED BY <2>5, <2>6, <2>7, <2>8 DEF AccountsInv
  <1>3. CASE InsertUser(d)
    <2>1. /\ desk[d].kind \in {"create", "command"} /\ desk[d].phase = "insert"
          /\ \/ \E u \in {v \in Users : ~Exists(v)} :
                  /\ users' = [users EXCEPT ![u] = desk[d].row]
                  /\ desk' = [Overtake(d) EXCEPT ![d] =
                                IF desk[d].default
                                THEN [kind |-> "command", phase |-> "flag",
                                      overtaken |-> FALSE, target |-> u]
                                ELSE Idle]
             \/ Finish(d) /\ users' = users
      BY <1>3 DEF InsertUser, At
    <2>2. desk[d].row \in UserRow
      <3>1. desk[d] \in CreateRequests
        BY <1>0, <2>1, RequestKinds
      <3> QED BY <3>1 DEF CreateRequests
    <2>3. ASSUME NEW u \in Users, ~Exists(u), users' = [users EXCEPT ![u] = desk[d].row],
                 desk' = [Overtake(d) EXCEPT ![d] =
                            IF desk[d].default
                            THEN [kind |-> "command", phase |-> "flag",
                                  overtaken |-> FALSE, target |-> u]
                            ELSE Idle]
          PROVE  AccountsInv'
      <3> DEFINE f == [kind |-> "command", phase |-> "flag", overtaken |-> FALSE, target |-> u]
                 r == IF desk[d].default THEN f ELSE Idle
      <3>1. f \in Requests /\ f.target = u /\ f.kind = "command"
        BY DEF Requests, FlagRequests
      <3>2. ~HasRow(Idle)
        BY DEF HasRow, Idle
      <3> HIDE DEF f
      <3>3. r \in {Idle} \cup Requests /\ (HasRow(r) => r.target = u /\ r.kind = "command")
        BY <3>1, <3>2
      <3>4. desk' = [Overtake(d) EXCEPT ![d] = r]
        BY <2>3 DEF f
      <3> HIDE DEF r
      <3> QED BY <1>2, <2>2, <2>3, <3>3, <3>4
    <2> QED BY <1>1, <2>1, <2>3
  <1>4. CASE FlagDefault(d)
    <2> DEFINE t == desk[d].target
               row == [users[t] EXCEPT !.default = TRUE]
    <2>1. /\ desk[d].kind = "command" /\ desk[d].phase = "flag" /\ HasRow(desk[d])
          /\ desk' = [desk EXCEPT ![d] = Idle]
          /\ users' = [users EXCEPT ![t].default = TRUE]
      BY <1>4 DEF FlagDefault, At, HasRow, Finish
    <2>2. t \in Users
      <3>1. desk[d] \in FlagRequests
        BY <1>0, <2>1, RequestKinds
      <3> QED BY <3>1 DEF FlagRequests
    <2>3. Exists(t) /\ users[t] \in UserRow
      BY <1>0, <2>1, <2>2, RowsAreWhole DEF TargetsInv
    <2>4. row \in UserRow /\ row.role = users[t].role /\ row.deleted = users[t].deleted
      BY <2>3 DEF UserRow
    <2>5. users' = [users EXCEPT ![t] = row]
      BY <1>0, <2>1, <2>2
    <2> HIDE DEF row, t
    <2>6. /\ \A v \in Users : users'[v] = IF v = t THEN row ELSE users[v]
          /\ users' \in [Users -> {NoUser} \cup UserRow]
      BY <1>0, <2>4, <2>5
    <2>7. /\ \A v \in Users : (users'[v] # NoUser <=> users[v] # NoUser)
          /\ \A v \in Users : Exists(v) => users'[v].role = users[v].role /\ users'[v].deleted = users[v].deleted
      BY <2>3, <2>4, <2>6 DEF Exists, NoUser, UserRow, Roles
    <2>8. \A v \in Users : Exists(v)' <=> Exists(v)
      BY <2>7 DEF Exists
    <2>9. ActiveAdmins' = ActiveAdmins
      BY <2>7, <2>8 DEF ActiveAdmins, IsActive, IsStaff
    <2>10. \A e \in Desks : desk'[e] = IF e = d THEN Idle ELSE desk[e]
      BY <1>0, <2>1
    <2>11. AccountsTyped'
      BY <1>0, <2>1, <2>6 DEF AccountsTyped
    <2>12. ~HasRow(Idle) /\ Idle.kind = "idle"
      BY DEF HasRow, Idle
    <2>13. \A e \in Desks : HasRow(desk[e]) => desk[e].target \in Users
      <3> SUFFICES ASSUME NEW e \in Desks, HasRow(desk[e]) PROVE desk[e].target \in Users
        OBVIOUS
      <3>1. desk[e] \in {Idle} \cup Requests
        BY <1>0
      <3>2. desk[e] \in FlagRequests \cup EditRequests \cup DeleteRequests \cup OwnRequests
        BY <3>1, RequestKinds DEF HasRow, CreateRequests
      <3> QED BY <3>2 DEF FlagRequests, EditRequests, DeleteRequests, OwnRequests
    <2>14. TargetsInv'
      BY <1>0, <2>7, <2>10, <2>12, <2>13 DEF TargetsInv, Exists
    <2>15. ReadingsInv'
      <3> SUFFICES ASSUME NEW e \in Desks PROVE ReadingHolds(desk[e])'
        BY DEF ReadingsInv
      <3>1. CASE e = d
        BY <2>10, <2>12, <3>1 DEF ReadingHolds
      <3>2. CASE e # d
        <4>1. desk'[e] = desk[e] /\ ReadingHolds(desk[e])
          BY <1>0, <2>10, <3>2 DEF ReadingsInv
        <4>2. desk[e].kind \in {"edit", "delete"} /\ desk[e].phase # "load" =>
                 desk[e].target \in Users /\ Exists(desk[e].target)
          <5>1. desk[e].kind \in {"edit", "delete"} => desk[e] \in EditRequests \cup DeleteRequests
            BY <1>0, RequestKinds
          <5>2. desk[e].kind \in {"edit", "delete"} => desk[e].phase \in {"load", "count", "save"}
            BY <5>1 DEF EditRequests, DeleteRequests
          <5>3. desk[e].kind \in {"edit", "delete"} /\ desk[e].phase # "load" => HasRow(desk[e])
            BY <5>2 DEF HasRow
          <5> QED BY <1>0, <2>13, <5>3 DEF TargetsInv
        <4> QED BY <2>7, <2>9, <4>1, <4>2 DEF ReadingHolds
      <3> QED BY <3>1, <3>2
    <2>16. LockoutNeedsARace'
      BY <1>0, <2>9 DEF LockoutNeedsARace
    <2> QED BY <2>11, <2>14, <2>15, <2>16 DEF AccountsInv
  <1> QED BY <1>3, <1>4

\* API keys have no part in the guards.
LEMMA KeysChange ==
  ASSUME AccountsInv,
         \/ \E u \in Users : PostApiKey(u)
         \/ \E k \in ApiKeys : ApiCreateKey(k) \/ \E u \in Users : RemoveKey(u, k)
  PROVE  AccountsInv'
  <1>0. UNCHANGED <<users, desk, raced>> /\ keys \in [ApiKeys -> {NoKey, Revoked} \cup KeyRow]
    BY DEF PostApiKey, ApiCreateKey, RemoveKey, AccountsInv, AccountsTyped
  <1>1. ASSUME NEW u \in Users, NEW asked, StoreKey(u, asked)
        PROVE  keys' \in [ApiKeys -> {NoKey, Revoked} \cup KeyRow]
    <2>1. PICK k \in ApiKeys : keys' = [keys EXCEPT ![k] = [owner |-> u, scopes |-> asked, used |-> FALSE]]
      BY <1>1 DEF StoreKey
    <2>2. [owner |-> u, scopes |-> asked, used |-> FALSE] \in KeyRow
      BY <1>1 DEF StoreKey, ScopesValid, KeyRow
    <2> QED BY <1>0, <2>1, <2>2
  <1>2. ASSUME NEW u \in Users, PostApiKey(u)
        PROVE  keys' \in [ApiKeys -> {NoKey, Revoked} \cup KeyRow]
    <2>1. PICK asked \in SUBSET Scopes : StoreKey(u, ScopesGranted(asked))
      BY <1>2 DEF PostApiKey
    <2> QED BY <1>1, <2>1
  <1>3. ASSUME NEW k \in ApiKeys, ApiCreateKey(k)
        PROVE  keys' \in [ApiKeys -> {NoKey, Revoked} \cup KeyRow]
    <2>1. keys[k].owner \in Users
      BY <1>0, <1>3 DEF ApiCreateKey, IsKey, KeyRow
    <2> QED BY <1>1, <1>3, <2>1 DEF ApiCreateKey
  <1>4. ASSUME NEW k \in ApiKeys, NEW u \in Users, RemoveKey(u, k)
        PROVE  keys' \in [ApiKeys -> {NoKey, Revoked} \cup KeyRow]
    BY <1>0, <1>4 DEF RemoveKey
  <1>5. keys' \in [ApiKeys -> {NoKey, Revoked} \cup KeyRow]
    BY <1>2, <1>3, <1>4
  <1> QED BY <1>0, <1>5 DEF AccountsInv, AccountsTyped, TargetsInv, ReadingsInv, ReadingHolds,
                            LockoutNeedsARace, ActiveAdmins, IsActive, IsStaff, Exists

\* An installation begins with two administrators.
LEMMA AccountsInit == InitAccounts => AccountsInv
  <1> SUFFICES ASSUME InitAccounts PROVE AccountsInv
    OBVIOUS
  <1> PICK admins \in SUBSET Users :
         \E n \in [admins -> Names], pw \in Passwords :
            /\ Cardinality(admins) = 2
            /\ users = [u \in Users |-> IF u \in admins THEN NewUser(n[u], "admin", pw) ELSE NoUser]
    BY DEF InitAccounts
  <1>1. PICK n \in [admins -> Names], pw \in Passwords :
          /\ Cardinality(admins) = 2
          /\ users = [u \in Users |-> IF u \in admins THEN NewUser(n[u], "admin", pw) ELSE NoUser]
    OBVIOUS
  <1>2. /\ keys = [k \in ApiKeys |-> NoKey] /\ desk = [d \in Desks |-> Idle] /\ raced = FALSE
    BY DEF InitAccounts
  <1>3. \A u \in admins : /\ users[u] \in UserRow /\ users[u].role = "admin" /\ ~users[u].deleted
    BY <1>1 DEF NewUser, UserRow, Roles
  <1>4. users \in [Users -> {NoUser} \cup UserRow]
    BY <1>1, <1>3
  <1>5. AccountsTyped
    BY <1>2, <1>4 DEF AccountsTyped
  <1>6. TargetsInv /\ ReadingsInv
    BY <1>2 DEF TargetsInv, ReadingsInv, ReadingHolds, HasRow, Idle
  <1>7. \E a \in Users : a \in admins
    <2>1. admins # {}
      BY <1>1, FS_EmptySet
    <2> QED BY <2>1
  <1>8. ActiveAdmins # {}
    BY <1>3, <1>5, <1>7, RowsAreWhole DEF ActiveAdmins, IsActive, IsStaff
  <1> QED BY <1>5, <1>6, <1>8 DEF AccountsInv, LockoutNeedsARace

\* No step of a request, of an operator or of a key breaks the invariant.
LEMMA AccountsStep == AccountsInv /\ [NextAccounts]_accountVars => AccountsInv'
  <1> SUFFICES ASSUME AccountsInv, [NextAccounts]_accountVars
               PROVE  AccountsInv'
    OBVIOUS
  <1>1. CASE UNCHANGED accountVars
    BY <1>1 DEF accountVars, AccountsInv, AccountsTyped, TargetsInv, ReadingsInv, ReadingHolds,
                LockoutNeedsARace, ActiveAdmins, IsActive, IsStaff, Exists
  <1>2. ASSUME NEW d \in Desks,
               \/ PostUserCreate(d) \/ RunCreateUser(d) \/ CheckName(d)
               \/ InsertUser(d) \/ FlagDefault(d)
               \/ PostUserEdit(d) \/ LoadForEdit(d) \/ CountAdmins(d) \/ SaveEdit(d)
               \/ PostUserDelete(d) \/ LoadForDelete(d) \/ SaveDelete(d)
               \/ PostAccount(d) \/ VerifyOwn(d) \/ SaveOwn(d)
               \/ TouchKey(d)
               \/ \E k \in ApiKeys : PresentKey(d, k)
        PROVE  AccountsInv'
    BY <1>2, RequestsBegin, RequestsRead, RequestsSave, RowsBegin
  <1> QED BY <1>1, <1>2, KeysChange DEF NextAccounts

\* Requests go through their steps with the rows they need, and what a reading
\* that nothing has overtaken promises still holds when it is used.
THEOREM AccountsHold == AccountsSpec => [](AccountsTyped /\ TargetsInv /\ ReadingsInv)
  <1>1. AccountsInv => AccountsTyped /\ TargetsInv /\ ReadingsInv
    BY DEF AccountsInv
  <1> QED BY <1>1, AccountsInit, AccountsStep, PTL DEF AccountsSpec

\* The anti-lockout guards are enough for requests that follow one another: an
\* installation without an active administrator had a request save on a reading
\* that another had overtaken, however many users and requests there are.
THEOREM NoLockoutInOrder == AccountsSpec => []LockoutNeedsARace
  <1>1. AccountsInv => LockoutNeedsARace
    BY DEF AccountsInv
  <1> QED BY <1>1, AccountsInit, AccountsStep, PTL DEF AccountsSpec

\* What has been deleted stays deleted, although requests hold copies of it: no
\* late save revives a user, and no lastUsedAt write a revoked key.
THEOREM DeletionIsForGood == AccountsSpec => DeletedStaysDeleted
  <1>1. AccountsInv /\ [NextAccounts]_accountVars =>
          /\ \A u \in Users : Exists(u) /\ users[u].deleted => users'[u].deleted
          /\ \A k \in ApiKeys : keys[k] = Revoked => keys'[k] = Revoked
    <2> SUFFICES ASSUME AccountsInv, [NextAccounts]_accountVars
                 PROVE  /\ \A u \in Users : Exists(u) /\ users[u].deleted => users'[u].deleted
                        /\ \A k \in ApiKeys : keys[k] = Revoked => keys'[k] = Revoked
      OBVIOUS
    <2>0. /\ users \in [Users -> {NoUser} \cup UserRow] /\ AccountsTyped
          /\ keys \in [ApiKeys -> {NoKey, Revoked} \cup KeyRow]
          /\ desk \in [Desks -> {Idle} \cup Requests]
      BY DEF AccountsInv, AccountsTyped
    <2>1. \A u \in Users : Exists(u) /\ users[u].deleted => users'[u].deleted
      <3>1. ASSUME NEW d \in Desks, NEW u \in Users, Exists(u), users[u].deleted,
                   SaveEdit(d) \/ SaveDelete(d) \/ SaveOwn(d)
            PROVE  users'[u].deleted
        <4> DEFINE t == desk[d].target
        <4>1. /\ users[u] \in UserRow
              /\ users' = [users EXCEPT ![t] = EditedRow(users[t], desk[d])]
                 \/ users' = [users EXCEPT ![t] = [users[t] EXCEPT !.deleted = TRUE]]
                 \/ users' = [users EXCEPT ![t] = [users[t] EXCEPT !.pw = desk[d].pw, !.default = FALSE]]
          BY <2>0, <3>1, RowsAreWhole DEF SaveEdit, SaveDelete, SaveOwn, SaveRow
        <4>2. \A v : /\ [users[u] EXCEPT !.deleted = TRUE].deleted
                     /\ [users[u] EXCEPT !.pw = v, !.default = FALSE].deleted
          BY <3>1, <4>1 DEF UserRow
        <4>3. EditedRow(users[u], desk[d]).deleted
          <5> DEFINE p == IF desk[d].pw # Empty THEN desk[d].pw ELSE desk[d].seen.pw
                     f == IF desk[d].pw # Empty THEN FALSE ELSE desk[d].seen.default
          <5>1. EditedRow(users[u], desk[d]) = [users[u] EXCEPT !.role = desk[d].role, !.pw = p, !.default = f]
            BY DEF EditedRow
          <5> HIDE DEF p, f
          <5> QED BY <3>1, <4>1, <5>1 DEF UserRow
        <4> HIDE DEF t
        <4>4. CASE u = t
          <5>1. PICK row : users' = [users EXCEPT ![u] = row]
                           /\ \/ row = EditedRow(users[u], desk[d])
                              \/ row = [users[u] EXCEPT !.deleted = TRUE]
                              \/ row = [users[u] EXCEPT !.pw = desk[d].pw, !.default = FALSE]
            BY <4>1, <4>4
          <5>2. row.deleted
            BY <4>2, <4>3, <5>1
          <5> QED BY <2>0, <5>1, <5>2
        <4>5. CASE u # t
          BY <2>0, <3>1, <4>1, <4>5
        <4> QED BY <4>4, <4>5
      <3>2. ASSUME NEW d \in Desks, NEW u \in Users, Exists(u), users[u].deleted,
                   InsertUser(d) \/ FlagDefault(d)
            PROVE  users'[u].deleted
        <4>1. CASE InsertUser(d)
          <5>1. users' = users \/ \E v \in Users : ~Exists(v) /\ users' = [users EXCEPT ![v] = desk[d].row]
            BY <4>1 DEF InsertUser
          <5> QED BY <2>0, <3>2, <5>1
        <4>2. CASE FlagDefault(d)
          <5>1. users' = [users EXCEPT ![desk[d].target].default = TRUE]
            BY <4>2 DEF FlagDefault
          <5>2. users[u] \in UserRow
            BY <2>0, <3>2, RowsAreWhole
          <5> QED BY <2>0, <3>2, <5>1, <5>2 DEF UserRow
        <4> QED BY <3>2, <4>1, <4>2
      <3>3. \/ UNCHANGED users
            \/ \E d \in Desks : \/ SaveEdit(d) \/ SaveDelete(d) \/ SaveOwn(d)
                                \/ InsertUser(d) \/ FlagDefault(d)
        BY DEF NextAccounts, accountVars, PostUserCreate, RunCreateUser, CheckName, PostUserEdit,
               LoadForEdit, CountAdmins, PostUserDelete, LoadForDelete, PostAccount, VerifyOwn,
               TouchKey, PresentKey, PostApiKey, ApiCreateKey, RemoveKey
      <3> QED BY <3>1, <3>2, <3>3
    <2>2. \A k \in ApiKeys : keys[k] = Revoked => keys'[k] = Revoked
      <3>1. ASSUME NEW u, NEW asked, StoreKey(u, asked), NEW k \in ApiKeys, keys[k] = Revoked
            PROVE  keys'[k] = Revoked
        <4>1. NoKey # Revoked
          BY DEF NoKey, Revoked
        <4>2. PICK c \in ApiKeys : keys[c] = NoKey /\ keys' = [keys EXCEPT ![c] = [owner |-> u, scopes |-> asked, used |-> FALSE]]
          BY <3>1 DEF StoreKey
        <4> QED BY <2>0, <3>1, <4>1, <4>2
      <3>2. ASSUME NEW u \in Users, PostApiKey(u), NEW k \in ApiKeys, keys[k] = Revoked
            PROVE  keys'[k] = Revoked
        BY <3>1, <3>2 DEF PostApiKey
      <3>3. ASSUME NEW c \in ApiKeys, ApiCreateKey(c), NEW k \in ApiKeys, keys[k] = Revoked
            PROVE  keys'[k] = Revoked
        BY <3>1, <3>3 DEF ApiCreateKey
      <3>4. ASSUME NEW c \in ApiKeys, NEW u \in Users, RemoveKey(u, c), NEW k \in ApiKeys, keys[k] = Revoked
            PROVE  keys'[k] = Revoked
        BY <2>0, <3>4 DEF RemoveKey
      <3>5. ASSUME NEW d \in Desks, TouchKey(d), NEW k \in ApiKeys, keys[k] = Revoked
            PROVE  keys'[k] = Revoked
        <4> DEFINE c == desk[d].key
        <4>1. IF IsKey(c)
              THEN keys' = [keys EXCEPT ![c] = [keys[c] EXCEPT !.scopes = desk[d].seen.scopes, !.used = TRUE]]
              ELSE keys' = keys
          BY <3>5 DEF TouchKey
        <4>2. IsKey(c) => c # k
          BY <3>5 DEF IsKey
        <4> HIDE DEF c
        <4> QED BY <2>0, <3>5, <4>1, <4>2
      <3>6. \/ UNCHANGED keys
            \/ \E d \in Desks : TouchKey(d)
            \/ \E u \in Users : PostApiKey(u)
            \/ \E c \in ApiKeys : ApiCreateKey(c) \/ \E u \in Users : RemoveKey(u, c)
        BY DEF NextAccounts, accountVars, PostUserCreate, RunCreateUser, CheckName, PostUserEdit,
               LoadForEdit, CountAdmins, PostUserDelete, LoadForDelete, PostAccount, VerifyOwn,
               PresentKey, SaveEdit, SaveDelete, SaveOwn, SaveRow, InsertUser, FlagDefault
      <3> QED BY <3>2, <3>3, <3>4, <3>5, <3>6
    <2> QED BY <2>1, <2>2
  <1> QED BY <1>1, AccountsInit, AccountsStep, PTL DEF AccountsSpec, DeletedStaysDeleted
==============================================================================
