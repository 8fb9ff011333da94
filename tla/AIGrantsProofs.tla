---------------------------- MODULE AIGrantsProofs ----------------------------
(***************************************************************************)
(* Why grants stay sound whatever the number of users, requests in         *)
(* progress, connections and credentials, and whenever they are revoked,   *)
(* reduced, cleaned up or expire.                                          *)
(*                                                                         *)
(* The argument: what a request in progress relies on is protected by the  *)
(* rows it has locked.  SlotSound says what that is, Compatible that no    *)
(* two requests hold the same lock, and every action that writes leaves    *)
(* alone what another slot's locks protect.                                *)
(***************************************************************************)
EXTENDS AIGrants, FiniteSetTheorems, TLAPS

\* Identities are unique, and handed out in order; consent requests, and only
\* they, belong to no connection.
CredInv ==
    /\ \A c \in creds : c.id <= issued /\ c.conn <= made
    /\ \A c \in creds : c.conn = 0 <=> c.kind = "request"
    /\ \A c, d \in creds : c.id = d.id => c = d

\* A connection was approved by a session of the password it is bound to, and
\* its consent request is used up.
ConnInv ==
    \A i \in ConnIds : conns[i] # NoConn =>
        /\ i <= made
        /\ conns[i].request <= issued
        /\ conns[i].session = conns[i].fingerprint
        /\ \A c \in creds : c.id = conns[i].request => c.consumed

\* An approval's request is unused until its commit.
ApprovalSound(v) ==
    /\ v.cred # 0 => \E c \in creds : /\ c.id = v.cred
                                      /\ c.kind = "request"
                                      /\ ~c.consumed
    /\ v.granted # NoConn =>
          /\ v.granted.user = v.user
          /\ v.granted.revoked = Never
          /\ v.granted.session = v.granted.fingerprint
          /\ v.granted.request = v.cred
          /\ v.granted.method = "oauth" => v.granted.expires # Never

\* Once an exchange holds its connection, that is not revoked and the
\* credential presented is unused.
ExchangeSound(v) ==
    /\ v.cred <= issued
    /\ v.conn <= made
    /\ \A c \in creds : c.id = v.cred =>
          c.conn = v.conn /\ c.kind \in {"code", "refresh"}
    /\ v.step # "found" =>
          /\ conns[v.conn] # NoConn
          /\ conns[v.conn].revoked = Never
          /\ \E c \in creds : c.id = v.cred /\ ~c.consumed

\* A tool call's credential stays one of the connection it was found under.
CallSound(v) ==
    /\ v.cred <= issued
    /\ \A c \in creds : c.id = v.cred => c.conn = v.conn

SlotSound(v) ==
    /\ v.op = "approval" => ApprovalSound(v)
    /\ v.op = "exchange" => ExchangeSound(v)
    /\ v.op = "call" => CallSound(v)

\* No two requests hold the lock of one row.
Compatible(v, w) ==
    /\ v.op = "exchange" /\ w.op = "exchange" /\ v.conn = w.conn
          => v.step = "found" \/ w.step = "found"
    /\ v.op = "approval" /\ w.op = "approval"
          => /\ v.cred # w.cred \/ v.cred = 0
             /\ v.user # w.user \/ v.granted = NoConn \/ w.granted = NoConn

SlotInv ==
    /\ \A s \in Slots : SlotSound(tx[s])
    /\ \A s, t \in Slots : s # t => Compatible(tx[s], tx[t])

IInv ==
    /\ TypeOK /\ CredInv /\ ConnInv /\ SlotInv
    /\ OneLiveCredential /\ RevokedHasNoCredentials
    /\ OneConnectionPerConsent

-----------------------------------------------------------------------------

LEMMA OpsDiffer ==
  /\ \A v \in Approval : v.op = "approval"
  /\ \A v \in Exchange : v.op = "exchange"
  /\ \A v \in Call : v.op = "call"
  /\ IdleSlot.op = "idle" /\ AnsweredCall.op = "answered"
  BY DEF Approval, Exchange, Call, IdleSlot, AnsweredCall

\* A slot's operation tells its record's type.
LEMMA SlotTyped ==
  ASSUME TypeOK, NEW s \in Slots
  PROVE  /\ tx[s].op = "approval" => tx[s] \in Approval
         /\ tx[s].op = "exchange" => tx[s] \in Exchange
         /\ tx[s].op = "call" => tx[s] \in Call
         /\ ~Ready(s) => tx[s].op \in {"approval", "exchange", "call"}
  <1>1. tx[s] \in {IdleSlot, AnsweredCall} \cup Approval \cup Exchange \cup Call
    BY DEF TypeOK
  <1> QED  BY <1>1, OpsDiffer DEF Ready

\* A request that goes on, or ends, without writing anything.
LEMMA SlotStep ==
  ASSUME IInv, NEW s \in Slots,
         NEW v \in {IdleSlot, AnsweredCall} \cup Approval \cup Exchange \cup Call,
         UNCHANGED <<clock, password, deleted, conns, made, creds, issued,
                     revived>>,
         tx' = [tx EXCEPT ![s] = v],
         SlotSound(v),
         \A t \in Slots \ {s} : Compatible(v, tx[t]) /\ Compatible(tx[t], v)
  PROVE  IInv'
  <1>1. TypeOK'
    BY DEF IInv, TypeOK, Instants
  <1>2. CredInv' /\ ConnInv' /\ OneLiveCredential' /\ RevokedHasNoCredentials'
          /\ OneConnectionPerConsent'
    BY DEF IInv, CredInv, ConnInv, OneLiveCredential, RevokedHasNoCredentials,
           OneConnectionPerConsent
  <1>3. \A t \in Slots : tx'[t] = IF t = s THEN v ELSE tx[t]
    BY DEF IInv, TypeOK
  <1>4. ASSUME NEW t \in Slots  PROVE SlotSound(tx[t])'
    <2>1. CASE t = s
      BY <2>1, <1>3 DEF SlotSound, ApprovalSound, ExchangeSound, CallSound
    <2>2. CASE t # s
      BY <2>2, <1>3 DEF IInv, SlotInv, SlotSound, ApprovalSound, ExchangeSound, CallSound
    <2> QED  BY <2>1, <2>2
  <1>5. ASSUME NEW t \in Slots, NEW r \in Slots, t # r
        PROVE  Compatible(tx[t], tx[r])'
    BY <1>3, <1>5 DEF IInv, SlotInv, Compatible
  <1>6. SlotInv'
    BY <1>4, <1>5 DEF SlotInv
  <1> QED  BY <1>1, <1>2, <1>6 DEF IInv

\* A session is taken for an approval.
LEMMA BeginStep ==
  ASSUME IInv, NEW s \in Slots, NEW u \in Owners, NEW id \in CredIds \cup {0},
         BeginApproval(s, u, id), Ready(s),
         id # 0 => \E c \in creds : /\ c.id = id
                                    /\ c.kind = "request"
                                    /\ ~c.consumed,
         id # 0 => \A t \in Slots : ~HoldsRequest(t, id),
         UNCHANGED <<clock, password, deleted, conns, made, creds, issued,
                     revived>>
  PROVE  IInv'
  <1> DEFINE v == [op |-> "approval", conn |-> 0, cred |-> id, user |-> u,
                   session |-> password[u], granted |-> NoConn]
  <1>1. v \in Approval /\ v.op = "approval" /\ v.cred = id /\ v.granted = NoConn
    BY DEF Approval, IInv, TypeOK
  <1>2. SlotSound(v)
    BY <1>1 DEF SlotSound, ApprovalSound
  <1>3. \A t \in Slots \ {s} : Compatible(v, tx[t]) /\ Compatible(tx[t], v)
    BY <1>1 DEF Compatible, HoldsRequest
  <1> HIDE DEF v
  <1>4. tx' = [tx EXCEPT ![s] = v]
    BY DEF BeginApproval, v
  <1> QED  BY <1>1, <1>2, <1>3, <1>4, SlotStep

LEMMA OpenSteps ==
  ASSUME IInv, NEW s \in Slots, NEW u \in Owners,
         OpenConsent(s, u) \/ OpenTokenForm(s, u)
  PROVE  IInv'
  <1>1. CASE OpenTokenForm(s, u)
    BY <1>1, BeginStep DEF OpenTokenForm
  <1>2. CASE OpenConsent(s, u)
    <2>1. PICK c \in creds : /\ c.kind = "request" /\ ~c.consumed
                             /\ \A t \in Slots : ~HoldsRequest(t, c.id)
                             /\ BeginApproval(s, u, c.id)
      BY <1>2 DEF OpenConsent
    <2>2. c.id \in CredIds
      BY DEF IInv, TypeOK, Cred
    <2> QED  BY <1>2, <2>1, <2>2, BeginStep DEF OpenConsent
  <1> QED  BY <1>1, <1>2

\* What an approval may ask for is a connection of the session's user.
LEMMA WantedTyped ==
  ASSUME TypeOK, NEW s \in Slots, tx[s].op = "approval",
         NEW scopes \in SUBSET Requested(tx[s].cred), NEW c \in Wanted(s, scopes),
         password[tx[s].user] = tx[s].session
  PROVE  /\ c \in Conn
         /\ c.user = tx[s].user
         /\ c.revoked = Never
         /\ c.session = tx[s].session
         /\ c.fingerprint = password[tx[s].user]
         /\ c.request = tx[s].cred
         /\ c.method = "oauth" => c.expires # Never
  <1>1. tx[s] \in Approval
    BY SlotTyped
  <1>2. /\ tx[s].user \in Owners /\ tx[s].session \in 1..MaxPasswords
        /\ tx[s].cred \in CredIds \cup {0}
    BY <1>1 DEF Approval
  <1>3. scopes \subseteq GrantScopes
    BY DEF Requested, CredRows, TypeOK, Cred
  <1>4. clock \in Nat
    BY DEF TypeOK, Instants
  <1>5. \A l \in PersonalLives : (IF l = Never THEN Never ELSE clock + l) \in Nat \cup {Never}
    BY <1>4, AIGrantsAssumption DEF Never
  <1>6. clock + CodeLife \in Nat /\ clock + CodeLife # Never
    BY <1>4, AIGrantsAssumption DEF Never
  <1>7. password[tx[s].user] \in 1..MaxPasswords
    BY <1>2 DEF TypeOK
  <1>8. c.expires \in Nat \cup {Never} /\ (c.method = "oauth" => c.expires # Never)
    BY <1>5, <1>6 DEF Wanted
  <1>9. /\ c.user = tx[s].user /\ c.method \in {"oauth", "personal"}
        /\ c.scopes = scopes /\ c.fingerprint = password[tx[s].user]
        /\ c.revoked = Never /\ c.session = tx[s].session
        /\ c.request = tx[s].cred
    BY DEF Wanted
  <1>10. c \in [user : Owners, method : {"oauth", "personal"}, scopes : SUBSET GrantScopes,
         expires : Nat \cup {Never},
         fingerprint : 1..MaxPasswords, revoked : {Never},
         session : 1..MaxPasswords, request : CredIds \cup {0}]
    BY <1>2, <1>3, <1>5, <1>6, <1>7 DEF Wanted
  <1> QED  BY <1>8, <1>9, <1>10 DEF Conn

LEMMA GrantStep ==
  ASSUME IInv, NEW s \in Slots, Grant(s)
  PROVE  IInv'
  <1>0. PICK scopes \in SUBSET Requested(tx[s].cred) :
          \E c \in Wanted(s, scopes) : tx' = [tx EXCEPT ![s].granted = c]
    BY DEF Grant
  <1>1. PICK c \in Wanted(s, scopes) : tx' = [tx EXCEPT ![s].granted = c]
    BY <1>0
  <1>2. tx[s].op = "approval" /\ tx[s].granted = NoConn /\ UserFree(tx[s].user)
          /\ password[tx[s].user] = tx[s].session
    BY DEF Grant
  <1>3. tx[s] \in Approval
    BY <1>2, SlotTyped DEF IInv
  <1>4. /\ c \in Conn /\ c.user = tx[s].user /\ c.revoked = Never
        /\ c.session = c.fingerprint /\ c.request = tx[s].cred
        /\ c.method = "oauth" => c.expires # Never
    BY <1>1, <1>2, WantedTyped DEF IInv
  <1> DEFINE v == [tx[s] EXCEPT !.granted = c]
  <1>5. /\ v \in Approval /\ v.op = "approval" /\ v.cred = tx[s].cred
        /\ v.user = tx[s].user /\ v.granted = c
    BY <1>3, <1>4 DEF Approval
  <1>6. tx' = [tx EXCEPT ![s] = v]
    BY <1>1
  <1> HIDE DEF v
  <1>7. SlotSound(v)
    <2>1. ApprovalSound(tx[s])
      BY <1>2 DEF IInv, SlotInv, SlotSound
    <2> QED  BY <2>1, <1>4, <1>5 DEF SlotSound, ApprovalSound
  <1>8. \A t \in Slots \ {s} : Compatible(v, tx[t]) /\ Compatible(tx[t], v)
    BY <1>2, <1>5 DEF IInv, SlotInv, Compatible, UserFree, HoldsUser
  <1> QED  BY <1>5, <1>6, <1>7, <1>8, SlotStep DEF Grant

LEMMA PresentStep ==
  ASSUME IInv, NEW s \in Slots, Present(s)
  PROVE  IInv'
  <1>1. PICK c \in creds : /\ c.kind \in {"code", "refresh"}
                           /\ tx' = [tx EXCEPT ![s] =
                                [op |-> "exchange", conn |-> c.conn, cred |-> c.id,
                                 step |-> "found", scopes |-> {}, at |-> 0]]
    BY DEF Present
  <1> DEFINE v == [op |-> "exchange", conn |-> c.conn, cred |-> c.id,
                   step |-> "found", scopes |-> {}, at |-> 0]
  <1>2. c.id \in CredIds /\ c.conn \in ConnIds /\ 0 \in Instants
    BY <1>1, AIGrantsAssumption DEF IInv, TypeOK, Cred, CredInv, Instants
  <1>3. /\ v \in Exchange /\ v.op = "exchange" /\ v.cred = c.id
        /\ v.conn = c.conn /\ v.step = "found"
    BY <1>2 DEF Exchange
  <1> HIDE DEF v
  <1>4. SlotSound(v)
    BY <1>1, <1>3 DEF IInv, CredInv, SlotSound, ExchangeSound
  <1>5. \A t \in Slots : Compatible(v, tx[t]) /\ Compatible(tx[t], v)
    BY <1>3 DEF Compatible
  <1> QED  BY <1>1, <1>3, <1>4, <1>5, SlotStep DEF Present, v

LEMMA LockStep ==
  ASSUME IInv, NEW s \in Slots, LockConnection(s)
  PROVE  IInv'
  <1>1. /\ tx[s].op = "exchange" /\ ConnFree(tx[s].conn) /\ Valid(tx[s].conn)
        /\ tx' = [tx EXCEPT ![s].step = "locked"]
    BY DEF LockConnection
  <1>2. PICK c \in CredRows(tx[s].cred) : ~c.consumed
    BY DEF LockConnection
  <1> DEFINE v == [tx[s] EXCEPT !.step = "locked"]
  <1>3. /\ v \in Exchange /\ v.op = "exchange" /\ v.cred = tx[s].cred
        /\ v.conn = tx[s].conn /\ v.step = "locked"
    BY <1>1, SlotTyped DEF IInv, Exchange
  <1>4. tx' = [tx EXCEPT ![s] = v]
    BY <1>1
  <1> HIDE DEF v
  <1>5. ExchangeSound(tx[s])
    BY <1>1 DEF IInv, SlotInv, SlotSound
  <1>6. SlotSound(v)
    BY <1>1, <1>2, <1>3, <1>5 DEF SlotSound, ExchangeSound, CredRows, Valid
  <1>7. \A t \in Slots \ {s} : Compatible(v, tx[t]) /\ Compatible(tx[t], v)
    BY <1>1, <1>3 DEF Compatible, ConnFree, HoldsConn
  <1> QED  BY <1>3, <1>4, <1>6, <1>7, SlotStep DEF LockConnection

LEMMA WriteStep ==
  ASSUME IInv, NEW s \in Slots, WriteTokens(s)
  PROVE  IInv'
  <1>1. tx[s].op = "exchange" /\ tx[s].step = "locked"
    BY DEF WriteTokens
  <1>2. PICK scopes \in SUBSET conns[tx[s].conn].scopes :
          tx' = [tx EXCEPT ![s].step = "written", ![s].scopes = scopes, ![s].at = clock]
    BY DEF WriteTokens
  <1>3. tx[s] \in Exchange /\ ExchangeSound(tx[s])
    BY <1>1, SlotTyped DEF IInv, SlotInv, SlotSound
  <1>4. scopes \subseteq GrantScopes /\ clock \in Instants
    <2>1. conns[tx[s].conn] \in Conn
      BY <1>1, <1>3 DEF ExchangeSound, IInv, TypeOK, Exchange
    <2> QED  BY <2>1 DEF Conn, IInv, TypeOK
  <1> DEFINE v == [tx[s] EXCEPT !.step = "written", !.scopes = scopes, !.at = clock]
  <1>5. /\ v \in Exchange /\ v.op = "exchange" /\ v.cred = tx[s].cred
        /\ v.conn = tx[s].conn /\ v.step = "written"
    BY <1>3, <1>4 DEF Exchange
  <1>6. tx' = [tx EXCEPT ![s] = v]
    BY <1>2
  <1> HIDE DEF v
  <1>7. SlotSound(v)
    BY <1>1, <1>3, <1>5 DEF SlotSound, ExchangeSound
  <1>8. \A t \in Slots \ {s} : Compatible(v, tx[t]) /\ Compatible(tx[t], v)
    BY <1>1, <1>5 DEF IInv, SlotInv, Compatible
  <1> QED  BY <1>5, <1>6, <1>7, <1>8, SlotStep DEF WriteTokens

LEMMA LeavingSteps ==
  ASSUME IInv, NEW s \in Slots, Fail(s) \/ EndCall(s)
  PROVE  IInv'
  <1>1. PICK v \in {IdleSlot, AnsweredCall} : tx' = [tx EXCEPT ![s] = v]
    BY DEF Fail, EndCall, Leave
  <1>2. v.op \notin {"approval", "exchange", "call"}
    BY OpsDiffer
  <1>3. SlotSound(v) /\ \A t \in Slots : Compatible(v, tx[t]) /\ Compatible(tx[t], v)
    BY <1>2 DEF SlotSound, Compatible
  <1> QED  BY <1>1, <1>3, SlotStep DEF Fail, EndCall

LEMMA CallStep ==
  ASSUME IInv, NEW s \in Slots, BeginCall(s)
  PROVE  IInv'
  <1>1. PICK c \in creds, scope \in GrantScopes :
          /\ Authorized(c.id, scope)
          /\ tx' = [tx EXCEPT ![s] = [op |-> "call", conn |-> c.conn,
                                      cred |-> c.id, scope |-> scope]]
    BY DEF BeginCall
  <1> DEFINE v == [op |-> "call", conn |-> c.conn, cred |-> c.id, scope |-> scope]
  <1>2. c.id \in CredIds /\ c.conn \in ConnIds
    <2>1. PICK d \in creds : d.id = c.id /\ d.kind \in {"access", "personal"}
      BY <1>1 DEF Authorized, CredRows
    <2>2. d = c
      BY <2>1 DEF IInv, CredInv
    <2> QED  BY <2>1, <2>2 DEF IInv, TypeOK, CredInv, Cred
  <1>3. v \in Call /\ v.op = "call" /\ v.cred = c.id /\ v.conn = c.conn
    BY <1>2 DEF Call
  <1> HIDE DEF v
  <1>4. SlotSound(v)
    BY <1>3 DEF IInv, CredInv, SlotSound, CallSound
  <1>5. \A t \in Slots : Compatible(v, tx[t]) /\ Compatible(tx[t], v)
    BY <1>3 DEF Compatible
  <1> QED  BY <1>1, <1>3, <1>4, <1>5, SlotStep DEF BeginCall, v

-----------------------------------------------------------------------------

\* A write that leaves alone what the other slots' locks protect keeps them
\* sound: it changes no row that an approval's or an exchange's lock covers,
\* and new credentials get new identities.
LEMMA OthersKept ==
  ASSUME TypeOK, SlotInv, issued <= issued', made <= made',
         issued \in Nat, issued' \in Nat, made \in Nat, made' \in Nat,
         \A t \in Slots : tx'[t] = tx[t] \/ tx'[t] = IdleSlot,
         \A c \in creds' : \/ c.id > issued
                           \/ \E d \in creds : /\ d.id = c.id
                                               /\ d.conn = c.conn
                                               /\ d.kind = c.kind,
         \A t \in Slots, c \in creds :
            tx'[t] = tx[t] /\ HoldsRequest(t, c.id) => c \in creds',
         \A t \in Slots, i \in ConnIds :
            tx'[t] = tx[t] /\ HoldsConn(t, i) /\ conns[i] # NoConn =>
                /\ conns'[i] # NoConn /\ conns'[i].revoked = conns[i].revoked
                /\ \A c \in creds : c.id = tx[t].cred => c \in creds'
  PROVE  SlotInv'
  <1>1. IdleSlot.op = "idle"
    BY OpsDiffer
  <1>2. ASSUME NEW t \in Slots  PROVE SlotSound(tx[t])'
    <2>1. CASE tx'[t] = IdleSlot
      BY <2>1, <1>1 DEF SlotSound
    <2>2. CASE tx'[t] = tx[t] /\ tx[t].op = "approval"
      <3>1. ApprovalSound(tx[t])
        BY <2>2 DEF SlotInv, SlotSound
      <3>2. tx[t].cred # 0 => \E c \in creds' : /\ c.id = tx[t].cred
                                               /\ c.kind = "request"
                                               /\ ~c.consumed
        BY <2>2, <3>1 DEF ApprovalSound, HoldsRequest
      <3> QED  BY <2>2, <3>1, <3>2 DEF SlotSound, ApprovalSound
    <2>3. CASE tx'[t] = tx[t] /\ tx[t].op = "exchange"
      <3>1. ExchangeSound(tx[t]) /\ tx[t] \in Exchange
        BY <2>3, SlotTyped DEF SlotInv, SlotSound
      <3>2. tx[t].cred \in Nat /\ tx[t].conn \in Nat /\ tx[t].conn \in ConnIds
        BY <3>1, AIGrantsAssumption DEF Exchange, CredIds, ConnIds
      <3>3. tx[t].cred <= issued' /\ tx[t].conn <= made'
        BY <3>1, <3>2 DEF ExchangeSound
      <3>4. \A c \in creds' : c.id = tx[t].cred =>
              c.conn = tx[t].conn /\ c.kind \in {"code", "refresh"}
        BY <3>1, <3>2 DEF ExchangeSound
      <3>5. tx[t].step # "found" =>
              /\ conns'[tx[t].conn] # NoConn
              /\ conns'[tx[t].conn].revoked = Never
              /\ \E c \in creds' : c.id = tx[t].cred /\ ~c.consumed
        BY <2>3, <3>1, <3>2 DEF ExchangeSound, HoldsConn
      <3>6. ExchangeSound(tx[t])'
        BY <2>3, <3>3, <3>4, <3>5 DEF ExchangeSound
      <3> QED  BY <2>3, <3>6 DEF SlotSound
    <2>4. CASE tx'[t] = tx[t] /\ tx[t].op = "call"
      <3>1. CallSound(tx[t]) /\ tx[t] \in Call
        BY <2>4, SlotTyped DEF SlotInv, SlotSound
      <3>2. tx[t].cred \in Nat
        BY <3>1, AIGrantsAssumption DEF Call, CredIds
      <3> QED  BY <2>4, <3>1, <3>2 DEF SlotSound, CallSound
    <2>5. CASE tx'[t] = tx[t] /\ tx[t].op \notin {"approval", "exchange", "call"}
      BY <2>5 DEF SlotSound
    <2> QED  BY <2>1, <2>2, <2>3, <2>4, <2>5
  <1>3. ASSUME NEW t \in Slots, NEW r \in Slots, t # r
        PROVE  Compatible(tx[t], tx[r])'
    BY <1>1, <1>3 DEF SlotInv, Compatible
  <1> QED  BY <1>2, <1>3 DEF SlotInv

\* The identities' counters are numbers.
LEMMA Numbers ==
  ASSUME TypeOK
  PROVE  /\ clock \in Nat /\ issued \in Nat /\ made \in Nat
         /\ \A c \in creds : c.id \in Nat \ {0} /\ c.conn \in Nat
         /\ \A i \in ConnIds : i \in Nat \ {0}
         /\ \A i \in ConnIds : conns[i] # NoConn => conns[i].request \in Nat
  BY AIGrantsAssumption DEF TypeOK, Instants, Cred, Conn, CredIds, ConnIds

LEMMA AuthorizeStep ==
  ASSUME IInv, NEW asked \in SUBSET GrantScopes \ {{}}, Authorize(asked)
  PROVE  IInv'
  <1> DEFINE new == [id |-> issued + 1, conn |-> 0, kind |-> "request", scopes |-> asked,
                     expires |-> clock + RequestLife, consumed |-> FALSE]
  <1>1. /\ issued < MaxCredentials /\ issued' = issued + 1
        /\ creds' = creds \cup {new}
        /\ UNCHANGED <<clock, password, deleted, conns, made, tx, revived>>
    BY DEF Authorize
  <1>2. new \in Cred /\ new.expires # Never
    BY <1>1, Numbers, AIGrantsAssumption DEF IInv, TypeOK, Cred, CredIds, Never
  <1>3. new.id = issued + 1 /\ new.conn = 0 /\ new.kind = "request" /\ ~new.consumed
    OBVIOUS
  <1> HIDE DEF new
  <1>4. TypeOK'
    BY <1>1, <1>2, Numbers, AIGrantsAssumption DEF IInv, TypeOK, Instants
  <1>5. CredInv'
    BY <1>1, <1>3, Numbers DEF IInv, CredInv, TypeOK
  <1>6. ConnInv'
    BY <1>1, <1>3, Numbers DEF IInv, ConnInv
  <1>7. SlotInv'
    BY <1>1, <1>3, Numbers, OthersKept DEF IInv
  <1>8. OneLiveCredential' /\ RevokedHasNoCredentials' /\ OneConnectionPerConsent'
    BY <1>1, <1>3 DEF IInv, OneLiveCredential, RevokedHasNoCredentials, OneConnectionPerConsent
  <1> QED  BY <1>4, <1>5, <1>6, <1>7, <1>8 DEF IInv

\* Using a credential up changes no other row, and nothing else of its own.
LEMMA ConsumeFacts ==
  ASSUME TypeOK, CredInv, NEW id
  PROVE  /\ Consume(id) \subseteq Cred
         /\ \A c \in Consume(id) : \E d \in creds :
               /\ d.id = c.id /\ d.conn = c.conn /\ d.kind = c.kind
               /\ d.expires = c.expires
               /\ c.consumed = (d.consumed \/ d.id = id)
         /\ \A c \in creds : c.id # id => c \in Consume(id)
         /\ \A c, d \in Consume(id) : c.id = d.id => c = d
  <1>1. \A c \in creds : c \in Cred
    BY DEF TypeOK
  <1>2. \A c \in creds : LET e == [c EXCEPT !.consumed = TRUE] IN
           /\ e \in Cred /\ e.id = c.id /\ e.conn = c.conn /\ e.kind = c.kind
           /\ e.expires = c.expires /\ e.consumed = TRUE
    BY <1>1 DEF Cred
  <1>3. \A c \in Consume(id) : \E d \in creds :
            c = IF d.id = id THEN [d EXCEPT !.consumed = TRUE] ELSE d
    BY DEF Consume
  <1>4. \A c \in creds : c.consumed \in BOOLEAN
    BY <1>1 DEF Cred
  <1>5. \A c \in Consume(id) : \E d \in creds :
               /\ d.id = c.id /\ d.conn = c.conn /\ d.kind = c.kind
               /\ d.expires = c.expires
               /\ c.consumed = (d.consumed \/ d.id = id)
    <2> TAKE c \in Consume(id)
    <2>1. PICK d \in creds : c = IF d.id = id THEN [d EXCEPT !.consumed = TRUE] ELSE d
      BY <1>3
    <2>2. CASE d.id = id
      BY <2>1, <2>2, <1>2
    <2>3. CASE d.id # id
      BY <2>1, <2>3, <1>4
    <2> QED  BY <2>2, <2>3
  <1>6. \A c \in Consume(id) : c \in Cred
    BY <1>1, <1>2, <1>3
  <1>7. \A c \in creds : c.id # id => c \in Consume(id)
    BY DEF Consume
  <1>8. \A c, d \in Consume(id) : c.id = d.id => c = d
    <2> TAKE c \in Consume(id), d \in Consume(id)
    <2> DEFINE Used(r) == IF r.id = id THEN [r EXCEPT !.consumed = TRUE] ELSE r
    <2>1. PICK e \in creds, f \in creds : c = Used(e) /\ d = Used(f)
      BY <1>3
    <2>2. Used(e).id = e.id /\ Used(f).id = f.id
      BY <1>2
    <2>3. e.id = f.id => e = f
      BY DEF CredInv
    <2> HIDE DEF Used
    <2> QED  BY <2>1, <2>2, <2>3
  <1> QED  BY <1>5, <1>6, <1>7, <1>8

\* A credential that an exchange presents is not a consent request.
LEMMA PresentedKinds ==
  ASSUME IInv, NEW t \in Slots, NEW i \in ConnIds, HoldsConn(t, i),
         NEW c \in creds, c.id = tx[t].cred
  PROVE  c.conn = i /\ c.kind \in {"code", "refresh"}
  BY DEF IInv, SlotInv, SlotSound, ExchangeSound, HoldsConn

\* A consent request in progress is an unused row, of which no connection
\* was approved.
LEMMA RequestInProgress ==
  ASSUME IInv, NEW s \in Slots, tx[s].op = "approval", tx[s].cred # 0
  PROVE  /\ \E c \in creds : c.id = tx[s].cred
         /\ \A c \in creds : c.id = tx[s].cred => c.kind = "request" /\ ~c.consumed
         /\ \A j \in ConnIds : conns[j] # NoConn => conns[j].request # tx[s].cred
  <1>1. PICK c \in creds : c.id = tx[s].cred /\ c.kind = "request" /\ ~c.consumed
    BY DEF IInv, SlotInv, SlotSound, ApprovalSound
  <1> QED  BY <1>1 DEF IInv, CredInv, ConnInv

\* Using up the request of one approval takes it from nobody else.
LEMMA RequestConsumed ==
  ASSUME IInv, NEW s \in Slots, tx[s].op = "approval",
         NEW t \in Slots \ {s}, NEW c \in creds,
         \/ HoldsRequest(t, c.id)
         \/ c.id = tx[t].cred /\ \E i \in ConnIds : HoldsConn(t, i)
  PROVE  c \in Consume(tx[s].cred)
  <1>1. c.id # tx[s].cred
    <2>1. CASE HoldsRequest(t, c.id)
      BY <2>1, Numbers DEF IInv, SlotInv, Compatible, HoldsRequest
    <2>2. CASE c.id = tx[t].cred /\ \E i \in ConnIds : HoldsConn(t, i)
      BY <2>2, PresentedKinds, RequestInProgress, Numbers DEF IInv
    <2> QED  BY <2>1, <2>2
  <1> QED  BY <1>1, ConsumeFacts DEF IInv

LEMMA NoConnDiffers == \A c \in Conn : c # NoConn
  BY DEF Conn, NoConn

\* What any use of a credential leaves intact.
LEMMA AfterConsume ==
  ASSUME IInv, NEW id
  PROVE  /\ \A c, d \in Consume(id) :
               /\ c.conn = d.conn /\ c.conn # 0
               /\ {c.kind, d.kind} \subseteq {"code", "refresh"}
               /\ ~c.consumed /\ ~d.consumed
               => c = d
         /\ \A c \in Consume(id) : c.conn # 0 =>
               conns[c.conn] # NoConn /\ conns[c.conn].revoked = Never
         /\ \A c \in Consume(id) : c.id <= issued /\ c.conn <= made
         /\ \A c \in Consume(id) : c.conn = 0 <=> c.kind = "request"
         /\ \A i \in ConnIds : conns[i] # NoConn =>
               \A c \in Consume(id) : c.id = conns[i].request => c.consumed
         /\ \A c \in Consume(id) : c.kind # "personal" => c.expires # Never
         /\ \A c \in Consume(id) : c.id = id => c.consumed
  <1>1. \A c \in Consume(id) : \E d \in creds :
               /\ d.id = c.id /\ d.conn = c.conn /\ d.kind = c.kind
               /\ d.expires = c.expires
               /\ c.consumed = (d.consumed \/ d.id = id)
    BY ConsumeFacts DEF IInv
  <1>2. \A c, d \in Consume(id) :
               /\ c.conn = d.conn /\ c.conn # 0
               /\ {c.kind, d.kind} \subseteq {"code", "refresh"}
               /\ ~c.consumed /\ ~d.consumed
               => c = d
    <2> SUFFICES ASSUME NEW c \in Consume(id), NEW d \in Consume(id),
                        c.conn = d.conn, c.conn # 0,
                        c.kind \in {"code", "refresh"}, d.kind \in {"code", "refresh"},
                        ~c.consumed, ~d.consumed
                 PROVE  c.id = d.id
      BY ConsumeFacts DEF IInv
    <2>1. PICK e \in creds, f \in creds :
            /\ e.id = c.id /\ e.conn = c.conn /\ e.kind = c.kind /\ ~e.consumed
            /\ f.id = d.id /\ f.conn = d.conn /\ f.kind = d.kind /\ ~f.consumed
      BY <1>1
    <2> QED  BY <2>1 DEF IInv, OneLiveCredential
  <1>3. \A c \in Consume(id) : c.conn # 0 =>
               conns[c.conn] # NoConn /\ conns[c.conn].revoked = Never
    BY <1>1 DEF IInv, RevokedHasNoCredentials
  <1>4. \A c \in Consume(id) : c.id <= issued /\ c.conn <= made
    BY <1>1 DEF IInv, CredInv
  <1>5. \A c \in Consume(id) : c.conn = 0 <=> c.kind = "request"
    BY <1>1 DEF IInv, CredInv
  <1>6. \A i \in ConnIds : conns[i] # NoConn =>
               \A c \in Consume(id) : c.id = conns[i].request => c.consumed
    <2> SUFFICES ASSUME NEW i \in ConnIds, conns[i] # NoConn,
                        NEW c \in Consume(id), c.id = conns[i].request
                 PROVE  c.consumed
      OBVIOUS
    <2>1. PICK d \in creds : d.id = c.id /\ c.consumed = (d.consumed \/ d.id = id)
      BY <1>1
    <2>2. d.consumed
      BY <2>1 DEF IInv, ConnInv
    <2> QED  BY <2>1, <2>2
  <1>7. \A c \in Consume(id) : c.kind # "personal" => c.expires # Never
    BY <1>1 DEF IInv, TypeOK
  <1>8. \A c \in Consume(id) : c.id = id => c.consumed
    BY <1>1
  <1> QED  BY <1>2, <1>3, <1>4, <1>5, <1>6, <1>7, <1>8

LEMMA ApproveStep ==
  ASSUME IInv, NEW s \in Slots, Approve(s)
  PROVE  IInv'
  <1> DEFINE g == tx[s].granted
             new == [id |-> issued + 1, conn |-> made + 1,
                     kind |-> IF g.method = "oauth" THEN "code" ELSE "personal",
                     scopes |-> g.scopes, expires |-> g.expires, consumed |-> FALSE]
             C == Consume(tx[s].cred)
  <1>1. /\ tx[s].op = "approval" /\ g # NoConn
        /\ made < MaxConnections /\ issued < MaxCredentials
        /\ conns' = [conns EXCEPT ![made + 1] = g]
        /\ creds' = C \cup {new}
        /\ made' = made + 1 /\ issued' = issued + 1
        /\ tx' = [tx EXCEPT ![s] = IdleSlot]
        /\ UNCHANGED <<clock, password, deleted, revived>>
    BY DEF Approve, Leave
  <1>2. tx[s] \in Approval /\ ApprovalSound(tx[s])
    BY <1>1, SlotTyped DEF IInv, SlotInv, SlotSound
  <1>3. /\ g \in Conn /\ tx[s].cred \in CredIds \cup {0}
        /\ g.user = tx[s].user /\ g.revoked = Never /\ g.session = g.fingerprint
        /\ g.request = tx[s].cred /\ (g.method = "oauth" => g.expires # Never)
    BY <1>1, <1>2 DEF Approval, ApprovalSound
  <1>4. made + 1 \in ConnIds /\ issued + 1 \in CredIds
    BY <1>1, Numbers, AIGrantsAssumption DEF IInv, ConnIds, CredIds, TypeOK
  <1>5. new \in Cred /\ (new.kind # "personal" => new.expires # Never)
    BY <1>3, <1>4 DEF Cred, Conn
  <1>6. /\ new.id = issued + 1 /\ new.conn = made + 1 /\ ~new.consumed
        /\ new.kind \in {"code", "personal"}
    OBVIOUS
  <1>7. conns' \in [ConnIds -> Conn \cup {NoConn}] /\ conns'[made + 1] = g
          /\ \A i \in ConnIds : i # made + 1 => conns'[i] = conns[i]
    BY <1>1, <1>3, <1>4 DEF IInv, TypeOK
  <1>8. C \subseteq Cred /\ \A c, d \in C : c.id = d.id => c = d
    BY ConsumeFacts DEF IInv
  <1>9. tx[s].cred \in Nat /\ tx[s].cred <= issued
    <2>1. CASE tx[s].cred = 0
      BY <2>1, Numbers DEF IInv
    <2>2. CASE tx[s].cred # 0
      BY <2>2, <1>1, Numbers, RequestInProgress DEF IInv, CredInv
    <2> QED  BY <2>1, <2>2
  <1>10. tx' \in [Slots -> {IdleSlot, AnsweredCall} \cup Approval \cup Exchange \cup Call]
    BY <1>1 DEF IInv, TypeOK
  <1> HIDE DEF g, new, C
  <1>11. TypeOK'
    <2>1. \A c \in creds' : c.kind # "personal" => c.expires # Never
      BY <1>1, <1>5, AfterConsume DEF C
    <2>2. \A i \in ConnIds : conns'[i] # NoConn /\ conns'[i].method = "oauth"
                              => conns'[i].expires # Never
      BY <1>3, <1>7 DEF IInv, TypeOK
    <2>3. made' \in 0..MaxConnections /\ issued' \in 0..MaxCredentials
      BY <1>1, <1>4, Numbers DEF IInv, ConnIds, CredIds
    <2> QED  BY <1>1, <1>5, <1>7, <1>8, <1>10, <2>1, <2>2, <2>3 DEF IInv, TypeOK, Instants
  <1>12. CredInv'
    <2>1. \A c \in C : c.id <= issued /\ c.conn <= made /\ (c.conn = 0 <=> c.kind = "request")
      BY AfterConsume DEF C
    <2>2. \A c \in C : c.id \in Nat /\ c.conn \in Nat
      BY <1>8, AIGrantsAssumption DEF Cred, CredIds, ConnIds
    <2> QED  BY <1>1, <1>6, <1>8, <2>1, <2>2, Numbers DEF IInv, CredInv
  <1>13. ConnInv'
    <2> SUFFICES ASSUME NEW i \in ConnIds, conns'[i] # NoConn
                 PROVE  /\ i <= made'
                        /\ conns'[i].request <= issued'
                        /\ conns'[i].session = conns'[i].fingerprint
                        /\ \A c \in creds' : c.id = conns'[i].request => c.consumed
      BY DEF ConnInv
    <2>1. CASE i = made + 1
      BY <2>1, <1>1, <1>3, <1>6, <1>7, <1>9, Numbers, AfterConsume DEF IInv, C
    <2>2. CASE i # made + 1
      BY <2>2, <1>1, <1>6, <1>7, Numbers, AfterConsume DEF IInv, ConnInv, C
    <2> QED  BY <2>1, <2>2
  <1>14. SlotInv'
    <2>1. \A t \in Slots : tx'[t] = IF t = s THEN IdleSlot ELSE tx[t]
      BY <1>1 DEF IInv, TypeOK
    <2>2. tx[s] # IdleSlot
      BY <1>1, OpsDiffer
    <2>3. \A t \in Slots, c \in creds :
            tx'[t] = tx[t] /\ HoldsRequest(t, c.id) => c \in creds'
      BY <1>1, <2>1, <2>2, RequestConsumed DEF C
    <2>4. \A t \in Slots, i \in ConnIds :
            tx'[t] = tx[t] /\ HoldsConn(t, i) /\ conns[i] # NoConn =>
                /\ conns'[i] # NoConn /\ conns'[i].revoked = conns[i].revoked
                /\ \A c \in creds : c.id = tx[t].cred => c \in creds'
      BY <1>1, <1>7, <2>1, <2>2, RequestConsumed, Numbers DEF IInv, ConnInv, C
    <2>5. \A c \in creds' : \/ c.id > issued
                           \/ \E d \in creds : /\ d.id = c.id
                                               /\ d.conn = c.conn
                                               /\ d.kind = c.kind
      BY <1>1, <1>6, ConsumeFacts, Numbers DEF IInv, C
    <2> QED  BY <1>1, <2>1, <2>3, <2>4, <2>5, Numbers, OthersKept DEF IInv
  <1>15. OneLiveCredential'
    <2>1. \A c \in C : c.conn # made + 1
      BY <1>8, AfterConsume, Numbers DEF IInv, C, Cred, ConnIds
    <2>2. \A c, d \in C :
               /\ c.conn = d.conn /\ c.conn # 0
               /\ {c.kind, d.kind} \subseteq {"code", "refresh"}
               /\ ~c.consumed /\ ~d.consumed
               => c = d
      BY AfterConsume DEF C
    <2> QED  BY <1>1, <1>6, <2>1, <2>2 DEF OneLiveCredential
  <1>16. RevokedHasNoCredentials'
    <2>1. \A c \in C : c.conn # 0 =>
            c.conn # made + 1 /\ c.conn \in ConnIds
              /\ conns[c.conn] # NoConn /\ conns[c.conn].revoked = Never
      BY <1>8, AfterConsume, Numbers DEF IInv, C, Cred, ConnIds
    <2> QED  BY <1>1, <1>3, <1>6, <1>7, <2>1, NoConnDiffers DEF RevokedHasNoCredentials
  <1>17. OneConnectionPerConsent'
    <2>1. \A j \in ConnIds : tx[s].cred # 0 /\ conns[j] # NoConn => conns[j].request # tx[s].cred
      BY <1>1, RequestInProgress
    <2> QED  BY <1>3, <1>7, <2>1 DEF IInv, OneConnectionPerConsent
  <1> QED  BY <1>11, <1>12, <1>13, <1>14, <1>15, <1>16, <1>17 DEF IInv

LEMMA DeclineStep ==
  ASSUME IInv, NEW s \in Slots, Decline(s)
  PROVE  IInv'
  <1>1. /\ tx[s].op = "approval" /\ tx[s].cred # 0
        /\ creds' = Consume(tx[s].cred)
        /\ tx' = [tx EXCEPT ![s] = IdleSlot]
        /\ UNCHANGED <<clock, password, deleted, conns, made, issued, revived>>
    BY DEF Decline, Leave
  <1>2. creds' \subseteq Cred /\ \A c, d \in creds' : c.id = d.id => c = d
    BY <1>1, ConsumeFacts DEF IInv
  <1>3. TypeOK'
    BY <1>1, <1>2, AfterConsume DEF IInv, TypeOK, Instants
  <1>4. CredInv' /\ ConnInv'
    BY <1>1, <1>2, AfterConsume DEF IInv, CredInv, ConnInv
  <1>5. SlotInv'
    <2>1. \A t \in Slots : tx'[t] = IF t = s THEN IdleSlot ELSE tx[t]
      BY <1>1 DEF IInv, TypeOK
    <2>2. tx[s] # IdleSlot
      BY <1>1, OpsDiffer
    <2>3. \A t \in Slots, c \in creds :
            tx'[t] = tx[t] /\ HoldsRequest(t, c.id) => c \in creds'
      BY <1>1, <2>1, <2>2, RequestConsumed
    <2>4. \A t \in Slots, i \in ConnIds :
            tx'[t] = tx[t] /\ HoldsConn(t, i) =>
                \A c \in creds : c.id = tx[t].cred => c \in creds'
      BY <1>1, <2>1, <2>2, RequestConsumed
    <2>5. \A c \in creds' : \E d \in creds : /\ d.id = c.id
                                             /\ d.conn = c.conn
                                             /\ d.kind = c.kind
      BY <1>1, ConsumeFacts DEF IInv
    <2> QED  BY <1>1, <2>1, <2>3, <2>4, <2>5, Numbers, OthersKept DEF IInv
  <1>6. OneLiveCredential' /\ RevokedHasNoCredentials' /\ OneConnectionPerConsent'
    BY <1>1, AfterConsume DEF IInv, OneLiveCredential, RevokedHasNoCredentials,
                              OneConnectionPerConsent
  <1> QED  BY <1>3, <1>4, <1>5, <1>6 DEF IInv

\* Rows only disappear, or a connection's fields change in a way that no
\* request in progress relies on.
LEMMA ShrinkStep ==
  ASSUME IInv, TypeOK', issued' = issued, made' = made, creds' \subseteq creds,
         \A t \in Slots : tx'[t] = tx[t] \/ tx'[t] = IdleSlot,
         \A i \in ConnIds : conns'[i] # NoConn =>
            /\ conns[i] # NoConn
            /\ conns'[i].session = conns[i].session
            /\ conns'[i].fingerprint = conns[i].fingerprint
            /\ conns'[i].request = conns[i].request,
         \A c \in creds' : c.conn # 0 =>
            conns'[c.conn] # NoConn /\ conns'[c.conn].revoked = Never,
         \A t \in Slots, c \in creds : HoldsRequest(t, c.id) => c \in creds',
         \A t \in Slots, i \in ConnIds : HoldsConn(t, i) =>
            /\ conns[i] # NoConn => conns'[i] # NoConn /\ conns'[i].revoked = conns[i].revoked
            /\ \A c \in creds : c.id = tx[t].cred => c \in creds'
  PROVE  IInv'
  <1>1. CredInv' /\ OneLiveCredential' /\ RevokedHasNoCredentials' /\ OneConnectionPerConsent'
    BY DEF IInv, CredInv, OneLiveCredential, RevokedHasNoCredentials, OneConnectionPerConsent
  <1>2. ConnInv'
    BY DEF IInv, ConnInv
  <1>3. SlotInv'
    BY Numbers, OthersKept DEF IInv
  <1> QED  BY <1>1, <1>2, <1>3 DEF IInv

LEMMA RevokedStep ==
  ASSUME IInv, NEW i \in ConnIds, conns[i] # NoConn, ConnFree(i), RevokedConn(i),
         tx' \in [Slots -> {IdleSlot, AnsweredCall} \cup Approval \cup Exchange \cup Call],
         \A t \in Slots : tx'[t] = tx[t] \/ tx'[t] = IdleSlot,
         UNCHANGED <<clock, password, deleted, made, issued, revived>>
  PROVE  IInv'
  <1>1. conns[i] \in Conn /\ clock \in Instants
    BY DEF IInv, TypeOK
  <1>2. /\ conns'[i] \in Conn
        /\ conns'[i].session = conns[i].session
        /\ conns'[i].fingerprint = conns[i].fingerprint
        /\ conns'[i].request = conns[i].request
        /\ conns'[i].method = conns[i].method
        /\ conns'[i].expires = conns[i].expires
        /\ \A j \in ConnIds : j # i => conns'[j] = conns[j]
        /\ conns' \in [ConnIds -> Conn \cup {NoConn}]
    BY <1>1 DEF RevokedConn, Conn, IInv, TypeOK
  <1>3. creds' = {c \in creds : c.conn # i}
    BY DEF RevokedConn
  <1>4. TypeOK'
    BY <1>2, <1>3 DEF IInv, TypeOK, Instants
  <1>5. \A c \in creds' : c.conn # 0 =>
            conns'[c.conn] # NoConn /\ conns'[c.conn].revoked = Never
    BY <1>2, <1>3 DEF IInv, TypeOK, Cred, RevokedHasNoCredentials
  <1>6. \A t \in Slots, c \in creds : HoldsRequest(t, c.id) => c \in creds'
    BY <1>3, RequestInProgress, Numbers DEF IInv, CredInv, HoldsRequest
  <1>7. \A t \in Slots, j \in ConnIds : HoldsConn(t, j) =>
            /\ conns'[j] = conns[j]
            /\ \A c \in creds : c.id = tx[t].cred => c \in creds'
    BY <1>2, <1>3, PresentedKinds DEF ConnFree
  <1> QED  BY <1>2, <1>3, <1>4, <1>5, <1>6, <1>7, ShrinkStep

LEMMA RevocationSteps ==
  ASSUME IInv,
         \/ \E s \in Slots : ReplayRevokes(s)
         \/ \E i \in ConnIds : Revoke(i)
  PROVE  IInv'
  <1>1. CASE \E i \in ConnIds : Revoke(i)
    BY <1>1, RevokedStep DEF Revoke, IInv, TypeOK
  <1>2. ASSUME NEW s \in Slots, ReplayRevokes(s)  PROVE IInv'
    <2>1. tx[s] \in Exchange
      BY <1>2, SlotTyped DEF IInv, ReplayRevokes
    <2>2. tx[s].conn \in ConnIds /\ conns[tx[s].conn] # NoConn /\ ConnFree(tx[s].conn)
      BY <1>2, <2>1 DEF ReplayRevokes, Valid, Exchange
    <2>3. /\ tx' \in [Slots -> {IdleSlot, AnsweredCall} \cup Approval \cup Exchange \cup Call]
          /\ \A t \in Slots : tx'[t] = tx[t] \/ tx'[t] = IdleSlot
      BY <1>2 DEF ReplayRevokes, Leave, IInv, TypeOK
    <2> QED  BY <1>2, <2>2, <2>3, RevokedStep DEF ReplayRevokes
  <1> QED  BY <1>1, <1>2

LEMMA ReduceStep ==
  ASSUME IInv, NEW i \in ConnIds, Reduce(i)
  PROVE  IInv'
  <1>1. /\ conns[i] # NoConn
        /\ UNCHANGED <<clock, password, deleted, made, creds, issued, tx, revived>>
    BY DEF Reduce
  <1>2. PICK scopes \in SUBSET conns[i].scopes :
          conns' = [conns EXCEPT ![i].scopes = scopes]
    BY DEF Reduce
  <1>3. conns[i] \in Conn
    BY <1>1 DEF IInv, TypeOK
  <1>4. /\ conns'[i] \in Conn
        /\ conns'[i].session = conns[i].session
        /\ conns'[i].fingerprint = conns[i].fingerprint
        /\ conns'[i].request = conns[i].request
        /\ conns'[i].method = conns[i].method
        /\ conns'[i].expires = conns[i].expires
        /\ conns'[i].revoked = conns[i].revoked
        /\ \A j \in ConnIds : j # i => conns'[j] = conns[j]
        /\ conns' \in [ConnIds -> Conn \cup {NoConn}]
    BY <1>2, <1>3 DEF Conn, IInv, TypeOK
  <1>5. \A j \in ConnIds : conns[j] # NoConn => conns'[j] # NoConn /\ conns'[j].revoked = conns[j].revoked
    BY <1>4, NoConnDiffers
  <1>6. TypeOK'
    BY <1>1, <1>3, <1>4 DEF IInv, TypeOK, Instants
  <1>7. \A c \in creds' : c.conn # 0 =>
            conns'[c.conn] # NoConn /\ conns'[c.conn].revoked = Never
    BY <1>1, <1>5 DEF IInv, TypeOK, Cred, RevokedHasNoCredentials
  <1> QED  BY <1>1, <1>4, <1>5, <1>6, <1>7, ShrinkStep

\* The clock and the users' rows matter to no part of the invariant.
LEMMA OutsideSteps ==
  ASSUME IInv, Tick \/ \E u \in Owners : SavePassword(u) \/ DeleteUser(u)
  PROVE  IInv'
  <1>1. UNCHANGED <<conns, made, creds, issued, tx, revived>>
    BY DEF Tick, SavePassword, DeleteUser
  <1>2. clock' \in Instants /\ password' \in [Owners -> 1..MaxPasswords] /\ deleted' \subseteq Owners
    <2>1. CASE Tick
      BY <2>1, AIGrantsAssumption DEF Tick, IInv, TypeOK, Instants
    <2>2. CASE \E u \in Owners : SavePassword(u) \/ DeleteUser(u)
      BY <2>2 DEF SavePassword, DeleteUser, IInv, TypeOK
    <2> QED  BY <2>1, <2>2
  <1>3. TypeOK'
    BY <1>1, <1>2 DEF IInv, TypeOK, Instants
  <1>4. CredInv' /\ ConnInv' /\ OneLiveCredential' /\ RevokedHasNoCredentials'
          /\ OneConnectionPerConsent'
    BY <1>1 DEF IInv, CredInv, ConnInv, OneLiveCredential, RevokedHasNoCredentials,
                OneConnectionPerConsent
  <1>5. SlotInv'
    BY <1>1, Numbers, OthersKept DEF IInv
  <1> QED  BY <1>3, <1>4, <1>5 DEF IInv

LEMMA CleanupSteps ==
  ASSUME IInv, CleanCredentials \/ CleanConnections
  PROVE  IInv'
  <1>1. CASE CleanCredentials
    <2>1. /\ creds' = {c \in creds : CredFree(c) => c \notin DeadCredentials}
          /\ UNCHANGED <<clock, password, deleted, conns, made, issued, tx, revived>>
      BY <1>1 DEF CleanCredentials
    <2>2. TypeOK'
      BY <2>1 DEF IInv, TypeOK, Instants
    <2>3. \A t \in Slots, c \in creds : HoldsRequest(t, c.id) => c \in creds'
      BY <2>1 DEF CredFree
    <2>4. \A t \in Slots, i \in ConnIds : HoldsConn(t, i) =>
            \A c \in creds : c.id = tx[t].cred => c \in creds'
      BY <2>1, PresentedKinds DEF CredFree
    <2> QED  BY <2>1, <2>2, <2>3, <2>4, ShrinkStep DEF IInv, RevokedHasNoCredentials
  <1>2. CASE CleanConnections
    <2> DEFINE dead == {i \in DeadConnections : ConnFree(i)}
    <2>1. /\ conns' = [i \in ConnIds |-> IF i \in dead THEN NoConn ELSE conns[i]]
          /\ creds' = {c \in creds : c.conn \notin dead}
          /\ UNCHANGED <<clock, password, deleted, made, issued, tx, revived>>
      BY <1>2 DEF CleanConnections
    <2>2. dead \subseteq ConnIds
      BY DEF DeadConnections
    <2>3. \A t \in Slots, i \in ConnIds : HoldsConn(t, i) => i \notin dead
      BY DEF ConnFree
    <2> HIDE DEF dead
    <2>4. TypeOK'
      BY <2>1 DEF IInv, TypeOK, Instants
    <2>5. \A t \in Slots, c \in creds : HoldsRequest(t, c.id) => c \in creds'
      BY <2>1, <2>2, RequestInProgress, Numbers DEF IInv, CredInv, HoldsRequest
    <2>6. \A t \in Slots, i \in ConnIds : HoldsConn(t, i) =>
            /\ conns'[i] = conns[i]
            /\ \A c \in creds : c.id = tx[t].cred => c \in creds'
      BY <2>1, <2>3, PresentedKinds
    <2>7. \A c \in creds' : c.conn # 0 =>
            conns'[c.conn] # NoConn /\ conns'[c.conn].revoked = Never
      BY <2>1 DEF IInv, TypeOK, Cred, RevokedHasNoCredentials
    <2> QED  BY <2>1, <2>4, <2>5, <2>6, <2>7, ShrinkStep
  <1> QED  BY <1>1, <1>2

LEMMA CommitStep ==
  ASSUME IInv, NEW s \in Slots, CommitTokens(s)
  PROVE  IInv'
  <1> DEFINE i == tx[s].conn
             C == Consume(tx[s].cred)
             access == Token(issued + 1, i, "access", tx[s].scopes, tx[s].at + AccessLife)
             refresh == Token(issued + 2, i, "refresh", tx[s].scopes, tx[s].at + RefreshLife)
  <1>1. /\ tx[s].op = "exchange" /\ tx[s].step = "written"
        /\ issued + 2 <= MaxCredentials
        /\ conns' = [conns EXCEPT ![i].expires = tx[s].at + RefreshLife]
        /\ creds' = C \cup {access, refresh}
        /\ issued' = issued + 2
        /\ tx' = [tx EXCEPT ![s] = IdleSlot]
        /\ UNCHANGED <<clock, password, deleted, made>>
        /\ revived' = revived \/ revived' = revived \cup {i}
    BY DEF CommitTokens, Leave
  <1>2. tx[s] \in Exchange /\ ExchangeSound(tx[s]) /\ HoldsConn(s, i)
    BY <1>1, SlotTyped DEF IInv, SlotInv, SlotSound, HoldsConn
  <1>3. /\ i \in ConnIds /\ tx[s].scopes \subseteq GrantScopes /\ tx[s].at \in Nat
        /\ i <= made /\ i # 0
        /\ conns[i] # NoConn /\ conns[i].revoked = Never
    BY <1>1, <1>2 DEF Exchange, ExchangeSound, Instants, ConnIds
  <1>4. PICK f \in creds : /\ f.id = tx[s].cred /\ ~f.consumed /\ f.conn = i
                           /\ f.kind \in {"code", "refresh"}
    BY <1>1, <1>2 DEF ExchangeSound
  <1>5. /\ access \in Cred /\ access.id = issued + 1 /\ access.conn = i
        /\ access.kind = "access" /\ access.expires # Never
        /\ refresh \in Cred /\ refresh.id = issued + 2 /\ refresh.conn = i
        /\ refresh.kind = "refresh" /\ refresh.expires # Never
    <2>1. issued + 1 \in CredIds /\ issued + 2 \in CredIds
      BY <1>1, Numbers, AIGrantsAssumption DEF IInv, CredIds
    <2>2. tx[s].at + AccessLife \in Nat /\ tx[s].at + RefreshLife \in Nat
      BY <1>3, AIGrantsAssumption
    <2>3. tx[s].at + AccessLife # Never /\ tx[s].at + RefreshLife # Never
      BY <2>2 DEF Never
    <2> QED  BY <1>3, <2>1, <2>2, <2>3 DEF Token, Cred
  <1>6. conns[i] \in Conn /\ tx[s].at + RefreshLife \in Nat /\ tx[s].at + RefreshLife # Never
    BY <1>3, AIGrantsAssumption DEF IInv, TypeOK, Never
  <1>7. /\ conns'[i] \in Conn
        /\ conns'[i].session = conns[i].session
        /\ conns'[i].fingerprint = conns[i].fingerprint
        /\ conns'[i].request = conns[i].request
        /\ conns'[i].revoked = conns[i].revoked
        /\ conns'[i].expires # Never
        /\ \A j \in ConnIds : j # i => conns'[j] = conns[j]
        /\ conns' \in [ConnIds -> Conn \cup {NoConn}]
    BY <1>1, <1>3, <1>6 DEF Conn, IInv, TypeOK
  <1>8. C \subseteq Cred /\ \A c, d \in C : c.id = d.id => c = d
    BY ConsumeFacts DEF IInv
  <1>9. \A c \in C : /\ c.id <= issued /\ c.conn <= made /\ (c.conn = 0 <=> c.kind = "request")
                     /\ c.id \in Nat /\ c.conn \in Nat
    BY <1>8, AfterConsume, AIGrantsAssumption DEF C, Cred, CredIds, ConnIds
  <1>10. tx' \in [Slots -> {IdleSlot, AnsweredCall} \cup Approval \cup Exchange \cup Call]
    BY <1>1 DEF IInv, TypeOK
  <1>11. \A j \in ConnIds : conns'[j] # NoConn => conns[j] # NoConn
    BY <1>3, <1>7
  <1>12. \A j \in ConnIds : conns[j] # NoConn =>
            conns'[j] # NoConn /\ conns'[j].revoked = conns[j].revoked
    BY <1>7, NoConnDiffers
  <1> HIDE DEF i, C, access, refresh
  <1>13. TypeOK'
    <2>1. \A c \in creds' : c.kind # "personal" => c.expires # Never
      BY <1>1, <1>5, AfterConsume DEF C
    <2>2. \A j \in ConnIds : conns'[j] # NoConn /\ conns'[j].method = "oauth"
                              => conns'[j].expires # Never
      BY <1>7 DEF IInv, TypeOK
    <2>3. issued' \in 0..MaxCredentials /\ revived' \subseteq ConnIds
      BY <1>1, <1>3, Numbers, AIGrantsAssumption DEF IInv, TypeOK
    <2>4. creds' \subseteq Cred
      BY <1>1, <1>5, <1>8
    <2> QED  BY <1>1, <1>7, <1>10, <2>1, <2>2, <2>3, <2>4 DEF IInv, TypeOK, Instants
  <1>14. CredInv'
    <2>1. \A c \in creds' : c.id <= issued' /\ c.conn <= made'
      BY <1>1, <1>3, <1>5, <1>9, Numbers DEF IInv
    <2>2. \A c \in creds' : c.conn = 0 <=> c.kind = "request"
      BY <1>1, <1>3, <1>5, <1>9
    <2>3. \A c, d \in creds' : c.id = d.id => c = d
      BY <1>1, <1>5, <1>8, <1>9, Numbers DEF IInv
    <2> QED  BY <2>1, <2>2, <2>3 DEF CredInv
  <1>15. ConnInv'
    <2> SUFFICES ASSUME NEW j \in ConnIds, conns'[j] # NoConn
                 PROVE  /\ j <= made'
                        /\ conns'[j].request <= issued'
                        /\ conns'[j].session = conns'[j].fingerprint
                        /\ \A c \in creds' : c.id = conns'[j].request => c.consumed
      BY DEF ConnInv
    <2>1. /\ conns[j] # NoConn /\ conns'[j].request = conns[j].request
          /\ conns'[j].session = conns[j].session
          /\ conns'[j].fingerprint = conns[j].fingerprint
      BY <1>7, <1>11
    <2>2. /\ j <= made /\ conns[j].request <= issued /\ conns[j].request \in Nat
          /\ conns[j].session = conns[j].fingerprint
      BY <2>1, Numbers DEF IInv, ConnInv
    <2>3. \A c \in creds' : c.id = conns[j].request => c.consumed
      BY <1>1, <1>5, <2>1, <2>2, Numbers, AfterConsume DEF IInv, C
    <2> QED  BY <1>1, <2>1, <2>2, <2>3, Numbers DEF IInv
  <1>16. SlotInv'
    <2>1. \A t \in Slots : tx'[t] = IF t = s THEN IdleSlot ELSE tx[t]
      BY <1>1 DEF IInv, TypeOK
    <2>2. tx[s] # IdleSlot
      BY <1>1, OpsDiffer
    <2>3. \A t \in Slots, c \in creds :
            tx'[t] = tx[t] /\ HoldsRequest(t, c.id) => c \in creds'
      <3> SUFFICES ASSUME NEW t \in Slots, NEW c \in creds, HoldsRequest(t, c.id)
                   PROVE  c \in C
        BY <1>1
      <3>1. c.kind = "request"
        BY RequestInProgress, Numbers DEF HoldsRequest, IInv
      <3>2. c.id # tx[s].cred
        BY <3>1, <1>4 DEF IInv, CredInv
      <3> QED  BY <3>2, ConsumeFacts DEF IInv, C
    <2>4. \A t \in Slots, j \in ConnIds :
            tx'[t] = tx[t] /\ HoldsConn(t, j) =>
                \A c \in creds : c.id = tx[t].cred => c \in creds'
      <3> SUFFICES ASSUME NEW t \in Slots \ {s}, NEW j \in ConnIds, HoldsConn(t, j),
                          NEW c \in creds, c.id = tx[t].cred
                   PROVE  c \in C
        BY <1>1, <2>1, <2>2
      <3>1. j # i
        BY <1>2 DEF IInv, SlotInv, Compatible, HoldsConn
      <3>2. c.id # tx[s].cred
        BY <3>1, <1>4, PresentedKinds DEF IInv, CredInv
      <3> QED  BY <3>2, ConsumeFacts DEF IInv, C
    <2>5. \A c \in creds' : \/ c.id > issued
                           \/ \E d \in creds : /\ d.id = c.id
                                               /\ d.conn = c.conn
                                               /\ d.kind = c.kind
      BY <1>1, <1>5, ConsumeFacts, Numbers DEF IInv, C
    <2>6. issued <= issued' /\ issued' \in Nat
      BY <1>1, Numbers DEF IInv
    <2> QED  BY <1>1, <1>12, <2>1, <2>3, <2>4, <2>5, <2>6, Numbers, OthersKept DEF IInv
  <1>17. OneLiveCredential'
    <2>1. \A c \in C : c.conn = i /\ c.kind \in {"code", "refresh"} => c.consumed
      <3> SUFFICES ASSUME NEW c \in C, c.conn = i, c.kind \in {"code", "refresh"},
                          ~c.consumed
                   PROVE  FALSE
        OBVIOUS
      <3>1. PICK e \in creds : /\ e.id = c.id /\ e.conn = c.conn /\ e.kind = c.kind
                               /\ c.consumed = (e.consumed \/ e.id = tx[s].cred)
        BY ConsumeFacts DEF IInv, C
      <3>2. ~e.consumed /\ e.id # tx[s].cred
        BY <3>1
      <3>3. e = f
        BY <1>3, <1>4, <3>1, <3>2 DEF IInv, OneLiveCredential
      <3> QED  BY <1>4, <3>2, <3>3
    <2>2. \A c, d \in C :
               /\ c.conn = d.conn /\ c.conn # 0
               /\ {c.kind, d.kind} \subseteq {"code", "refresh"}
               /\ ~c.consumed /\ ~d.consumed
               => c = d
      BY AfterConsume DEF C
    <2> QED  BY <1>1, <1>5, <2>1, <2>2 DEF OneLiveCredential
  <1>18. RevokedHasNoCredentials'
    <2>1. \A c \in C : c.conn # 0 =>
            c.conn \in ConnIds /\ conns[c.conn] # NoConn /\ conns[c.conn].revoked = Never
      BY <1>8, AfterConsume DEF C, Cred
    <2> QED  BY <1>1, <1>3, <1>5, <1>12, <2>1 DEF RevokedHasNoCredentials
  <1>19. OneConnectionPerConsent'
    BY <1>7, <1>11 DEF IInv, OneConnectionPerConsent
  <1> QED  BY <1>13, <1>14, <1>15, <1>16, <1>17, <1>18, <1>19 DEF IInv

-----------------------------------------------------------------------------

LEMMA InitSound == InitGrants => IInv
  <1> SUFFICES ASSUME InitGrants PROVE IInv
    OBVIOUS
  <1>1. TypeOK
    BY AIGrantsAssumption DEF InitGrants, TypeOK, Instants
  <1>2. \A s \in Slots : tx[s].op = "idle"
    BY OpsDiffer DEF InitGrants
  <1>3. SlotInv
    BY <1>2 DEF SlotInv, SlotSound, Compatible
  <1>4. /\ CredInv /\ ConnInv /\ OneLiveCredential /\ RevokedHasNoCredentials
        /\ OneConnectionPerConsent
    BY DEF InitGrants, CredInv, ConnInv, OneLiveCredential, RevokedHasNoCredentials,
           OneConnectionPerConsent
  <1> QED  BY <1>1, <1>3, <1>4 DEF IInv

LEMMA NextSound == IInv /\ [NextGrants]_grantVars => IInv'
  <1> SUFFICES ASSUME IInv, [NextGrants]_grantVars PROVE IInv'
    OBVIOUS
  <1>1. ASSUME NEW asked \in SUBSET GrantScopes \ {{}}, Authorize(asked)  PROVE IInv'
    BY <1>1, AuthorizeStep
  <1>2. ASSUME NEW s \in Slots, Approving(s)  PROVE IInv'
    BY <1>2, OpenSteps, GrantStep, ApproveStep, DeclineStep DEF Approving
  <1>3. ASSUME NEW s \in Slots, Exchanging(s)  PROVE IInv'
    BY <1>3, PresentStep, LockStep, RevocationSteps, WriteStep, CommitStep DEF Exchanging
  <1>4. ASSUME NEW s \in Slots, BeginCall(s) \/ EndCall(s) \/ Fail(s)  PROVE IInv'
    BY <1>4, CallStep, LeavingSteps
  <1>5. ASSUME NEW i \in ConnIds, Revoke(i) \/ Reduce(i)  PROVE IInv'
    BY <1>5, RevocationSteps, ReduceStep
  <1>6. CASE Tick \/ \E u \in Owners : SavePassword(u) \/ DeleteUser(u)
    BY <1>6, OutsideSteps
  <1>7. CASE CleanCredentials \/ CleanConnections
    BY <1>7, CleanupSteps
  <1>8. CASE UNCHANGED grantVars
    <2>1. TypeOK'
      BY <1>8 DEF grantVars, IInv, TypeOK, Instants
    <2> QED  BY <1>8, <2>1, Numbers, ShrinkStep DEF grantVars, IInv, RevokedHasNoCredentials
  <1> QED  BY <1>1, <1>2, <1>3, <1>4, <1>5, <1>6, <1>7, <1>8 DEF NextGrants

\* The inductive invariant: what each request in progress relies on holds
\* while its locks do (the row locks of oauth.py and policy.py).
THEOREM GrantsSound == GrantsSpec => []IInv
  BY InitSound, NextSound, PTL DEF GrantsSpec

\* Type correctness, and expiry only missing from personal tokens.
THEOREM GrantsTyped == GrantsSpec => []TypeOK
  <1>1. IInv => TypeOK
    BY DEF IInv
  <1> QED  BY <1>1, GrantsSound, PTL

\* However a code or refresh token is presented, repeated or raced, a
\* connection has at most one credential left to exchange.
THEOREM RotationIsLinear == GrantsSpec => []OneLiveCredential
  <1>1. IInv => OneLiveCredential
    BY DEF IInv
  <1> QED  BY <1>1, GrantsSound, PTL

\* No credential outlives its connection or its revocation.
THEOREM RevocationIsFinal == GrantsSpec => []RevokedHasNoCredentials
  <1>1. IInv => RevokedHasNoCredentials
    BY DEF IInv
  <1> QED  BY <1>1, GrantsSound, PTL

\* One consent request approves one connection.
THEOREM ConsentIsOnce == GrantsSpec => []OneConnectionPerConsent
  <1>1. IInv => OneConnectionPerConsent
    BY DEF IInv
  <1> QED  BY <1>1, GrantsSound, PTL

\* What is valid was approved by a session of the user's present password.
THEOREM ApprovalsAreCurrent == GrantsSpec => []ApprovedByThisPassword
  <1>1. IInv => ApprovedByThisPassword
    BY DEF IInv, ConnInv, ApprovedByThisPassword, Valid
  <1> QED  BY <1>1, GrantsSound, PTL

\* No tool returns a result its caller may no longer have.
THEOREM AnswersAuthorized == GrantsSpec => AnswersAreAuthorized
  <1>1. ASSUME IInv, [NextGrants]_grantVars, NEW s \in Slots, tx[s].op = "call", tx'[s] = AnsweredCall
        PROVE  Valid(tx[s].conn) /\ tx[s].scope \in conns[tx[s].conn].scopes
    <2>1. tx'[s] # tx[s] /\ tx'[s] # IdleSlot /\ tx'[s].op = "answered"
      BY <1>1, OpsDiffer DEF AnsweredCall, IdleSlot
    <2>2. EndCall(s)
      <3>1. \A t \in Slots : tx[t].op = "call" => ~Ready(t)
        BY OpsDiffer DEF Ready
      <3>2. ~Approving(s) /\ ~Exchanging(s) /\ ~BeginCall(s) /\ ~Fail(s)
        <4>1. ~Ready(s) /\ tx[s].op # "approval" /\ tx[s].op # "exchange"
          BY <1>1, <3>1
        <4>2. ~Approving(s)
          BY <4>1 DEF Approving, OpenConsent, OpenTokenForm, Grant, Approve, Decline
        <4>3. ~Exchanging(s)
          BY <4>1 DEF Exchanging, Present, LockConnection, ReplayRevokes, WriteTokens,
                      CommitTokens
        <4>4. ~BeginCall(s)
          BY <4>1 DEF BeginCall
        <4>5. ~Fail(s)
          BY <1>1, <2>1 DEF Fail, Leave, IInv, TypeOK
        <4> QED  BY <4>2, <4>3, <4>4, <4>5
      <3>3. ASSUME NEW t \in Slots, t # s,
                   Approving(t) \/ Exchanging(t) \/ BeginCall(t) \/ Fail(t) \/ EndCall(t)
            PROVE  tx'[s] = tx[s]
        <4>1. \E v : tx' = [tx EXCEPT ![t] = v]
          <5>1. CASE Approving(t)
            BY <5>1 DEF Approving, OpenConsent, OpenTokenForm, BeginApproval, Grant, Approve, Decline,
                        Leave
          <5>2. CASE Exchanging(t)
            BY <5>2 DEF Exchanging, Present, LockConnection, ReplayRevokes, WriteTokens,
                        CommitTokens, Leave
          <5>3. CASE BeginCall(t) \/ Fail(t) \/ EndCall(t)
            BY <5>3 DEF BeginCall, Fail, EndCall, Leave
          <5> QED  BY <3>3, <5>1, <5>2, <5>3
        <4> QED  BY <1>1, <3>3, <4>1 DEF IInv, TypeOK
      <3>4. ASSUME \/ \E asked \in SUBSET GrantScopes \ {{}} : Authorize(asked)
                   \/ \E i \in ConnIds : Revoke(i) \/ Reduce(i)
                   \/ \E u \in Owners : SavePassword(u) \/ DeleteUser(u)
                   \/ CleanCredentials \/ CleanConnections
                   \/ Tick \/ UNCHANGED grantVars
            PROVE  tx'[s] = tx[s]
        BY <3>4 DEF Authorize, Revoke, Reduce, SavePassword, DeleteUser, CleanCredentials,
                    CleanConnections, Tick, grantVars
      <3> QED  BY <1>1, <2>1, <3>2, <3>3, <3>4 DEF NextGrants
    <2>3. PICK c \in CredRows(tx[s].cred) : /\ Valid(c.conn)
                                       /\ tx[s].scope \in conns[c.conn].scopes
      BY <2>2 DEF EndCall, Authorized
    <2>4. c.conn = tx[s].conn
      BY <1>1, <2>3 DEF CredRows, IInv, SlotInv, SlotSound, CallSound
    <2> QED  BY <2>3, <2>4
  <1>2. IInv /\ [NextGrants]_grantVars =>
          [\A s \in Slots : tx[s].op = "call" /\ tx'[s] = AnsweredCall =>
              Valid(tx[s].conn) /\ tx[s].scope \in conns[tx[s].conn].scopes]_grantVars
    BY <1>1
  <1> QED  BY <1>2, GrantsSound, PTL DEF GrantsSpec, AnswersAreAuthorized

-----------------------------------------------------------------------------
(***************************************************************************)
(* The quota.  Connections count under the password they are bound to, so  *)
(* that an older password coming back changes no count; an approval in     *)
(* progress has seen room for one more, and holds its user until it is     *)
(* made.                                                                   *)
(***************************************************************************)

ActiveFor(u, p) ==
    {i \in ConnIds : /\ conns[i] # NoConn
                     /\ conns[i].user = u
                     /\ conns[i].revoked = Never
                     /\ ~Expired(conns[i].expires)
                     /\ conns[i].fingerprint = p}

Granted(s) == tx[s].op = "approval" /\ tx[s].granted # NoConn

QuotaInv ==
    /\ \A u \in Owners, p \in 1..MaxPasswords :
          Cardinality(ActiveFor(u, p) \ revived) <= MaxActive
    /\ \A s \in Slots : Granted(s) =>
          Cardinality(ActiveFor(tx[s].user, tx[s].granted.fingerprint) \ revived)
              < MaxActive

LEMMA FewConnections ==
  ASSUME NEW S \in SUBSET ConnIds
  PROVE  IsFiniteSet(S) /\ Cardinality(S) \in Nat
  <1>1. 1 \in Int /\ MaxConnections \in Int
    BY AIGrantsAssumption
  <1>2. IsFiniteSet(ConnIds)
    BY <1>1, FS_Interval DEF ConnIds
  <1>3. IsFiniteSet(S)
    BY <1>2, FS_Subset
  <1> QED  BY <1>3, FS_CardinalityType

LEMMA FewerConnections ==
  ASSUME NEW S \in SUBSET ConnIds, NEW T \in SUBSET S
  PROVE  Cardinality(T) <= Cardinality(S)
  BY FewConnections, FS_Subset

\* A step after which no more connections count, and no approval is further.
LEMMA QuotaShrinks ==
  ASSUME IInv, QuotaInv,
         \A i \in ConnIds \ revived' : conns'[i] # NoConn =>
            \/ conns'[i].revoked # Never
            \/ Expired(conns[i].expires)'
            \/ /\ i \notin revived /\ conns[i] # NoConn
               /\ conns'[i].user = conns[i].user
               /\ conns'[i].fingerprint = conns[i].fingerprint
               /\ conns[i].revoked = Never
               /\ ~Expired(conns[i].expires),
         \A t \in Slots : Granted(t)' => tx'[t] = tx[t]
  PROVE  QuotaInv'
  <1>1. \A u, p : ActiveFor(u, p)' \ revived' \subseteq ActiveFor(u, p) \ revived
    BY DEF ActiveFor
  <1>2. \A u, p : ActiveFor(u, p) \ revived \in SUBSET ConnIds
    BY DEF ActiveFor
  <1>3. ASSUME NEW u \in Owners, NEW p \in 1..MaxPasswords
        PROVE  Cardinality(ActiveFor(u, p)' \ revived') <= MaxActive
    <2> DEFINE S == ActiveFor(u, p) \ revived
               T == ActiveFor(u, p)' \ revived'
    <2>1. /\ S \in SUBSET ConnIds /\ T \in SUBSET S /\ T \in SUBSET ConnIds
          /\ Cardinality(S) <= MaxActive
      BY <1>1, <1>2 DEF QuotaInv
    <2> HIDE DEF S, T
    <2>2. Cardinality(T) <= MaxActive
      BY <2>1, FewConnections, FewerConnections, AIGrantsAssumption
    <2> QED  BY <2>2 DEF T
  <1>4. ASSUME NEW t \in Slots, Granted(t)'
        PROVE  Cardinality(ActiveFor(tx[t].user, tx[t].granted.fingerprint)' \ revived')
                  < MaxActive
    <2>1. tx'[t] = tx[t] /\ Granted(t)
      BY <1>4 DEF Granted
    <2>2. Cardinality(ActiveFor(tx[t].user, tx[t].granted.fingerprint) \ revived) < MaxActive
      BY <2>1 DEF QuotaInv
    <2>3. ActiveFor(tx[t].user, tx[t].granted.fingerprint)' \ revived'
            \subseteq ActiveFor(tx[t].user, tx[t].granted.fingerprint) \ revived
      BY <2>1, <1>1 DEF ActiveFor
    <2> DEFINE S == ActiveFor(tx[t].user, tx[t].granted.fingerprint) \ revived
               T == ActiveFor(tx[t].user, tx[t].granted.fingerprint)' \ revived'
    <2>4. S \in SUBSET ConnIds /\ T \in SUBSET S /\ T \in SUBSET ConnIds
            /\ Cardinality(S) < MaxActive
      BY <2>2, <2>3 DEF ActiveFor
    <2> HIDE DEF S, T
    <2>5. Cardinality(T) < MaxActive
      BY <2>4, FewConnections, FewerConnections, AIGrantsAssumption
    <2> QED  BY <2>5 DEF T
  <1> QED  BY <1>3, <1>4 DEF QuotaInv

\* Only Grant makes an approval count, only Approve adds a connection.
LEMMA SlotQuotaSteps ==
  ASSUME IInv, QuotaInv, NEW s \in Slots,
         \/ \E u \in Owners : OpenConsent(s, u) \/ OpenTokenForm(s, u)
         \/ Decline(s) \/ Present(s) \/ LockConnection(s) \/ WriteTokens(s)
         \/ BeginCall(s) \/ EndCall(s) \/ Fail(s)
  PROVE  QuotaInv'
  <1>1. UNCHANGED <<clock, conns, revived>>
    BY DEF OpenConsent, OpenTokenForm, Decline, Present, LockConnection, WriteTokens,
           BeginCall, EndCall, Fail
  <1> DEFINE Quiet == ~Granted(s)' /\ \A t \in Slots : t # s => tx'[t] = tx[t]
  <1>2. CASE \E u \in Owners : OpenConsent(s, u) \/ OpenTokenForm(s, u)
    <2>1. PICK u \in Owners, id \in CredIds \cup {0} : BeginApproval(s, u, id)
      BY <1>2 DEF OpenConsent, OpenTokenForm, IInv, TypeOK, Cred
    <2>2. Quiet
      BY <2>1 DEF BeginApproval, Granted, IInv, TypeOK
    <2> QED  BY <1>1, <2>2, QuotaShrinks DEF Expired
  <1>3. CASE Present(s) \/ BeginCall(s)
    <2>1. Quiet
      BY <1>3 DEF Present, BeginCall, Granted, IInv, TypeOK
    <2> QED  BY <1>1, <2>1, QuotaShrinks DEF Expired
  <1>4. CASE Decline(s) \/ Fail(s) \/ EndCall(s)
    <2>1. Quiet
      BY <1>4, OpsDiffer DEF Decline, Fail, EndCall, Leave, Granted, IInv, TypeOK
    <2> QED  BY <1>1, <2>1, QuotaShrinks DEF Expired
  <1>5. CASE LockConnection(s)
    <2>1. tx[s] \in Exchange /\ tx' = [tx EXCEPT ![s].step = "locked"]
      BY <1>5, SlotTyped DEF LockConnection, IInv
    <2>2. Quiet
      BY <2>1 DEF Exchange, Granted, IInv, TypeOK
    <2> QED  BY <1>1, <2>2, QuotaShrinks DEF Expired
  <1>6. CASE WriteTokens(s)
    <2>1. tx[s] \in Exchange
      BY <1>6, SlotTyped DEF WriteTokens, IInv
    <2>2. PICK scopes \in SUBSET conns[tx[s].conn].scopes :
            tx' = [tx EXCEPT ![s].step = "written", ![s].scopes = scopes, ![s].at = clock]
      BY <1>6 DEF WriteTokens
    <2>3. Quiet
      BY <2>1, <2>2 DEF Exchange, Granted, IInv, TypeOK
    <2> QED  BY <1>1, <2>3, QuotaShrinks DEF Expired
  <1> QED  BY <1>2, <1>3, <1>4, <1>5, <1>6

LEMMA RevocationQuota ==
  ASSUME IInv, QuotaInv, NEW i \in ConnIds, RevokedConn(i),
         UNCHANGED <<clock, revived>>,
         \A t \in Slots : tx'[t] = tx[t] \/ tx'[t] = IdleSlot
  PROVE  QuotaInv'
  <1>1. conns' = [conns EXCEPT ![i].revoked = clock] /\ clock # Never
    BY Numbers DEF RevokedConn, IInv, Never
  <1>2. \A j \in ConnIds : j # i => conns'[j] = conns[j]
    BY <1>1 DEF IInv, TypeOK
  <1>3. conns'[i] # NoConn => conns'[i].revoked # Never
    <2>1. CASE conns[i] = NoConn
      <3>1. conns'[i] = [NoConn EXCEPT !.revoked = clock]
        BY <1>1, <2>1 DEF IInv, TypeOK
      <3>2. conns'[i] = NoConn
        BY <3>1 DEF NoConn
      <3> QED  BY <3>2
    <2>2. CASE conns[i] # NoConn
      <3>1. conns[i] \in Conn
        BY <2>2 DEF IInv, TypeOK
      <3> QED  BY <1>1, <3>1 DEF IInv, TypeOK, Conn
    <2> QED  BY <2>1, <2>2
  <1>4. \A t \in Slots : Granted(t)' => tx'[t] = tx[t]
    BY OpsDiffer DEF Granted
  <1> QED  BY <1>2, <1>3, <1>4, QuotaShrinks DEF Expired

LEMMA OtherQuotaSteps ==
  ASSUME IInv, QuotaInv,
         \/ \E asked \in SUBSET GrantScopes \ {{}} : Authorize(asked)
         \/ \E s \in Slots : ReplayRevokes(s)
         \/ \E i \in ConnIds : Revoke(i) \/ Reduce(i)
         \/ \E u \in Owners : SavePassword(u) \/ DeleteUser(u)
         \/ CleanCredentials \/ CleanConnections
         \/ Tick \/ UNCHANGED grantVars
  PROVE  QuotaInv'
  <1>1. CASE \E i \in ConnIds : Revoke(i)
    BY <1>1, RevocationQuota DEF Revoke
  <1>2. CASE \E s \in Slots : ReplayRevokes(s)
    <2>1. PICK s \in Slots : ReplayRevokes(s)
      BY <1>2
    <2>2. tx[s] \in Exchange
      BY <2>1, SlotTyped DEF IInv, ReplayRevokes
    <2>3. tx[s].conn \in ConnIds /\ RevokedConn(tx[s].conn)
      BY <2>1, <2>2 DEF ReplayRevokes, Exchange
    <2>4. \A t \in Slots : tx'[t] = tx[t] \/ tx'[t] = IdleSlot
      BY <2>1 DEF ReplayRevokes, Leave, IInv, TypeOK
    <2> QED  BY <2>1, <2>3, <2>4, RevocationQuota DEF ReplayRevokes
  <1>3. CASE \/ \E asked \in SUBSET GrantScopes \ {{}} : Authorize(asked)
             \/ \E u \in Owners : SavePassword(u) \/ DeleteUser(u)
             \/ CleanCredentials \/ UNCHANGED grantVars
    <2>1. UNCHANGED <<clock, conns, tx, revived>>
      BY <1>3 DEF Authorize, SavePassword, DeleteUser, CleanCredentials, grantVars
    <2> QED  BY <2>1, QuotaShrinks DEF Expired
  <1>4. CASE Tick
    <2>1. UNCHANGED <<conns, tx, revived>> /\ clock' = clock + 1
      BY <1>4 DEF Tick
    <2>2. \A i \in ConnIds : conns[i] # NoConn /\ Expired(conns[i].expires)
              => Expired(conns[i].expires)'
      <3>1. \A i \in ConnIds : conns[i] # NoConn => conns[i].expires \in Int
        BY DEF IInv, TypeOK, Conn, Never
      <3> QED  BY <2>1, <3>1, Numbers DEF Expired, IInv
    <2> QED  BY <2>1, <2>2, QuotaShrinks
  <1>5. CASE \E i \in ConnIds : Reduce(i)
    <2>0. PICK i \in ConnIds : Reduce(i)
      BY <1>5
    <2>1. PICK scopes \in SUBSET conns[i].scopes :
            conns' = [conns EXCEPT ![i].scopes = scopes]
      BY <2>0 DEF Reduce
    <2>2. conns[i] \in Conn /\ UNCHANGED <<clock, tx, revived>>
      BY <2>0 DEF Reduce, IInv, TypeOK
    <2>3. /\ conns[i] # NoConn /\ conns'[i].user = conns[i].user
          /\ conns'[i].fingerprint = conns[i].fingerprint
          /\ conns'[i].revoked = conns[i].revoked
          /\ conns'[i].expires = conns[i].expires
          /\ \A j \in ConnIds : j # i => conns'[j] = conns[j]
      BY <2>0, <2>1, <2>2 DEF Conn, IInv, TypeOK, Reduce
    <2> QED  BY <2>2, <2>3, QuotaShrinks DEF Expired
  <1>6. CASE CleanConnections
    <2>1. UNCHANGED <<clock, tx, revived>> /\ \A j \in ConnIds : conns'[j] \in {NoConn, conns[j]}
      BY <1>6 DEF CleanConnections
    <2> QED  BY <2>1, QuotaShrinks DEF Expired
  <1> QED  BY <1>1, <1>2, <1>3, <1>4, <1>5, <1>6

LEMMA CommitQuota ==
  ASSUME IInv, QuotaInv, NEW s \in Slots, CommitTokens(s)
  PROVE  QuotaInv'
  <1>1. /\ conns' = [conns EXCEPT ![tx[s].conn].expires = tx[s].at + RefreshLife]
        /\ revived' = IF Expired(conns[tx[s].conn].expires)
                      THEN revived \cup {tx[s].conn} ELSE revived
        /\ tx' = [tx EXCEPT ![s] = IdleSlot]
        /\ clock' = clock
        /\ tx[s].op = "exchange" /\ tx[s].step = "written"
    BY DEF CommitTokens, Leave
  <1>2. tx[s] \in Exchange /\ ExchangeSound(tx[s])
    BY <1>1, SlotTyped DEF IInv, SlotInv, SlotSound
  <1>3. tx[s].conn \in ConnIds /\ conns[tx[s].conn] \in Conn /\ conns[tx[s].conn] # NoConn
    BY <1>1, <1>2 DEF Exchange, ExchangeSound, IInv, TypeOK
  <1>4. \A j \in ConnIds :
           /\ j # tx[s].conn => conns'[j] = conns[j]
           /\ conns'[tx[s].conn].user = conns[tx[s].conn].user
           /\ conns'[tx[s].conn].fingerprint = conns[tx[s].conn].fingerprint
           /\ conns'[tx[s].conn].revoked = conns[tx[s].conn].revoked
    BY <1>1, <1>3 DEF Conn, IInv, TypeOK
  <1>5. \A t \in Slots : Granted(t)' => tx'[t] = tx[t]
    BY <1>1, OpsDiffer DEF Granted, IInv, TypeOK
  <1> QED  BY <1>1, <1>3, <1>4, <1>5, QuotaShrinks DEF Expired

LEMMA GrantQuota ==
  ASSUME IInv, QuotaInv, NEW s \in Slots, Grant(s)
  PROVE  QuotaInv'
  <1> DEFINE u == tx[s].user
  <1>1. /\ UNCHANGED <<clock, conns, revived>>
        /\ tx[s].op = "approval"
        /\ password[u] = tx[s].session
        /\ Cardinality(ActiveOf(u)) < MaxActive
    BY DEF Grant
  <1>2. PICK scopes \in SUBSET Requested(tx[s].cred) :
          \E c \in Wanted(s, scopes) : tx' = [tx EXCEPT ![s].granted = c]
    BY DEF Grant
  <1>3. PICK c \in Wanted(s, scopes) : tx' = [tx EXCEPT ![s].granted = c]
    BY <1>2
  <1>4. c.fingerprint = password[u] /\ tx[s] \in Approval
    BY <1>1, SlotTyped, WantedTyped DEF IInv
  <1>5. /\ tx'[s].user = u /\ tx'[s].granted = c
        /\ \A t \in Slots : t # s => tx'[t] = tx[t]
    BY <1>3, <1>4 DEF Approval, IInv, TypeOK
  <1> HIDE DEF u
  <1>6. \A w, p : ActiveFor(w, p)' = ActiveFor(w, p)
    BY <1>1 DEF ActiveFor, Expired
  <1>7. ActiveFor(u, password[u]) = ActiveOf(u)
    BY DEF ActiveFor, ActiveOf
  <1>8. Cardinality(ActiveFor(u, c.fingerprint) \ revived) < MaxActive
    <2> DEFINE S == ActiveOf(u)
               T == ActiveFor(u, c.fingerprint) \ revived
    <2>1. /\ S \in SUBSET ConnIds /\ T \in SUBSET S /\ T \in SUBSET ConnIds
          /\ Cardinality(S) < MaxActive
      BY <1>1, <1>4, <1>7 DEF ActiveOf
    <2> HIDE DEF S, T
    <2>2. Cardinality(T) < MaxActive
      BY <2>1, FewConnections, FewerConnections, AIGrantsAssumption
    <2> QED  BY <2>2 DEF T
  <1>9. \A t \in Slots : Granted(t)' =>
          Cardinality(ActiveFor(tx'[t].user, tx'[t].granted.fingerprint) \ revived) < MaxActive
    <2> SUFFICES ASSUME NEW t \in Slots, Granted(t)'
                 PROVE  Cardinality(ActiveFor(tx'[t].user, tx'[t].granted.fingerprint) \ revived)
                           < MaxActive
      OBVIOUS
    <2>1. CASE t = s
      BY <2>1, <1>5, <1>8
    <2>2. CASE t # s
      BY <2>2, <1>5 DEF Granted, QuotaInv
    <2> QED  BY <2>1, <2>2
  <1>10. \A t \in Slots : Granted(t)' =>
          Cardinality(ActiveFor(tx[t].user, tx[t].granted.fingerprint) \ revived)' < MaxActive
    BY <1>1, <1>9 DEF ActiveFor, Expired
  <1>11. \A w \in Owners, p \in 1..MaxPasswords :
          (Cardinality(ActiveFor(w, p) \ revived) <= MaxActive)'
    BY <1>1 DEF QuotaInv, ActiveFor, Expired
  <1> QED  BY <1>10, <1>11 DEF QuotaInv

\* The new connection counts once, for the user and the password it was
\* granted for; other approvals that have seen room are other users'.
LEMMA ApproveQuota ==
  ASSUME IInv, QuotaInv, NEW s \in Slots, Approve(s)
  PROVE  QuotaInv'
  <1>0. tx[s] \in Approval /\ ApprovalSound(tx[s]) /\ tx[s].granted # NoConn
    BY SlotTyped DEF Approve, IInv, SlotInv, SlotSound
  <1> PICK g \in Conn : g = tx[s].granted
    BY <1>0 DEF Approval
  <1> PICK n \in Int : n = made + 1
    BY DEF IInv, TypeOK
  <1>1. /\ conns' = [conns EXCEPT ![n] = g]
        /\ tx' = [tx EXCEPT ![s] = IdleSlot]
        /\ UNCHANGED <<clock, revived>>
        /\ tx[s].op = "approval" /\ g # NoConn /\ made < MaxConnections
    BY DEF Approve, Leave
  <1>3. g.user = tx[s].user
    BY <1>0 DEF ApprovalSound
  <1>4. n \in ConnIds
    BY <1>1, AIGrantsAssumption DEF IInv, TypeOK, ConnIds
  <1>5. conns'[n] = g /\ \A j \in ConnIds : j # n => conns'[j] = conns[j]
    BY <1>1, <1>4 DEF IInv, TypeOK
  <1>6. \A t \in Slots : Granted(t)' => t # s /\ tx'[t] = tx[t] /\ Granted(t)
    BY <1>1, OpsDiffer DEF Granted, IInv, TypeOK
  <1>7. \A u, p : u # g.user \/ p # g.fingerprint =>
            ActiveFor(u, p)' \ revived' \subseteq ActiveFor(u, p) \ revived
    BY <1>1, <1>5 DEF ActiveFor, Expired
  <1>8. ActiveFor(g.user, g.fingerprint)' \ revived'
          \subseteq (ActiveFor(g.user, g.fingerprint) \ revived) \cup {n}
    BY <1>1, <1>5 DEF ActiveFor, Expired
  <1>9. Cardinality(ActiveFor(g.user, g.fingerprint) \ revived) < MaxActive
    BY <1>1, <1>3 DEF QuotaInv, Granted
  <1>10. Cardinality(ActiveFor(g.user, g.fingerprint)' \ revived') <= MaxActive
    <2> DEFINE S == ActiveFor(g.user, g.fingerprint) \ revived
               T == ActiveFor(g.user, g.fingerprint)' \ revived'
    <2>1. /\ S \in SUBSET ConnIds /\ S \cup {n} \in SUBSET ConnIds
          /\ T \in SUBSET (S \cup {n}) /\ Cardinality(S) < MaxActive
      BY <1>4, <1>8, <1>9 DEF ActiveFor
    <2> HIDE DEF S, T
    <2>2. T \in SUBSET ConnIds
      BY <2>1
    <2>3. IsFiniteSet(S) /\ Cardinality(S) \in Nat /\ Cardinality(T) \in Nat
      BY <2>1, <2>2, FewConnections
    <2>4. Cardinality(T) <= Cardinality(S \cup {n})
      BY <2>1, FewerConnections
    <2>5. \/ Cardinality(S \cup {n}) = Cardinality(S)
          \/ Cardinality(S \cup {n}) = Cardinality(S) + 1
      BY <2>3, FS_AddElement
    <2>6. Cardinality(T) <= MaxActive
      BY <2>1, <2>3, <2>4, <2>5, AIGrantsAssumption
    <2> QED  BY <2>6 DEF T
  <1>11. ASSUME NEW u \in Owners, NEW p \in 1..MaxPasswords
         PROVE  Cardinality(ActiveFor(u, p)' \ revived') <= MaxActive
    <2>1. CASE u = g.user /\ p = g.fingerprint
      BY <2>1, <1>10
    <2>2. CASE u # g.user \/ p # g.fingerprint
      <3> DEFINE S == ActiveFor(u, p) \ revived
                 T == ActiveFor(u, p)' \ revived'
      <3>0. T \subseteq S /\ S \subseteq ConnIds /\ Cardinality(S) <= MaxActive
        <4>1. T \subseteq S
          BY <2>2, <1>7
        <4>2. S \subseteq ConnIds
          BY DEF ActiveFor
        <4>3. Cardinality(S) <= MaxActive
          BY DEF QuotaInv
        <4> QED  BY <4>1, <4>2, <4>3
      <3> HIDE DEF S, T
      <3>1. /\ S \in SUBSET ConnIds /\ T \in SUBSET S /\ T \in SUBSET ConnIds
            /\ Cardinality(S) <= MaxActive
        BY <3>0
      <3>2. Cardinality(T) <= MaxActive
        BY <3>1, FewConnections, FewerConnections, AIGrantsAssumption
      <3> QED  BY <3>2 DEF T
    <2> QED  BY <2>1, <2>2
  <1>12. ASSUME NEW t \in Slots, Granted(t)'
         PROVE  Cardinality(ActiveFor(tx[t].user, tx[t].granted.fingerprint)' \ revived')
                   < MaxActive
    <2>1. t # s /\ tx'[t] = tx[t] /\ Granted(t)
      BY <1>6, <1>12
    <2>2. tx[t].user # tx[s].user
      BY <2>1, <1>1 DEF Granted, IInv, SlotInv, Compatible
    <2> DEFINE S == ActiveFor(tx[t].user, tx[t].granted.fingerprint) \ revived
               T == ActiveFor(tx[t].user, tx[t].granted.fingerprint)' \ revived'
    <2>3. T \subseteq S
      BY <2>1, <2>2, <1>1, <1>3, <1>5 DEF ActiveFor, Expired
    <2>4. S \in SUBSET ConnIds /\ T \in SUBSET S /\ T \in SUBSET ConnIds
          /\ Cardinality(S) < MaxActive
      BY <2>1, <2>3 DEF ActiveFor, QuotaInv
    <2> HIDE DEF S, T
    <2>5. Cardinality(T) < MaxActive
      BY <2>4, FewConnections, FewerConnections, AIGrantsAssumption
    <2> QED  BY <2>5 DEF T
  <1>13. \A t \in Slots : Granted(t)' => tx'[t] = tx[t]
    BY <1>6
  <1> QED  BY <1>11, <1>12, <1>13 DEF QuotaInv

\* "Active connections are limited [...] per user": whatever the requests in
\* progress, only connections an exchange revived exceed the limit.
THEOREM QuotaKept == GrantsSpec => []QuotaHolds
  <1>1. InitGrants => QuotaInv
    <2> SUFFICES ASSUME InitGrants PROVE QuotaInv
      OBVIOUS
    <2>1. \A u, p : ActiveFor(u, p) \ revived = {}
      BY DEF InitGrants, ActiveFor
    <2>2. \A t \in Slots : ~Granted(t)
      BY OpsDiffer DEF InitGrants, Granted
    <2>3. Cardinality({}) = 0
      BY FS_EmptySet
    <2>4. \A u \in Owners, p \in 1..MaxPasswords :
            Cardinality(ActiveFor(u, p) \ revived) <= MaxActive
      BY <2>1, <2>3, AIGrantsAssumption
    <2> QED  BY <2>2, <2>4 DEF QuotaInv
  <1>2. IInv /\ QuotaInv /\ [NextGrants]_grantVars => QuotaInv'
    <2> SUFFICES ASSUME IInv, QuotaInv, [NextGrants]_grantVars PROVE QuotaInv'
      OBVIOUS
    <2>1. CASE \E s \in Slots : Approve(s)
      BY <2>1, ApproveQuota
    <2>2. CASE \E s \in Slots : Grant(s)
      BY <2>2, GrantQuota
    <2>3. CASE \E s \in Slots : CommitTokens(s)
      BY <2>3, CommitQuota
    <2>4. CASE \E s \in Slots :
                 \/ \E u \in Owners : OpenConsent(s, u) \/ OpenTokenForm(s, u)
                 \/ Decline(s) \/ Present(s) \/ LockConnection(s) \/ WriteTokens(s)
                 \/ BeginCall(s) \/ EndCall(s) \/ Fail(s)
      BY <2>4, SlotQuotaSteps
    <2>5. CASE \/ \E asked \in SUBSET GrantScopes \ {{}} : Authorize(asked)
               \/ \E s \in Slots : ReplayRevokes(s)
               \/ \E i \in ConnIds : Revoke(i) \/ Reduce(i)
               \/ \E u \in Owners : SavePassword(u) \/ DeleteUser(u)
               \/ CleanCredentials \/ CleanConnections
               \/ Tick \/ UNCHANGED grantVars
      BY <2>5, OtherQuotaSteps
    <2> QED  BY <2>1, <2>2, <2>3, <2>4, <2>5 DEF NextGrants, Approving, Exchanging
  <1>3. IInv /\ QuotaInv => QuotaHolds
    <2> SUFFICES ASSUME IInv, QuotaInv, NEW u \in Owners
                 PROVE  Cardinality(ActiveOf(u) \ revived) <= MaxActive
      BY DEF QuotaHolds
    <2>1. ActiveOf(u) = ActiveFor(u, password[u])
      BY DEF ActiveOf, ActiveFor
    <2>2. password[u] \in 1..MaxPasswords
      BY DEF IInv, TypeOK
    <2> QED  BY <2>1, <2>2 DEF QuotaInv
  <1> QED  BY <1>1, <1>2, <1>3, GrantsSound, PTL DEF GrantsSpec

-----------------------------------------------------------------------------
\* A request in progress has locked no credential of a connection nobody holds,
\* a request of a client's aside, which belongs to no connection.
LEMMA LockedWithItsConnection ==
  ASSUME IInv, NEW c \in creds, ~CredFree(c), c.conn # 0
  PROVE  ~ConnFree(c.conn)
  <1>1. PICK s \in Slots : HoldsRequest(s, c.id) \/ HoldsConn(s, c.conn)
    BY DEF CredFree
  <1>2. CASE HoldsRequest(s, c.id)
    <2>1. tx[s].op = "approval" /\ tx[s].cred = c.id
      BY <1>2 DEF HoldsRequest
    <2>2. c.id # 0
      BY AIGrantsAssumption DEF IInv, TypeOK, Cred, CredIds
    <2>3. PICK d \in creds : d.id = c.id /\ d.kind = "request"
      BY <2>1, <2>2 DEF IInv, SlotInv, SlotSound, ApprovalSound
    <2> QED  BY <2>3 DEF IInv, CredInv
  <1>3. CASE HoldsConn(s, c.conn)
    BY <1>3 DEF ConnFree
  <1> QED  BY <1>1, <1>2, <1>3

\* What the cleanup takes for a dead connection grants nothing.
LEMMA DeadIsInvalid ==
  ASSUME IInv, NEW i \in DeadConnections
  PROVE  ~Valid(i)
  <1>1. i \in ConnIds /\ conns[i] \in Conn
    BY DEF IInv, TypeOK, DeadConnections
  <1>2. clock \in Nat /\ AuditRetention \in Nat
    BY AIGrantsAssumption DEF IInv, TypeOK, Instants
  <1>3. CASE conns[i].user \in deleted
    BY <1>3 DEF Valid
  <1>4. CASE conns[i].expires # Never /\ conns[i].expires < clock - AuditRetention
    <2>1. conns[i].expires \in Nat
      BY <1>1, <1>4 DEF Conn
    <2>2. conns[i].expires <= clock
      BY <1>2, <1>4, <2>1
    <2> QED  BY <1>4, <2>2 DEF Valid, Expired
  <1>5. CASE conns[i].revoked # Never
    BY <1>5 DEF Valid
  <1> QED  BY <1>3, <1>4, <1>5 DEF DeadConnections

\* The cleanup removes no credential that still grants something, nor one in a
\* request's hands, neither by itself nor with its connection; and nothing else
\* removes such a credential but a revocation.
THEOREM CleanupSafe == GrantsSpec => CleanupKeepsWhatCounts
  <1> DEFINE Kept(c) ==
               /\ \A d \in creds' : d.id # c.id
               /\ ~CredFree(c) \/ (~Expired(c.expires) /\ (c.conn # 0 => Valid(c.conn)))
               => c.conn # 0 /\ conns'[c.conn] # NoConn /\ conns'[c.conn].revoked # Never
  <1>1. ASSUME IInv, NextGrants, NEW c \in creds
        PROVE  Kept(c)
    <2>1. c \in Cred
      BY <1>1 DEF IInv, TypeOK
    <2>2. ASSUME NEW i \in ConnIds, RevokedConn(i)  PROVE Kept(c)
      <3>1. CASE c.conn # i
        BY <3>1, <2>2 DEF RevokedConn
      <3>2. CASE c.conn = i
        <4>1. i # 0
          BY AIGrantsAssumption DEF ConnIds
        <4>2. conns[i] \in Conn
          BY <1>1, <3>2, <4>1 DEF IInv, TypeOK, RevokedHasNoCredentials
        <4>3. conns'[i] = [conns[i] EXCEPT !.revoked = clock]
          BY <1>1, <2>2 DEF RevokedConn, IInv, TypeOK
        <4>4. conns'[i] \in Conn /\ conns'[i].revoked = clock
          BY <1>1, <4>2, <4>3 DEF IInv, TypeOK, Conn
        <4> QED  BY <1>1, <3>2, <4>1, <4>4, NoConnDiffers, Numbers DEF IInv, Never
      <3> QED  BY <3>1, <3>2
    <2>3. ASSUME NEW id, \A e \in Consume(id) : e \in creds'
          PROVE  Kept(c)
      <3>1. (IF c.id = id THEN [c EXCEPT !.consumed = TRUE] ELSE c) \in creds'
        BY <2>3 DEF Consume
      <3>2. [c EXCEPT !.consumed = TRUE].id = c.id
        BY <2>1 DEF Cred
      <3> QED  BY <3>1, <3>2
    <2>4. CASE \E i \in ConnIds : Revoke(i)
      BY <2>2, <2>4 DEF Revoke
    <2>5. CASE \E s \in Slots : ReplayRevokes(s)
      <3>1. PICK s \in Slots : ReplayRevokes(s)
        BY <2>5
      <3>2. tx[s].conn \in ConnIds
        BY <1>1, <3>1, SlotTyped DEF IInv, ReplayRevokes, Exchange
      <3> QED  BY <2>2, <3>1, <3>2 DEF ReplayRevokes
    <2>6. CASE \E s \in Slots : Approve(s) \/ Decline(s) \/ CommitTokens(s)
      BY <2>3, <2>6 DEF Approve, Decline, CommitTokens
    <2>7. CASE CleanCredentials
      <3>1. c \in creds' \/ (CredFree(c) /\ c \in DeadCredentials)
        BY <2>7 DEF CleanCredentials
      <3>2. c \in DeadCredentials => Expired(c.expires) \/ (c.conn # 0 /\ ~Valid(c.conn))
        BY DEF DeadCredentials, Valid
      <3> QED  BY <3>1, <3>2
    <2>8. CASE CleanConnections
      <3> DEFINE dead == {i \in DeadConnections : ConnFree(i)}
      <3>1. creds' = {e \in creds : e.conn \notin dead}
        BY <2>8 DEF CleanConnections
      <3>2. CASE c.conn \in dead
        <4>1. c.conn # 0
          BY <3>2, AIGrantsAssumption DEF DeadConnections, ConnIds
        <4>2. CredFree(c)
          BY <1>1, <3>2, <4>1, LockedWithItsConnection
        <4>3. ~Valid(c.conn)
          BY <1>1, <3>2, DeadIsInvalid
        <4> QED  BY <4>1, <4>2, <4>3
      <3>3. CASE c.conn \notin dead
        <4>1. c \in creds'
          BY <3>1, <3>3
        <4> QED  BY <4>1
      <3> QED  BY <3>2, <3>3
    <2>9. CASE \/ \E asked \in SUBSET GrantScopes \ {{}} : Authorize(asked)
               \/ \E s \in Slots :
                    \/ \E u \in Owners : OpenConsent(s, u) \/ OpenTokenForm(s, u)
                    \/ Grant(s) \/ Present(s) \/ LockConnection(s) \/ WriteTokens(s)
                    \/ BeginCall(s) \/ EndCall(s) \/ Fail(s)
               \/ \E i \in ConnIds : Reduce(i)
               \/ \E u \in Owners : SavePassword(u) \/ DeleteUser(u)
               \/ Tick
      <3>1. c \in creds'
        BY <2>9 DEF Authorize, OpenConsent, OpenTokenForm, Grant, Present, LockConnection,
                    WriteTokens, BeginCall, EndCall, Fail, Reduce, SavePassword,
                    DeleteUser, Tick
      <3> QED  BY <3>1
    <2> QED  BY <1>1, <2>4, <2>5, <2>6, <2>7, <2>8, <2>9 DEF NextGrants, Approving, Exchanging
  <1>2. IInv /\ [NextGrants]_grantVars => [\A c \in creds : Kept(c)]_grantVars
    BY <1>1
  <1> QED  BY <1>2, GrantsSound, PTL DEF GrantsSpec, CleanupKeepsWhatCounts
=============================================================================
