------------------------------- MODULE AIGrants -------------------------------
(***************************************************************************)
(* Grants to AI clients (apps/ai_connections): a signed-in user approves a *)
(* connection, its authorization code and refresh tokens are exchanged for *)
(* the next ones, a presented one that was used before revokes the whole   *)
(* connection, and owners, account changes and the offline cleanup take    *)
(* access away.                                                            *)
(*                                                                         *)
(* A slot is a request in progress.  Its transaction locks rows in steps:  *)
(* consents lock their request and the user, exchanges the connection they *)
(* found by an unlocked lookup.  What it writes is visible at its commit.  *)
(* Tools take no lock and check access before and after they read.         *)
(*                                                                         *)
(* A raw token is the identity of its row, PKCE and the other checks of a  *)
(* request's form only decide whether it is refused; client registration,  *)
(* the activity log and last-used stamps are left out.                     *)
(***************************************************************************)
EXTENDS Integers, FiniteSets

CONSTANTS
    Owners,
    GrantScopes,
    Slots,          \* bound: requests in progress
    MaxActive,      \* AI_MAX_ACTIVE_CONNECTIONS
    RequestLife,    \* lifetimes, in ticks
    CodeLife,
    AccessLife,
    RefreshLife,
    PersonalLives,  \* lifetimes a personal token may get, Never among them
    AuditRetention, \* AI_AUDIT_RETENTION_DAYS
    LastTick,       \* bound: the clock stops here
    MaxConsents,    \* bound: consent requests at once
    MaxConnections, \* bound: connections ever approved
    MaxCredentials, \* bound: credentials ever issued
    MaxPasswords    \* bound: password hashes a user may have

\* An absent expires_at or revoked_at.
Never == -1

ASSUME AIGrantsAssumption ==
    /\ MaxActive \in Nat
    /\ RequestLife \in Nat /\ CodeLife \in Nat
    /\ AccessLife \in Nat /\ RefreshLife \in Nat
    /\ PersonalLives \subseteq Nat \cup {Never}
    /\ AuditRetention \in Nat
    /\ LastTick \in Nat
    /\ MaxConsents \in Nat
    /\ MaxConnections \in Nat /\ MaxCredentials \in Nat
    /\ MaxPasswords \in Nat \ {0}

VARIABLES
    clock,
    password,    \* each user's password hash, which fingerprint() digests
    deleted,     \* users with deleted_at
    conns,       \* ai_connections_aiconnection
    made,        \* connections approved so far
    creds,       \* ai_connections_oauthcredential
    issued,      \* credentials issued so far
    tx,          \* what each slot is doing
    revived      \* history: connections extended after they had lapsed

grantVars == <<clock, password, deleted, conns, made, creds, issued, tx,
          revived>>

Instants == 0..LastTick
ConnIds == 1..MaxConnections
CredIds == 1..MaxCredentials
NoConn == [absent |-> TRUE]
IdleSlot == [op |-> "idle"]
AnsweredCall == [op |-> "answered"]

\* session and request are history: the password of the session that approved
\* the connection, and the consent request it answered.
Conn == [user : Owners, method : {"oauth", "personal"}, scopes : SUBSET GrantScopes,
         expires : Nat \cup {Never},
         fingerprint : 1..MaxPasswords, revoked : Instants \cup {Never},
         session : 1..MaxPasswords, request : CredIds \cup {0}]

\* A consent request belongs to no connection.
Cred == [id : CredIds, conn : ConnIds \cup {0},
         kind : {"request", "code", "access", "refresh", "personal"},
         scopes : SUBSET GrantScopes, expires : Nat \cup {Never},
         consumed : BOOLEAN]

\* An approval in progress, an exchange, a tool call.
Approval == [op : {"approval"}, conn : {0}, cred : CredIds \cup {0},
             user : Owners, session : 1..MaxPasswords, granted : {NoConn} \cup Conn]
Exchange == [op : {"exchange"}, conn : ConnIds, cred : CredIds,
             step : {"found", "locked", "written"}, scopes : SUBSET GrantScopes,
             at : Instants]
Call == [op : {"call"}, conn : ConnIds, cred : CredIds, scope : GrantScopes]

Expired(t) == t # Never /\ t <= clock

\* validate_connection.
Valid(i) ==
    /\ conns[i] # NoConn
    /\ conns[i].revoked = Never
    /\ ~Expired(conns[i].expires)
    /\ conns[i].user \notin deleted
    /\ conns[i].fingerprint = password[conns[i].user]

CredRows(id) == {c \in creds : c.id = id}
Consume(id) == {IF c.id = id THEN [c EXCEPT !.consumed = TRUE] ELSE c : c \in creds}

(***************************************************************************)
(* Row locks.                                                              *)
(***************************************************************************)

HoldsConn(s, i) ==
    /\ tx[s].op = "exchange"
    /\ tx[s].conn = i
    /\ tx[s].step # "found"
HoldsUser(s, u) ==
    /\ tx[s].op = "approval"
    /\ tx[s].user = u
    /\ tx[s].granted # NoConn
HoldsRequest(s, id) == tx[s].op = "approval" /\ tx[s].cred = id

ConnFree(i) == \A s \in Slots : ~HoldsConn(s, i)
UserFree(u) == \A s \in Slots : ~HoldsUser(s, u)

\* A slot whose last request has been answered takes another one.
Ready(s) == tx[s] \in {IdleSlot, AnsweredCall}

InitGrants ==
    /\ clock = 0
    /\ password = [u \in Owners |-> 1]
    /\ deleted = {}
    /\ conns = [i \in ConnIds |-> NoConn]
    /\ made = 0
    /\ creds = {}
    /\ issued = 0
    /\ tx = [s \in Slots |-> IdleSlot]
    /\ revived = {}

Leave(s) == tx' = [tx EXCEPT ![s] = IdleSlot]

(***************************************************************************)
(* Approving a connection: OAuth consent or a personal token.              *)
(***************************************************************************)

\* authorize: the client's request, for the scopes it asks.
Authorize(asked) ==
    /\ issued < MaxCredentials
    /\ Cardinality({c \in creds : c.kind = "request"}) < MaxConsents
    /\ issued' = issued + 1
    /\ creds' = creds \cup
         {[id |-> issued + 1, conn |-> 0, kind |-> "request", scopes |-> asked,
           expires |-> clock + RequestLife, consumed |-> FALSE]}
    /\ UNCHANGED <<clock, password, deleted, conns, made, tx, revived>>

\* The session is checked, and the request row locked if there is one.
BeginApproval(s, u, id) ==
    tx' = [tx EXCEPT ![s] = [op |-> "approval", conn |-> 0, cred |-> id,
                             user |-> u, session |-> password[u],
                             granted |-> NoConn]]

\* Mutant: pending() does not lock the request.
OpenConsentUnlocked(s, u) ==
    /\ Ready(s)
    /\ u \notin deleted
    /\ \E c \in creds : /\ c.kind = "request" /\ ~c.consumed
                        /\ ~Expired(c.expires)
                        /\ BeginApproval(s, u, c.id)
    /\ UNCHANGED <<clock, password, deleted, conns, made, creds, issued,
                   revived>>

\* consent, up to pending(lock=True).
OpenConsent(s, u) ==
    /\ Ready(s)
    /\ u \notin deleted
    /\ \E c \in creds : /\ c.kind = "request" /\ ~c.consumed
                        /\ ~Expired(c.expires)
                        /\ \A t \in Slots : ~HoldsRequest(t, c.id)
                        /\ BeginApproval(s, u, c.id)
    /\ UNCHANGED <<clock, password, deleted, conns, made, creds, issued,
                   revived>>

OpenTokenForm(s, u) ==
    /\ Ready(s)
    /\ u \notin deleted
    /\ BeginApproval(s, u, 0)
    /\ UNCHANGED <<clock, password, deleted, conns, made, creds, issued,
                   revived>>

\* The user's connections that count against the quota.
ActiveOf(u) ==
    {i \in ConnIds : /\ conns[i] # NoConn
                     /\ conns[i].user = u
                     /\ conns[i].revoked = Never
                     /\ ~Expired(conns[i].expires)
                     /\ conns[i].fingerprint = password[u]}

\* The connections an approval may ask for.
Wanted(s, scopes) ==
    LET t == tx[s] IN
    [user : {t.user},
     method : {IF t.cred = 0 THEN "personal" ELSE "oauth"},
     scopes : {scopes},
     expires : IF t.cred # 0 THEN {clock + CodeLife}
               ELSE {IF l = Never THEN Never ELSE clock + l : l \in PersonalLives},
     fingerprint : {password[t.user]}, revoked : {Never},
     session : {t.session}, request : {t.cred}]

Requested(id) == IF id = 0 THEN GrantScopes ELSE UNION {c.scopes : c \in CredRows(id)}

\* Mutant: the session's fingerprint is not compared.
GrantToOldSession(s) ==
    /\ tx[s].op = "approval" /\ tx[s].granted = NoConn
    /\ LET u == tx[s].user IN
          /\ UserFree(u)
          /\ u \notin deleted
          /\ Cardinality(ActiveOf(u)) < MaxActive
          /\ \E scopes \in SUBSET Requested(tx[s].cred) \ {{}} :
                \E c \in Wanted(s, scopes) : tx' = [tx EXCEPT ![s].granted = c]
    /\ UNCHANGED <<clock, password, deleted, conns, made, creds, issued,
                   revived>>

\* Mutant: the quota is counted without locking the user.
GrantUnlocked(s) ==
    /\ tx[s].op = "approval" /\ tx[s].granted = NoConn
    /\ LET u == tx[s].user IN
          /\ u \notin deleted
          /\ password[u] = tx[s].session
          /\ Cardinality(ActiveOf(u)) < MaxActive
          /\ \E scopes \in SUBSET Requested(tx[s].cred) \ {{}} :
                \E c \in Wanted(s, scopes) : tx' = [tx EXCEPT ![s].granted = c]
    /\ UNCHANGED <<clock, password, deleted, conns, made, creds, issued,
                   revived>>

\* create_connection: lock the user, compare the session's fingerprint with
\* the row's, validate the selection, count.
Grant(s) ==
    /\ tx[s].op = "approval" /\ tx[s].granted = NoConn
    /\ LET u == tx[s].user IN
          /\ UserFree(u)
          /\ u \notin deleted
          /\ password[u] = tx[s].session
          /\ Cardinality(ActiveOf(u)) < MaxActive
          /\ \E scopes \in SUBSET Requested(tx[s].cred) \ {{}} :
                \E c \in Wanted(s, scopes) : tx' = [tx EXCEPT ![s].granted = c]
    /\ UNCHANGED <<clock, password, deleted, conns, made, creds, issued,
                   revived>>

\* The commit: the connection, its code or token, and the request consumed.
Approve(s) ==
    /\ tx[s].op = "approval" /\ tx[s].granted # NoConn
    /\ made < MaxConnections /\ issued < MaxCredentials
    /\ LET c == tx[s].granted IN
          /\ conns' = [conns EXCEPT ![made + 1] = c]
          /\ creds' = Consume(tx[s].cred) \cup
               {[id |-> issued + 1, conn |-> made + 1,
                 kind |-> IF c.method = "oauth" THEN "code" ELSE "personal",
                 scopes |-> c.scopes, expires |-> c.expires,
                 consumed |-> FALSE]}
    /\ made' = made + 1
    /\ issued' = issued + 1
    /\ Leave(s)
    /\ UNCHANGED <<clock, password, deleted, revived>>

\* The user declines: the redirect with the error consumes the request, too.
Decline(s) ==
    /\ tx[s].op = "approval" /\ tx[s].granted = NoConn
    /\ tx[s].cred # 0
    /\ creds' = Consume(tx[s].cred)
    /\ Leave(s)
    /\ UNCHANGED <<clock, password, deleted, conns, made, issued, revived>>

(***************************************************************************)
(* Exchanging a code or a refresh token.                                   *)
(***************************************************************************)

\* lookup, without a lock: the token endpoint or a replay of an old request.
Present(s) ==
    /\ Ready(s)
    /\ \E c \in creds :
          /\ c.kind \in {"code", "refresh"}
          /\ tx' = [tx EXCEPT ![s] =
                      [op |-> "exchange", conn |-> c.conn, cred |-> c.id,
                       step |-> "found", scopes |-> {}, at |-> 0]]
    /\ UNCHANGED <<clock, password, deleted, conns, made, creds, issued,
                   revived>>

\* Mutant: the row of the unlocked lookup is trusted, not read again.
LockConnectionOnly(s) ==
    /\ tx[s].op = "exchange" /\ tx[s].step = "found"
    /\ ConnFree(tx[s].conn)
    /\ Valid(tx[s].conn)
    /\ tx' = [tx EXCEPT ![s].step = "locked"]
    /\ UNCHANGED <<clock, password, deleted, conns, made, creds, issued,
                   revived>>

\* credential_for_grant: the connection, then the credential read again.
LockConnection(s) ==
    /\ tx[s].op = "exchange" /\ tx[s].step = "found"
    /\ ConnFree(tx[s].conn)
    /\ Valid(tx[s].conn)
    /\ \E c \in CredRows(tx[s].cred) : ~Expired(c.expires) /\ ~c.consumed
    /\ tx' = [tx EXCEPT ![s].step = "locked"]
    /\ UNCHANGED <<clock, password, deleted, conns, made, creds, issued,
                   revived>>

\* revoke_locked.
RevokedConn(i) ==
    /\ conns' = [conns EXCEPT ![i].revoked = clock]
    /\ creds' = {c \in creds : c.conn # i}

\* A used credential: the family goes, and authlib's error response lets the
\* transaction commit.
ReplayRevokes(s) ==
    /\ tx[s].op = "exchange" /\ tx[s].step = "found"
    /\ ConnFree(tx[s].conn)
    /\ Valid(tx[s].conn)
    /\ \E c \in CredRows(tx[s].cred) : ~Expired(c.expires) /\ c.consumed
    /\ RevokedConn(tx[s].conn)
    /\ Leave(s)
    /\ UNCHANGED <<clock, password, deleted, made, issued, revived>>

\* save_token, the connection checked once more; a refresh may ask for fewer
\* scopes than it has.
WriteTokens(s) ==
    /\ tx[s].op = "exchange" /\ tx[s].step = "locked"
    /\ Valid(tx[s].conn)
    /\ \E c \in CredRows(tx[s].cred) :
          \E scopes \in SUBSET (c.scopes \cap conns[tx[s].conn].scopes) \ {{}} :
             /\ c.kind = "code" => scopes = c.scopes \cap conns[tx[s].conn].scopes
             /\ tx' = [tx EXCEPT ![s].step = "written", ![s].scopes = scopes,
                                 ![s].at = clock]
    /\ UNCHANGED <<clock, password, deleted, conns, made, creds, issued,
                   revived>>

Token(id, i, kind, scopes, expires) ==
    [id |-> id, conn |-> i, kind |-> kind, scopes |-> scopes,
     expires |-> expires, consumed |-> FALSE]

\* The commit.
CommitTokens(s) ==
    /\ tx[s].op = "exchange" /\ tx[s].step = "written"
    /\ issued + 2 <= MaxCredentials
    /\ LET i == tx[s].conn  t == tx[s].at IN
          /\ conns' = [conns EXCEPT ![i].expires = t + RefreshLife]
          /\ creds' = Consume(tx[s].cred) \cup
               {Token(issued + 1, i, "access", tx[s].scopes, t + AccessLife),
                Token(issued + 2, i, "refresh", tx[s].scopes, t + RefreshLife)}
          /\ revived' = IF Expired(conns[i].expires) THEN revived \cup {i}
                                                     ELSE revived
    /\ issued' = issued + 2
    /\ Leave(s)
    /\ UNCHANGED <<clock, password, deleted, made>>

\* A check fails, or the process dies: the transaction is rolled back.
Fail(s) ==
    /\ ~Ready(s)
    /\ Leave(s)
    /\ UNCHANGED <<clock, password, deleted, conns, made, creds, issued,
                   revived>>

(***************************************************************************)
(* Owners and accounts.                                                    *)
(***************************************************************************)

\* Mutant: the connection is not locked.
RevokeUnlocked(i) ==
    /\ conns[i] # NoConn
    /\ conns[i].revoked = Never
    /\ RevokedConn(i)
    /\ UNCHANGED <<clock, password, deleted, made, issued, tx, revived>>

\* revoke_owned, or revoke_token with a refresh or access token.
Revoke(i) ==
    /\ conns[i] # NoConn
    /\ conns[i].revoked = Never
    /\ ConnFree(i)
    /\ RevokedConn(i)
    /\ UNCHANGED <<clock, password, deleted, made, issued, tx, revived>>

\* reduce_owned.
Reduce(i) ==
    /\ conns[i] # NoConn
    /\ conns[i].revoked = Never
    /\ ConnFree(i)
    /\ \E scopes \in SUBSET conns[i].scopes :
          conns' = [conns EXCEPT ![i].scopes = scopes]
    /\ UNCHANGED <<clock, password, deleted, made, creds, issued, tx,
                   revived>>

\* settings_app: UPDATEs that wait for an approval's lock on the user.  A
\* role change saves the password it had read as well, so that an older one
\* may come back.
SavePassword(u) ==
    /\ UserFree(u) /\ u \notin deleted
    /\ \E p \in 1..MaxPasswords : password' = [password EXCEPT ![u] = p]
    /\ UNCHANGED <<clock, deleted, conns, made, creds, issued, tx, revived>>

DeleteUser(u) ==
    /\ UserFree(u) /\ u \notin deleted
    /\ deleted' = deleted \cup {u}
    /\ UNCHANGED <<clock, password, conns, made, creds, issued, tx,
                   revived>>

(***************************************************************************)
(* Tools.                                                                  *)
(***************************************************************************)

\* authorize(raw, scope).
Authorized(id, scope) ==
    \E c \in CredRows(id) :
        /\ c.kind \in {"access", "personal"}
        /\ ~Expired(c.expires) /\ ~c.consumed
        /\ Valid(c.conn)
        /\ (c.kind = "personal") = (conns[c.conn].method = "personal")
        /\ scope \in c.scopes \cap conns[c.conn].scopes

\* execute, up to the query.
BeginCall(s) ==
    /\ Ready(s)
    /\ \E c \in creds, scope \in GrantScopes :
          /\ Authorized(c.id, scope)
          /\ tx' = [tx EXCEPT ![s] = [op |-> "call", conn |-> c.conn,
                                      cred |-> c.id, scope |-> scope]]
    /\ UNCHANGED <<clock, password, deleted, conns, made, creds, issued,
                   revived>>

\* Mutant: access is not checked again after the query.
EndCallUnchecked(s) ==
    /\ tx[s].op = "call"
    /\ tx' = [tx EXCEPT ![s] = AnsweredCall]
    /\ UNCHANGED <<clock, password, deleted, conns, made, creds, issued,
                   revived>>

\* The query is done: access is checked again and the result returned.
EndCall(s) ==
    /\ tx[s].op = "call"
    /\ Authorized(tx[s].cred, tx[s].scope)
    /\ tx' = [tx EXCEPT ![s] = AnsweredCall]
    /\ UNCHANGED <<clock, password, deleted, conns, made, creds, issued,
                   revived>>

(***************************************************************************)
(* Offline cleanup, its batches and its budget left out; rows that are     *)
(* locked are skipped.                                                     *)
(***************************************************************************)

DeadCredentials ==
    {c \in creds : \/ Expired(c.expires)
                   \/ c.conn # 0 /\ conns[c.conn].user \in deleted}

\* Mutant: a connection without an expiry is taken for one that lapsed long ago.
DeadConnectionsNoExpiry ==
    {i \in ConnIds :
        /\ conns[i] # NoConn
        /\ \/ conns[i].user \in deleted
           \/ conns[i].expires < clock - AuditRetention
           \/ conns[i].revoked # Never /\ conns[i].revoked < clock - AuditRetention}

DeadConnections ==
    {i \in ConnIds :
        /\ conns[i] # NoConn
        /\ \/ conns[i].user \in deleted
           \/ conns[i].expires # Never /\ conns[i].expires < clock - AuditRetention
           \/ conns[i].revoked # Never /\ conns[i].revoked < clock - AuditRetention}

CredFree(c) ==
    \A s \in Slots : /\ ~HoldsRequest(s, c.id)
                     /\ HoldsConn(s, c.conn) => tx[s].cred # c.id

CleanCredentials ==
    /\ creds' = {c \in creds : CredFree(c) => c \notin DeadCredentials}
    /\ UNCHANGED <<clock, password, deleted, conns, made, issued, tx,
                   revived>>

\* The delete cascades to the credentials.
CleanConnections ==
    LET dead == {i \in DeadConnections : ConnFree(i)} IN
    /\ conns' = [i \in ConnIds |-> IF i \in dead THEN NoConn ELSE conns[i]]
    /\ creds' = {c \in creds : c.conn \notin dead}
    /\ UNCHANGED <<clock, password, deleted, made, issued, tx, revived>>

Tick ==
    /\ clock < LastTick
    /\ clock' = clock + 1
    /\ UNCHANGED <<password, deleted, conns, made, creds, issued, tx,
                   revived>>

Approving(s) ==
    \/ \E u \in Owners : OpenConsent(s, u) \/ OpenTokenForm(s, u)
    \/ Grant(s) \/ Approve(s) \/ Decline(s)
Exchanging(s) ==
    \/ Present(s) \/ LockConnection(s) \/ ReplayRevokes(s)
    \/ WriteTokens(s) \/ CommitTokens(s)

NextGrants ==
    \/ \E asked \in SUBSET GrantScopes \ {{}} : Authorize(asked)
    \/ \E s \in Slots : \/ Approving(s) \/ Exchanging(s)
                        \/ BeginCall(s) \/ EndCall(s) \/ Fail(s)
    \/ \E i \in ConnIds : Revoke(i) \/ Reduce(i)
    \/ \E u \in Owners : SavePassword(u) \/ DeleteUser(u)
    \/ CleanCredentials \/ CleanConnections
    \/ Tick

GrantsSpec == InitGrants /\ [][NextGrants]_grantVars

(***************************************************************************)
(* Properties.                                                             *)
(***************************************************************************)

\* Every variable keeps its type, and only what belongs to a personal token
\* has no expiry (ai_conn_expiry_or_personal, ai_cred_expiry_or_personal).
TypeOK ==
    /\ clock \in Instants
    /\ password \in [Owners -> 1..MaxPasswords]
    /\ deleted \subseteq Owners
    /\ conns \in [ConnIds -> Conn \cup {NoConn}]
    /\ \A i \in ConnIds : conns[i] # NoConn /\ conns[i].method = "oauth"
                              => conns[i].expires # Never
    /\ made \in 0..MaxConnections
    /\ creds \subseteq Cred
    /\ \A c \in creds : c.kind # "personal" => c.expires # Never
    /\ issued \in 0..MaxCredentials
    /\ tx \in [Slots -> {IdleSlot, AnsweredCall} \cup Approval \cup Exchange \cup Call]
    /\ revived \subseteq ConnIds

\* "Codes are one-use, with committed issuance/consumption and connection
\* locks": however often a code or refresh token is presented, at once or
\* later, a connection never has two credentials left to exchange.
OneLiveCredential ==
    \A c, d \in creds :
        /\ c.conn = d.conn /\ c.conn # 0
        /\ {c.kind, d.kind} \subseteq {"code", "refresh"}
        /\ ~c.consumed /\ ~d.consumed
        => c = d

\* Revocation deletes every credential of a connection, and no exchange that
\* was under way brings one back.
RevokedHasNoCredentials ==
    \A c \in creds : c.conn # 0 =>
        conns[c.conn] # NoConn /\ conns[c.conn].revoked = Never

\* "Consent is browser bound, one time and explicit" (test_ai_connections):
\* a consent form sent twice approves one connection.
OneConnectionPerConsent ==
    \A i, j \in ConnIds :
        /\ conns[i] # NoConn /\ conns[j] # NoConn
        /\ conns[i].request = conns[j].request /\ conns[i].request # 0
        => i = j

\* A password change invalidates the connections approved by a session of the
\* old password, also one whose approval had begun: what is valid was approved
\* by a session of the password the user has.
ApprovedByThisPassword ==
    \A i \in ConnIds : Valid(i) => conns[i].session = password[conns[i].user]

\* "Active connections are limited [...] per user", with no more exceptions
\* than exchanges that had checked their connection just before it lapsed.
QuotaHolds ==
    \A u \in Owners : Cardinality(ActiveOf(u) \ revived) <= MaxActive

\* "Access is checked again after analytics execution": no tool returns a
\* result read under a grant that was revoked, reduced or invalidated in the
\* meantime.
AnswersAreAuthorized ==
    [][\A s \in Slots :
          tx[s].op = "call" /\ tx'[s] = AnsweredCall =>
              Valid(tx[s].conn) /\ tx[s].scope \in conns[tx[s].conn].scopes]_grantVars

\* The cleanup judges rows by their own columns and skips what is locked: it
\* takes away no credential that still grants something, no used one whose
\* replay must still be recognised and none that a request in progress has
\* locked, neither by itself nor with its connection, by the delete that
\* cascades.  Judged by the state before the step, such a credential goes only
\* when its connection is revoked, which keeps the connection's row.
CleanupKeepsWhatCounts ==
    [][\A c \in creds :
          /\ \A d \in creds' : d.id # c.id
          /\ ~CredFree(c) \/ (~Expired(c.expires) /\ (c.conn # 0 => Valid(c.conn)))
          => c.conn # 0 /\ conns'[c.conn] # NoConn /\ conns'[c.conn].revoked # Never]_grantVars
=============================================================================
