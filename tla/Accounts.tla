------------------------------ MODULE Accounts ------------------------------
(***************************************************************************)
(* How a phone becomes an account and a caller gets tokens.  Landowners    *)
(* register at /v1/auth/register (table users), agents at                  *)
(* /v1/agents/register (table agents); both create the account in Keycloak *)
(* first and send a one-time code last.  A code is kept in Redis and       *)
(* exchanged for tokens, and the protected routes check a token against    *)
(* the cached keys of KeycloakClient.                                      *)
(*                                                                         *)
(* A request is a sequence of calls to Keycloak, Redis and Postgres.  Each *)
(* call is a step, any call may fail, a call to Keycloak may also fail     *)
(* after it took effect, and requests overlap.                             *)
(***************************************************************************)
EXTENDS KeycloakClient, Naturals

CONSTANTS
    Requests,   \* the requests that may be in progress at one time
    MaxCodes    \* bound: one-time codes stored for a phone

ASSUME MaxCodesAssumption == MaxCodes \in Nat \ {0}

VARIABLES
    users,      \* Postgres: phone -> the role of its users row, or NoRow
    agents,     \* Postgres: the phones with an agents row
    otp,        \* Redis: the code stored for a phone, 0 when there is none
    lastCode,   \* how many codes were stored for a phone so far
    tokens,     \* phone -> the newest token its client was given, or NoToken
    at,         \* the next step of a request in progress, or "idle"
    input,      \* what the request asks for
    certs,      \* the keys its refresh was answered with
    stale       \* history: the code it brought was not the stored one then

tables == <<users, agents>>
redis == <<otp, lastCode>>
requests == <<at, input, certs, stale>>
vars == <<keycloak, jwksKeys, tables, redis, tokens, requests>>

NoRow == "no row"
NoRole == ""
SignUpRoles == {"landowner", "agent"}
NoToken == [phone |-> "none"]
Kinds == {"register", "login", "verify", "agents/register", "agents/me"}
Places == {"idle", "lookup", "fetch", "apply", "found", "admit", "create",
           "role", "insert", "find", "send", "code", "consume", "row",
           "password", "token", "profile"}

Input(kind, p, role, code, token) ==
    [kind |-> kind, phone |-> p, role |-> role, code |-> code, token |-> token]

Idle == Input("none", "none", NoRole, 0, NoToken)

Inputs ==
    [kind: Kinds \cup {"none"}, phone: Phones \cup {"none"},
     role: SignUpRoles \cup {NoRole}, code: 0..MaxCodes,
     token: Token \cup {NoToken}]

-----------------------------------------------------------------------------

Init ==
    /\ KeycloakInit
    /\ NewKeycloakClient
    /\ users = [p \in Phones |-> IF p \in Registered THEN "landowner" ELSE NoRow]
    /\ agents = {}
    /\ otp = [p \in Phones |-> 0]
    /\ lastCode = [p \in Phones |-> IF p \in Registered THEN MaxCodes ELSE 0]
    /\ tokens = [p \in Phones |-> IF p \in Registered THEN SignedToken(p)
                                                     ELSE NoToken]
    /\ at = [r \in Requests |-> "idle"]
    /\ input = [r \in Requests |-> Idle]
    /\ certs = [r \in Requests |-> {}]
    /\ stale = [r \in Requests |-> FALSE]

GoTo(r, place) ==
    /\ at' = [at EXCEPT ![r] = place]
    /\ UNCHANGED <<input, certs, stale>>

\* The response is written, whatever its status, and the handler returns.
Answer(r) ==
    /\ at' = [at EXCEPT ![r] = "idle"]
    /\ input' = [input EXCEPT ![r] = Idle]
    /\ certs' = [certs EXCEPT ![r] = {}]
    /\ stale' = [stale EXCEPT ![r] = FALSE]

\* A code is stored for the phone, and it is this one.
IsStored(p, code) == otp[p] # 0 /\ otp[p] = code

\* A body that decodes and passes validation starts a handler; any other is
\* answered 400 or 422 and changes nothing.
Receive(r, place, request) ==
    /\ at[r] = "idle"
    /\ at' = [at EXCEPT ![r] = place]
    /\ input' = [input EXCEPT ![r] = request]
    /\ stale' = [stale EXCEPT ![r] = /\ request.kind = "verify"
                                    /\ ~IsStored(request.phone, request.code)]
    /\ UNCHANGED <<keycloak, jwksKeys, tables, redis, tokens, certs>>

\* The routes under /v1/auth.  The role may be left out: landowner.
ReceivePublic(r, p) ==
    \/ \E role \in SignUpRoles :
        Receive(r, "create", Input("register", p, role, 0, NoToken))
    \/ Receive(r, "find", Input("login", p, NoRole, 0, NoToken))
    \/ \E code \in 0..lastCode[p] :                \* 0: a code never sent
        Receive(r, "code", Input("verify", p, NoRole, code, NoToken))

\* The protected routes: the request carries a bearer token.  A missing or
\* malformed header is answered 401 and changes nothing.
ReceiveProtected(r, t) ==
    \/ \E p \in Phones :
        Receive(r, "lookup", Input("agents/register", p, "agent", 0, t))
    \/ Receive(r, "lookup", Input("agents/me", "none", NoRole, 0, t))

-----------------------------------------------------------------------------
(* JWTAuth and RequireRole.                                                *)

ValidateToken(r) ==
    /\ at[r] = "lookup"
    /\ \/ /\ KeyFound(input[r].token.kid)
          /\ GoTo(r, "admit")
       \/ GoTo(r, "fetch")              \* unknown, or the hour is over
       \/ Answer(r)                      \* not a token
    /\ UNCHANGED <<keycloak, jwksKeys, tables, redis, tokens>>

FetchJWKS(r) ==
    /\ at[r] = "fetch"
    /\ \/ /\ at' = [at EXCEPT ![r] = "apply"]
          /\ certs' = [certs EXCEPT ![r] = FetchCerts]
          /\ UNCHANGED <<input, stale>>
       \/ Answer(r)                      \* the call fails: 401
    /\ UNCHANGED <<keycloak, jwksKeys, tables, redis, tokens>>

ApplyJWKS(r) ==
    /\ at[r] = "apply"
    /\ RefreshJWKS(certs[r])
    /\ GoTo(r, "found")
    /\ UNCHANGED <<keycloak, tables, redis, tokens>>

\* The second lookup; an unknown key is answered 401.
LookAgain(r) ==
    /\ at[r] = "found"
    /\ IF KeyFound(input[r].token.kid) THEN GoTo(r, "admit") ELSE Answer(r)
    /\ UNCHANGED <<keycloak, jwksKeys, tables, redis, tokens>>

\* The roles of the claims, realm_roles and realm_access together.
UserRoles(t) == t.roles

\* The key is there; the token may still have expired: 401.  Only the routes
\* under /me ask for a role: 403.
RequireRole(r) ==
    /\ at[r] = "admit"
    /\ \/ /\ input[r].kind = "agents/register"
          /\ GoTo(r, "create")
       \/ /\ input[r].kind = "agents/me"
          /\ "agent" \in UserRoles(input[r].token)
          /\ GoTo(r, "profile")
       \/ Answer(r)
    /\ UNCHANGED <<keycloak, jwksKeys, tables, redis, tokens>>

\* GET /v1/agents/me: the row of the token's account, or 404.
GetProfile(r) ==
    /\ at[r] = "profile"
    /\ Answer(r)
    /\ UNCHANGED <<keycloak, jwksKeys, tables, redis, tokens>>

-----------------------------------------------------------------------------
(* The two registrations: account, role, row, code.                        *)

CreateAccount(r) ==
    /\ at[r] = "create"
    /\ \/ CreateUser(input[r].phone) /\ GoTo(r, "role")
       \/ CreateUser(input[r].phone) /\ Answer(r)     \* the response is lost
       \/ UNCHANGED keycloak /\ Answer(r)           \* 409, or the call fails
    /\ UNCHANGED <<jwksKeys, tables, redis, tokens>>

\* Mutant: the role of the account is always the default one.
AssignRole_Default(r) ==
    /\ at[r] = "role"
    /\ \/ AssignRealmRole(input[r].phone, "landowner")
       \/ UNCHANGED keycloak
    /\ GoTo(r, "insert")
    /\ UNCHANGED <<jwksKeys, tables, redis, tokens>>

\* A role that cannot be assigned is logged, and the registration goes on.
AssignRole(r) ==
    /\ at[r] = "role"
    /\ \/ AssignRealmRole(input[r].phone, input[r].role)
       \/ UNCHANGED keycloak
    /\ GoTo(r, "insert")
    /\ UNCHANGED <<jwksKeys, tables, redis, tokens>>

\* INSERT INTO users; the phone is unique in that table.
InsertUser(p, role) ==
    /\ users[p] = NoRow
    /\ users' = [users EXCEPT ![p] = role]
    /\ UNCHANGED agents

\* INSERT INTO agents; the phone is unique in that table, and only there.
InsertAgent(p) ==
    /\ p \notin agents
    /\ agents' = agents \cup {p}
    /\ UNCHANGED users

InsertRow(r) ==
    /\ at[r] = "insert"
    /\ \/ /\ input[r].kind = "register"
          /\ InsertUser(input[r].phone, input[r].role)
          /\ GoTo(r, "send")
       \/ /\ input[r].kind = "agents/register"
          /\ InsertAgent(input[r].phone)
          /\ GoTo(r, "send")
       \/ Answer(r) /\ UNCHANGED tables             \* the INSERT fails: 500
    /\ UNCHANGED <<keycloak, jwksKeys, redis, tokens>>

-----------------------------------------------------------------------------
(* One-time codes.                                                         *)

\* SET otp:<phone> to a fresh code: an older one is overwritten.
StoreCode(p) ==
    /\ lastCode[p] < MaxCodes
    /\ lastCode' = [lastCode EXCEPT ![p] = @ + 1]
    /\ otp' = [otp EXCEPT ![p] = lastCode[p] + 1]

\* After a registration a failure is only logged, after a login it is the
\* answer; both ways the request ends.
SendOTP(r) ==
    /\ at[r] = "send"
    /\ \/ StoreCode(input[r].phone)
       \/ UNCHANGED redis
    /\ Answer(r)
    /\ UNCHANGED <<keycloak, jwksKeys, tables, tokens>>

\* Redis drops a code after five minutes.
CodeExpires(p) ==
    /\ otp[p] # 0
    /\ otp' = [otp EXCEPT ![p] = 0]
    /\ UNCHANGED <<keycloak, jwksKeys, tables, lastCode, tokens, requests>>

\* GetUserByPhone reads the table users, for an agent's phone too.
IsUser(p) == users[p] # NoRow

\* Only a phone with a users row is sent a code; any other is answered 404.
Login(r) ==
    /\ at[r] = "find"
    /\ \/ IsUser(input[r].phone) /\ GoTo(r, "send")
       \/ Answer(r)
    /\ UNCHANGED <<keycloak, jwksKeys, tables, redis, tokens>>

-----------------------------------------------------------------------------
(* The exchange of a code for tokens.                                      *)

\* Mutant: the answer of the check is not looked at.
CompareCode_GoesOn(r) ==
    /\ at[r] = "code"
    /\ GoTo(r, "row")
    /\ UNCHANGED <<keycloak, jwksKeys, tables, redis, tokens>>

\* GET the stored code and compare.
CompareCode(r) ==
    /\ at[r] = "code"
    /\ \/ /\ IsStored(input[r].phone, input[r].code)
          /\ GoTo(r, "consume")
       \/ Answer(r)                          \* 401, or Redis fails: 500
    /\ UNCHANGED <<keycloak, jwksKeys, tables, redis, tokens>>

\* DEL the key, in a second call whose error is ignored: by now the key may
\* hold a newer code.
ConsumeCode(r) ==
    /\ at[r] = "consume"
    /\ \/ otp' = [otp EXCEPT ![input[r].phone] = 0]
       \/ UNCHANGED otp
    /\ GoTo(r, "row")
    /\ UNCHANGED <<keycloak, jwksKeys, tables, lastCode, tokens>>

\* The code is used up, whether or not the phone has a row.
FindRow(r) ==
    /\ at[r] = "row"
    /\ \/ IsUser(input[r].phone) /\ GoTo(r, "password")
       \/ Answer(r)
    /\ UNCHANGED <<keycloak, jwksKeys, tables, redis, tokens>>

SetPassword(r) ==
    /\ at[r] = "password"
    /\ \/ SetTemporaryPassword(input[r].phone) /\ GoTo(r, "token")
       \/ SetTemporaryPassword(input[r].phone) /\ Answer(r)
       \/ UNCHANGED keycloak /\ Answer(r)
    /\ UNCHANGED <<jwksKeys, tables, redis, tokens>>

GrantToken(r) ==
    /\ at[r] = "token"
    /\ \/ \E t \in GetToken(input[r].phone) :
            tokens' = [tokens EXCEPT ![t.phone] = t]
       \/ UNCHANGED tokens
    /\ Answer(r)
    /\ UNCHANGED <<keycloak, jwksKeys, tables, redis>>

\* POST /v1/auth/refresh: one call to Keycloak, answered 200 or 401.
Refresh(t) ==
    /\ \E new \in RefreshToken(t) : tokens' = [tokens EXCEPT ![t.phone] = new]
    /\ UNCHANGED <<keycloak, jwksKeys, tables, redis, requests>>

\* The process stops: its requests and its cache are gone.
Crash ==
    /\ at' = [r \in Requests |-> "idle"]
    /\ input' = [r \in Requests |-> Idle]
    /\ certs' = [r \in Requests |-> {}]
    /\ stale' = [r \in Requests |-> FALSE]
    /\ jwksKeys' = {}
    /\ UNCHANGED <<keycloak, tables, redis, tokens>>

\* The tokens that clients hold.
Held == {tokens[p] : p \in Phones} \ {NoToken}

Step(r) ==
    \/ ValidateToken(r) \/ FetchJWKS(r) \/ ApplyJWKS(r) \/ LookAgain(r)
    \/ RequireRole(r) \/ GetProfile(r)
    \/ CreateAccount(r) \/ AssignRole(r) \/ InsertRow(r) \/ SendOTP(r)
    \/ Login(r) \/ CompareCode(r) \/ ConsumeCode(r) \/ FindRow(r)
    \/ SetPassword(r) \/ GrantToken(r)

Administer ==
    /\ \E kid \in Kids : RotateKey(kid) \/ RetireKey(kid)
    /\ UNCHANGED <<tables, redis, tokens, requests>>

Next ==
    \/ \E r \in Requests :
        \/ \E p \in Phones : ReceivePublic(r, p)
        \/ \E t \in Held : ReceiveProtected(r, t)
        \/ Step(r)
    \/ \E p \in Phones : CodeExpires(p)
    \/ \E t \in Held : Refresh(t)
    \/ Administer
    \/ Crash

Spec == Init /\ [][Next]_vars

-----------------------------------------------------------------------------

\* The variables keep their types.
TypeOK ==
    /\ KeycloakTypeOK
    /\ users \in [Phones -> SignUpRoles \cup {NoRow}]
    /\ agents \subseteq Phones
    /\ lastCode \in [Phones -> 0..MaxCodes]
    /\ otp \in [Phones -> 0..MaxCodes]
    /\ \A p \in Phones : otp[p] <= lastCode[p]
    /\ tokens \in [Phones -> Token \cup {NoToken}]
    /\ at \in [Requests -> Places]
    /\ input \in [Requests -> Inputs]
    /\ certs \in [Requests -> SUBSET Kids]
    /\ stale \in [Requests -> BOOLEAN]

\* A phone is one account: it never has both a users row and an agents row,
\* and a row always has its Keycloak account, however registrations at the
\* two endpoints overlap, fail and are repeated.  No constraint spans the two
\* tables: it is the conflict answered by CreateUser that keeps them apart.
OneAccountPerPhone ==
    \A p \in Phones :
        /\ ~(IsUser(p) /\ p \in agents)
        /\ IsUser(p) \/ p \in agents => HasAccount(p)

\* The realm roles of an account never say more than its row: the role may
\* be missing, because its assignment failed, but it is never another one.
RolesFollowRow ==
    \A p \in Phones :
        /\ IsUser(p) => realm[p] \subseteq {users[p]}
        /\ p \in agents => realm[p] \subseteq {"agent"}

\* A key that Keycloak answered a refresh with is found by the lookup after
\* it, although other refreshes, asked earlier, are applied in between.
FetchedKeysStay ==
    \A r \in Requests : at[r] = "found" => certs[r] \subseteq jwksKeys

\* A code that was deleted after a use, overwritten by a newer one, expired
\* or never sent before its request came is not exchanged for tokens,
\* whatever other verifications and resends do between the request's GET,
\* DEL and grant.  (Two requests that come while the code is stored may both
\* exchange it: GET and DEL are separate calls.)
StaleCodeIsRefused ==
    \A r \in Requests :
        at[r] \in {"consume", "row", "password", "token"} => ~stale[r]
=============================================================================
