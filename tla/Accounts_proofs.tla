--------------------------- MODULE Accounts_proofs ---------------------------
(***************************************************************************)
(* Accounts for every set of phones, keys and requests.  The heart of the  *)
(* invariant is CreatingInv: a registration that is between its account    *)
(* and its row owns the phone, because Keycloak gave the account to it     *)
(* alone.  What the two tables do not say to each other, it says.          *)
(***************************************************************************)
EXTENDS Accounts, TLAPS

Creating == {"role", "insert"}
Checking == {"lookup", "fetch", "apply", "found", "admit"}
Exchanging == {"consume", "row", "password", "token"}

\* A request carries what its next steps need.
InputInv ==
    \A r \in Requests :
        /\ at[r] \in Creating \cup {"create"} =>
               /\ input[r].kind \in {"register", "agents/register"}
               /\ input[r].role \in SignUpRoles
        /\ at[r] \in Creating \cup Exchanging \cup {"create", "find", "send", "code"} =>
               input[r].phone \in Phones
        /\ at[r] \in Checking => input[r].token \in Token
        /\ input[r].kind = "agents/register" =>
               input[r].phone \in Phones /\ input[r].role = "agent"

\* Between account and row, a registration has the phone for itself.
CreatingInv ==
    \A r \in Requests :
        at[r] \in Creating =>
            LET p == input[r].phone IN
            /\ HasAccount(p)
            /\ realm[p] \subseteq {input[r].role}
            /\ users[p] = NoRow
            /\ p \notin agents
            /\ \A q \in Requests \ {r} : at[q] \in Creating => input[q].phone # p

\* Passwords are set on accounts; a phone that is past the lookup of its row
\* has one.
PasswordInv ==
    /\ \A p \in passwords : HasAccount(p)
    /\ \A r \in Requests : at[r] \in {"password", "token"} => IsUser(input[r].phone)

\* A code that is exchanged was sent, and whoever holds a token was sent one.
TokenInv ==
    /\ \A r \in Requests :
        at[r] \in Exchanging => input[r].code \in 1..lastCode[input[r].phone]
    /\ \A t \in Held : lastCode[t.phone] > 0 /\ IsUser(t.phone)

\* A code that was not stored when its request came is never stored again:
\* the codes that are stored later are newer.
StaleInv ==
    /\ \A r \in Requests :
        at[r] = "code" =>
            /\ input[r].code \in 0..lastCode[input[r].phone]
            /\ stale[r] => ~IsStored(input[r].phone, input[r].code)
    /\ StaleCodeIsRefused

IInv ==
    /\ TypeOK
    /\ InputInv
    /\ CreatingInv
    /\ OneAccountPerPhone
    /\ RolesFollowRow
    /\ PasswordInv
    /\ FetchedKeysStay
    /\ TokenInv
    /\ StaleInv

-----------------------------------------------------------------------------
(* Steps of a request that write nothing.                                  *)

Quiet == UNCHANGED <<keycloak, jwksKeys, tables, redis, tokens>>

\* What a request must have to take a step to a place.
CanEnter(r, place) ==
    /\ place \in Places \ Creating
    /\ place = "create" =>
           /\ input[r].kind \in {"register", "agents/register"}
           /\ input[r].role \in SignUpRoles
    /\ place \in Exchanging \cup {"create", "find", "send", "code"} =>
           input[r].phone \in Phones
    /\ place \in Checking => input[r].token \in Token
    /\ place \in {"password", "token"} => IsUser(input[r].phone)
    /\ place \in Exchanging => input[r].code \in 1..lastCode[input[r].phone]
    /\ place # "code"
    /\ place \in Exchanging => ~stale[r]
    /\ place = "found" => certs[r] \subseteq jwksKeys

\* The constants and the values that stand for nothing.
LEMMA Values ==
    /\ SignUpRoles \subseteq Roles
    /\ MaxCodes \in Nat \ {0}
    /\ Idle \in Inputs
    /\ Idle.kind = "none"
    /\ NoAccount # {}
    /\ NoAccount \cap SignUpRoles = {}
<1>1. SignUpRoles \subseteq Roles
  BY KeycloakAssumptions DEF SignUpRoles
<1>2. Idle \in Inputs /\ Idle.kind = "none"
  BY MaxCodesAssumption DEF Idle, Input, Inputs
<1>3. NoAccount # {} /\ NoAccount \cap SignUpRoles = {}
  BY DEF NoAccount, SignUpRoles
<1> QED
  BY <1>1, <1>2, <1>3, MaxCodesAssumption

\* A step of a request keeps the types of the requests.
LEMMA RequestsTyped ==
    ASSUME TypeOK, NEW r \in Requests,
           (\E place \in Places : GoTo(r, place)) \/ Answer(r)
    PROVE  /\ at' \in [Requests -> Places]
           /\ input' \in [Requests -> Inputs]
           /\ certs' \in [Requests -> SUBSET Kids]
           /\ stale' \in [Requests -> BOOLEAN]
<1>1. CASE \E place \in Places : GoTo(r, place)
  BY <1>1 DEF TypeOK, GoTo
<1>2. CASE Answer(r)
  BY <1>2, Values DEF TypeOK, Answer, Places
<1> QED
  BY <1>1, <1>2

\* A request moves on.
LEMMA MoveKeeps ==
    ASSUME IInv, NEW r \in Requests, NEW place, CanEnter(r, place),
           GoTo(r, place), Quiet
    PROVE  IInv'
<1> USE DEF CanEnter, GoTo, Quiet, keycloak, tables, redis
<1>1. TypeOK'
  BY RequestsTyped DEF IInv, TypeOK, KeycloakTypeOK
<1>2. InputInv'
  BY DEF IInv, TypeOK, InputInv, Creating, Checking, Exchanging
<1>3. CreatingInv'
  BY DEF IInv, TypeOK, CreatingInv, HasAccount
<1>4. OneAccountPerPhone' /\ RolesFollowRow'
  BY DEF IInv, OneAccountPerPhone, RolesFollowRow, IsUser, HasAccount
<1>5. PasswordInv'
  BY DEF IInv, TypeOK, PasswordInv, HasAccount, IsUser
<1>6. FetchedKeysStay'
  BY DEF IInv, TypeOK, FetchedKeysStay
<1>7. TokenInv' /\ StaleInv'
  BY DEF IInv, TypeOK, TokenInv, Held, IsUser, StaleInv, StaleCodeIsRefused,
         IsStored, Exchanging
<1> QED
  BY <1>1, <1>2, <1>3, <1>4, <1>5, <1>6, <1>7 DEF IInv

\* A request is answered.
LEMMA AnswerKeeps ==
    ASSUME IInv, NEW r \in Requests, Answer(r), Quiet
    PROVE  IInv'
<1> USE DEF Answer, Quiet, keycloak, tables, redis
<1>1. TypeOK'
  BY RequestsTyped DEF IInv, TypeOK, KeycloakTypeOK
<1>2. InputInv'
  BY Values DEF IInv, TypeOK, InputInv, Creating, Checking, Exchanging
<1>3. CreatingInv'
  BY DEF IInv, TypeOK, CreatingInv, HasAccount, Creating
<1>4. OneAccountPerPhone' /\ RolesFollowRow'
  BY DEF IInv, OneAccountPerPhone, RolesFollowRow, IsUser, HasAccount
<1>5. PasswordInv' /\ FetchedKeysStay'
  BY DEF IInv, TypeOK, PasswordInv, FetchedKeysStay, HasAccount, IsUser
<1>6. TokenInv' /\ StaleInv'
  BY DEF IInv, TypeOK, TokenInv, Held, IsUser, StaleInv, StaleCodeIsRefused,
         IsStored, Exchanging
<1> QED
  BY <1>1, <1>2, <1>3, <1>4, <1>5, <1>6 DEF IInv

\* The check of a bearer token, up to the answer of the certs endpoint.
LEMMA CheckingKeeps ==
    ASSUME IInv, NEW r \in Requests,
           ValidateToken(r) \/ LookAgain(r) \/ RequireRole(r) \/ GetProfile(r)
    PROVE  IInv'
<1>1. at[r] \in Checking => input[r].token \in Token
  BY DEF IInv, InputInv
<1>2. input[r].kind = "agents/register" => input[r].phone \in Phones /\ input[r].role \in SignUpRoles
  BY DEF IInv, InputInv, SignUpRoles
<1> USE DEF CanEnter, Places, Creating, Checking, Exchanging
<1>3. CASE ValidateToken(r)
  BY <1>1, <1>3, MoveKeeps, AnswerKeeps DEF ValidateToken, Quiet
<1>4. CASE LookAgain(r)
  BY <1>1, <1>4, MoveKeeps, AnswerKeeps DEF LookAgain, Quiet
<1>5. CASE RequireRole(r)
  BY <1>2, <1>5, MoveKeeps, AnswerKeeps DEF RequireRole, Quiet
<1>6. CASE GetProfile(r)
  BY <1>6, AnswerKeeps DEF GetProfile, Quiet
<1> QED
  BY <1>3, <1>4, <1>5, <1>6

\* The lookups of rows and codes.
LEMMA LookupKeeps ==
    ASSUME IInv, NEW r \in Requests,
           Login(r) \/ CompareCode(r) \/ FindRow(r)
    PROVE  IInv'
<1>1. at[r] \in {"find", "code", "row"} => input[r].phone \in Phones
  BY DEF IInv, InputInv, Exchanging
<1> USE DEF CanEnter, Places, Creating, Checking, Exchanging
<1>2. CASE Login(r)
  BY <1>1, <1>2, MoveKeeps, AnswerKeeps DEF Login, Quiet
<1>3. CASE CompareCode(r)
  <2>1. CASE Answer(r)
    BY <1>3, <2>1, AnswerKeeps DEF CompareCode, Quiet
  <2>2. CASE GoTo(r, "consume") /\ IsStored(input[r].phone, input[r].code)
    <3>1. input[r].phone \in Phones
      BY <1>1, <1>3 DEF CompareCode
    <3>2. input[r].code \in 1..lastCode[input[r].phone]
      BY <2>2, <3>1 DEF IInv, TypeOK, IsStored
    <3>3. ~stale[r]
      BY <1>3, <2>2 DEF CompareCode, IInv, StaleInv
    <3> QED
      BY <1>3, <2>2, <3>1, <3>2, <3>3, MoveKeeps DEF CompareCode, Quiet
  <2> QED
    BY <1>3, <2>1, <2>2 DEF CompareCode
<1>4. CASE FindRow(r)
  <2>1. /\ at[r] = "row" /\ ~stale[r]
        /\ input[r].code \in 1..lastCode[input[r].phone]
    BY <1>4 DEF FindRow, IInv, TokenInv, StaleInv, StaleCodeIsRefused
  <2> QED
    BY <1>1, <1>4, <2>1, MoveKeeps, AnswerKeeps DEF FindRow, Quiet
<1> QED
  BY <1>2, <1>3, <1>4

-----------------------------------------------------------------------------
(* The key cache.                                                          *)

\* What the certs endpoint answers are keys.
LEMMA FetchJWKSKeeps ==
    ASSUME IInv, NEW r \in Requests, FetchJWKS(r)
    PROVE  IInv'
<1> USE DEF FetchJWKS, FetchCerts
<1>1. CASE Answer(r)
  BY <1>1, AnswerKeeps DEF Quiet
<1>2. CASE /\ at' = [at EXCEPT ![r] = "apply"]
           /\ certs' = [certs EXCEPT ![r] = FetchCerts]
           /\ UNCHANGED <<input, stale>>
  <2> USE <1>2 DEF keycloak, tables, redis
  <2>1. TypeOK'
    BY DEF IInv, TypeOK, KeycloakTypeOK, Places
  <2>2. InputInv'
    BY DEF IInv, TypeOK, InputInv, Creating, Checking, Exchanging
  <2>3. CreatingInv'
    BY DEF IInv, TypeOK, CreatingInv, HasAccount, Creating
  <2>4. OneAccountPerPhone' /\ RolesFollowRow'
    BY DEF IInv, OneAccountPerPhone, RolesFollowRow, IsUser, HasAccount
  <2>5. PasswordInv' /\ FetchedKeysStay'
    BY DEF IInv, TypeOK, PasswordInv, FetchedKeysStay, HasAccount, IsUser
  <2>6. TokenInv' /\ StaleInv'
    BY DEF IInv, TypeOK, TokenInv, Held, IsUser, StaleInv, StaleCodeIsRefused,
           IsStored, Exchanging
  <2> QED
    BY <2>1, <2>2, <2>3, <2>4, <2>5, <2>6 DEF IInv
<1> QED
  BY <1>1, <1>2

\* The cache only grows.
LEMMA ApplyJWKSKeeps ==
    ASSUME IInv, NEW r \in Requests, ApplyJWKS(r)
    PROVE  IInv'
<1> USE DEF ApplyJWKS, RefreshJWKS, GoTo, keycloak, tables, redis
<1>1. TypeOK'
  BY DEF IInv, TypeOK, KeycloakTypeOK, Places
<1>2. InputInv'
  BY DEF IInv, TypeOK, InputInv, Creating, Checking, Exchanging
<1>3. CreatingInv'
  BY DEF IInv, TypeOK, CreatingInv, HasAccount, Creating
<1>4. OneAccountPerPhone' /\ RolesFollowRow'
  BY DEF IInv, OneAccountPerPhone, RolesFollowRow, IsUser, HasAccount
<1>5. PasswordInv' /\ FetchedKeysStay'
  BY DEF IInv, TypeOK, PasswordInv, FetchedKeysStay, HasAccount, IsUser
<1>6. TokenInv' /\ StaleInv'
  BY DEF IInv, TypeOK, TokenInv, Held, IsUser, StaleInv, StaleCodeIsRefused,
         IsStored, Exchanging
<1> QED
  BY <1>1, <1>2, <1>3, <1>4, <1>5, <1>6 DEF IInv

-----------------------------------------------------------------------------
(* The two registrations.                                                  *)

\* Keycloak creates an account only for a phone that nobody is creating.
LEMMA CreateAccountKeeps ==
    ASSUME IInv, NEW r \in Requests, CreateAccount(r)
    PROVE  IInv'
<1> DEFINE p == input[r].phone
<1>1. /\ at[r] = "create" /\ p \in Phones
      /\ input[r].kind \in {"register", "agents/register"}
      /\ input[r].role \in SignUpRoles
  BY DEF CreateAccount, IInv, InputInv
<1>2. CASE UNCHANGED keycloak /\ Answer(r)
  BY <1>2, AnswerKeeps DEF CreateAccount, Quiet
<1>3. CASE CreateUser(p) /\ (GoTo(r, "role") \/ Answer(r))
  <2> USE DEF CreateAccount, CreateUser, tables, redis
  <2>1. /\ ~HasAccount(p)
        /\ realm' = [realm EXCEPT ![p] = {}]
        /\ UNCHANGED <<passwords, published, active, jwksKeys, users, agents, otp, lastCode, tokens>>
    BY <1>3
  <2>2. realm' \in [Phones -> (SUBSET Roles) \cup {NoAccount}] /\ {} # NoAccount
    BY <2>1, <1>1, Values DEF IInv, TypeOK, KeycloakTypeOK
  <2>3. \A q \in Phones : HasAccount(q)' <=> HasAccount(q) \/ q = p
    BY <2>1, <2>2, <1>1 DEF HasAccount, IInv, TypeOK, KeycloakTypeOK, NoAccount
  <2>4. users[p] = NoRow /\ p \notin agents
    BY <2>1, <1>1 DEF IInv, OneAccountPerPhone, IsUser
  <2>5. \A q \in Requests : at[q] \in Creating => input[q].phone # p
    BY <2>1 DEF IInv, CreatingInv
  <2>6. TypeOK'
    BY <2>1, <2>2, <1>3, RequestsTyped DEF IInv, TypeOK, KeycloakTypeOK, Places
  <2>7. CASE Answer(r)
    <3> USE <2>7 DEF Answer
    <3>1. InputInv'
      BY Values DEF IInv, TypeOK, InputInv, Creating, Checking, Exchanging
    <3>2. CreatingInv'
      <4> SUFFICES ASSUME NEW s \in Requests, at'[s] \in Creating
                   PROVE  /\ HasAccount(input[s].phone)'
                          /\ realm'[input'[s].phone] \subseteq {input'[s].role}
                          /\ users'[input'[s].phone] = NoRow
                          /\ input'[s].phone \notin agents'
                          /\ \A q \in Requests \ {s} :
                                 at'[q] \in Creating => input'[q].phone # input'[s].phone
        BY DEF CreatingInv
      <4>1. s # r /\ at[s] \in Creating /\ input'[s] = input[s] /\ input[s].phone # p
        BY <2>5 DEF IInv, TypeOK, Creating
      <4>2. input[s].phone \in Phones
        BY <4>1 DEF IInv, InputInv
      <4>3. realm'[input[s].phone] = realm[input[s].phone]
        BY <2>1, <4>1, <4>2 DEF IInv, TypeOK, KeycloakTypeOK
      <4>4. \A q \in Requests : at'[q] \in Creating => at[q] \in Creating /\ input'[q] = input[q]
        BY DEF IInv, TypeOK, Creating
      <4> QED
        BY <2>1, <2>3, <4>1, <4>2, <4>3, <4>4 DEF IInv, CreatingInv
    <3>3. PasswordInv'
      BY <2>1, <2>3 DEF IInv, TypeOK, KeycloakTypeOK, PasswordInv, IsUser
    <3>4. FetchedKeysStay' /\ TokenInv' /\ StaleInv'
      BY <2>1 DEF IInv, TypeOK, FetchedKeysStay, TokenInv, Held, IsUser,
         StaleInv, StaleCodeIsRefused, IsStored, Exchanging
    <3>5. OneAccountPerPhone' /\ RolesFollowRow'
      BY <2>1, <2>3, <2>4, <1>1 DEF IInv, TypeOK, KeycloakTypeOK, OneAccountPerPhone, RolesFollowRow,
        IsUser
    <3> QED
      BY <2>6, <3>1, <3>2, <3>3, <3>4, <3>5 DEF IInv
  <2>8. CASE GoTo(r, "role")
    <3> USE <2>8 DEF GoTo
    <3>1. InputInv'
      BY <1>1 DEF IInv, TypeOK, InputInv, Creating, Checking, Exchanging
    <3>2. CreatingInv'
      <4> SUFFICES ASSUME NEW s \in Requests, at'[s] \in Creating
                   PROVE  /\ HasAccount(input[s].phone)'
                          /\ realm'[input'[s].phone] \subseteq {input'[s].role}
                          /\ users'[input'[s].phone] = NoRow
                          /\ input'[s].phone \notin agents'
                          /\ \A q \in Requests \ {s} :
                                 at'[q] \in Creating => input'[q].phone # input'[s].phone
        BY DEF CreatingInv
      <4>1. input' = input /\ \A q \in Requests \ {r} : at'[q] = at[q]
        BY DEF IInv, TypeOK
      <4>2. CASE s = r
        BY <1>1, <2>1, <2>2, <2>3, <2>4, <2>5, <4>1, <4>2 DEF IInv, TypeOK, KeycloakTypeOK
      <4>3. CASE s # r
        <5>1. at[s] \in Creating /\ input[s].phone \in Phones /\ input[s].phone # p
          BY <2>5, <4>1, <4>3 DEF IInv, InputInv
        <5>2. realm'[input[s].phone] = realm[input[s].phone]
          BY <2>1, <5>1 DEF IInv, TypeOK, KeycloakTypeOK
        <5> QED
          BY <2>1, <2>3, <4>1, <5>1, <5>2 DEF IInv, CreatingInv
      <4> QED
        BY <4>2, <4>3
    <3>3. PasswordInv'
      BY <2>1, <2>3 DEF IInv, TypeOK, KeycloakTypeOK, PasswordInv, IsUser
    <3>4. FetchedKeysStay' /\ TokenInv' /\ StaleInv'
      BY <2>1 DEF IInv, TypeOK, FetchedKeysStay, TokenInv, Held, IsUser,
         StaleInv, StaleCodeIsRefused, IsStored, Exchanging
    <3>5. OneAccountPerPhone' /\ RolesFollowRow'
      BY <2>1, <2>3, <2>4, <1>1 DEF IInv, TypeOK, KeycloakTypeOK, OneAccountPerPhone, RolesFollowRow,
        IsUser
    <3> QED
      BY <2>6, <3>1, <3>2, <3>3, <3>4, <3>5 DEF IInv
  <2> QED
    BY <1>3, <2>7, <2>8
<1> QED
  BY <1>2, <1>3 DEF CreateAccount

\* The owner of the phone gives its account the role.
LEMMA AssignRoleKeeps ==
    ASSUME IInv, NEW r \in Requests, AssignRole(r)
    PROVE  IInv'
<1> DEFINE p == input[r].phone
<1> USE DEF AssignRole, GoTo, tables, redis
<1>1. /\ at[r] = "role" /\ p \in Phones
      /\ input[r].role \in SignUpRoles
      /\ HasAccount(p) /\ realm[p] \subseteq {input[r].role}
      /\ users[p] = NoRow /\ p \notin agents
      /\ \A q \in Requests \ {r} : at[q] \in Creating => input[q].phone # p
  BY DEF IInv, InputInv, CreatingInv, Creating
<1>2. /\ UNCHANGED <<passwords, published, active, jwksKeys, users, agents, otp,
                     lastCode, tokens, input, certs>>
      /\ at' = [at EXCEPT ![r] = "insert"]
  BY DEF AssignRealmRole, keycloak
<1>3. \/ realm' = [realm EXCEPT ![p] = realm[p] \cup {input[r].role}]
      \/ realm' = realm
  BY DEF AssignRealmRole, keycloak
<1>4. realm[p] \cup {input[r].role} \in SUBSET Roles
  BY <1>1, Values DEF IInv, TypeOK, KeycloakTypeOK
<1>5. /\ realm' \in [Phones -> (SUBSET Roles) \cup {NoAccount}]
      /\ \A q \in Phones \ {p} : realm'[q] = realm[q]
      /\ realm'[p] \subseteq {input[r].role}
  BY <1>1, <1>3, <1>4 DEF IInv, TypeOK, KeycloakTypeOK
<1>6. HasAccount(p)'
  BY <1>1, <1>5, Values DEF HasAccount
<1>7. \A q \in Phones : HasAccount(q)' <=> HasAccount(q)
  BY <1>1, <1>5, <1>6 DEF HasAccount
<1>8. TypeOK'
  BY <1>2, <1>5 DEF IInv, TypeOK, KeycloakTypeOK, Places
<1>9. InputInv'
  BY <1>1, <1>2 DEF IInv, TypeOK, InputInv, Creating, Checking, Exchanging
<1>10. CreatingInv'
  <2> SUFFICES ASSUME NEW s \in Requests, at'[s] \in Creating
               PROVE  /\ HasAccount(input[s].phone)'
                      /\ realm'[input[s].phone] \subseteq {input[s].role}
                      /\ users[input[s].phone] = NoRow
                      /\ input[s].phone \notin agents
                      /\ \A q \in Requests \ {s} :
                             at'[q] \in Creating => input[q].phone # input[s].phone
    BY <1>2 DEF CreatingInv
  <2>1. \A q \in Requests : at'[q] \in Creating <=> at[q] \in Creating
    BY <1>1, <1>2 DEF IInv, TypeOK, Creating
  <2>2. input[s].phone \in Phones
    BY <2>1 DEF IInv, InputInv
  <2>3. CASE s = r
    BY <1>1, <1>5, <1>6, <2>1, <2>3
  <2>4. CASE s # r
    <3>1. input[s].phone # p
      BY <1>1, <2>1, <2>4
    <3> QED
      BY <1>5, <1>7, <2>1, <2>2, <3>1 DEF IInv, CreatingInv
  <2> QED
    BY <2>3, <2>4
<1>11. OneAccountPerPhone' /\ RolesFollowRow'
  BY <1>1, <1>2, <1>5, <1>7 DEF IInv, OneAccountPerPhone, RolesFollowRow,
        IsUser
<1>12. PasswordInv'
  BY <1>1, <1>2, <1>7 DEF IInv, TypeOK, KeycloakTypeOK, PasswordInv, IsUser
<1>13. FetchedKeysStay' /\ TokenInv' /\ StaleInv'
  BY <1>1, <1>2 DEF IInv, TypeOK, FetchedKeysStay, TokenInv, Held, IsUser,
     StaleInv, StaleCodeIsRefused, IsStored, Exchanging
<1> QED
  BY <1>8, <1>9, <1>10, <1>11, <1>12, <1>13 DEF IInv

\* The row of the phone's owner is its only one.
LEMMA InsertRowKeeps ==
    ASSUME IInv, NEW r \in Requests, InsertRow(r)
    PROVE  IInv'
<1> DEFINE p == input[r].phone
<1> USE DEF InsertRow
<1>1. CASE Answer(r) /\ UNCHANGED tables
  BY <1>1, AnswerKeeps DEF Quiet
<1>2. CASE /\ GoTo(r, "send")
           /\ \/ /\ input[r].kind = "register"
                 /\ InsertUser(p, input[r].role)
              \/ /\ input[r].kind = "agents/register"
                 /\ InsertAgent(p)
  <2>1. /\ at[r] = "insert" /\ p \in Phones
        /\ input[r].role \in SignUpRoles
        /\ input[r].kind = "agents/register" => input[r].role = "agent"
        /\ HasAccount(p) /\ realm[p] \subseteq {input[r].role}
        /\ users[p] = NoRow /\ p \notin agents
        /\ \A q \in Requests \ {r} : at[q] \in Creating => input[q].phone # p
    BY DEF IInv, InputInv, CreatingInv, Creating
  <2> USE <1>2 DEF GoTo, keycloak, redis
  <2>2. \A q \in Requests : at'[q] \in Creating => q # r /\ at[q] \in Creating
    BY DEF IInv, TypeOK, Creating
  <2>3. /\ users' \in [Phones -> SignUpRoles \cup {NoRow}]
        /\ agents' \subseteq Phones
        /\ \A q \in Phones \ {p} : users'[q] = users[q] /\ (q \in agents' <=> q \in agents)
        /\ ~(users'[p] # NoRow /\ p \in agents')
        /\ users'[p] # NoRow => users'[p] = input[r].role
        /\ p \in agents' => input[r].role = "agent"
    BY <1>2, <2>1 DEF IInv, TypeOK, InsertUser, InsertAgent
  <2>4. TypeOK'
    BY <2>3 DEF IInv, TypeOK, KeycloakTypeOK, Places
  <2>5. InputInv'
    BY <2>1 DEF IInv, TypeOK, InputInv, Creating, Checking, Exchanging
  <2>6. CreatingInv'
    BY <2>1, <2>2, <2>3 DEF IInv, InputInv, CreatingInv, HasAccount
  <2>7. OneAccountPerPhone' /\ RolesFollowRow'
    BY <2>1, <2>3 DEF IInv, OneAccountPerPhone, RolesFollowRow, IsUser, HasAccount
  <2>8. PasswordInv'
    <3>1. \A q \in Requests : at'[q] \in {"password", "token"} =>
              at[q] \in {"password", "token"} /\ input[q].phone \in Phones
      BY DEF IInv, TypeOK, InputInv, Exchanging
    <3>2. \A q \in Phones : users[q] # NoRow => users'[q] # NoRow
      BY <2>1, <2>3
    <3> QED
      BY <3>1, <3>2 DEF IInv, PasswordInv, HasAccount, IsUser
  <2>9. FetchedKeysStay'
    BY DEF IInv, TypeOK, FetchedKeysStay
  <2>10. TokenInv'
    <3>1. \A t \in Held : t.phone \in Phones
      BY DEF IInv, TypeOK, Held, Token
    <3> QED
      BY <2>1, <2>3, <3>1 DEF IInv, TypeOK, TokenInv, Held, IsUser, Exchanging
  <2>11. StaleInv'
    BY DEF IInv, TypeOK, StaleInv, StaleCodeIsRefused, IsStored
  <2> QED
    BY <2>4, <2>5, <2>6, <2>7, <2>8, <2>9, <2>10, <2>11 DEF IInv
<1> QED
  BY <1>1, <1>2

-----------------------------------------------------------------------------
(* One-time codes and tokens.                                              *)

\* A new code is the last one.
LEMMA SendOTPKeeps ==
    ASSUME IInv, NEW r \in Requests, SendOTP(r)
    PROVE  IInv'
<1> DEFINE p == input[r].phone
<1> USE DEF SendOTP
<1>1. CASE UNCHANGED redis
  BY <1>1, AnswerKeeps DEF Quiet
<1>2. CASE StoreCode(p)
  <2> USE <1>2 DEF StoreCode, Answer, keycloak, tables
  <2>1. p \in Phones /\ Answer(r)
    BY DEF IInv, InputInv
  <2>2. /\ lastCode' \in [Phones -> 0..MaxCodes]
        /\ otp' \in [Phones -> 0..MaxCodes]
        /\ \A q \in Phones : otp'[q] <= lastCode'[q]
        /\ \A q \in Phones : lastCode[q] <= lastCode'[q]
    BY <2>1, Values DEF IInv, TypeOK
  <2>3. TypeOK'
    BY <2>1, <2>2, RequestsTyped DEF IInv, TypeOK, KeycloakTypeOK
  <2>4. InputInv'
    BY Values DEF IInv, TypeOK, InputInv, Creating, Checking, Exchanging
  <2>5. CreatingInv'
    BY DEF IInv, TypeOK, CreatingInv, HasAccount, Creating
  <2>6. OneAccountPerPhone' /\ RolesFollowRow'
    BY DEF IInv, OneAccountPerPhone, RolesFollowRow, IsUser, HasAccount
  <2>7. PasswordInv' /\ FetchedKeysStay'
    BY DEF IInv, TypeOK, PasswordInv, FetchedKeysStay, HasAccount, IsUser
  <2>8. TokenInv'
    <3>1. \A q \in Phones : lastCode[q] \in Nat /\ lastCode'[q] \in Nat
      BY <2>2 DEF IInv, TypeOK
    <3>2. \A q \in Requests : at'[q] \in Exchanging =>
              /\ at[q] \in Exchanging /\ input'[q] = input[q]
              /\ input[q].phone \in Phones
      BY DEF IInv, TypeOK, InputInv, Exchanging
    <3>3. \A t \in Held : t.phone \in Phones
      BY DEF IInv, TypeOK, Held, Token
    <3>4. ASSUME NEW q \in Requests, at'[q] \in Exchanging
          PROVE  input'[q].code \in 1..lastCode'[input'[q].phone]
      BY <2>2, <3>1, <3>2, <3>4 DEF IInv, TokenInv, Exchanging
    <3>5. ASSUME NEW t \in Held' PROVE lastCode'[t.phone] > 0 /\ IsUser(t.phone)'
      BY <2>2, <3>1, <3>3 DEF IInv, TokenInv, Held, IsUser
    <3> QED
      BY <3>4, <3>5 DEF TokenInv
  <2>9. StaleInv'
    <3>1. /\ \A q \in Phones : lastCode[q] \in Nat /\ lastCode'[q] \in Nat
          /\ \A q \in Phones : otp'[q] = otp[q] \/ otp'[q] > lastCode[q]
      BY <2>1, <2>2 DEF IInv, TypeOK
    <3>2. \A q \in Requests : at'[q] \in Exchanging \cup {"code"} =>
              /\ at[q] = at'[q] /\ input'[q] = input[q] /\ stale'[q] = stale[q]
              /\ input[q].phone \in Phones
      BY DEF IInv, TypeOK, InputInv, Exchanging
    <3>3. StaleCodeIsRefused'
      BY <3>2 DEF IInv, StaleInv, StaleCodeIsRefused, Exchanging
    <3>4. ASSUME NEW q \in Requests, at'[q] = "code"
          PROVE  /\ input[q].code \in 0..lastCode'[input[q].phone]
                 /\ stale[q] => ~(/\ otp'[input[q].phone] # 0
                                  /\ otp'[input[q].phone] = input[q].code)
      <4>1. /\ input[q].phone \in Phones
            /\ input[q].code \in 0..lastCode[input[q].phone]
            /\ stale[q] => ~IsStored(input[q].phone, input[q].code)
        BY <3>2, <3>4 DEF IInv, StaleInv
      <4>2. input[q].code \in 0..lastCode'[input[q].phone]
        BY <2>2, <3>1, <4>1
      <4>3. ~(otp'[input[q].phone] > lastCode[input[q].phone]
              /\ otp'[input[q].phone] = input[q].code)
        BY <3>1, <4>1
      <4> QED
        BY <3>1, <4>1, <4>2, <4>3 DEF IsStored
    <3> QED
      BY <3>2, <3>3, <3>4 DEF StaleInv, IsStored
  <2> QED
    BY <2>3, <2>4, <2>5, <2>6, <2>7, <2>8, <2>9 DEF IInv
<1> QED
  BY <1>1, <1>2

\* A code that was compared goes, or stays.
LEMMA ConsumeCodeKeeps ==
    ASSUME IInv, NEW r \in Requests, ConsumeCode(r)
    PROVE  IInv'
<1> USE DEF ConsumeCode, GoTo, keycloak, tables
<1>1. input[r].phone \in Phones /\ at[r] = "consume"
  BY DEF IInv, InputInv, Exchanging
<1>2. TypeOK'
  <2>1. /\ otp' \in [Phones -> 0..MaxCodes]
        /\ \A q \in Phones : otp'[q] <= lastCode[q]
    BY <1>1, Values DEF IInv, TypeOK
  <2> QED
    BY <1>1, <2>1 DEF IInv, TypeOK, KeycloakTypeOK, Places
<1>3. InputInv'
  BY DEF IInv, TypeOK, InputInv, Creating, Checking, Exchanging
<1>4. CreatingInv'
  BY DEF IInv, TypeOK, CreatingInv, HasAccount, Creating
<1>5. OneAccountPerPhone' /\ RolesFollowRow'
  BY DEF IInv, OneAccountPerPhone, RolesFollowRow, IsUser, HasAccount
<1>6. PasswordInv' /\ FetchedKeysStay'
  BY DEF IInv, TypeOK, PasswordInv, FetchedKeysStay, HasAccount, IsUser
<1>7. TokenInv'
  BY DEF IInv, TypeOK, TokenInv, Held, IsUser, Exchanging
<1>8. StaleInv'
  <2>1. \A q \in Phones : otp'[q] = otp[q] \/ otp'[q] = 0
    BY DEF IInv, TypeOK
  <2>2. StaleCodeIsRefused'
    BY <1>1 DEF IInv, TypeOK, StaleInv, StaleCodeIsRefused
  <2>3. \A q \in Requests : at'[q] = "code" => at[q] = "code" /\ input[q].phone \in Phones
    BY <1>1 DEF IInv, TypeOK, InputInv
  <2> QED
    BY <2>1, <2>2, <2>3 DEF IInv, StaleInv, IsStored
<1> QED
  BY <1>2, <1>3, <1>4, <1>5, <1>6, <1>7, <1>8 DEF IInv

\* The password is that of an account.
LEMMA SetPasswordKeeps ==
    ASSUME IInv, NEW r \in Requests, SetPassword(r)
    PROVE  IInv'
<1> DEFINE p == input[r].phone
<1>1. /\ at[r] = "password" /\ p \in Phones /\ IsUser(p)
      /\ input[r].code \in 1..lastCode[p]
  BY DEF SetPassword, IInv, InputInv, PasswordInv, TokenInv, Exchanging
<1>2. CASE UNCHANGED keycloak /\ Answer(r)
  BY <1>2, AnswerKeeps DEF SetPassword, Quiet
<1>3. CASE SetTemporaryPassword(p) /\ (GoTo(r, "token") \/ Answer(r))
  <2> USE <1>1, <1>3 DEF SetPassword, SetTemporaryPassword, tables, redis
  <2>1. TypeOK'
    BY RequestsTyped DEF IInv, TypeOK, KeycloakTypeOK, Places
  <2>2. OneAccountPerPhone' /\ RolesFollowRow'
    BY DEF IInv, OneAccountPerPhone, RolesFollowRow, IsUser, HasAccount
  <2>3. CASE GoTo(r, "token")
    <3> USE <2>3 DEF GoTo
    <3>1. InputInv'
      BY DEF IInv, TypeOK, InputInv, Creating, Checking, Exchanging
    <3>2. CreatingInv'
      BY DEF IInv, TypeOK, CreatingInv, HasAccount, Creating
    <3>3. PasswordInv' /\ FetchedKeysStay'
      BY DEF IInv, TypeOK, PasswordInv, FetchedKeysStay, HasAccount, IsUser
    <3>4. TokenInv' /\ StaleInv'
      BY DEF IInv, TypeOK, TokenInv, Held, IsUser, StaleInv, StaleCodeIsRefused,
             IsStored, Exchanging
    <3> QED
      BY <2>1, <2>2, <3>1, <3>2, <3>3, <3>4 DEF IInv
  <2>4. CASE Answer(r)
    <3> USE <2>4 DEF Answer
    <3>1. InputInv'
      BY Values DEF IInv, TypeOK, InputInv, Creating, Checking, Exchanging
    <3>2. CreatingInv'
      BY DEF IInv, TypeOK, CreatingInv, HasAccount, Creating
    <3>3. PasswordInv' /\ FetchedKeysStay'
      BY DEF IInv, TypeOK, PasswordInv, FetchedKeysStay, HasAccount, IsUser
    <3>4. TokenInv' /\ StaleInv'
      BY DEF IInv, TypeOK, TokenInv, Held, IsUser, StaleInv, StaleCodeIsRefused,
             IsStored, Exchanging
    <3> QED
      BY <2>1, <2>2, <3>1, <3>2, <3>3, <3>4 DEF IInv
  <2> QED
    BY <2>3, <2>4
<1> QED
  BY <1>2, <1>3 DEF SetPassword

\* The token Keycloak signs for a user names that user.
LEMMA SignedTokenFacts ==
    ASSUME IInv, NEW p \in Phones, IsUser(p)
    PROVE  SignedToken(p) \in Token /\ SignedToken(p).phone = p
<1>1. realm[p] \in SUBSET Roles
  <2>1. realm[p] # NoAccount
    BY DEF IInv, OneAccountPerPhone, HasAccount
  <2> QED
    BY <2>1 DEF IInv, TypeOK, KeycloakTypeOK
<1>2. active \in Kids
  BY DEF IInv, TypeOK, KeycloakTypeOK
<1> QED
  BY <1>1, <1>2 DEF SignedToken, Token

\* A client is given the token of a user who was sent a code.
LEMMA TokenKeeps ==
    ASSUME IInv, NEW p \in Phones, IsUser(p), lastCode[p] > 0,
           tokens' = [tokens EXCEPT ![p] = SignedToken(p)],
           UNCHANGED <<keycloak, jwksKeys, tables, redis>>,
           UNCHANGED requests \/ \E r \in Requests : Answer(r)
    PROVE  IInv'
<1> USE DEF keycloak, tables, redis
<1>1. /\ at' \in [Requests -> Places]
      /\ input' \in [Requests -> Inputs]
      /\ certs' \in [Requests -> SUBSET Kids]
      /\ stale' \in [Requests -> BOOLEAN]
  BY RequestsTyped DEF IInv, TypeOK, requests
<1>2. \A q \in Requests :
          \/ /\ at'[q] = at[q] /\ input'[q] = input[q]
             /\ certs'[q] = certs[q] /\ stale'[q] = stale[q]
          \/ at'[q] = "idle" /\ input'[q].kind = "none"
  BY Values DEF IInv, TypeOK, requests, Answer
<1>3. TypeOK'
  BY <1>1, SignedTokenFacts DEF IInv, TypeOK, KeycloakTypeOK
<1>4. InputInv'
  BY <1>2 DEF IInv, InputInv, Creating, Checking, Exchanging
<1>5. CreatingInv'
  BY <1>2 DEF IInv, CreatingInv, HasAccount, Creating
<1>6. OneAccountPerPhone' /\ RolesFollowRow'
  BY DEF IInv, OneAccountPerPhone, RolesFollowRow, IsUser, HasAccount
<1>7. PasswordInv' /\ FetchedKeysStay'
  BY <1>2 DEF IInv, PasswordInv, FetchedKeysStay, HasAccount, IsUser
<1>8. TokenInv'
  <2>1. ASSUME NEW t \in Held' PROVE t \in Held \/ t = SignedToken(p)
    BY <2>1 DEF IInv, TypeOK, Held
  <2>2. ASSUME NEW t \in Held' PROVE lastCode[t.phone] > 0 /\ IsUser(t.phone)
    BY <2>1, <2>2, SignedTokenFacts DEF IInv, TokenInv
  <2>3. ASSUME NEW q \in Requests, at'[q] \in Exchanging
        PROVE  input'[q].code \in 1..lastCode[input'[q].phone]
    BY <1>2, <2>3 DEF IInv, TokenInv, Exchanging
  <2> QED
    BY <2>2, <2>3 DEF TokenInv, IsUser
<1>9. StaleInv'
  BY <1>2 DEF IInv, StaleInv, StaleCodeIsRefused, IsStored
<1> QED
  BY <1>3, <1>4, <1>5, <1>6, <1>7, <1>8, <1>9 DEF IInv

\* The grant ends a verification.
LEMMA GrantTokenKeeps ==
    ASSUME IInv, NEW r \in Requests, GrantToken(r)
    PROVE  IInv'
<1> DEFINE p == input[r].phone
<1> USE DEF GrantToken
<1>1. /\ at[r] = "token" /\ p \in Phones /\ IsUser(p)
      /\ input[r].code \in 1..lastCode[p]
  BY DEF IInv, InputInv, PasswordInv, TokenInv, Exchanging
<1>2. CASE UNCHANGED tokens
  BY <1>2, AnswerKeeps DEF Quiet
<1>3. CASE \E t \in GetToken(p) : tokens' = [tokens EXCEPT ![t.phone] = t]
  <2>1. tokens' = [tokens EXCEPT ![p] = SignedToken(p)]
    BY <1>1, <1>3, SignedTokenFacts DEF GetToken
  <2>2. lastCode[p] > 0
    BY <1>1 DEF IInv, TypeOK
  <2> QED
    BY <1>1, <2>1, <2>2, TokenKeeps
<1> QED
  BY <1>2, <1>3

\* A refresh gives a holder of a token the next one.
LEMMA RefreshKeeps ==
    ASSUME IInv, NEW t \in Held, Refresh(t)
    PROVE  IInv'
<1>1. t.phone \in Phones /\ lastCode[t.phone] > 0 /\ IsUser(t.phone)
  BY DEF IInv, TypeOK, Held, Token, TokenInv
<1>2. tokens' = [tokens EXCEPT ![t.phone] = SignedToken(t.phone)]
  BY <1>1, SignedTokenFacts DEF Refresh, RefreshToken
<1> QED
  BY <1>1, <1>2, TokenKeeps DEF Refresh

-----------------------------------------------------------------------------
(* Requests begin; codes expire; keys rotate; the process stops.           *)

\* A request starts where its input is complete.
LEMMA ReceiveKeeps ==
    ASSUME IInv, NEW r \in Requests, NEW place, NEW request \in Inputs,
           Receive(r, place, request),
           \/ /\ place = "create"
              /\ request.kind = "register"
              /\ request.phone \in Phones
              /\ request.role \in SignUpRoles
           \/ /\ place \in {"find", "code"}
              /\ request.kind \in {"login", "verify"}
              /\ request.phone \in Phones
              /\ place = "code" => /\ request.kind = "verify"
                                   /\ request.code \in 0..lastCode[request.phone]
           \/ /\ place = "lookup"
              /\ request.token \in Token
              /\ request.kind = "agents/register" =>
                     request.phone \in Phones /\ request.role = "agent"
    PROVE  IInv'
<1> USE DEF Receive, keycloak, tables, redis
<1>1. TypeOK'
  BY DEF IInv, TypeOK, KeycloakTypeOK, Places
<1>2. InputInv'
  BY DEF IInv, TypeOK, InputInv, Creating, Checking, Exchanging
<1>3. CreatingInv'
  BY DEF IInv, TypeOK, CreatingInv, HasAccount, Creating
<1>4. OneAccountPerPhone' /\ RolesFollowRow'
  BY DEF IInv, OneAccountPerPhone, RolesFollowRow, IsUser, HasAccount
<1>5. PasswordInv' /\ FetchedKeysStay'
  BY DEF IInv, TypeOK, PasswordInv, FetchedKeysStay, HasAccount, IsUser
<1>6. TokenInv' /\ StaleInv'
  BY DEF IInv, TypeOK, TokenInv, Held, IsUser, StaleInv, StaleCodeIsRefused,
         IsStored, Exchanging
<1> QED
  BY <1>1, <1>2, <1>3, <1>4, <1>5, <1>6 DEF IInv

\* The public routes.
LEMMA ReceivePublicKeeps ==
    ASSUME IInv, NEW r \in Requests, NEW p \in Phones, ReceivePublic(r, p)
    PROVE  IInv'
<1> USE DEF Input, Inputs, Kinds
<1>1. CASE \E role \in SignUpRoles :
               Receive(r, "create", Input("register", p, role, 0, NoToken))
  <2> PICK role \in SignUpRoles :
               Receive(r, "create", Input("register", p, role, 0, NoToken))
    BY <1>1
  <2>1. Input("register", p, role, 0, NoToken) \in Inputs
    BY Values
  <2> QED
    BY <2>1, ReceiveKeeps
<1>2. CASE Receive(r, "find", Input("login", p, NoRole, 0, NoToken))
  <2>1. Input("login", p, NoRole, 0, NoToken) \in Inputs
    BY Values
  <2> QED
    BY <1>2, <2>1, ReceiveKeeps
<1>3. CASE \E code \in 0..lastCode[p] :
               Receive(r, "code", Input("verify", p, NoRole, code, NoToken))
  <2> PICK code \in 0..lastCode[p] :
               Receive(r, "code", Input("verify", p, NoRole, code, NoToken))
    BY <1>3
  <2>1. code \in 0..MaxCodes
    BY Values DEF IInv, TypeOK
  <2>2. Input("verify", p, NoRole, code, NoToken) \in Inputs
    BY <2>1
  <2> QED
    BY <2>2, ReceiveKeeps
<1> QED
  BY <1>1, <1>2, <1>3 DEF ReceivePublic

\* The protected routes.
LEMMA ReceiveProtectedKeeps ==
    ASSUME IInv, NEW r \in Requests, NEW t \in Held, ReceiveProtected(r, t)
    PROVE  IInv'
<1> USE DEF Input, Inputs, Kinds
<1>1. t \in Token
  BY DEF IInv, TypeOK, Held
<1>2. CASE \E p \in Phones :
               Receive(r, "lookup", Input("agents/register", p, "agent", 0, t))
  <2> PICK p \in Phones :
               Receive(r, "lookup", Input("agents/register", p, "agent", 0, t))
    BY <1>2
  <2>1. Input("agents/register", p, "agent", 0, t) \in Inputs
    BY <1>1, Values DEF SignUpRoles
  <2> QED
    BY <1>1, <2>1, ReceiveKeeps
<1>3. CASE Receive(r, "lookup", Input("agents/me", "none", NoRole, 0, t))
  <2>1. Input("agents/me", "none", NoRole, 0, t) \in Inputs
    BY <1>1, Values
  <2> QED
    BY <1>1, <1>3, <2>1, ReceiveKeeps
<1> QED
  BY <1>2, <1>3 DEF ReceiveProtected

\* Nothing depends on a code that is still stored.
LEMMA CodeExpiresKeeps ==
    ASSUME IInv, NEW p \in Phones, CodeExpires(p)
    PROVE  IInv'
<1> USE DEF CodeExpires, keycloak, tables, requests
<1>1. TypeOK'
  <2>1. /\ otp' \in [Phones -> 0..MaxCodes]
        /\ \A q \in Phones : otp'[q] <= lastCode[q]
    BY Values DEF IInv, TypeOK
  <2> QED
    BY <2>1 DEF IInv, TypeOK, KeycloakTypeOK
<1>2. InputInv' /\ CreatingInv' /\ PasswordInv' /\ FetchedKeysStay'
  BY DEF IInv, InputInv, CreatingInv, PasswordInv, FetchedKeysStay, HasAccount, IsUser
<1>3. OneAccountPerPhone' /\ RolesFollowRow' /\ TokenInv' /\ StaleInv'
  BY DEF IInv, OneAccountPerPhone, RolesFollowRow, TokenInv, IsUser, HasAccount, Held,
         StaleInv, StaleCodeIsRefused, IsStored, Exchanging
<1> QED
  BY <1>1, <1>2, <1>3 DEF IInv

\* The published keys are not the cached ones.
LEMMA AdministerKeeps ==
    ASSUME IInv, Administer
    PROVE  IInv'
<1> USE DEF Administer, RotateKey, RetireKey, tables, redis, requests
<1>1. TypeOK'
  BY DEF IInv, TypeOK, KeycloakTypeOK
<1>2. InputInv' /\ CreatingInv' /\ PasswordInv' /\ FetchedKeysStay'
  BY DEF IInv, InputInv, CreatingInv, PasswordInv, FetchedKeysStay, HasAccount, IsUser
<1>3. OneAccountPerPhone' /\ RolesFollowRow' /\ TokenInv' /\ StaleInv'
  BY DEF IInv, OneAccountPerPhone, RolesFollowRow, TokenInv, IsUser, HasAccount, Held,
         StaleInv, StaleCodeIsRefused, IsStored, Exchanging
<1> QED
  BY <1>1, <1>2, <1>3 DEF IInv

\* After a stop there is no request left to promise anything.
LEMMA CrashKeeps ==
    ASSUME IInv, Crash
    PROVE  IInv'
<1> USE DEF Crash, keycloak, tables, redis
<1>1. TypeOK'
  BY Values DEF IInv, TypeOK, KeycloakTypeOK, Places
<1>2. InputInv' /\ CreatingInv' /\ PasswordInv' /\ FetchedKeysStay'
  BY Values DEF IInv, InputInv, CreatingInv, PasswordInv, FetchedKeysStay,
                HasAccount, IsUser, Creating, Checking, Exchanging
<1>3. OneAccountPerPhone' /\ RolesFollowRow' /\ TokenInv' /\ StaleInv'
  BY DEF IInv, OneAccountPerPhone, RolesFollowRow, TokenInv, IsUser, HasAccount, Held,
         StaleInv, StaleCodeIsRefused, IsStored, Exchanging
<1> QED
  BY <1>1, <1>2, <1>3 DEF IInv

-----------------------------------------------------------------------------

\* The registered landowners have their accounts, rows and tokens.
LEMMA InitIInv == Init => IInv
<1> SUFFICES ASSUME Init PROVE IInv
  OBVIOUS
<1> USE DEF Init, KeycloakInit, NewKeycloakClient
<1>1. \A p \in Registered :
          /\ HasAccount(p) /\ SignedToken(p) \in Token /\ SignedToken(p).phone = p
  BY Values, KeycloakAssumptions DEF HasAccount, SignUpRoles, SignedToken, Token
<1>2. TypeOK
  <2>1. KeycloakTypeOK
    BY Values, KeycloakAssumptions DEF KeycloakTypeOK, SignUpRoles
  <2>2. users \in [Phones -> SignUpRoles \cup {NoRow}] /\ agents \subseteq Phones
    BY DEF SignUpRoles
  <2>3. /\ lastCode \in [Phones -> 0..MaxCodes] /\ otp \in [Phones -> 0..MaxCodes]
        /\ \A p \in Phones : otp[p] <= lastCode[p]
    BY Values
  <2>4. tokens \in [Phones -> Token \cup {NoToken}]
    BY <1>1
  <2>5. /\ at \in [Requests -> Places] /\ input \in [Requests -> Inputs]
        /\ certs \in [Requests -> SUBSET Kids]
        /\ stale \in [Requests -> BOOLEAN]
    BY Values DEF Places
  <2> QED
    BY <2>1, <2>2, <2>3, <2>4, <2>5 DEF TypeOK
<1>3. InputInv /\ CreatingInv /\ FetchedKeysStay
  BY Values DEF InputInv, CreatingInv, FetchedKeysStay, Creating, Checking, Exchanging
<1>4. OneAccountPerPhone /\ RolesFollowRow
  BY <1>1 DEF OneAccountPerPhone, RolesFollowRow, IsUser, NoRow
<1>5. PasswordInv
  BY <1>1 DEF PasswordInv
<1>6. TokenInv
  <2>1. ASSUME NEW t \in Held
        PROVE  \E p \in Registered : t = SignedToken(p)
    <3> PICK p \in Phones : t = tokens[p] /\ t # NoToken
      BY DEF Held
    <3> QED
      OBVIOUS
  <2>2. \A p \in Registered : p \in Phones
    BY KeycloakAssumptions
  <2>3. \A p \in Registered : users[p] = "landowner"
    BY <2>2
  <2>4. \A p \in Registered : lastCode[p] = MaxCodes
    BY <2>2
  <2>5. MaxCodes > 0
    BY Values
  <2>6. ASSUME NEW t \in Held PROVE lastCode[t.phone] > 0 /\ IsUser(t.phone)
    <3> PICK p \in Registered : t = SignedToken(p)
      BY <2>1
    <3>1. t.phone = p
      BY <1>1
    <3> QED
      BY <2>3, <2>4, <2>5, <3>1 DEF IsUser, NoRow
  <2>7. \A r \in Requests : at[r] = "idle"
    OBVIOUS
  <2> QED
    BY <2>6, <2>7 DEF TokenInv, Exchanging
<1>7. StaleInv
  BY DEF StaleInv, StaleCodeIsRefused
<1> QED
  BY <1>2, <1>3, <1>4, <1>5, <1>6, <1>7 DEF IInv

\* The invariant holds in every state.
THEOREM Invariance == Spec => []IInv
<1>1. IInv /\ [Next]_vars => IInv'
  <2> SUFFICES ASSUME IInv, [Next]_vars PROVE IInv'
    OBVIOUS
  <2>1. ASSUME NEW r \in Requests, NEW p \in Phones, ReceivePublic(r, p) PROVE IInv'
    BY <2>1, ReceivePublicKeeps
  <2>2. ASSUME NEW r \in Requests, NEW t \in Held, ReceiveProtected(r, t) PROVE IInv'
    BY <2>2, ReceiveProtectedKeeps
  <2>3. ASSUME NEW r \in Requests, Step(r) PROVE IInv'
    BY <2>3, CheckingKeeps, FetchJWKSKeeps, ApplyJWKSKeeps, CreateAccountKeeps,
       AssignRoleKeeps, InsertRowKeeps, SendOTPKeeps, LookupKeeps,
       ConsumeCodeKeeps, SetPasswordKeeps, GrantTokenKeeps DEF Step
  <2>4. ASSUME NEW p \in Phones, CodeExpires(p) PROVE IInv'
    BY <2>4, CodeExpiresKeeps
  <2>5. ASSUME NEW t \in Held, Refresh(t) PROVE IInv'
    BY <2>5, RefreshKeeps
  <2>6. CASE UNCHANGED vars
    BY <2>6 DEF vars, keycloak, tables, redis, requests, IInv, TypeOK, KeycloakTypeOK,
       InputInv, CreatingInv, PasswordInv, OneAccountPerPhone, RolesFollowRow,
       FetchedKeysStay, TokenInv, StaleInv, StaleCodeIsRefused, IsStored,
       HasAccount, IsUser, Held
  <2> QED
    BY <2>1, <2>2, <2>3, <2>4, <2>5, <2>6, AdministerKeeps, CrashKeeps DEF Next
<1> QED
  BY InitIInv, <1>1, PTL DEF Spec

\* Accounts, rows, codes, tokens and requests keep their types.
THEOREM AccountsTypeCorrect == Spec => []TypeOK
<1>1. IInv => TypeOK
  BY DEF IInv
<1> QED
  BY Invariance, <1>1, PTL

\* However many registrations of a phone overlap, fail and are repeated at
\* the two endpoints, it ends up in one table at most, with its account.
THEOREM PhoneHasOneAccount == Spec => []OneAccountPerPhone
<1>1. IInv => OneAccountPerPhone
  BY DEF IInv
<1> QED
  BY Invariance, <1>1, PTL

\* No account has a realm role that its row does not give it.
THEOREM RowGivesRoles == Spec => []RolesFollowRow
<1>1. IInv => RolesFollowRow
  BY DEF IInv
<1> QED
  BY Invariance, <1>1, PTL

\* A key that a refresh fetched is there for the lookup after it, for any
\* number of overlapping refreshes.
THEOREM KeysStay == Spec => []FetchedKeysStay
<1>1. IInv => FetchedKeysStay
  BY DEF IInv
<1> QED
  BY Invariance, <1>1, PTL

\* A stale code is refused, for any number of verifications, resends and
\* stops.
THEOREM StaleCodesAreRefused == Spec => []StaleCodeIsRefused
<1>1. IInv => StaleCodeIsRefused
  BY DEF IInv, StaleInv
<1> QED
  BY Invariance, <1>1, PTL
=============================================================================
