--------------------------- MODULE KeycloakClient ---------------------------
(***************************************************************************)
(* internal/auth/keycloak.go: the client every process of the monolith     *)
(* keeps of its identity server.  Keycloak itself is external: a realm of  *)
(* accounts, one per username (a phone), each with its realm roles and a   *)
(* password, and a set of published signing keys, one of which is active.  *)
(* The client caches the keys (jwksKeys); a refresh is a request whose     *)
(* response is applied later, under the lock, so refreshes overlap.        *)
(***************************************************************************)
CONSTANTS
    Phones,     \* the usernames of the realm
    Roles,      \* the realm roles
    Kids,       \* the signing keys Keycloak will ever have
    FirstKid,   \* the one it starts with
    Registered  \* the landowners that are registered and logged in already

ASSUME KeycloakAssumptions ==
    /\ FirstKid \in Kids
    /\ Registered \subseteq Phones
    /\ {"landowner", "agent"} \subseteq Roles

VARIABLES
    realm,      \* Keycloak: the accounts, phone -> its roles, or NoAccount
    passwords,  \* Keycloak: the accounts that have the temporary password
    published,  \* Keycloak: the keys its certs endpoint lists
    active,     \* Keycloak: the key that signs new tokens
    jwksKeys    \* the client's cached keys

keycloak == <<realm, passwords, published, active>>

NoAccount == {"no account"}
Token == [phone: Phones, roles: SUBSET Roles, kid: Kids]

KeycloakTypeOK ==
    /\ realm \in [Phones -> (SUBSET Roles) \cup {NoAccount}]
    /\ passwords \subseteq Phones
    /\ published \subseteq Kids
    /\ active \in published
    /\ jwksKeys \subseteq Kids

KeycloakInit ==
    /\ realm = [p \in Phones |-> IF p \in Registered THEN {"landowner"}
                                                    ELSE NoAccount]
    /\ passwords = Registered
    /\ published = {FirstKid}
    /\ active = FirstKid

NewKeycloakClient == jwksKeys = {}

HasAccount(p) == realm[p] # NoAccount

\* Mutant: an existing account is taken over, as if the call had created it.
CreateUser_IgnoresConflict(p) ==
    /\ realm' = IF HasAccount(p) THEN realm ELSE [realm EXCEPT ![p] = {}]
    /\ UNCHANGED <<passwords, published, active>>

\* POST users: 201 for a new username; an existing one is a conflict.
CreateUser(p) ==
    /\ ~HasAccount(p)
    /\ realm' = [realm EXCEPT ![p] = {}]
    /\ UNCHANGED <<passwords, published, active>>

\* GET the role, then POST the mapping; only the second changes anything.
AssignRealmRole(p, role) ==
    /\ HasAccount(p)
    /\ realm' = [realm EXCEPT ![p] = @ \cup {role}]
    /\ UNCHANGED <<passwords, published, active>>

SetTemporaryPassword(p) ==
    /\ HasAccount(p)
    /\ passwords' = passwords \cup {p}
    /\ UNCHANGED <<realm, published, active>>

\* The token that Keycloak signs for an account, now.
SignedToken(p) == [phone |-> p, roles |-> realm[p], kid |-> active]

\* The direct grant: the account's token, for its password.
GetToken(p) == {t \in {SignedToken(p)} : p \in passwords}

\* The refresh grant: a new token of the account that was given the old one.
RefreshToken(t) == {SignedToken(t.phone)}

\* What the certs endpoint answers a refresh that reaches it now.
FetchCerts == published

\* Mutant: a refresh replaces the map instead of adding to it.
RefreshJWKS_Replaces(certs) == jwksKeys' = certs

\* The response is applied: the map only grows.
RefreshJWKS(certs) == jwksKeys' = jwksKeys \cup certs

\* Both looks of GetPublicKey.  The first also asks that the last refresh is
\* less than an hour ago: the hour may be over at any time, so a known key
\* may be fetched again.
KeyFound(kid) == kid \in jwksKeys

\* An administrator makes Keycloak sign with a new key; the old one stays
\* published until it is retired.
RotateKey(kid) ==
    /\ published = {active}
    /\ kid \notin {active, FirstKid}
    /\ published' = published \cup {kid}
    /\ active' = kid
    /\ UNCHANGED <<realm, passwords, jwksKeys>>

RetireKey(kid) ==
    /\ kid \in published
    /\ kid # active
    /\ published' = published \ {kid}
    /\ UNCHANGED <<realm, passwords, active, jwksKeys>>
=============================================================================
