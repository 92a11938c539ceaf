------------------------------ MODULE ApiClient ------------------------------
(***************************************************************************)
(* The phone's axios instance and its tokens: mobile/services/api.ts, with *)
(* the storing login of auth.ts and the logout of authStore.ts.  Calls run *)
(* at the same time.  The first that is answered 401 refreshes the tokens, *)
(* the others wait for it.  A call refreshes once at most, but may wait    *)
(* more often: a call that waited is not marked _retry.                    *)
(*                                                                         *)
(* Abstractions.  An access token is a number, 0 is none; a number nobody  *)
(* holds any more stands for a new token, so that refreshes never run out. *)
(* Of the refresh token only its presence matters.  The server may answer  *)
(* any call with 401, the retry too: the middleware does so for an expired *)
(* token, and also when it cannot fetch the signing keys.  What the screen *)
(* shows of the login (isAuthenticated, agent) is left out.                *)
(***************************************************************************)
EXTENDS Naturals, FiniteSets

CONSTANTS
    Calls,      \* calls of the instance, a name is used again
    Logins,     \* those of them that are POST /v1/auth/verify-otp
    MaxTokens   \* bound: access tokens held at a time

ASSUME ClientAssumptions == Logins \subseteq Calls /\ MaxTokens \in Nat

Tokens == 0 .. MaxTokens

VARIABLES
    access,        \* SecureStore: landintel_access_token
    hasRefresh,    \* SecureStore: is landintel_refresh_token there?
    isRefreshing,  \* the module's flag
    place,         \* per call: the await it is at
    header,        \* per call: the token in its Authorization header, 0 from
                   \* a 401 on, since Resume overwrites it or the call settles
    retried,       \* calls with _retry set
    fresh,         \* per call: the access token it was answered with, to store
    clearing,      \* logout or hydrate is between its two deletions
    refused        \* history, per call: the tokens it was answered 401 with

storage == <<access, hasRefresh>>
books == <<header, retried, fresh, refused>>
vars == <<storage, isRefreshing, place, books, clearing>>

RefreshPlaces == {"readRefresh", "post", "storeAccess", "storeRefresh",
                  "clearAccess", "clearRefresh"}
LoginPlaces == {"loginAccess", "loginRefresh"}
Places == {"idle", "attach", "sent", "queued"} \cup RefreshPlaces \cup LoginPlaces

\* failedQueue: a waiting call is in it.
failedQueue == {c \in Calls : place[c] = "queued"}
Refreshers == {c \in Calls : place[c] \in RefreshPlaces}

\* Nobody is logged in.  A logout that stopped between its two deletions, or
\* whose second one threw, has left a refresh token.
Init ==
    /\ access = 0 /\ hasRefresh \in BOOLEAN
    /\ isRefreshing = FALSE
    /\ place = [c \in Calls |-> "idle"]
    /\ header = [c \in Calls |-> 0]
    /\ retried = {}
    /\ fresh = [c \in Calls |-> 0]
    /\ clearing = FALSE
    /\ refused = [c \in Calls |-> {}]

\* The promises of these calls settle.
Settle(C) ==
    /\ place' = [c \in Calls |-> IF c \in C THEN "idle" ELSE place[c]]
    /\ header' = [c \in Calls |-> IF c \in C THEN 0 ELSE header[c]]
    /\ retried' = retried \ C
    /\ fresh' = [c \in Calls |-> IF c \in C THEN 0 ELSE fresh[c]]
    /\ refused' = [c \in Calls |-> IF c \in C THEN {} ELSE refused[c]]

GoTo(c, p) == place' = [place EXCEPT ![c] = p]

Held == {access} \cup {header[c] : c \in Calls} \cup {fresh[c] : c \in Calls}
Unheld == (1 .. MaxTokens) \ Held

\* The server issues a token to c, one that nobody has seen.
Issue(c) ==
    /\ Unheld # {}
    /\ LET token == CHOOSE t \in Unheld : TRUE
       IN  /\ fresh' = [fresh EXCEPT ![c] = token]
           /\ refused' = [d \in Calls |-> refused[d] \ {token}]

-----------------------------------------------------------------------------
(* A call.                                                                 *)

Begin(c) ==
    /\ place[c] = "idle"
    /\ GoTo(c, "attach")
    /\ UNCHANGED <<storage, isRefreshing, books, clearing>>

\* The request interceptor: a stored token replaces the header, also of a
\* retry; without one the header stays as it is.
AttachToken(c) ==
    /\ place[c] = "attach"
    /\ header' = [header EXCEPT ![c] = IF access # 0 THEN access ELSE @]
    /\ GoTo(c, "sent")
    /\ UNCHANGED <<storage, isRefreshing, retried, fresh, refused, clearing>>

\* The storage cannot be read, the network fails, the fifteen seconds are
\* over, or any answer but 401 and a login's: the call settles.
Answer(c) ==
    /\ place[c] \in {"attach", "sent"}
    /\ Settle({c})
    /\ UNCHANGED <<storage, isRefreshing, clearing>>

\* verifyOTP is answered with tokens, which it stores.
LoginAnswer(c) ==
    /\ c \in Logins
    /\ place[c] = "sent"
    /\ Issue(c)
    /\ header' = [header EXCEPT ![c] = 0]
    /\ GoTo(c, "loginAccess")
    /\ UNCHANGED <<storage, isRefreshing, retried, clearing>>

\* 401: the second one of a call that has refreshed settles it, a first one
\* waits for the refresh there is, or starts one.
Unauthorized(c) ==
    /\ place[c] = "sent"
    /\ UNCHANGED <<storage, clearing>>
    /\ \/ /\ c \in retried
          /\ Settle({c})
          /\ UNCHANGED isRefreshing
       \/ /\ c \notin retried
          /\ refused' = [refused EXCEPT ![c] = @ \cup ({header[c]} \ {0})]
          /\ header' = [header EXCEPT ![c] = 0]
          /\ UNCHANGED fresh
          /\ \/ /\ isRefreshing
                /\ GoTo(c, "queued")
                /\ UNCHANGED <<isRefreshing, retried>>
             \/ /\ ~isRefreshing
                /\ GoTo(c, "readRefresh")
                /\ isRefreshing' = TRUE
                /\ retried' = retried \cup {c}

-----------------------------------------------------------------------------
(* The refresh.                                                            *)

\* isRefreshing = false, processQueue(token): the refresher and all who wait
\* call the instance again with the token.
Resume(c, token) ==
    LET woken == failedQueue \cup {c}
    IN  /\ isRefreshing' = FALSE
        /\ place' = [d \in Calls |-> IF d \in woken THEN "attach" ELSE place[d]]
        /\ header' = [d \in Calls |-> IF d \in woken THEN token ELSE header[d]]
        /\ fresh' = [fresh EXCEPT ![c] = 0]
        /\ UNCHANGED <<retried, refused>>

\* Mutant: a failed refresh forgets those who wait for it.
GiveUp_QueueKept(c) ==
    /\ isRefreshing' = FALSE
    /\ Settle({c})

\* isRefreshing = false, processQueue(null): they all reject.
GiveUp(c) ==
    /\ isRefreshing' = FALSE
    /\ Settle(failedQueue \cup {c})

ReadRefreshToken(c) ==
    /\ place[c] = "readRefresh"
    /\ hasRefresh
    /\ GoTo(c, "post")
    /\ UNCHANGED <<storage, isRefreshing, books, clearing>>

\* There is none, or it cannot be read.
NoRefreshToken(c) ==
    /\ place[c] = "readRefresh"
    /\ GiveUp(c)
    /\ UNCHANGED <<storage, clearing>>

Post(c) ==
    /\ place[c] = "post"
    /\ Issue(c)
    /\ GoTo(c, "storeAccess")
    /\ UNCHANGED <<storage, isRefreshing, header, retried, clearing>>

\* A 200 that carries no access token.
PostEmpty(c) ==
    /\ place[c] = "post"
    /\ GiveUp(c)
    /\ UNCHANGED <<storage, clearing>>

\* Mutant: the flag is reset before the tokens are cleared.
PostFails_FlagReset(c) ==
    /\ place[c] = "post"
    /\ isRefreshing' = FALSE
    /\ GoTo(c, "clearAccess")
    /\ UNCHANGED <<storage, books, clearing>>

PostFails(c) ==
    /\ place[c] = "post"
    /\ GoTo(c, "clearAccess")
    /\ UNCHANGED <<storage, isRefreshing, books, clearing>>

\* Mutant: a token that is there is not replaced.
StoreAccess_KeepsOld(c) ==
    /\ place[c] \in {"storeAccess", "loginAccess"}
    /\ access' = IF access = 0 THEN fresh[c] ELSE access
    /\ GoTo(c, IF place[c] = "storeAccess" THEN "storeRefresh" ELSE "loginRefresh")
    /\ UNCHANGED <<hasRefresh, isRefreshing, books, clearing>>

\* storeTokens, of a refresh or a login: two writes, one after the other.
StoreAccess(c) ==
    /\ place[c] \in {"storeAccess", "loginAccess"}
    /\ access' = fresh[c]
    /\ GoTo(c, IF place[c] = "storeAccess" THEN "storeRefresh" ELSE "loginRefresh")
    /\ UNCHANGED <<hasRefresh, isRefreshing, books, clearing>>

StoreRefresh(c) ==
    /\ place[c] = "storeRefresh"
    /\ hasRefresh' = TRUE
    /\ Resume(c, fresh[c])
    /\ UNCHANGED <<access, clearing>>

StoreFails(c) ==
    /\ place[c] \in {"storeAccess", "storeRefresh"}
    /\ GoTo(c, "clearAccess")
    /\ fresh' = [fresh EXCEPT ![c] = 0]
    /\ UNCHANGED <<storage, isRefreshing, header, retried, refused, clearing>>

LoginStored(c) ==
    /\ place[c] = "loginRefresh"
    /\ hasRefresh' = TRUE
    /\ Settle({c})
    /\ UNCHANGED <<access, isRefreshing, clearing>>

LoginStoreFails(c) ==
    /\ place[c] \in LoginPlaces
    /\ Settle({c})
    /\ UNCHANGED <<storage, isRefreshing, clearing>>

\* clearTokens after a failed refresh.
ClearAccess(c) ==
    /\ place[c] = "clearAccess"
    /\ access' = 0
    /\ GoTo(c, "clearRefresh")
    /\ UNCHANGED <<hasRefresh, isRefreshing, books, clearing>>

ClearRefresh(c) ==
    /\ place[c] = "clearRefresh"
    /\ hasRefresh' = FALSE
    /\ GiveUp(c)
    /\ UNCHANGED <<access, clearing>>

\* It throws, and the outer catch ends the refresh.
ClearFails(c) ==
    /\ place[c] \in {"clearAccess", "clearRefresh"}
    /\ GiveUp(c)
    /\ UNCHANGED <<storage, clearing>>

-----------------------------------------------------------------------------
(* The user's logout, the app's start, and its end.                        *)

\* logout, and the catch of hydrate: two deletions, one after the other.  If
\* the first throws nothing has happened.
DeleteAccess ==
    /\ ~clearing
    /\ access' = 0
    /\ clearing' = TRUE
    /\ UNCHANGED <<hasRefresh, isRefreshing, place, books>>

\* The second one may throw.
DeleteRefresh ==
    /\ clearing
    /\ hasRefresh' \in {FALSE, hasRefresh}
    /\ clearing' = FALSE
    /\ UNCHANGED <<access, isRefreshing, place, books>>

\* The app is killed anywhere; what SecureStore holds stays.
Kill ==
    /\ Settle(Calls)
    /\ isRefreshing' = FALSE
    /\ clearing' = FALSE
    /\ UNCHANGED storage

\* A refresh is a plain axios call without a timeout.
PostReturns(c) == Post(c) \/ PostEmpty(c) \/ PostFails(c)

\* What a call does without waiting for the refresh endpoint.
CallStep(c) ==
    \/ AttachToken(c) \/ Answer(c) \/ LoginAnswer(c) \/ Unauthorized(c)
    \/ ReadRefreshToken(c) \/ NoRefreshToken(c)
    \/ StoreAccess(c) \/ StoreRefresh(c) \/ StoreFails(c)
    \/ LoginStored(c) \/ LoginStoreFails(c)
    \/ ClearAccess(c) \/ ClearRefresh(c) \/ ClearFails(c)

Next ==
    \/ \E c \in Calls : Begin(c) \/ CallStep(c) \/ PostReturns(c)
    \/ DeleteAccess \/ DeleteRefresh
    \/ Kill

\* SecureStore returns or throws, and the instance has a timeout.
Spec == Init /\ [][Next]_vars /\ \A c \in Calls : WF_vars(CallStep(c))

-----------------------------------------------------------------------------

\* The variables keep their types.
TypeOK ==
    /\ access \in Tokens
    /\ hasRefresh \in BOOLEAN
    /\ isRefreshing \in BOOLEAN
    /\ place \in [Calls -> Places]
    /\ header \in [Calls -> Tokens]
    /\ retried \in SUBSET Calls
    /\ fresh \in [Calls -> Tokens]
    /\ clearing \in BOOLEAN
    /\ refused \in [Calls -> SUBSET Tokens]

\* Calls that were refused at the same time share one refresh, and nobody
\* waits for a refresh that is over (isRefreshing, failedQueue, processQueue).
WaitersHaveTheirRefresh ==
    /\ \A c, d \in Refreshers : c = d
    /\ isRefreshing <=> Refreshers # {}
    /\ failedQueue # {} => isRefreshing

\* The last try of a call, the one after its own refresh, is made with a token
\* and never with one the server has refused to it: whatever a login, a logout
\* or the interceptor's second look at the storage do in between.
LastTryHasNewToken ==
    \A c \in retried : place[c] = "sent" => header[c] \notin refused[c] \cup {0}

\* No refresh stays unanswered for ever.
RefreshIsAnswered == \A c \in Calls : []<>(place[c] # "post")

\* If so, whoever waits is released, by a refresh that failed too; and a call
\* settles, unless it is made to wait again and again.
WaitersAreReleased ==
    RefreshIsAnswered =>
        \A c \in Calls :
            /\ []<>(c \notin failedQueue)
            /\ []<>(place[c] = "idle" \/ c \in failedQueue)
=============================================================================
