-------------------------- MODULE ApiClient_proofs --------------------------
(***************************************************************************)
(* The phone's tokens for any number of calls, logins and tokens: types,   *)
(* that the waiting calls have their refresh, and that a call's last try   *)
(* has a new token.                                                        *)
(*                                                                         *)
(* The last one needs to know what a token is before it is stored: nobody  *)
(* but the call that carries it has seen it (NewTokenInv), since the       *)
(* server issues one that nobody holds (IssueNew).  So the access token    *)
(* cannot be one that a refused call knows when that call's refresh is     *)
(* over, nor become one until the call is sent again (RetryInv), although  *)
(* logins and logouts write it at any time.                                *)
(***************************************************************************)
EXTENDS ApiClient, TLAPS

Unstored == {c \in Calls : place[c] \in {"storeAccess", "loginAccess"}}
Storing ==
    {c \in Calls : place[c] \in {"storeAccess", "storeRefresh", "loginAccess"}}

\* A token that is not stored is known to the call that carries it alone.
NewTokenInv ==
    \A r \in Unstored :
        /\ fresh[r] # 0 /\ fresh[r] # access
        /\ \A c \in Calls : fresh[r] # header[c] /\ fresh[r] \notin refused[c]
        /\ \A c \in Storing \ {r} : fresh[c] # fresh[r]

\* What a call that refreshes is about to send was not refused to it; 0 is no
\* token and is not refused.
RetryInv ==
    /\ \A c \in Calls : 0 \notin refused[c]
    /\ \A c \in retried :
          /\ place[c] \notin {"idle", "queued"}
          /\ place[c] \in {"attach", "sent"} =>
                 header[c] \notin refused[c] \cup {0}
          /\ place[c] = "storeRefresh" => fresh[c] \notin refused[c] \cup {0}
          /\ place[c] \in {"attach", "storeRefresh"} => access \notin refused[c]

IInv ==
    /\ TypeOK
    /\ WaitersHaveTheirRefresh
    /\ NewTokenInv
    /\ RetryInv

-----------------------------------------------------------------------------

\* Every initial state satisfies the invariant.
LEMMA InitIInv == Init => IInv
<1> SUFFICES ASSUME Init PROVE IInv
  OBVIOUS
<1>1. 0 \in Tokens
  BY ClientAssumptions DEF Tokens
<1>2. TypeOK
  BY <1>1 DEF Init, TypeOK, Places
<1>3. WaitersHaveTheirRefresh
  BY DEF Init, WaitersHaveTheirRefresh, Refreshers, failedQueue, RefreshPlaces
<1>5. NewTokenInv /\ RetryInv
  BY DEF Init, NewTokenInv, RetryInv, Unstored
<1> QED
  BY <1>2, <1>3, <1>5 DEF IInv

\* Promises that settle leave what they change well-typed.
LEMMA SettleType ==
  ASSUME TypeOK, NEW C, Settle(C)
  PROVE  /\ place' \in [Calls -> Places] /\ header' \in [Calls -> Tokens]
         /\ retried' \in SUBSET Calls /\ fresh' \in [Calls -> Tokens]
         /\ refused' \in [Calls -> SUBSET Tokens]
<1>1. 0 \in Tokens
  BY ClientAssumptions DEF Tokens
<1>2. place' \in [Calls -> Places] /\ retried' \in SUBSET Calls
  BY DEF Settle, TypeOK, Places
<1>3. header' \in [Calls -> Tokens] /\ fresh' \in [Calls -> Tokens]
  BY <1>1 DEF Settle, TypeOK
<1>4. refused' \in [Calls -> SUBSET Tokens]
  BY DEF Settle, TypeOK
<1> QED
  BY <1>2, <1>3, <1>4

\* So do calls that are sent again.
LEMMA ResumeType ==
  ASSUME TypeOK, NEW c \in Calls, Resume(c, fresh[c])
  PROVE  /\ place' \in [Calls -> Places] /\ header' \in [Calls -> Tokens]
         /\ retried' \in SUBSET Calls /\ fresh' \in [Calls -> Tokens]
         /\ refused' \in [Calls -> SUBSET Tokens] /\ isRefreshing' \in BOOLEAN
<1>1. 0 \in Tokens /\ fresh[c] \in Tokens
  BY ClientAssumptions DEF Tokens, TypeOK
<1>2. place' \in [Calls -> Places]
  BY DEF Resume, TypeOK, Places
<1>3. header' \in [Calls -> Tokens] /\ fresh' \in [Calls -> Tokens]
  BY <1>1 DEF Resume, TypeOK
<1> QED
  BY <1>2, <1>3 DEF Resume, TypeOK

\* An issued token is a new one: nobody holds it, and it replaces the number's
\* former token in what calls were refused.
LEMMA IssueNew ==
  ASSUME TypeOK, NEW c \in Calls, Issue(c)
  PROVE  \E token \in 1 .. MaxTokens :
            /\ token # access
            /\ \A d \in Calls : header[d] # token /\ fresh[d] # token
            /\ fresh' = [fresh EXCEPT ![c] = token]
            /\ refused' = [d \in Calls |-> refused[d] \ {token}]
<1> DEFINE token == CHOOSE t \in Unheld : TRUE
<1>1. token \in Unheld
  BY DEF Issue
<1>2. token \in 1 .. MaxTokens /\ token \notin Held
  BY <1>1 DEF Unheld
<1>3. /\ token # access
      /\ \A d \in Calls : header[d] # token /\ fresh[d] # token
  BY <1>2 DEF Held
<1>4. /\ fresh' = [fresh EXCEPT ![c] = token]
      /\ refused' = [d \in Calls |-> refused[d] \ {token}]
  BY DEF Issue
<1> HIDE DEF token
<1> QED
  BY <1>2, <1>3, <1>4

\* Every step keeps the types.
LEMMA TypeStep ==
  ASSUME TypeOK, [Next]_vars
  PROVE  TypeOK'
<1> USE DEF TypeOK
<1>1. ASSUME NEW c \in Calls, Begin(c)  PROVE TypeOK'
  BY <1>1 DEF Begin, GoTo, storage, books, Places, RefreshPlaces,
       LoginPlaces
<1>2. ASSUME NEW c \in Calls, AttachToken(c)  PROVE TypeOK'
  BY <1>2, ClientAssumptions DEF AttachToken, GoTo, storage, Places,
       RefreshPlaces, LoginPlaces, Tokens
<1>3. ASSUME NEW c \in Calls, Answer(c)  PROVE TypeOK'
  BY <1>3, SettleType DEF Answer, storage
<1>4. ASSUME NEW c \in Calls, LoginAnswer(c)  PROVE TypeOK'
  BY <1>4, IssueNew, ClientAssumptions DEF LoginAnswer, GoTo, storage, Places,
       RefreshPlaces, LoginPlaces, Tokens
<1>5. ASSUME NEW c \in Calls, Unauthorized(c)  PROVE TypeOK'
  <2>1. CASE c \in retried
    BY <1>5, <2>1, SettleType DEF Unauthorized, storage
  <2>2. CASE c \notin retried
    <3>1. /\ refused' \in [Calls -> SUBSET Tokens]
          /\ place' \in [Calls -> Places]
      BY <1>5, <2>2 DEF Unauthorized, GoTo, Tokens, Places, RefreshPlaces
    <3>2. header' \in [Calls -> Tokens] /\ fresh' = fresh
      BY <1>5, <2>2, ClientAssumptions DEF Unauthorized, Tokens
    <3> QED
      BY <1>5, <2>2, <3>1, <3>2 DEF Unauthorized, storage
  <2> QED
    BY <2>1, <2>2
<1>6. ASSUME NEW c \in Calls, ReadRefreshToken(c)  PROVE TypeOK'
  BY <1>6 DEF ReadRefreshToken, GoTo, storage, books, Places,
       RefreshPlaces, LoginPlaces
<1>7. ASSUME NEW c \in Calls, NoRefreshToken(c)  PROVE TypeOK'
  BY <1>7, SettleType DEF NoRefreshToken, GiveUp, storage
<1>8. ASSUME NEW c \in Calls, Post(c)  PROVE TypeOK'
  BY <1>8, IssueNew, ClientAssumptions DEF Post, GoTo, storage, Places, RefreshPlaces,
       LoginPlaces, Tokens
<1>9. ASSUME NEW c \in Calls, PostEmpty(c)  PROVE TypeOK'
  BY <1>9, SettleType DEF PostEmpty, GiveUp, storage
<1>10. ASSUME NEW c \in Calls, PostFails(c)  PROVE TypeOK'
  BY <1>10 DEF PostFails, GoTo, storage, books, Places,
       RefreshPlaces, LoginPlaces
<1>11. ASSUME NEW c \in Calls, StoreAccess(c)  PROVE TypeOK'
  BY <1>11 DEF StoreAccess, GoTo, books, Places, RefreshPlaces,
       LoginPlaces
<1>12. ASSUME NEW c \in Calls, StoreRefresh(c)  PROVE TypeOK'
  BY <1>12, ResumeType DEF StoreRefresh
<1>13. ASSUME NEW c \in Calls, StoreFails(c)  PROVE TypeOK'
  BY <1>13, ClientAssumptions DEF StoreFails, GoTo, storage, Places,
       RefreshPlaces, LoginPlaces, Tokens
<1>14. ASSUME NEW c \in Calls, LoginStored(c)  PROVE TypeOK'
  BY <1>14, SettleType DEF LoginStored
<1>15. ASSUME NEW c \in Calls, LoginStoreFails(c)  PROVE TypeOK'
  BY <1>15, SettleType DEF LoginStoreFails, storage, LoginPlaces
<1>16. ASSUME NEW c \in Calls, ClearAccess(c)  PROVE TypeOK'
  BY <1>16, ClientAssumptions DEF ClearAccess, GoTo, books, Places,
       RefreshPlaces, LoginPlaces, Tokens
<1>17. ASSUME NEW c \in Calls, ClearRefresh(c)  PROVE TypeOK'
  BY <1>17, SettleType DEF ClearRefresh, GiveUp
<1>18. ASSUME NEW c \in Calls, ClearFails(c)  PROVE TypeOK'
  BY <1>18, SettleType DEF ClearFails, GiveUp, storage
<1>19. CASE DeleteAccess
  BY <1>19, ClientAssumptions DEF DeleteAccess, books, Tokens
<1>20. CASE DeleteRefresh
  BY <1>20 DEF DeleteRefresh, books
<1>21. CASE Kill
  BY <1>21, SettleType DEF Kill, storage
<1>22. CASE UNCHANGED vars
  BY <1>22 DEF vars, storage, books
<1>23. QED
  BY <1>1, <1>2, <1>3, <1>4, <1>5, <1>6, <1>7, <1>8, <1>9, <1>10,
       <1>11, <1>12, <1>13, <1>14, <1>15, <1>16, <1>17, <1>18, <1>19, <1>20,
       <1>21, <1>22 DEF Next, CallStep,
       PostReturns

\* Every step keeps waiters and refresher together.  Only a 401 makes either,
\* and what ends the refresh wakes everybody.
LEMMA WaitersStep ==
  ASSUME TypeOK, WaitersHaveTheirRefresh, [Next]_vars
  PROVE  WaitersHaveTheirRefresh'
<1> USE DEF TypeOK, WaitersHaveTheirRefresh, Refreshers, failedQueue,
       RefreshPlaces
<1>1. ASSUME NEW c \in Calls, Begin(c)  PROVE WaitersHaveTheirRefresh'
  BY <1>1 DEF Begin, GoTo, storage, books
<1>2. ASSUME NEW c \in Calls, AttachToken(c)  PROVE WaitersHaveTheirRefresh'
  BY <1>2 DEF AttachToken, GoTo, storage
<1>3. ASSUME NEW c \in Calls, Answer(c)  PROVE WaitersHaveTheirRefresh'
  BY <1>3 DEF Answer, Settle, storage
<1>4. ASSUME NEW c \in Calls, LoginAnswer(c)  PROVE WaitersHaveTheirRefresh'
  BY <1>4 DEF LoginAnswer, GoTo, storage
<1>5. ASSUME NEW c \in Calls, Unauthorized(c)  PROVE WaitersHaveTheirRefresh'
  BY <1>5 DEF Unauthorized, GoTo, Settle, storage
<1>6. ASSUME NEW c \in Calls, ReadRefreshToken(c)  PROVE
       WaitersHaveTheirRefresh'
  BY <1>6 DEF ReadRefreshToken, GoTo, storage, books
<1>7. ASSUME NEW c \in Calls, NoRefreshToken(c)  PROVE
       WaitersHaveTheirRefresh'
  BY <1>7 DEF NoRefreshToken, GiveUp, Settle, storage
<1>8. ASSUME NEW c \in Calls, Post(c)  PROVE WaitersHaveTheirRefresh'
  BY <1>8 DEF Post, GoTo, storage
<1>9. ASSUME NEW c \in Calls, PostEmpty(c)  PROVE WaitersHaveTheirRefresh'
  BY <1>9 DEF PostEmpty, GiveUp, Settle, storage
<1>10. ASSUME NEW c \in Calls, PostFails(c)  PROVE WaitersHaveTheirRefresh'
  BY <1>10 DEF PostFails, GoTo, storage, books
<1>11. ASSUME NEW c \in Calls, StoreAccess(c)  PROVE WaitersHaveTheirRefresh'
  BY <1>11 DEF StoreAccess, GoTo, books
<1>12. ASSUME NEW c \in Calls, StoreRefresh(c)  PROVE WaitersHaveTheirRefresh'
  BY <1>12 DEF StoreRefresh, Resume
<1>13. ASSUME NEW c \in Calls, StoreFails(c)  PROVE WaitersHaveTheirRefresh'
  BY <1>13 DEF StoreFails, GoTo, storage
<1>14. ASSUME NEW c \in Calls, LoginStored(c)  PROVE WaitersHaveTheirRefresh'
  BY <1>14 DEF LoginStored, Settle
<1>15. ASSUME NEW c \in Calls, LoginStoreFails(c)  PROVE
       WaitersHaveTheirRefresh'
  BY <1>15 DEF LoginStoreFails, Settle, storage, LoginPlaces
<1>16. ASSUME NEW c \in Calls, ClearAccess(c)  PROVE WaitersHaveTheirRefresh'
  BY <1>16 DEF ClearAccess, GoTo, books
<1>17. ASSUME NEW c \in Calls, ClearRefresh(c)  PROVE WaitersHaveTheirRefresh'
  BY <1>17 DEF ClearRefresh, GiveUp, Settle
<1>18. ASSUME NEW c \in Calls, ClearFails(c)  PROVE WaitersHaveTheirRefresh'
  BY <1>18 DEF ClearFails, GiveUp, Settle, storage
<1>19. CASE DeleteAccess
  BY <1>19 DEF DeleteAccess, books
<1>20. CASE DeleteRefresh
  BY <1>20 DEF DeleteRefresh, books
<1>21. CASE Kill
  BY <1>21 DEF Kill, Settle, storage
<1>22. CASE UNCHANGED vars
  BY <1>22 DEF vars, storage, books
<1>23. QED
  BY <1>1, <1>2, <1>3, <1>4, <1>5, <1>6, <1>7, <1>8, <1>9, <1>10,
       <1>11, <1>12, <1>13, <1>14, <1>15, <1>16, <1>17, <1>18, <1>19, <1>20,
       <1>21, <1>22 DEF Next, CallStep,
       PostReturns

\* A token is unknown until StoreAccess stores it: header and refused are
\* copied from the storage, from a token that is stored, or from each other.
LEMMA NewTokenStep ==
  ASSUME TypeOK, NewTokenInv, [Next]_vars
  PROVE  NewTokenInv'
<1> USE DEF TypeOK, Tokens, NewTokenInv, Unstored, Storing, failedQueue
<1>1. ASSUME NEW c \in Calls, Begin(c)  PROVE NewTokenInv'
  BY <1>1 DEF Begin, GoTo, storage, books
<1>2. ASSUME NEW c \in Calls, AttachToken(c)  PROVE NewTokenInv'
  BY <1>2 DEF AttachToken, GoTo, storage
<1>3. ASSUME NEW c \in Calls, Answer(c)  PROVE NewTokenInv'
  BY <1>3 DEF Answer, Settle, storage
<1>4. ASSUME NEW c \in Calls, LoginAnswer(c)  PROVE NewTokenInv'
  BY <1>4, IssueNew DEF LoginAnswer, GoTo, storage
<1>5. ASSUME NEW c \in Calls, Unauthorized(c)  PROVE NewTokenInv'
  BY <1>5 DEF Unauthorized, GoTo, Settle, storage
<1>6. ASSUME NEW c \in Calls, ReadRefreshToken(c)  PROVE NewTokenInv'
  BY <1>6 DEF ReadRefreshToken, GoTo, storage, books
<1>7. ASSUME NEW c \in Calls, NoRefreshToken(c)  PROVE NewTokenInv'
  BY <1>7 DEF NoRefreshToken, GiveUp, Settle, storage
<1>8. ASSUME NEW c \in Calls, Post(c)  PROVE NewTokenInv'
  BY <1>8, IssueNew DEF Post, GoTo, storage
<1>9. ASSUME NEW c \in Calls, PostEmpty(c)  PROVE NewTokenInv'
  BY <1>9 DEF PostEmpty, GiveUp, Settle, storage
<1>10. ASSUME NEW c \in Calls, PostFails(c)  PROVE NewTokenInv'
  BY <1>10 DEF PostFails, GoTo, storage, books
<1>11. ASSUME NEW c \in Calls, StoreAccess(c)  PROVE NewTokenInv'
  BY <1>11 DEF StoreAccess, GoTo, books
<1>12. ASSUME NEW c \in Calls, StoreRefresh(c)  PROVE NewTokenInv'
  BY <1>12 DEF StoreRefresh, Resume
<1>13. ASSUME NEW c \in Calls, StoreFails(c)  PROVE NewTokenInv'
  BY <1>13 DEF StoreFails, GoTo, storage
<1>14. ASSUME NEW c \in Calls, LoginStored(c)  PROVE NewTokenInv'
  BY <1>14 DEF LoginStored, Settle
<1>15. ASSUME NEW c \in Calls, LoginStoreFails(c)  PROVE NewTokenInv'
  BY <1>15 DEF LoginStoreFails, Settle, storage, LoginPlaces
<1>16. ASSUME NEW c \in Calls, ClearAccess(c)  PROVE NewTokenInv'
  BY <1>16 DEF ClearAccess, GoTo, books
<1>17. ASSUME NEW c \in Calls, ClearRefresh(c)  PROVE NewTokenInv'
  BY <1>17 DEF ClearRefresh, GiveUp, Settle
<1>18. ASSUME NEW c \in Calls, ClearFails(c)  PROVE NewTokenInv'
  BY <1>18 DEF ClearFails, GiveUp, Settle, storage
<1>19. CASE DeleteAccess
  BY <1>19 DEF DeleteAccess, books
<1>20. CASE DeleteRefresh
  BY <1>20 DEF DeleteRefresh, books
<1>21. CASE Kill
  BY <1>21 DEF Kill, Settle, storage
<1>22. CASE UNCHANGED vars
  BY <1>22 DEF vars, storage, books
<1>23. QED
  BY <1>1, <1>2, <1>3, <1>4, <1>5, <1>6, <1>7, <1>8, <1>9, <1>10,
       <1>11, <1>12, <1>13, <1>14, <1>15, <1>16, <1>17, <1>18, <1>19, <1>20,
       <1>21, <1>22 DEF Next, CallStep,
       PostReturns

\* What writes the access token is new to every call that is to be sent again.
LEMMA RetryStep ==
  ASSUME TypeOK, NewTokenInv, RetryInv, [Next]_vars
  PROVE  RetryInv'
<1> USE DEF TypeOK, Tokens, NewTokenInv, RetryInv, Unstored,
       failedQueue
<1>1. ASSUME NEW c \in Calls, Begin(c)  PROVE RetryInv'
  BY <1>1 DEF Begin, GoTo, storage, books
<1>2. ASSUME NEW c \in Calls, AttachToken(c)  PROVE RetryInv'
  BY <1>2 DEF AttachToken, GoTo, storage
<1>3. ASSUME NEW c \in Calls, Answer(c)  PROVE RetryInv'
  BY <1>3 DEF Answer, Settle, storage
<1>4. ASSUME NEW c \in Calls, LoginAnswer(c)  PROVE RetryInv'
  BY <1>4, IssueNew DEF LoginAnswer, GoTo, storage
<1>5. ASSUME NEW c \in Calls, Unauthorized(c)  PROVE RetryInv'
  BY <1>5 DEF Unauthorized, GoTo, Settle, storage
<1>6. ASSUME NEW c \in Calls, ReadRefreshToken(c)  PROVE RetryInv'
  BY <1>6 DEF ReadRefreshToken, GoTo, storage, books
<1>7. ASSUME NEW c \in Calls, NoRefreshToken(c)  PROVE RetryInv'
  BY <1>7 DEF NoRefreshToken, GiveUp, Settle, storage
<1>8. ASSUME NEW c \in Calls, Post(c)  PROVE RetryInv'
  BY <1>8, IssueNew DEF Post, GoTo, storage
<1>9. ASSUME NEW c \in Calls, PostEmpty(c)  PROVE RetryInv'
  BY <1>9 DEF PostEmpty, GiveUp, Settle, storage
<1>10. ASSUME NEW c \in Calls, PostFails(c)  PROVE RetryInv'
  BY <1>10 DEF PostFails, GoTo, storage, books
<1>11. ASSUME NEW c \in Calls, StoreAccess(c)  PROVE RetryInv'
  BY <1>11 DEF StoreAccess, GoTo, books
<1>12. ASSUME NEW c \in Calls, StoreRefresh(c)  PROVE RetryInv'
  BY <1>12 DEF StoreRefresh, Resume
<1>13. ASSUME NEW c \in Calls, StoreFails(c)  PROVE RetryInv'
  BY <1>13 DEF StoreFails, GoTo, storage
<1>14. ASSUME NEW c \in Calls, LoginStored(c)  PROVE RetryInv'
  BY <1>14 DEF LoginStored, Settle
<1>15. ASSUME NEW c \in Calls, LoginStoreFails(c)  PROVE RetryInv'
  BY <1>15 DEF LoginStoreFails, Settle, storage, LoginPlaces
<1>16. ASSUME NEW c \in Calls, ClearAccess(c)  PROVE RetryInv'
  BY <1>16 DEF ClearAccess, GoTo, books
<1>17. ASSUME NEW c \in Calls, ClearRefresh(c)  PROVE RetryInv'
  BY <1>17 DEF ClearRefresh, GiveUp, Settle
<1>18. ASSUME NEW c \in Calls, ClearFails(c)  PROVE RetryInv'
  BY <1>18 DEF ClearFails, GiveUp, Settle, storage
<1>19. CASE DeleteAccess
  BY <1>19 DEF DeleteAccess, books
<1>20. CASE DeleteRefresh
  BY <1>20 DEF DeleteRefresh, books
<1>21. CASE Kill
  BY <1>21 DEF Kill, Settle, storage
<1>22. CASE UNCHANGED vars
  BY <1>22 DEF vars, storage, books
<1>23. QED
  BY <1>1, <1>2, <1>3, <1>4, <1>5, <1>6, <1>7, <1>8, <1>9, <1>10,
       <1>11, <1>12, <1>13, <1>14, <1>15, <1>16, <1>17, <1>18, <1>19, <1>20,
       <1>21, <1>22 DEF Next, CallStep,
       PostReturns

\* Every step keeps the invariant.
LEMMA StepIInv == IInv /\ [Next]_vars => IInv'
BY TypeStep, WaitersStep, NewTokenStep, RetryStep DEF IInv

LEMMA Invariance == Spec => []IInv
BY InitIInv, StepIInv, PTL DEF Spec

-----------------------------------------------------------------------------

\* Every variable of the client keeps its type.
THEOREM ClientTypeCorrect == Spec => []TypeOK
<1>1. IInv => TypeOK
  BY DEF IInv
<1> QED
  BY Invariance, <1>1, PTL

\* One refresh at a time, and whoever waits, waits for one that is under way
\* (api.ts, the response interceptor).
THEOREM RefreshIsShared == Spec => []WaitersHaveTheirRefresh
<1>1. IInv => WaitersHaveTheirRefresh
  BY DEF IInv
<1> QED
  BY Invariance, <1>1, PTL

\* The retry after a call's own refresh has a token the server has not refused
\* to it (api.ts, the two interceptors together).
THEOREM RetryHasNewToken == Spec => []LastTryHasNewToken
<1>1. IInv => LastTryHasNewToken
  BY DEF IInv, RetryInv, LastTryHasNewToken
<1> QED
  BY Invariance, <1>1, PTL
=============================================================================
