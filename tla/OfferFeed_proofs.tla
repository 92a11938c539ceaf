--------------------------- MODULE OfferFeed_proofs ---------------------------
(***************************************************************************)
(* The hook and the sockets for any number of offers, connections, fetches *)
(* and faults, with either writer: types, and that the feed stays alive.   *)
(* The latter is a property of steps, and needs of the state only that the *)
(* current socket is a connection: onclose leaves the hook without a       *)
(* socket, and starts the poll and a timer; the poll stops only under an   *)
(* open socket; a timer that fires leaves a call of connectWS behind, and  *)
(* that a socket, if there is a token.                                     *)
(***************************************************************************)
EXTENDS OfferFeed, TLAPS

Links == {"opening", "up", "closed", "lost"}

\* What every step is shown to keep.
Kept == TypeOK' /\ StaysAlive

-----------------------------------------------------------------------------

\* A list of links stays one when the unused links are forgotten.
LEMMA ForgetLinksType ==
  ASSUME NEW l \in [Conns -> Links], link' = ForgetLinks(l)
  PROVE  link' \in [Conns -> Links]
BY DEF ForgetLinks, Links

\* A fetch that is started is one of Fetches.
LEMMA StartFetchType ==
  ASSUME TypeOK, StartFetch
  PROVE  asked' \subseteq Fetches /\ UNCHANGED <<answer, shown>>
BY DEF StartFetch, CanFetch, TypeOK

\* The first state.
LEMMA InitTyped == Init => TypeOK
<1> SUFFICES ASSUME Init PROVE TypeOK
  OBVIOUS
<1>0. (CHOOSE f \in Fetches : TRUE) \in Fetches
  BY FeedAssumptions
<1>1. hijackable \in BOOLEAN
  BY FeedAssumptions DEF Init
<1>2. faults \in 0..MaxFaults /\ timers \in Nat /\ awaiting \in Nat
  BY FeedAssumptions DEF Init
<1>3. asked \subseteq Fetches /\ answer \in [Fetches -> SUBSET SUBSET Offers]
  BY <1>0 DEF Init
<1> QED
  BY <1>1, <1>2, <1>3 DEF Init, TypeOK

-----------------------------------------------------------------------------
(* The dispatcher and the hook.                                            *)

\* Offers are made and published without the hook.
LEMMA DispatcherKeeps ==
  ASSUME TypeOK, NEW o \in Offers, InsertOffer(o) \/ PublishOffer(o)
  PROVE  Kept
BY DEF InsertOffer, PublishOffer, server, socket, list, TypeOK, Kept, StaysAlive, Alive, Connecting

\* A call of connectWS leaves a socket.
LEMMA ConnectWSKeeps ==
  ASSUME TypeOK, NEW c \in Conns, ConnectWS(c)
  PROVE  Kept
<1> USE DEF ConnectWS, backend, list
<1> DEFINE l == [d \in Conns |->
                   IF d = c THEN "opening"
                   ELSE IF d = cur /\ link[d] # "lost" THEN "closed" ELSE link[d]]
<1>1. l \in [Conns -> Links]
  BY DEF TypeOK, Links
<1>2. link' = ForgetLinks(l)
  OBVIOUS
<1>3. link' \in [Conns -> Links]
  BY <1>1, <1>2, ForgetLinksType
<1>a. awaiting' \in Nat /\ timers' \in Nat
  BY DEF TypeOK
<1>b. cur' \in Conns /\ opened' = FALSE /\ polling' \in BOOLEAN
  BY DEF TypeOK
<1>c. handler' \in [Conns -> {"none", "checking", "subscribing", "pumping"}]
  BY DEF TypeOK
<1>d. UNCHANGED <<backend, reading, done, outbox, list>> /\ TypeOK
  OBVIOUS
<1> HIDE DEF ConnectWS, l
<1>4. TypeOK'
  BY <1>3, <1>a, <1>b, <1>c, <1>d DEF TypeOK, Links
<1>5. StaysAlive
  BY <1>b, FeedAssumptions DEF StaysAlive, Alive, Connecting
<1> QED
  BY <1>4, <1>5 DEF Kept

\* Without a token nothing changes, but there is one call less.
LEMMA NoTokenKeeps ==
  ASSUME TypeOK, NoToken
  PROVE  Kept
BY FeedAssumptions DEF NoToken, server, list, TypeOK, Kept, StaysAlive, Alive

\* The poll stops under an open socket only.
LEMMA OnOpenKeeps ==
  ASSUME TypeOK, NEW c \in Conns, OnOpen(c)
  PROVE  Kept
BY FeedAssumptions DEF OnOpen, backend, server, list, TypeOK, Kept, StaysAlive, Alive, Connecting

\* Without its socket the hook polls and has a timer.
LEMMA OnCloseKeeps ==
  ASSUME TypeOK, NEW c \in Conns, OnClose(c)
  PROVE  Kept
<1> USE DEF OnClose, backend, list
<1>1. link' \in [Conns -> Links]
  BY ForgetLinksType DEF TypeOK, Links
<1>2. TypeOK'
  <2>1. timers' \in Nat /\ UNCHANGED awaiting
    BY DEF TypeOK
  <2>2. cur' = NoConn /\ opened' = FALSE /\ polling' = TRUE
    OBVIOUS
  <2>3. UNCHANGED <<backend, handler, reading, done, outbox, list>> /\ TypeOK
    OBVIOUS
  <2> HIDE DEF OnClose
  <2> QED
    BY <1>1, <2>1, <2>2, <2>3 DEF TypeOK, Links
<1>3. StaysAlive
  BY DEF TypeOK, StaysAlive, Alive, Connecting
<1> QED
  BY <1>2, <1>3 DEF Kept

\* A timer that fires, and the foreground, leave a call of connectWS.
LEMMA CallsKeep ==
  ASSUME TypeOK, Reconnect \/ Foreground
  PROVE  Kept
<1>1. CASE Reconnect
  BY <1>1 DEF Reconnect, backend, server, list, TypeOK, Kept, StaysAlive, Alive, Connecting
<1>2. CASE Foreground
  <2>1. asked' \subseteq Fetches /\ UNCHANGED <<answer, shown>>
    BY <1>2, StartFetchType DEF Foreground
  <2> QED
    BY <1>2, <2>1 DEF Foreground, backend, server, TypeOK, Kept, StaysAlive, Alive, Connecting
<1> QED
  BY <1>1, <1>2

\* Fetches change nothing but the list.
LEMMA FetchesKeep ==
  ASSUME TypeOK,
         Poll \/ \E f \in Fetches : ListAgentOffers(f) \/ SetOffers(f) \/ FetchFails(f)
  PROVE  Kept
<1> USE DEF backend, server, socket
<1>1. CASE Poll
  <2>1. asked' \subseteq Fetches /\ UNCHANGED <<answer, shown>>
    BY <1>1, StartFetchType DEF Poll
  <2> QED
    BY <1>1, <2>1 DEF Poll, TypeOK, Kept, StaysAlive, Alive, Connecting
<1>2. ASSUME NEW f \in Fetches, ListAgentOffers(f) PROVE Kept
  BY <1>2 DEF ListAgentOffers, TypeOK, Kept, StaysAlive, Alive, Connecting
<1>3. ASSUME NEW f \in Fetches, SetOffers(f) PROVE Kept
  BY <1>3 DEF SetOffers, TypeOK, Kept, StaysAlive, Alive, Connecting
<1>4. ASSUME NEW f \in Fetches, FetchFails(f) PROVE Kept
  BY <1>4, FeedAssumptions DEF FetchFails, TypeOK, Kept, StaysAlive, Alive, Connecting
<1> QED
  BY <1>1, <1>2, <1>3, <1>4

-----------------------------------------------------------------------------
(* The server.                                                             *)

\* A handler of /ws never touches the hook but by a fetch.
LEMMA ServeWSKeeps ==
  ASSUME TypeOK, NEW c \in Conns, ServeWS(c)
  PROVE  Kept
<1> USE DEF backend, socket, list
<1>1. CASE Refuse(c)
  <2>1. link' \in [Conns -> Links]
    BY <1>1, ForgetLinksType DEF Refuse, TypeOK, Links
  <2> QED
    BY <1>1, <2>1 DEF Refuse, TypeOK, Links, Kept, StaysAlive, Alive, Connecting
<1>2. CASE Upgrade(c)
  BY <1>2 DEF Upgrade, TypeOK, Kept, StaysAlive, Alive, Connecting
<1>3. CASE Subscribe(c)
  BY <1>3 DEF Subscribe, TypeOK, Kept, StaysAlive, Alive, Connecting
<1>4. CASE WriteMessage(c)
  <2>1. asked' \subseteq Fetches /\ UNCHANGED <<answer, shown>>
    BY <1>4, StartFetchType DEF WriteMessage, TypeOK
  <2> QED
    BY <1>4, <2>1 DEF WriteMessage, TypeOK, Kept, StaysAlive, Alive, Connecting
<1>5. CASE WritePumpEnds(c)
  <2>1. link' \in [Conns -> Links]
    BY <1>5, ForgetLinksType DEF WritePumpEnds, HandlerReturns, TypeOK, Links
  <2> QED
    BY <1>5, <2>1 DEF WritePumpEnds, HandlerReturns, TypeOK, Links,
                      Kept, StaysAlive, Alive, Connecting
<1> QED
  BY <1>1, <1>2, <1>3, <1>4, <1>5 DEF ServeWS

\* The ends of the pumps, of a link and of the server leave the hook alone.
LEMMA EndsKeep ==
  ASSUME TypeOK,
         Restart \/ \E c \in Conns : ReadPumpEnds(c) \/ WriteFails(c) \/ LoseLink(c)
  PROVE  Kept
<1> USE DEF backend, socket, list
<1>1. CASE Restart
  <2> DEFINE l == [c \in Conns |-> IF link[c] = "lost" THEN "lost" ELSE "closed"]
  <2>1. l \in [Conns -> Links] /\ link' = ForgetLinks(l)
    BY <1>1 DEF Restart, Links
  <2>2. link' \in [Conns -> Links]
    BY <2>1, ForgetLinksType
  <2>3. TypeOK'
    BY <1>1, <2>2, FeedAssumptions DEF Restart, TypeOK, Links
  <2>4. StaysAlive
    BY <1>1 DEF Restart, StaysAlive, Alive, Connecting
  <2> QED
    BY <2>3, <2>4 DEF Kept
<1>2. ASSUME NEW c \in Conns, ReadPumpEnds(c) PROVE Kept
  <2>1. link' \in [Conns -> Links]
    BY <1>2, ForgetLinksType DEF ReadPumpEnds, TypeOK, Links
  <2> QED
    BY <1>2, <2>1 DEF ReadPumpEnds, TypeOK, Links, Kept, StaysAlive, Alive, Connecting
<1>3. ASSUME NEW c \in Conns, WriteFails(c) PROVE Kept
  <2>1. link' \in [Conns -> Links]
    BY <1>3, ForgetLinksType DEF WriteFails, HandlerReturns, TypeOK, Links
  <2> QED
    BY <1>3, <2>1 DEF WriteFails, HandlerReturns, TypeOK, Links, Kept, StaysAlive, Alive, Connecting
<1>4. ASSUME NEW c \in Conns, LoseLink(c) PROVE Kept
  BY <1>4 DEF LoseLink, TypeOK, Kept, StaysAlive, Alive, Connecting
<1> QED
  BY <1>1, <1>2, <1>3, <1>4

-----------------------------------------------------------------------------

\* A step keeps the types, and the feed.
LEMMA StepKeeps ==
  ASSUME TypeOK, [Next]_vars
  PROVE  TypeOK' /\ [StaysAlive]_vars
<1>1. CASE UNCHANGED vars
  BY <1>1 DEF vars, backend, server, socket, list, TypeOK
<1>2. CASE Next
  BY <1>2, DispatcherKeeps, ConnectWSKeeps, NoTokenKeeps, OnOpenKeeps, OnCloseKeeps,
     CallsKeep, FetchesKeep, ServeWSKeeps, EndsKeep DEF Next, Kept
<1> QED
  BY <1>1, <1>2

\* The connections, the hook and its list keep their types.
THEOREM FeedTypeCorrect == Spec => []TypeOK
<1>1. TypeOK /\ [Next]_vars => TypeOK'
  BY StepKeeps
<1> QED
  BY InitTyped, <1>1, PTL DEF Spec

\* Once the hook useJobOffers has a socket or polls it never loses both, for
\* any number of connections and any overlap of timers, foreground, failing
\* sockets, missing tokens and restarts.
THEOREM FeedAlive == Spec => FeedStaysAlive
<1>1. TypeOK /\ [Next]_vars => [StaysAlive]_vars
  BY StepKeeps
<1> QED
  BY FeedTypeCorrect, <1>1, PTL DEF Spec, FeedStaysAlive
=============================================================================
