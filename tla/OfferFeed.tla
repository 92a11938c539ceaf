----------------------------- MODULE OfferFeed -----------------------------
(***************************************************************************)
(* How an agent's phone learns of its offers: the hook useJobOffers.ts,    *)
(* the endpoints /ws (internal/ws/handler.go) and /v1/agents/me/offers     *)
(* (ListAgentOffers), and the Redis channel between the dispatcher and the *)
(* sockets.  A push carries no offer, it makes the hook fetch the list;    *)
(* without a socket the hook polls and tries to connect again.             *)
(*                                                                         *)
(* Upgrade needs a ResponseWriter that can be hijacked.  The one that      *)
(* cmd/server/main.go hands to ServeWS cannot: platform.Logging wraps it   *)
(* in a struct without Hijack or Unwrap.  Both writers are modelled; the   *)
(* variable `hijackable' tells them apart and never changes.               *)
(*                                                                         *)
(* Abstractions.  A connection slot is used again when both ends are done  *)
(* with it.  Pings are answered while the link is up, so the read deadline *)
(* passes only when it is not.  The screen stays mounted.  Polls and        *)
(* returns to the foreground leave a fetch free for a pushed message, so   *)
(* that a push fetches at once, while an older fetch is in flight.         *)
(***************************************************************************)
EXTENDS Naturals, FiniteSets

CONSTANTS
    Offers,     \* the offers the dispatcher makes this agent
    Conns,      \* slots for connections
    NoConn,     \* wsRef.current = null
    Fetches,    \* bound: fetches in flight at one time
    MaxCalls,   \* bound: connectWS calls that wait for a timer or the token
    MaxFaults,  \* bound: failing fetches and token reads, and restarts
    Writers     \* may the writer be hijacked?

ASSUME FeedAssumptions ==
    /\ NoConn \notin Conns
    /\ Fetches # {} /\ IsFiniteSet(Fetches)
    /\ MaxCalls \in Nat \ {0}
    /\ MaxFaults \in Nat
    /\ Writers \subseteq BOOLEAN

VARIABLES
    hijackable,   \* can Upgrade succeed?
    unsent,       \* offers the dispatcher has not made yet
    pending,      \* Postgres: the agent's offers with status 'sent'
    unpublished,  \* offers whose message the dispatcher has still to publish
    faults,
    \* per connection
    link,         \* "opening", "up", "closed" (the ends know) or "lost"
    handler,      \* ServeWS: "none", "checking", "subscribing", "pumping"
    reading,      \* is readPump running?
    done,         \* has readPump cancelled the context of writePump?
    outbox,       \* messages in the channel of the subscription
    \* the hook
    cur,          \* wsRef.current
    opened,       \* has onopen of the current socket run?
    polling,      \* pollInterval is set
    timers,       \* reconnect timers that have not fired
    awaiting,     \* connectWS calls that await the token
    asked,        \* fetches on their way to the server
    answer,       \* the list a fetch was answered with, {} or a singleton
    shown         \* the list on the screen

server == <<link, handler, reading, done, outbox>>
socket == <<cur, opened, polling, timers, awaiting>>
list == <<asked, answer, shown>>
backend == <<hijackable, unsent, pending, unpublished, faults>>
vars == <<backend, server, socket, list>>

-----------------------------------------------------------------------------

Idle(f) == f \notin asked /\ answer[f] = {}
CanFetch == \E f \in Fetches : Idle(f)

\* A bound: one fetch stays free for a push.
CanPoll == Cardinality({f \in Fetches : Idle(f)}) > 1

\* fetchOffers is called.  The names of fetches are interchangeable.
StartFetch ==
    /\ CanFetch
    /\ asked' = asked \cup {CHOOSE f \in Fetches : Idle(f)}
    /\ UNCHANGED <<answer, shown>>

\* The hook is mounted: it fetches, and connectWS awaits the token.
Init ==
    /\ hijackable \in Writers
    /\ unsent = Offers /\ pending = {} /\ unpublished = {}
    /\ faults = 0
    /\ link = [c \in Conns |-> "closed"]
    /\ handler = [c \in Conns |-> "none"]
    /\ reading = [c \in Conns |-> FALSE]
    /\ done = [c \in Conns |-> FALSE]
    /\ outbox = [c \in Conns |-> {}]
    /\ cur = NoConn /\ opened = FALSE /\ polling = FALSE
    /\ timers = 0 /\ awaiting = 1
    /\ asked = {CHOOSE f \in Fetches : TRUE}
    /\ answer = [f \in Fetches |-> {}]
    /\ shown = {}

-----------------------------------------------------------------------------
(* The dispatcher.                                                         *)

InsertOffer(o) ==
    /\ o \in unsent
    /\ unsent' = unsent \ {o}
    /\ pending' = pending \cup {o}
    /\ unpublished' = unpublished \cup {o}
    /\ UNCHANGED <<hijackable, faults, server, socket, list>>

\* PUBLISH reaches the handlers that are subscribed now, and no other.
PublishOffer(o) ==
    /\ o \in unpublished
    /\ unpublished' = unpublished \ {o}
    /\ outbox' = [c \in Conns |->
           IF handler[c] = "pumping" THEN outbox[c] \cup {o} ELSE outbox[c]]
    /\ UNCHANGED <<hijackable, unsent, pending, faults, link, handler,
                   reading, done, socket, list>>

-----------------------------------------------------------------------------
(* The hook's socket.                                                      *)

Unused(c) ==
    /\ c # cur
    /\ handler[c] = "none"
    /\ ~reading[c]

\* A lost link is forgotten when both ends are done with it.
ForgetLinks(l) == [c \in Conns |-> IF Unused(c)' THEN "closed" ELSE l[c]]

\* Slots are interchangeable.
FreeSlot ==
    IF \E c \in Conns : Unused(c) THEN CHOOSE c \in Conns : Unused(c) ELSE NoConn

\* connectWS has its token: it closes the socket there is, whose onclose it
\* takes away, and opens a new one.
ConnectWS(c) ==
    /\ awaiting > 0
    /\ c = FreeSlot
    /\ awaiting' = awaiting - 1
    /\ handler' = [handler EXCEPT ![c] = "checking"]
    /\ cur' = c
    /\ opened' = FALSE
    /\ UNCHANGED <<backend, reading, done, outbox, polling, timers, list>>
    /\ link' = ForgetLinks([d \in Conns |->
           IF d = c THEN "opening"
           ELSE IF d = cur /\ link[d] # "lost" THEN "closed" ELSE link[d]])

\* Mutant: the socket is closed before the token is read.
NoToken_DropsSocket ==
    /\ awaiting > 0
    /\ faults < MaxFaults
    /\ faults' = faults + 1
    /\ awaiting' = awaiting - 1
    /\ cur' = NoConn
    /\ opened' = FALSE
    /\ UNCHANGED <<hijackable, unsent, pending, unpublished, server, polling,
                   timers, list>>

\* The stored token is not there, or its read throws: connectWS returns, and
\* leaves everything as it was.  No socket, and no timer either.
NoToken ==
    /\ awaiting > 0
    /\ faults < MaxFaults
    /\ faults' = faults + 1
    /\ awaiting' = awaiting - 1
    /\ UNCHANGED <<hijackable, unsent, pending, unpublished, server, cur,
                   opened, polling, timers, list>>

OnOpen(c) ==
    /\ c = cur
    /\ link[c] = "up"
    /\ ~opened
    /\ opened' = TRUE
    /\ polling' = FALSE
    /\ UNCHANGED <<backend, server, cur, timers, awaiting, list>>

\* Mutant: polling starts only when a socket that was open is lost.
OnClose_PollsLate(c) ==
    /\ c = cur
    /\ link[c] \in {"closed", "lost"}
    /\ cur' = NoConn
    /\ opened' = FALSE
    /\ polling' = (polling \/ opened)
    /\ timers' = timers + 1
    /\ UNCHANGED <<backend, handler, reading, done, outbox, awaiting, list>>
    /\ link' = ForgetLinks(link)

\* The current socket failed, was closed, or the phone notices that it is
\* dead: poll, and set the timer.
OnClose(c) ==
    /\ c = cur
    /\ link[c] \in {"closed", "lost"}
    /\ cur' = NoConn
    /\ opened' = FALSE
    /\ polling' = TRUE
    /\ timers' = timers + 1
    /\ UNCHANGED <<backend, handler, reading, done, outbox, awaiting, list>>
    /\ link' = ForgetLinks(link)

Reconnect ==
    /\ timers > 0
    /\ timers' = timers - 1
    /\ awaiting' = awaiting + 1
    /\ UNCHANGED <<backend, server, cur, opened, polling, list>>

\* The app comes to the foreground.  No timer is cleared.
Foreground ==
    /\ cur = NoConn
    /\ timers + awaiting < MaxCalls
    /\ awaiting' = awaiting + 1
    /\ CanPoll
    /\ StartFetch
    /\ UNCHANGED <<backend, server, cur, opened, polling, timers>>

-----------------------------------------------------------------------------
(* The hook's list.                                                        *)

Poll ==
    /\ polling
    /\ CanPoll
    /\ StartFetch
    /\ UNCHANGED <<backend, server, socket>>

\* ListAgentOffers: the agent's pending offers, now.
ListAgentOffers(f) ==
    /\ f \in asked
    /\ asked' = asked \ {f}
    /\ answer' = [answer EXCEPT ![f] = {pending}]
    /\ UNCHANGED <<backend, server, socket, shown>>

\* The answer replaces the list, an older answer a newer one too.
SetOffers(f) ==
    /\ \E offers \in answer[f] : shown' = offers
    /\ answer' = [answer EXCEPT ![f] = {}]
    /\ UNCHANGED <<backend, server, socket, asked>>

FetchFails(f) ==
    /\ f \in asked
    /\ faults < MaxFaults
    /\ faults' = faults + 1
    /\ asked' = asked \ {f}
    /\ UNCHANGED <<hijackable, unsent, pending, unpublished, server, socket,
                   answer, shown>>

-----------------------------------------------------------------------------
(* ServeWS and its two pumps.                                              *)

\* The token, its agent or the upgrade is refused: a plain HTTP answer.
Refuse(c) ==
    /\ handler[c] = "checking"
    /\ handler' = [handler EXCEPT ![c] = "none"]
    /\ UNCHANGED <<backend, reading, done, outbox, socket, list>>
    /\ link' = ForgetLinks([link EXCEPT ![c] = IF @ = "lost" THEN @ ELSE "closed"])

Upgrade(c) ==
    /\ handler[c] = "checking"
    /\ hijackable
    /\ handler' = [handler EXCEPT ![c] = "subscribing"]
    /\ link' = [link EXCEPT ![c] = IF @ = "opening" THEN "up" ELSE @]
    /\ UNCHANGED <<backend, reading, done, outbox, socket, list>>

\* Only now is the channel subscribed, and the pumps started.
Subscribe(c) ==
    /\ handler[c] = "subscribing"
    /\ handler' = [handler EXCEPT ![c] = "pumping"]
    /\ reading' = [reading EXCEPT ![c] = TRUE]
    /\ UNCHANGED <<backend, link, done, outbox, socket, list>>

\* Mutant: readPump returns without cancel().
ReadPumpEnds_NoCancel(c) ==
    /\ reading[c]
    /\ link[c] \in {"closed", "lost"}
    /\ reading' = [reading EXCEPT ![c] = FALSE]
    /\ UNCHANGED <<backend, handler, done, outbox, socket, list>>
    /\ link' = ForgetLinks(link)

\* Reading fails: the other end closed, or the read deadline has passed.
ReadPumpEnds(c) ==
    /\ reading[c]
    /\ link[c] \in {"closed", "lost"}
    /\ reading' = [reading EXCEPT ![c] = FALSE]
    /\ done' = [done EXCEPT ![c] = handler[c] = "pumping"]
    /\ UNCHANGED <<backend, handler, outbox, socket, list>>
    /\ link' = ForgetLinks(link)

\* writePump returns, and ServeWS with it: cancel, unsubscribe, close.
HandlerReturns(c) ==
    /\ handler' = [handler EXCEPT ![c] = "none"]
    /\ done' = [done EXCEPT ![c] = FALSE]
    /\ outbox' = [outbox EXCEPT ![c] = {}]
    /\ UNCHANGED <<backend, reading, socket, list>>
    /\ link' = ForgetLinks([link EXCEPT ![c] = IF @ = "lost" THEN @ ELSE "closed"])

WritePumpEnds(c) ==
    /\ handler[c] = "pumping"
    /\ done[c]
    /\ HandlerReturns(c)

\* A ping or a message cannot be written.
WriteFails(c) ==
    /\ handler[c] = "pumping"
    /\ link[c] # "up"
    /\ HandlerReturns(c)

\* Mutant: a message does not make the hook fetch.
WriteMessage_NoFetch(c) ==
    /\ handler[c] = "pumping"
    /\ \E o \in outbox[c] : outbox' = [outbox EXCEPT ![c] = @ \ {o}]
    /\ UNCHANGED <<backend, link, handler, reading, done, socket, list>>

\* A message is written to the socket, and onmessage fetches; one that is
\* written to a lost link goes nowhere.
WriteMessage(c) ==
    /\ handler[c] = "pumping"
    /\ \E o \in outbox[c] : outbox' = [outbox EXCEPT ![c] = @ \ {o}]
    /\ \/ link[c] = "up" /\ opened /\ StartFetch
       \/ link[c] # "up" /\ UNCHANGED list
    /\ UNCHANGED <<backend, link, handler, reading, done, socket>>

-----------------------------------------------------------------------------

LoseLink(c) ==
    /\ link[c] \in {"opening", "up"}
    /\ link' = [link EXCEPT ![c] = "lost"]
    /\ UNCHANGED <<backend, handler, reading, done, outbox, socket, list>>

\* The server stops and starts again: its goroutines are gone, and its
\* requests fail.
Restart ==
    /\ faults < MaxFaults
    /\ faults' = faults + 1
    /\ unpublished' = {}
    /\ handler' = [c \in Conns |-> "none"]
    /\ reading' = [c \in Conns |-> FALSE]
    /\ done' = [c \in Conns |-> FALSE]
    /\ outbox' = [c \in Conns |-> {}]
    /\ asked' = {}
    /\ UNCHANGED <<hijackable, unsent, pending, socket, answer, shown>>
    /\ link' = ForgetLinks([c \in Conns |-> IF link[c] = "lost" THEN "lost" ELSE "closed"])

\* The goroutine of a handler, from the request to its return.
ServeWS(c) ==
    \/ Refuse(c) \/ Upgrade(c)
    \/ Subscribe(c)
    \/ WriteMessage(c) \/ WritePumpEnds(c)

Next ==
    \/ \E o \in Offers : InsertOffer(o) \/ PublishOffer(o)
    \/ \E c \in Conns :
        \/ ConnectWS(c) \/ OnOpen(c) \/ OnClose(c)
        \/ ServeWS(c) \/ ReadPumpEnds(c) \/ WriteFails(c) \/ LoseLink(c)
    \/ \E f \in Fetches : ListAgentOffers(f) \/ SetOffers(f) \/ FetchFails(f)
    \/ NoToken \/ Reconnect \/ Foreground \/ Poll \/ Restart

\* Timers fire, promises resolve, the event loop and the goroutines run, and
\* requests are answered.  Nothing makes a link fail, or a write to a dead
\* link, and nothing brings the app to the foreground.
Fairness ==
    /\ \A c \in Conns :
        /\ WF_vars(ServeWS(c))
        /\ WF_vars(ReadPumpEnds(c))
        /\ WF_vars(OnOpen(c) \/ OnClose(c))
    /\ \A f \in Fetches : WF_vars(ListAgentOffers(f) \/ SetOffers(f))
    /\ WF_vars(\E c \in Conns : ConnectWS(c))
    /\ WF_vars(Reconnect)
    /\ WF_vars(Poll)

Spec == Init /\ [][Next]_vars /\ Fairness

-----------------------------------------------------------------------------
(* Properties *)

\* The variables keep their types.
TypeOK ==
    /\ hijackable \in BOOLEAN
    /\ unsent \subseteq Offers /\ pending \subseteq Offers
    /\ unpublished \subseteq Offers /\ shown \subseteq Offers
    /\ faults \in 0..MaxFaults
    /\ link \in [Conns -> {"opening", "up", "closed", "lost"}]
    /\ handler \in [Conns -> {"none", "checking", "subscribing", "pumping"}]
    /\ reading \in [Conns -> BOOLEAN]
    /\ done \in [Conns -> BOOLEAN]
    /\ outbox \in [Conns -> SUBSET Offers]
    /\ cur \in Conns \cup {NoConn}
    /\ opened \in BOOLEAN /\ (opened => cur # NoConn)
    /\ polling \in BOOLEAN
    /\ timers \in Nat /\ awaiting \in Nat
    /\ asked \subseteq Fetches
    /\ answer \in [Fetches -> SUBSET SUBSET Offers]

\* The hook has a socket, or it polls.
Alive == cur # NoConn \/ polling

\* It has a socket, or is going to open one.
Connecting == cur # NoConn \/ awaiting > 0 \/ timers > 0

\* What no step of timers, foreground, sockets and token reads does.
StaysAlive ==
    /\ Alive => Alive'
    /\ Connecting => Connecting' \/ NoToken

\* However timers, the foreground, failing sockets and failing reads of the
\* token overlap: once the hook has a socket or polls, it never loses both,
\* and nothing but a read of the token that fails makes it give up the next
\* connection.  (Before the first socket a failing read leaves it with
\* nothing until the app comes to the foreground.)
FeedStaysAlive == [][StaysAlive]_vars

\* A link that the phone closed or that was lost is noticed by the server:
\* both goroutines end, and with them the subscription.
ServerLetsGo ==
    \A c \in Conns :
        link[c] \in {"closed", "lost"} ~> handler[c] = "none" /\ ~reading[c]

\* An offer that is pending while the hook has a socket or polls is shown,
\* unless a socket is open: without one the poll finds it, and that is always
\* so behind the Logging wrapper.
PendingOfferIsShown ==
    \A o \in Offers :
        o \in pending /\ Alive ~> o \in shown \/ opened

\* An offer published to a connected agent is shown, while the link stays up
\* and no request fails.
PushedOfferIsShown ==
    \A o \in Offers :
        (\E c \in Conns : o \in outbox[c] /\ link[c] = "up") ~>
            \/ o \in shown
            \/ \A c \in Conns : link[c] # "up"
            \/ faults > 0
=============================================================================
