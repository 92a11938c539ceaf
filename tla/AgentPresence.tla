--------------------------- MODULE AgentPresence ---------------------------
(***************************************************************************)
(* Where the backend believes an agent is, and whether its query for jobs  *)
(* finds it: internal/agent/{service,location}.go and the query            *)
(* FindMatchableAgents.  The app posts readings, which go to Redis with a  *)
(* time to live; a flusher copies what it finds there into the agents      *)
(* table every few minutes, and the matcher reads the table.               *)
(*                                                                         *)
(* Time is counted in units, and everything that has an age holds it, so   *)
(* no clock grows.  A reading may expire just before or just after a flush *)
(* that happens in the same instant.                                       *)
(***************************************************************************)
EXTENDS Naturals

CONSTANTS
    Agents,         \* the active agents
    TTL,            \* locationTTL, 5 minutes
    FlushInterval,  \* flushInterval, 5 minutes
    Window          \* how old last_location_at may be, 10 minutes

ASSUME TimesAssumption ==
    /\ TTL \in Nat \ {0, 1}        \* a reading outlives a unit of time
    /\ FlushInterval \in Nat \ {0}
    /\ Window \in Nat
    /\ FlushInterval < Window

VARIABLES
    reading,    \* Redis: the age of the agent's reading, NoReading when none
    online,     \* table: is_online
    located,    \* table: the age of last_location_at, at most Window
    taken,      \* the age of the reading in the table, at most Outdated
    timer,      \* units until the flusher's ticker fires
    todo,       \* the agents of the keys a flush has still to copy
    steady,     \* units for which the agent has reported in every one
    failed      \* the agents whose last flush ran into an error

redis == <<reading>>
table == <<online, located, taken>>
flusher == <<timer, todo, failed>>
vars == <<redis, table, flusher, steady>>

NoReading == TTL + 1
Outdated == TTL + Window
Proven == FlushInterval + 1     \* reporting for so long, a flush saw it

AtMost(bound, n) == IF n < bound THEN n ELSE bound

Init ==
    /\ reading = [a \in Agents |-> NoReading]
    /\ online = [a \in Agents |-> FALSE]
    /\ located = [a \in Agents |-> Window]
    /\ taken = [a \in Agents |-> Outdated]
    /\ timer = FlushInterval
    /\ todo = {}
    /\ steady = [a \in Agents |-> 0]
    /\ failed = {}

\* The rows that FindMatchableAgents lets the matcher choose from: online,
\* and located within the window.
Matchable == {a \in Agents : online[a] /\ located[a] < Window}

-----------------------------------------------------------------------------

\* POST /v1/agents/me/location with a valid position: SET with the TTL, and a
\* PUBLISH that nobody listens to.  An invalid one, an unknown agent or a
\* Redis error changes nothing.
UpdateLocation(a) ==
    /\ reading' = [reading EXCEPT ![a] = 0]
    /\ UNCHANGED <<table, flusher, steady>>

\* PUT /v1/agents/me/availability.
UpdateAvailability(a) ==
    /\ \E isOnline \in BOOLEAN : online' = [online EXCEPT ![a] = isOnline]
    /\ UNCHANGED <<redis, located, taken, flusher, steady>>

\* Redis drops a reading whose time to live is over.
Expire(a) ==
    /\ reading[a] = TTL
    /\ reading' = [reading EXCEPT ![a] = NoReading]
    /\ UNCHANGED <<table, flusher, steady>>

\* The ticker fires: SCAN collects the keys that are there now, in as many
\* batches as it takes.
StartFlush ==
    /\ timer = 0
    /\ timer' = FlushInterval
    /\ \/ /\ todo' = {a \in Agents : reading[a] # NoReading}
          /\ UNCHANGED failed
       \/ /\ failed' = Agents            \* SCAN fails: the flush returns
          /\ UNCHANGED todo
    /\ UNCHANGED <<redis, table, steady>>

\* UPDATE agents: the position, and last_location_at = NOW().
UpdateAgentLocation(a) ==
    /\ located' = [located EXCEPT ![a] = 0]
    /\ taken' = [taken EXCEPT ![a] = reading[a]]
    /\ UNCHANGED online

\* Mutant: a key that expired since the scan ends the flush.
FlushKey_Stops(a) ==
    /\ a \in todo
    /\ IF reading[a] = NoReading
       THEN todo' = {} /\ UNCHANGED <<table, failed>>
       ELSE /\ todo' = todo \ {a}
            /\ UpdateAgentLocation(a)
            /\ failed' = failed \ {a}
    /\ UNCHANGED <<redis, timer, steady>>

\* Mutant: the row of a key that expired since the scan is stamped too.
FlushKey_StampsExpired(a) ==
    /\ a \in todo
    /\ todo' = todo \ {a}
    /\ located' = [located EXCEPT ![a] = 0]
    /\ taken' = IF reading[a] = NoReading THEN taken
                                         ELSE [taken EXCEPT ![a] = reading[a]]
    /\ UNCHANGED <<redis, online, timer, steady, failed>>

\* GET the key and copy it; one that expired since the scan, or whose UPDATE
\* fails, is passed over.
FlushKey(a) ==
    /\ a \in todo
    /\ todo' = todo \ {a}
    /\ \/ /\ reading[a] # NoReading
          /\ UpdateAgentLocation(a)
          /\ failed' = failed \ {a}
       \/ /\ reading[a] = NoReading
          /\ UNCHANGED <<table, failed>>
       \/ /\ failed' = failed \cup {a}
          /\ UNCHANGED table
    /\ UNCHANGED <<redis, timer, steady>>

\* A unit of time passes: a due flush has been started and has ended.
Pass ==
    /\ timer > 0
    /\ todo = {}
    /\ \A a \in Agents : reading[a] # TTL
    /\ timer' = timer - 1
    /\ reading' = [a \in Agents |-> AtMost(NoReading, reading[a] + 1)]
    /\ located' = [a \in Agents |-> AtMost(Window, located[a] + 1)]
    /\ taken' = [a \in Agents |-> AtMost(Outdated, taken[a] + 1)]
    /\ steady' = [a \in Agents |->
           IF reading[a] = 0 THEN AtMost(Proven, steady[a] + 1) ELSE 0]
    /\ UNCHANGED <<online, failed, todo>>

\* The process is restarted, and its ticker with it; Redis and Postgres stay.
Restart ==
    /\ timer' = FlushInterval
    /\ todo' = {}
    /\ steady' = [a \in Agents |-> 0]
    /\ UNCHANGED <<redis, table, failed>>

Next ==
    \/ \E a \in Agents :
        \/ UpdateLocation(a)
        \/ UpdateAvailability(a)
        \/ Expire(a)
        \/ FlushKey(a)
    \/ StartFlush
    \/ Pass
    \/ Restart

Spec == Init /\ [][Next]_vars

-----------------------------------------------------------------------------

\* The variables keep their types.
TypeOK ==
    /\ reading \in [Agents -> 0..NoReading]
    /\ online \in [Agents -> BOOLEAN]
    /\ located \in [Agents -> 0..Window]
    /\ taken \in [Agents -> 0..Outdated]
    /\ timer \in 0..FlushInterval
    /\ todo \subseteq Agents
    /\ steady \in [Agents -> 0..Proven]
    /\ failed \subseteq Agents

\* An agent that the matcher's query finds was, at the time of the query, at a
\* position that is less than TTL + Window old, although the flusher stamps a
\* row with the time of the flush and not of the reading.  (The dispatcher ranks
\* once and then offers to one agent after the other, so that the position of
\* a later one is older by the time it is asked.)
PositionIsRecent == \A a \in Matchable : taken[a] < Outdated

\* An agent that is online, has been reporting for longer than one interval
\* and whose last flush met no error is in the pool, whatever other agents'
\* keys do and however the process was restarted before.
ReporterIsMatchable ==
    \A a \in Agents :
        online[a] /\ steady[a] = Proven /\ a \notin failed => a \in Matchable
=============================================================================
