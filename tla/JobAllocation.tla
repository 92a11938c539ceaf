--------------------------- MODULE JobAllocation ---------------------------
(***************************************************************************)
(* What dispatching a job promises, whatever the cascade does: a job is    *)
(* open until it is either given up or handed, once and for all, to one    *)
(* agent who accepted it.                                                  *)
(* Module Dispatch is shown to implement this specification.               *)
(***************************************************************************)
CONSTANTS Jobs, Agents, NoAgent

VARIABLES
  phase,    \* "open", "assigned" or "unassigned"
  holder,   \* the agent the job was handed to
  willing   \* the agents who accepted an offer of the job

vars == <<phase, holder, willing>>

Init ==
  /\ phase = [j \in Jobs |-> "open"]
  /\ holder = [j \in Jobs |-> NoAgent]
  /\ willing = [j \in Jobs |-> {}]

Agree(j, a) ==
  /\ willing' = [willing EXCEPT ![j] = @ \cup {a}]
  /\ UNCHANGED <<phase, holder>>

Assign(j, a) ==
  /\ phase[j] = "open"
  /\ a \in willing[j]
  /\ phase' = [phase EXCEPT ![j] = "assigned"]
  /\ holder' = [holder EXCEPT ![j] = a]
  /\ UNCHANGED willing

GiveUp(j) ==
  /\ phase[j] = "open"
  /\ phase' = [phase EXCEPT ![j] = "unassigned"]
  /\ UNCHANGED <<holder, willing>>

Next ==
  \E j \in Jobs :
    \/ \E a \in Agents : Agree(j, a) \/ Assign(j, a)
    \/ GiveUp(j)

Spec == Init /\ [][Next]_vars
=============================================================================
