------------------------------ MODULE Pipeline ------------------------------
(***************************************************************************)
(* What Providers promise of their pipelines, one per Provider and signal  *)
(* (traces, metrics or logs): telemetry is taken while the pipeline is     *)
(* open and at no other time, and leaves it by being exported or given up; *)
(* the pipeline is opened once and shut at most once, for good.  What it   *)
(* holds when it is shut may still leave it afterwards, or be left behind. *)
(***************************************************************************)

CONSTANT Id     \* the pipelines

VARIABLES
    state,      \* of each pipeline: "none", "open" or "shut"
    holding     \* the pipelines with telemetry neither exported nor given up

vars == <<state, holding>>

Init ==
    /\ state = [i \in Id |-> "none"]
    /\ holding = {}

Moves(i, before, after) ==
    /\ state[i] = before
    /\ state' = [state EXCEPT ![i] = after]

Open(i) == Moves(i, "none", "open") /\ UNCHANGED holding

Take(i) == Moves(i, "open", "open") /\ holding' = holding \cup {i}

LetGo(i) ==
    /\ state[i] # "none"
    /\ holding' = holding \ {i}
    /\ UNCHANGED state

(* The last export is part of the shutdown, follows it, or never comes. *)
Shut(i) == Moves(i, "open", "shut") /\ holding' \in {holding, holding \ {i}}

Next == \E i \in Id : Open(i) \/ Take(i) \/ LetGo(i) \/ Shut(i)

Spec == Init /\ [][Next]_vars
=============================================================================
