-------------------------- MODULE PositionAllocators --------------------------
(***************************************************************************)
(* The position allocators of a script side by side: a grid, if the script *)
(* has one, places objects and has its attributes set in between what the  *)
(* script does with its random allocators and generators.  A grid takes no *)
(* stream and draws no number, but a width of zero ends the script.        *)
(***************************************************************************)
EXTENDS GridAllocator, RandomStreams

vars == <<gridVars, streamVars>>

HasGrid == \E a \in DOMAIN kinds : kinds[a] = "Grid"

\* In a script without a grid one of its initial states stands for all.
Init ==
    /\ GridInit
    /\ StreamsInit
    /\ HasGrid \/ grid = CHOOSE value \in Attributes : TRUE

Next ==
    \/ HasGrid /\ GridNext /\ UNCHANGED streamVars
    \/ status = "running" /\ StreamsNext /\ UNCHANGED gridVars

Spec == Init /\ [][Next]_vars

=============================================================================
