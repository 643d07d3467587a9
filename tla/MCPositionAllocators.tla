------------------------- MODULE MCPositionAllocators -------------------------
(***************************************************************************)
(* Scripts with two allocators, of one class or of two that share random   *)
(* variables, and one that mixes a grid with an allocator that draws.      *)
(***************************************************************************)
EXTENDS PositionAllocators

MCScripts ==
    {<<"Rectangle", "UniformDisc">>, <<"Disc", "List">>, <<"Box", "List">>, <<"Grid", "UniformDisc">>}
=============================================================================
