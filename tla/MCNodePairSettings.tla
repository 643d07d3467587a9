------------------------- MODULE MCNodePairSettings -------------------------
(***************************************************************************)
(* Three models at two addresses: one address is used twice when a model   *)
(* without a location goes.  Strings short of fields, exact and too long.  *)
(***************************************************************************)
EXTENDS NodePairSettings, TLC

MCDefaultAngles == <<-9, 9>>
MCAngleStrings == {<<5>>, <<5, 6>>, <<7, 8, 9>>}
MCTransducerStrings ==
    {<<"t", 1, 1, 1, 1>>, <<"t", 1, 1, 1, 1, 1>>, <<"u", 2, 2, 2, 2, 2, 2>>}
MCSymmetry == Permutations(Model) \cup Permutations(Address)
=============================================================================
