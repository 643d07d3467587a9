-------------------------- MODULE MCCustomDatabase --------------------------
(***************************************************************************)
(* Every string that announces one or two points and has up to four more   *)
(* fields (complete, cut short anywhere, too long, with a negative value   *)
(* at any point), one range twice with different values, and a string that *)
(* announces none.  Sediment strings one field short, as long as the code  *)
(* reads, and as documented.                                               *)
(***************************************************************************)
EXTENDS CustomDatabase, TLC

Bodies ==
    LET Field(n) == IF n % 2 = 1 THEN {5, 7} ELSE {-1, 3}
    IN  UNION {{s \in [1 .. len -> {5, 7, -1, 3}] : \A n \in 1 .. len : s[n] \in Field(n)} :
               len \in 0 .. 4}

MCLines ==
    {<<0, 5, 3>>, <<1, 5, 4>>, <<2, 5, 4, 5, 3>>, <<2, 5, 3, 5, 4>>}
        \cup {<<total>> \o body : total \in 1 .. 2, body \in Bodies}
MCSediments == {[n \in 1 .. len |-> n] : len \in {5, 6, 8}}
MCBathymetries == {5 :> 4 @@ 7 :> 6}
MCProfiles == {<<[at |-> 5, value |-> 6]>>}
MCMaterials == {<<7>>}
MCAltimetries == {"flat"}
MCSymmetry == Permutations(Places)
=============================================================================
