--------------------------- MODULE MCWossChannel ---------------------------
(***************************************************************************)
(* Two positions.  The response between them depends on the direction; its *)
(* first tap is too weak for the budgets, and one budget is negative.      *)
(***************************************************************************)
EXTENDS WossChannel, TLC

CONSTANTS d1, d2, d3, n1, n2, n3

Weak(delay) == [delay |-> delay, att |-> 90]
Strong(delay) == [delay |-> delay, att |-> 3]
Loud(delay) == [delay |-> delay, att |-> 0]

MCNodeOf == d1 :> n1 @@ d2 :> n2 @@ d3 :> n3
MCPdp ==
    <<"near", "near">> :> <<Loud(0), Weak(1)>>
    @@ <<"near", "far">> :> <<Weak(1), Strong(2), Weak(3)>>
    @@ <<"far", "near">> :> <<Strong(1), Loud(2)>>
    @@ <<"far", "far">> :> <<Weak(1)>>
MCThreshold == {-2, 20}

\* A device is exchanged together with its node.
MCSymmetry ==
    {[x \in Device \cup Node |->
        IF x \in Device THEN p[x] ELSE MCNodeOf[p[CHOOSE d \in Device : MCNodeOf[d] = x]]] :
     p \in Permutations(Device)}
=============================================================================
