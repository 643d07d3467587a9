---------------------------- MODULE TapSelection ----------------------------
(***************************************************************************)
(* How WossChannel::TxPacket and WossPropModel::GetDelay pick a tap of a   *)
(* PDP.  A tap is [delay, att]: att is -20 log10 |amplitude|, the          *)
(* attenuation in dB, larger than every threshold for a zero amplitude.    *)
(***************************************************************************)
EXTENDS Integers, Sequences

Tap == [delay : Nat, att : Int]

\* (attChDb < 0.0) || (attChDb <= chAttThresDb)
Usable(tap, thres) == tap.att < 0 \/ tap.att <= thres

UsableTaps(pdp, thres) == {n \in DOMAIN pdp : Usable(pdp[n], thres)}

Least(S) == CHOOSE n \in S : \A m \in S : n <= m

\* The first usable tap, 0 when there is none.
FirstUsable(pdp, thres) ==
    IF UsableTaps(pdp, thres) = {} THEN 0 ELSE Least(UsableTaps(pdp, thres))

\* WossPropModel::GetDelay: the delay of the first usable tap, of the first
\* tap when none is usable.
GetDelay(pdp, thres) ==
    IF UsableTaps(pdp, thres) = {} THEN pdp[1].delay
    ELSE pdp[FirstUsable(pdp, thres)].delay

\* TxPacket first raises a negative threshold to zero.
Clamp(thres) == IF thres < 0 THEN 0 ELSE thres

=============================================================================
