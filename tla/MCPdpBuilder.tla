---------------------------- MODULE MCPdpBuilder ----------------------------
(***************************************************************************)
(* Every response of up to three arrivals with successive gaps between one *)
(* and two and a half symbol times (20 ticks): a whole number of symbols,  *)
(* the tolerance (11 ticks) behind a tap, and on either side of both.      *)
(***************************************************************************)
EXTENDS PdpBuilder

CONSTANTS Starts, Gaps

MCResponses ==
    {<<>>}
    \cup {<<s>> : s \in Starts}
    \cup {<<s, s + g>> : s \in Starts, g \in Gaps}
    \cup {<<s, s + g, s + g + h>> : s \in Starts, g \in Gaps, h \in Gaps}
=============================================================================
