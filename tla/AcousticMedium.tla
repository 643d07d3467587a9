--------------------------- MODULE AcousticMedium ---------------------------
(***************************************************************************)
(* What the channel promises to the devices attached to it: a transmission *)
(* reaches every other device attached at that moment exactly once, after  *)
(* the propagation delay between the two positions at that moment, and     *)
(* audible when some tap of the channel response is usable.                *)
(***************************************************************************)
EXTENDS TapSelection, FiniteSets

CONSTANTS
    Device,      \* UanNetDevice with its transducer
    Node,        \* ns-3 nodes
    NodeOf,      \* the node of a device
    Position,    \* positions a node may take
    Pdp,         \* the channel response from one position to another
    Threshold,   \* attenuation budgets chAttThresDb of a transmission
    MaxDelay,    \* longest tap delay of any response
    MaxTime,     \* bound: the simulation stops at this time
    MaxTx        \* bound: transmissions

\* The assumptions on these are those of WossChannel.
VARIABLES
    now,        \* simulation time
    pos,        \* position of every node
    attached,   \* devices attached to the medium
    sent,       \* transmissions so far
    flight,     \* receptions still to come
    heard       \* receptions that took place

mvars == <<now, pos, attached, sent, flight, heard>>

\* A reception: of which transmission, where, when, and whether any tap was
\* usable.
Reception(tx, src, dst, thres) ==
    LET pdp == Pdp[pos[NodeOf[src]], pos[NodeOf[dst]]]
    IN  [tx |-> tx, src |-> src, dst |-> dst,
         at |-> now + GetDelay(pdp, Clamp(thres)),
         audible |-> UsableTaps(pdp, Clamp(thres)) # {}]

MInit ==
    /\ now = 0
    /\ pos \in [Node -> Position]
    /\ attached = {}
    /\ sent = 0
    /\ flight = {}
    /\ heard = {}

Attach(d) ==
    /\ d \notin attached
    /\ attached' = attached \cup {d}
    /\ UNCHANGED <<now, pos, sent, flight, heard>>

Relocate(n, p) ==
    /\ pos' = [pos EXCEPT ![n] = p]
    /\ UNCHANGED <<now, attached, sent, flight, heard>>

Transmit(src, thres) ==
    /\ src \in attached
    /\ sent' = sent + 1
    /\ flight' = flight \cup {Reception(sent + 1, src, dst, thres) : dst \in attached \ {src}}
    /\ UNCHANGED <<now, pos, attached, heard>>

Receive ==
    \E r \in flight :
        /\ r.at = now
        /\ flight' = flight \ {r}
        /\ heard' = heard \cup {r}
        /\ UNCHANGED <<now, pos, attached, sent>>

\* Time does not pass a reception that is due.
Pass ==
    /\ \A r \in flight : r.at > now
    /\ now < MaxTime
    /\ now' = now + 1
    /\ UNCHANGED <<pos, attached, sent, flight, heard>>

MNext ==
    \/ \E d \in Device : Attach(d)
    \/ \E n \in Node, p \in Position : Relocate(n, p)
    \/ \E d \in Device, thres \in Threshold : Transmit(d, thres)
    \/ Receive
    \/ Pass

MSafety == MInit /\ [][MNext]_mvars

\* What is in flight arrives: receptions take place and time passes.
MSpec == MSafety /\ WF_mvars(Receive) /\ WF_mvars(Pass)

=============================================================================
