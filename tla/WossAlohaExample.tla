--------------------------- MODULE WossAlohaExample ---------------------------
(***************************************************************************)
(* The example of the module: Experiment::Run brings a helper, a channel   *)
(* and its nodes up in a fixed order, places the nodes with the position   *)
(* allocator that m_posAllocSelector selects, lets the simulator run, and  *)
(* counts the bytes the sink receives.                                     *)
(*                                                                         *)
(* External: what WossHelper::Initialize does (it succeeds or ends the     *)
(* script), MobilityHelper::Install, which calls GetNext of its allocator  *)
(* for every node, and the simulator, which delivers packets.              *)
(***************************************************************************)
EXTENDS Integers, Sequences

CONSTANTS
    Selectors,      \* values of m_posAllocSelector
    MaxNodes,       \* bound: nodes that send
    PktSize,        \* m_pktSize
    MaxPackets      \* bound: packets that reach the sink

VARIABLES
    pc,                     \* what Run does next
    status,                 \* "running", "aborted" (NS_FATAL_ERROR) or "crashed"
    m_posAllocSelector,
    m_databasePath,         \* is it given
    nNodes,
    custom,                 \* what of the environment is set by strings
    devices,                \* the devices of the channel, in their order
    pos,                    \* the outer variable pos of Run: an allocator or "null"
    posSink,                \* places in the sink's list
    placed,                 \* nodes that have a mobility model
    waypoints,              \* of the sink
    socket,                 \* packets in the sink's socket
    m_bytesTotal

setup == <<m_posAllocSelector, m_databasePath, nNodes>>
scene == <<custom, devices, pos, posSink, placed, waypoints>>
vars == <<pc, status, setup, scene, socket, m_bytesTotal>>

\* main: the constructor and the command line.
Init ==
    /\ pc = "start" /\ status = "running"
    /\ m_posAllocSelector \in Selectors
    /\ m_databasePath \in BOOLEAN
    /\ nNodes \in 0 .. MaxNodes
    /\ custom = {} /\ devices = <<>> /\ pos = "null" /\ posSink = 0
    /\ placed = {} /\ waypoints = 0
    /\ socket = 0 /\ m_bytesTotal = 0

-----------------------------------------------------------------------------
Step(from, to) ==
    /\ status = "running"
    /\ pc = from /\ pc' = to
    /\ UNCHANGED setup

\* The attributes are set, the helper is initialized, and an environment without
\* databases is given by strings.
InitWossHelper ==
    /\ Step("start", "devices")
    /\ \/ /\ custom' = IF m_databasePath THEN {} ELSE {"bathymetry", "sediment", "ssp"}
          /\ UNCHANGED status
       \/ status' = "aborted" /\ UNCHANGED custom
    /\ m_bytesTotal' = 0
    /\ UNCHANGED <<devices, pos, posSink, placed, waypoints, socket>>

\* The sink is attached to the channel before the nodes; its place is listed.
InstallDevices ==
    /\ Step("devices", "positions")
    /\ devices' = [n \in 1 .. nNodes + 1 |-> n - 1]
    /\ posSink' = 1
    /\ UNCHANGED <<status, custom, pos, placed, waypoints, socket, m_bytesTotal>>

\* The allocator of the nodes.  The branch of the uniform disc configures a
\* variable of its own with the same name.
SelectAllocator ==
    /\ Step("positions", "mobility")
    /\ pos' = CASE m_posAllocSelector = 0 -> "list"
                [] m_posAllocSelector = 1 -> "grid"
                [] m_posAllocSelector = 2 -> "rectangle"
                [] m_posAllocSelector = 3 -> "disc"
                [] OTHER -> pos
    /\ status' = IF m_posAllocSelector > 4 THEN "aborted" ELSE status
    /\ UNCHANGED <<custom, devices, posSink, placed, waypoints, socket, m_bytesTotal>>

\* The sink is placed and gets five waypoints; every node is placed by pos.
InstallMobility ==
    /\ Step("mobility", "simulation")
    /\ IF pos = "null" /\ nNodes > 0
          THEN status' = "crashed" /\ placed' = {0} /\ UNCHANGED waypoints
          ELSE placed' = 0 .. nNodes /\ waypoints' = 5 /\ UNCHANGED status
    /\ UNCHANGED <<custom, devices, pos, posSink, socket, m_bytesTotal>>

\* Packets of the nodes reach the sink's socket.
Deliver ==
    /\ Step("simulation", "receive")
    /\ nNodes > 0
    /\ \E packets \in 1 .. MaxPackets :
          m_bytesTotal + packets * PktSize <= MaxPackets * PktSize /\ socket' = packets
    /\ UNCHANGED <<status, scene, m_bytesTotal>>

\* ReceivePacket empties the socket.
ReceivePacket ==
    /\ Step("receive", "simulation")
    /\ m_bytesTotal' = m_bytesTotal + socket * PktSize
    /\ socket' = 0
    /\ UNCHANGED <<status, scene>>

\* Simulator::Stop, and the return of Run.
Stop ==
    /\ Step("simulation", "done")
    /\ UNCHANGED <<status, scene, socket, m_bytesTotal>>

Next ==
    \/ InitWossHelper \/ InstallDevices \/ SelectAllocator \/ InstallMobility
    \/ Deliver \/ ReceivePacket \/ Stop

Spec == Init /\ [][Next]_vars

-----------------------------------------------------------------------------
\* "The m_numNodes are allocated as the model selected by the m_posAllocSelector
\* variable": with every selector of the command line's help, 0 to 4, the nodes
\* get their places.
SelectorPlacesNodes ==
    m_posAllocSelector \in 0 .. 4 => status # "crashed"

=============================================================================
