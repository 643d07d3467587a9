----------------------------- MODULE WossChannel -----------------------------
(***************************************************************************)
(* WossChannel::TxPacket over the single-threaded ns-3 event loop.  The    *)
(* call runs as one event, so nothing else happens between its steps; what *)
(* it schedules is run later, in order of time and then of scheduling,     *)
(* when the nodes may have moved and devices may have been attached.       *)
(*                                                                         *)
(* UanChannel (AddDevice, SendUp), the event loop and the mobility models  *)
(* are external: they are modelled as TxPacket uses them.  Sequences of    *)
(* the model start at 1, k counts from 0 as in the code.                   *)
(***************************************************************************)
EXTENDS TapSelection

CONSTANTS Device, Node, NodeOf, Position, Pdp, Threshold, MaxDelay, MaxTime, MaxTx,
          NoDevice, NoNode    \* no transducer, no mobility model

ASSUME NoDeviceAssumption == NoDevice \notin Device /\ NoNode \notin Node
ASSUME NodeOfAssumption == NodeOf \in [Device -> Node]
ASSUME PdpAssumption ==
    /\ Pdp \in [Position \X Position -> Seq(Tap)]
    /\ \A g \in Position \X Position :
          Len(Pdp[g]) > 0 /\ \A n \in DOMAIN Pdp[g] : Pdp[g][n].delay <= MaxDelay
ASSUME ThresholdAssumption == Threshold \subseteq Int
ASSUME BoundAssumption == MaxDelay \in Nat /\ MaxTime \in Nat /\ MaxTx \in Nat

VARIABLES
    now,            \* Simulator::Now
    pos,            \* position of every node's mobility model
    devList,        \* UanChannel::m_devList
    events,         \* pending SendUp events of the simulator
    uid,            \* identifier of the next event
    heard,          \* history: the events run, with the receiver and the time
    txLog,          \* history: the calls of TxPacket and what held when they began
    pc,             \* "idle", "gather" or "schedule"
    src,            \* transducer of the call
    chAttThresDb,   \* attenuation budget of the call
    senderMobility, \* node whose mobility model it is
    rxMobVector,    \* nodes whose mobility models they are
    uanPdpVector,   \* one response per entry of rxMobVector, as its end points
    i, j, k         \* device, response and device index of the loops

simVars == <<now, pos, devList>>
locals == <<src, chAttThresDb, senderMobility, rxMobVector, uanPdpVector, i, j, k>>
vars == <<simVars, events, uid, heard, txLog, pc, locals>>

Attached == {devList[n] : n \in DOMAIN devList}

\* Outside a call the locals have no value.
LocalsReset ==
    /\ src' = NoDevice /\ chAttThresDb' = 0 /\ senderMobility' = NoNode
    /\ rxMobVector' = <<>> /\ uanPdpVector' = <<>>
    /\ i' = 1 /\ j' = 1 /\ k' = 0

Init ==
    /\ now = 0
    /\ pos \in [Node -> Position]
    /\ devList = <<>>
    /\ events = {} /\ uid = 0
    /\ heard = {} /\ txLog = <<>>
    /\ pc = "idle"
    /\ src = NoDevice /\ chAttThresDb = 0 /\ senderMobility = NoNode
    /\ rxMobVector = <<>> /\ uanPdpVector = <<>>
    /\ i = 1 /\ j = 1 /\ k = 0

-----------------------------------------------------------------------------
\* UanChannel::AddDevice; a device joins its channel once.
AddDevice(d) ==
    /\ pc = "idle"
    /\ d \notin Attached
    /\ devList' = Append(devList, d)
    /\ UNCHANGED <<now, pos, events, uid, heard, txLog, pc, locals>>

\* A mobility model moves its node.
Move(n, p) ==
    /\ pc = "idle"
    /\ p # pos[n]
    /\ pos' = [pos EXCEPT ![n] = p]
    /\ UNCHANGED <<now, devList, events, uid, heard, txLog, pc, locals>>

\* Entry of TxPacket, called by an attached transducer.
TxPacket(d, thres) ==
    /\ pc = "idle"
    /\ d \in Attached
    /\ Len(txLog) < MaxTx
    /\ now + MaxDelay <= MaxTime
    /\ txLog' = Append(txLog, [src |-> d, at |-> now, pos |-> pos,
                               attached |-> Attached, thres |-> thres])
    /\ pc' = "gather"
    /\ src' = d
    /\ chAttThresDb' = thres
    /\ UNCHANGED <<simVars, events, uid, heard, senderMobility, rxMobVector,
                   uanPdpVector, i, j, k>>

\* First loop: sort the mobility models into sender and receivers.
GatherStep ==
    /\ pc = "gather"
    /\ i <= Len(devList)
    /\ IF src # devList[i]
          THEN /\ rxMobVector' = Append(rxMobVector, NodeOf[devList[i]])
               /\ UNCHANGED senderMobility
          ELSE /\ senderMobility' = NodeOf[devList[i]]
               /\ UNCHANGED rxMobVector
    /\ i' = i + 1
    /\ UNCHANGED <<simVars, events, uid, heard, txLog, pc, src, chAttThresDb,
                   uanPdpVector, j, k>>

\* Mutation: the paths lead from the receivers to the sender.
CoordzPairsReversed(tx, rxs) == [m \in DOMAIN rxs |-> <<pos[rxs[m]], pos[tx]>>]

\* CreateCoordzPairVector: the sender's position with each receiver's.
CoordzPairs(tx, rxs) == [m \in DOMAIN rxs |-> <<pos[tx], pos[rxs[m]]>>]

\* WossPropModel::GetPdpVector for the whole batch.
GetPdpVector ==
    /\ pc = "gather"
    /\ i > Len(devList)
    /\ uanPdpVector' = CoordzPairs(senderMobility, rxMobVector)
    /\ pc' = "schedule"
    /\ i' = 1 /\ j' = 1 /\ k' = 0
    /\ UNCHANGED <<simVars, events, uid, heard, txLog, src, chAttThresDb,
                   senderMobility, rxMobVector>>

\* Mutation: the device index is that of the response.
SendUpEventByResponse(pair, thres) ==
    LET pdp == Pdp[pair]
    IN  [at |-> now + GetDelay(pdp, thres), uid |-> uid, tx |-> Len(txLog),
         ctx |-> NodeOf[devList[i]], k |-> j - 1, pair |-> pair,
         from |-> FirstUsable(pdp, thres)]

\* Mutation: the delay is taken off.
SendUpEventInPast(pair, thres) ==
    LET pdp == Pdp[pair]
    IN  [at |-> now - GetDelay(pdp, thres), uid |-> uid, tx |-> Len(txLog),
         ctx |-> NodeOf[devList[i]], k |-> k, pair |-> pair,
         from |-> FirstUsable(pdp, thres)]

\* Simulator::ScheduleWithContext (dstNodeId, delay, &WossChannel::SendUp,
\* this, k, copy, rxPowerDb, txMode, normalizedPdp).
SendUpEvent(pair, thres) ==
    LET pdp == Pdp[pair]
    IN  [at |-> now + GetDelay(pdp, thres), uid |-> uid, tx |-> Len(txLog),
         ctx |-> NodeOf[devList[i]], k |-> k, pair |-> pair,
         from |-> FirstUsable(pdp, thres)]

\* The iterator of the responses moves on until it is at the end.
NextResponse == IF j # Len(uanPdpVector) + 1 THEN j + 1 ELSE j

\* Mutation: the response moves on for the source as well.
ScheduleStepMovesOn ==
    /\ pc = "schedule"
    /\ i <= Len(devList)
    /\ IF src # devList[i]
          THEN /\ chAttThresDb' = Clamp(chAttThresDb)
               /\ events' = events \cup {SendUpEvent(uanPdpVector[j], chAttThresDb')}
               /\ uid' = uid + 1
          ELSE UNCHANGED <<chAttThresDb, events, uid>>
    /\ j' = NextResponse
    /\ i' = i + 1
    /\ k' = k + 1
    /\ UNCHANGED <<simVars, heard, txLog, pc, src, senderMobility, rxMobVector,
                   uanPdpVector>>

\* Second loop: one event per receiver; k counts every device, j receivers.
ScheduleStep ==
    /\ pc = "schedule"
    /\ i <= Len(devList)
    /\ IF src # devList[i]
          THEN /\ chAttThresDb' = Clamp(chAttThresDb)
               /\ events' = events \cup {SendUpEvent(uanPdpVector[j], chAttThresDb')}
               /\ uid' = uid + 1
               /\ j' = NextResponse
          ELSE UNCHANGED <<chAttThresDb, events, uid, j>>
    /\ i' = i + 1
    /\ k' = k + 1
    /\ UNCHANGED <<simVars, heard, txLog, pc, src, senderMobility, rxMobVector,
                   uanPdpVector>>

\* Mutation: the second loop leaves out the last device.
TxReturnEarly ==
    /\ pc = "schedule"
    /\ i >= Len(devList)
    /\ pc' = "idle"
    /\ LocalsReset
    /\ UNCHANGED <<simVars, events, uid, heard, txLog>>

TxReturn ==
    /\ pc = "schedule"
    /\ i > Len(devList)
    /\ pc' = "idle"
    /\ LocalsReset
    /\ UNCHANGED <<simVars, events, uid, heard, txLog>>

\* The event loop takes the events of one time in the order of scheduling.
Due(e) == e.at = now /\ \A f \in events : f.at = now => e.uid <= f.uid

\* UanChannel::SendUp: m_devList[k].second->Receive, at the time of the event.
SendUp ==
    /\ pc = "idle"
    /\ \E e \in events :
          /\ Due(e)
          /\ events' = events \ {e}
          /\ heard' = heard \cup {[e |-> e, dst |-> devList[e.k + 1], time |-> now]}
    /\ UNCHANGED <<simVars, uid, txLog, pc, locals>>

\* Time moves on when no event is due.
Tick ==
    /\ pc = "idle"
    /\ now < MaxTime
    /\ \A e \in events : e.at > now
    /\ now' = now + 1
    /\ UNCHANGED <<pos, devList, events, uid, heard, txLog, pc, locals>>

TxStep == GatherStep \/ GetPdpVector \/ ScheduleStep \/ TxReturn

Next ==
    \/ \E d \in Device : AddDevice(d)
    \/ \E n \in Node, p \in Position : Move(n, p)
    \/ \E d \in Device, thres \in Threshold : TxPacket(d, thres)
    \/ TxStep
    \/ SendUp
    \/ Tick

Spec == Init /\ [][Next]_vars

\* A call runs to its end, and the event loop runs what is due and moves on.
FairSpec == Spec /\ WF_vars(TxStep) /\ WF_vars(SendUp) /\ WF_vars(Tick)

-----------------------------------------------------------------------------
Event == [at : Nat, uid : Nat, tx : Nat, ctx : Node, k : Nat,
          pair : Position \X Position, from : Nat]
Call == [src : Device, at : Nat, pos : [Node -> Position], attached : SUBSET Device,
         thres : Threshold]

\* Type invariant of the channel and of the call in progress.
TypeOK ==
    /\ now \in 0 .. MaxTime
    /\ pos \in [Node -> Position]
    /\ devList \in Seq(Device)
    /\ events \subseteq Event
    /\ uid \in Nat
    /\ heard \subseteq [e : Event, dst : Device, time : Nat]
    /\ txLog \in Seq(Call)
    /\ pc \in {"idle", "gather", "schedule"}
    /\ src \in Device \cup {NoDevice}
    /\ chAttThresDb \in Int
    /\ senderMobility \in Node \cup {NoNode}
    /\ rxMobVector \in Seq(Node)
    /\ uanPdpVector \in Seq(Position \X Position)
    /\ i \in Nat \ {0} /\ j \in Nat \ {0} /\ k \in Nat

\* The device whose transducer SendUp will call.
Target(e) == devList[e.k + 1]

\* The end points of the path from the source of call t to a device, as the
\* nodes stood when the call began.
PathAtTx(t, d) == <<t.pos[NodeOf[t.src]], t.pos[NodeOf[d]]>>

\* Every scheduled SendUp belongs to one receiver: the index k, the node of
\* the event's context and the response j all name the same device, which is
\* not the source, although k counts every device and j only receivers.
RightPairing ==
    \A e \in events :
        /\ e.tx \in DOMAIN txLog
        /\ e.k < Len(devList)
        /\ Target(e) # txLog[e.tx].src
        /\ e.ctx = NodeOf[Target(e)]
        /\ e.pair = PathAtTx(txLog[e.tx], Target(e))

\* The scheduling loop never dereferences the end of the responses.
ResponseInRange ==
    pc = "schedule" /\ i <= Len(devList) /\ devList[i] # src => j \in DOMAIN uanPdpVector

\* The receptions of call t at device d, pending and past.
Receptions(t, d) ==
    {e \in events : e.tx = t /\ Target(e) = d}
    \cup {h.e : h \in {h \in heard : h.e.tx = t /\ h.dst = d}}

Finished(t) == t < Len(txLog) \/ pc = "idle"

\* A finished call has exactly one reception, pending or past, at every device
\* that was attached when it began other than the source, and none at the
\* source or at a device attached since.
OncePerReceiver ==
    \A t \in DOMAIN txLog : Finished(t) =>
        \A d \in Device :
            IF d \in txLog[t].attached \ {txLog[t].src}
               THEN \E e \in Receptions(t, d) : Receptions(t, d) = {e}
               ELSE Receptions(t, d) = {}

\* A packet is heard after the delay of the path as it was when the packet was
\* sent, whatever the nodes did while it was travelling.
HeardOnTime ==
    \A h \in heard :
        LET t == txLog[h.e.tx]
        IN  h.time = t.at + GetDelay(Pdp[PathAtTx(t, h.dst)], Clamp(t.thres))

-----------------------------------------------------------------------------
(* The strengthening by which the invariants above are inductive. *)

\* A device is in the list of its channel once.
DistinctDevices == \A m, n \in DOMAIN devList : devList[m] = devList[n] => m = n

\* How many of the first n devices are receivers.
Passed(n) == \E m \in 1 .. n : devList[m] = src
Receivers(n) == IF Passed(n) THEN n - 1 ELSE n

\* The call in progress: nothing has changed since it began.
InCall ==
    IF pc = "idle"
       THEN src = NoDevice /\ rxMobVector = <<>> /\ uanPdpVector = <<>> /\ i = 1 /\ j = 1 /\ k = 0
       ELSE /\ Len(txLog) > 0
            /\ LET t == txLog[Len(txLog)]
               IN  /\ t.src = src /\ t.at = now /\ t.pos = pos /\ t.attached = Attached
                   /\ Clamp(chAttThresDb) = Clamp(t.thres)
            /\ src \in Attached
            /\ i <= Len(devList) + 1
            /\ \A h \in heard : h.e.tx < Len(txLog)

\* Behind the first loop, the receivers are in the order of the device list.
Gathered ==
    pc = "gather" =>
        /\ Len(rxMobVector) = Receivers(i - 1)
        /\ \A m \in 1 .. i - 1 : devList[m] # src => rxMobVector[Receivers(m)] = NodeOf[devList[m]]
        /\ Passed(i - 1) => senderMobility = NodeOf[src]

\* In the second loop, the response of a device is the one of its rank among
\* the receivers, and the two counters stand at the device and at its rank.
Answered ==
    pc = "schedule" =>
        /\ Len(uanPdpVector) = Receivers(Len(devList))
        /\ \A m \in DOMAIN devList : devList[m] # src =>
              uanPdpVector[Receivers(m)] = PathAtTx(txLog[Len(txLog)], devList[m])
        /\ k = i - 1
        /\ j = Receivers(i - 1) + 1

\* The call in progress has scheduled one event for each receiver behind i.
Scheduled ==
    pc # "idle" =>
        \A d \in Device :
            IF pc = "schedule" /\ \E m \in 1 .. i - 1 : devList[m] = d /\ d # src
               THEN \E e \in Receptions(Len(txLog), d) : Receptions(Len(txLog), d) = {e}
               ELSE Receptions(Len(txLog), d) = {}

\* The history knows only devices that are still attached and calls that began.
History ==
    /\ \A t \in DOMAIN txLog : txLog[t].attached \subseteq Attached /\ txLog[t].src \in txLog[t].attached
    /\ \A h \in heard : h.e.tx \in DOMAIN txLog

\* An event is due the delay of its path after its call began, not in the past,
\* and carries the first usable tap of its path.
EventOnTime ==
    \A e \in events :
        /\ e.from = FirstUsable(Pdp[e.pair], Clamp(txLog[e.tx].thres))
        /\ e.at = txLog[e.tx].at + GetDelay(Pdp[e.pair], Clamp(txLog[e.tx].thres))
        /\ e.at >= now

IInv ==
    /\ TypeOK /\ DistinctDevices /\ InCall /\ Gathered /\ Answered /\ Scheduled /\ History
    /\ RightPairing /\ EventOnTime /\ OncePerReceiver /\ HeardOnTime

-----------------------------------------------------------------------------
\* Every receiver of a transmission eventually hears it.
EveryReceiverHears ==
    \A t \in 1 .. MaxTx : t <= Len(txLog) ~>
        /\ t <= Len(txLog)
        /\ \A d \in txLog[t].attached \ {txLog[t].src} :
              \E h \in heard : h.e.tx = t /\ h.dst = d

\* The medium the devices see: a call takes effect when it returns.
Medium == INSTANCE AcousticMedium WITH
    attached <- Attached,
    sent <- IF pc = "idle" THEN Len(txLog) ELSE Len(txLog) - 1,
    flight <- {[tx |-> e.tx, src |-> txLog[e.tx].src, dst |-> Target(e), at |-> e.at,
                audible |-> e.from # 0] : e \in {e \in events : Finished(e.tx)}},
    heard <- {[tx |-> h.e.tx, src |-> txLog[h.e.tx].src, dst |-> h.dst, at |-> h.time,
               audible |-> h.e.from # 0] : h \in heard}

\* TxPacket and the event loop implement the acoustic medium.
ImplementsMedium == Medium!MSpec

=============================================================================
