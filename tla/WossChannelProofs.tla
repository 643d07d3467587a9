------------------------- MODULE WossChannelProofs -------------------------
(***************************************************************************)
(* The channel for every set of devices, every placement, every response   *)
(* and every number of transmissions.  The argument counts receivers: the  *)
(* device at place m of the list is receiver number Receivers(m), so the   *)
(* index k, which counts devices, and the iterator j, which counts         *)
(* receivers, meet at the same device in every pass of the second loop.    *)
(***************************************************************************)
EXTENDS WossChannel, WellFoundedInduction, TLAPS

\* Every non-empty set of naturals has a least element.
LEMMA LeastNatural ==
    ASSUME NEW S, S \subseteq Nat, S # {}
    PROVE  \E n \in S : \A m \in S : n <= m
<1> DEFINE R == OpToRel(<, Nat)
<1>1. IsWellFoundedOn(R, Nat) BY NatLessThanWellFounded
<1>2. PICK n \in S : \A m \in S : ~(<<m, n>> \in R) BY <1>1, WFMin
<1>3. \A m \in S : ~(m < n) BY <1>2 DEF OpToRel
<1> QED BY <1>3

\* When a tap is usable, FirstUsable is the least usable one.
LEMMA FirstUsableIsLeast ==
    ASSUME NEW pdp \in Seq(Tap), NEW thres \in Int, UsableTaps(pdp, thres) # {}
    PROVE  /\ FirstUsable(pdp, thres) \in UsableTaps(pdp, thres)
           /\ \A m \in UsableTaps(pdp, thres) : FirstUsable(pdp, thres) <= m
<1>1. UsableTaps(pdp, thres) \subseteq Nat BY DEF UsableTaps
<1>2. \E n \in UsableTaps(pdp, thres) : \A m \in UsableTaps(pdp, thres) : n <= m
  BY <1>1, LeastNatural
<1> QED BY <1>2 DEF FirstUsable, Least

\* FirstUsable is the index of a tap, or 0.
LEMMA FirstUsableType ==
    ASSUME NEW pdp \in Seq(Tap), NEW thres \in Int
    PROVE  FirstUsable(pdp, thres) \in {0} \cup DOMAIN pdp
<1>1. UsableTaps(pdp, thres) \subseteq DOMAIN pdp BY DEF UsableTaps
<1>2. CASE UsableTaps(pdp, thres) = {} BY <1>2 DEF FirstUsable
<1>3. CASE UsableTaps(pdp, thres) # {} BY <1>1, <1>3, FirstUsableIsLeast
<1> QED BY <1>2, <1>3

\* The delay of a non-empty PDP is the delay of one of its taps.
LEMMA DelayIsOfTap ==
    ASSUME NEW pdp \in Seq(Tap), Len(pdp) > 0, NEW thres \in Int
    PROVE  \E n \in DOMAIN pdp : GetDelay(pdp, thres) = pdp[n].delay
<1>1. CASE UsableTaps(pdp, thres) = {}
  <2>1. 1 \in DOMAIN pdp OBVIOUS
  <2> QED BY <1>1, <2>1 DEF GetDelay
<1>2. CASE UsableTaps(pdp, thres) # {}
  <2>1. FirstUsable(pdp, thres) \in DOMAIN pdp BY <1>2, FirstUsableIsLeast DEF UsableTaps
  <2> QED BY <1>2, <2>1 DEF GetDelay
<1> QED BY <1>1, <1>2

\* A larger attenuation budget never moves the delay to a later tap.
LEMMA LargerBudgetIsEarlier ==
    ASSUME NEW pdp \in Seq(Tap), NEW t \in Int, NEW u \in Int, t <= u,
           UsableTaps(pdp, t) # {}
    PROVE  /\ UsableTaps(pdp, u) # {}
           /\ FirstUsable(pdp, u) <= FirstUsable(pdp, t)
<1>1. \A n \in DOMAIN pdp : pdp[n].att \in Int
  <2>1. \A n \in DOMAIN pdp : pdp[n] \in Tap OBVIOUS
  <2> QED BY <2>1 DEF Tap
<1>2. UsableTaps(pdp, t) \subseteq UsableTaps(pdp, u) BY <1>1 DEF UsableTaps, Usable
<1> QED BY <1>2, FirstUsableIsLeast

\* WossChannel::TxPacket raises a negative budget to zero before it looks for
\* a usable tap, WossPropModel::GetDelay does not: for a response without a tap
\* of exactly 0 dB the two find the same delay all the same.
THEOREM ClampKeepsDelay ==
    ASSUME NEW pdp \in Seq(Tap), NEW thres \in Int,
           \A n \in DOMAIN pdp : pdp[n].att # 0
    PROVE  GetDelay(pdp, Clamp(thres)) = GetDelay(pdp, thres)
<1>1. \A n \in DOMAIN pdp : pdp[n].att \in Int
  <2>1. \A n \in DOMAIN pdp : pdp[n] \in Tap OBVIOUS
  <2> QED BY <2>1 DEF Tap
<1>2. UsableTaps(pdp, Clamp(thres)) = UsableTaps(pdp, thres)
  BY <1>1 DEF UsableTaps, Usable, Clamp
<1> QED BY <1>2 DEF GetDelay, FirstUsable

-----------------------------------------------------------------------------
\* The response of a path has at least one tap, and its delay is a natural.
LEMMA ResponseFacts ==
    ASSUME NEW g \in Position \X Position, NEW thres \in Int
    PROVE  /\ GetDelay(Pdp[g], thres) \in 0 .. MaxDelay
           /\ FirstUsable(Pdp[g], thres) \in Nat
<1>1. Pdp[g] \in Seq(Tap) /\ Len(Pdp[g]) > 0 BY PdpAssumption
<1>2. PICK n \in DOMAIN Pdp[g] : GetDelay(Pdp[g], thres) = Pdp[g][n].delay
  BY <1>1, DelayIsOfTap
<1>3. Pdp[g][n] \in Tap BY <1>1
<1>4. Pdp[g][n].delay \in Nat /\ Pdp[g][n].delay <= MaxDelay
  BY <1>3, PdpAssumption DEF Tap
<1>5. FirstUsable(Pdp[g], thres) \in Nat BY <1>1, FirstUsableType
<1> QED BY <1>2, <1>4, <1>5, BoundAssumption

\* A raised threshold is an integer, and is not raised again.
LEMMA ClampType == ASSUME NEW t \in Int PROVE Clamp(t) \in Int /\ Clamp(Clamp(t)) = Clamp(t)
BY DEF Clamp

\* The places of the list that hold the source and the ranks of the others.
LEMMA ReceiversFacts ==
    ASSUME devList \in Seq(Device), DistinctDevices
    PROVE  /\ \A n \in 0 .. Len(devList) : Receivers(n) \in Nat /\ Receivers(n) <= n
           /\ \A n \in 0 .. Len(devList) - 1 :
                 /\ devList[n + 1] # src => Receivers(n + 1) = Receivers(n) + 1
                 /\ devList[n + 1] = src => Receivers(n + 1) = Receivers(n) /\ Passed(n + 1)
           /\ \A m, n \in 0 .. Len(devList) : m <= n => Receivers(m) <= Receivers(n)
           /\ \A m \in 1 .. Len(devList) : devList[m] # src => Receivers(m) >= 1
<1>0. Len(devList) \in Nat OBVIOUS
<1>1. \A n \in 0 .. Len(devList) : Receivers(n) \in Nat /\ Receivers(n) <= n
  BY <1>0 DEF Receivers, Passed
<1>2. ASSUME NEW n \in 0 .. Len(devList) - 1, devList[n + 1] # src
      PROVE  Receivers(n + 1) = Receivers(n) + 1
  <2>1. Passed(n + 1) <=> Passed(n) BY <1>0, <1>2 DEF Passed
  <2> QED BY <1>0, <2>1 DEF Receivers
<1>3. ASSUME NEW n \in 0 .. Len(devList) - 1, devList[n + 1] = src
      PROVE  Receivers(n + 1) = Receivers(n) /\ Passed(n + 1)
  <2>1. Passed(n + 1) BY <1>0, <1>3 DEF Passed
  <2>2. ~Passed(n)
    <3>1. SUFFICES ASSUME NEW m \in 1 .. n, devList[m] = src PROVE FALSE BY DEF Passed
    <3>2. m \in DOMAIN devList /\ n + 1 \in DOMAIN devList /\ m # n + 1 BY <1>0
    <3> QED BY <1>3, <3>1, <3>2 DEF DistinctDevices
  <2> QED BY <1>0, <2>1, <2>2 DEF Receivers
<1>4. ASSUME NEW m \in 0 .. Len(devList), NEW n \in 0 .. Len(devList), m <= n
      PROVE  Receivers(m) <= Receivers(n)
  <2>1. CASE Passed(m)
    <3>1. Passed(n) BY <1>0, <1>4, <2>1 DEF Passed
    <3> QED BY <1>0, <1>4, <2>1, <3>1 DEF Receivers
  <2>2. CASE ~Passed(m) /\ Passed(n)
    <3>1. m # n BY <2>2
    <3> QED BY <1>0, <1>4, <2>2, <3>1 DEF Receivers
  <2>3. CASE ~Passed(m) /\ ~Passed(n) BY <1>0, <1>4, <2>3 DEF Receivers
  <2> QED BY <2>1, <2>2, <2>3
<1>5. ASSUME NEW m \in 1 .. Len(devList), devList[m] # src
      PROVE  Receivers(m) >= 1
  <2>1. m - 1 \in 0 .. Len(devList) - 1 /\ (m - 1) + 1 = m BY <1>0
  <2>2. Receivers(m) = Receivers(m - 1) + 1 BY <1>2, <1>5, <2>1
  <2>3. Receivers(m - 1) \in Nat BY <1>0, <1>1, <2>1
  <2> QED BY <2>2, <2>3
<1> QED BY <1>1, <1>2, <1>3, <1>4, <1>5

\* The initial state.
LEMMA InductiveInit == Init => IInv
<1> SUFFICES ASSUME Init PROVE IInv OBVIOUS
<1> USE DEF Init
<1>1. TypeOK BY BoundAssumption DEF TypeOK
<1>2. DistinctDevices /\ InCall /\ Gathered /\ Answered /\ Scheduled
  BY DEF DistinctDevices, InCall, Gathered, Answered, Scheduled
<1>3. History /\ RightPairing /\ EventOnTime /\ OncePerReceiver /\ HeardOnTime
  BY DEF History, RightPairing, EventOnTime, OncePerReceiver, HeardOnTime
<1> QED BY <1>1, <1>2, <1>3 DEF IInv

\* A device joins at the end of the list: no index of an event changes its
\* meaning.
LEMMA AddDeviceStep ==
    ASSUME IInv, NEW d \in Device, AddDevice(d)
    PROVE  IInv'
<1> USE DEF IInv
<1>1. /\ pc = "idle" /\ d \notin Attached /\ devList' = Append(devList, d)
      /\ UNCHANGED <<now, pos, events, uid, heard, txLog, pc, locals>>
  BY DEF AddDevice
<1>2. devList \in Seq(Device) /\ Len(devList) \in Nat BY DEF TypeOK
<1>3. TypeOK' BY <1>1, <1>2 DEF TypeOK, locals
<1>4. /\ Len(devList') = Len(devList) + 1
      /\ \A m \in DOMAIN devList : m \in DOMAIN devList' /\ devList'[m] = devList[m]
      /\ devList'[Len(devList) + 1] = d
  BY <1>1, <1>2
<1>5. DistinctDevices' BY <1>1, <1>2, <1>4 DEF DistinctDevices, Attached
<1>6. InCall' /\ Gathered' /\ Answered' /\ Scheduled'
  BY <1>1 DEF InCall, Gathered, Answered, Scheduled, locals
<1>7. Attached \subseteq Attached' BY <1>4 DEF Attached
<1>8. History' BY <1>1, <1>7 DEF History
<1>9. \A e \in events : Target(e)' = Target(e) /\ e.k < Len(devList')
  <2> SUFFICES ASSUME NEW e \in events PROVE Target(e)' = Target(e) /\ e.k < Len(devList')
    OBVIOUS
  <2>1. e.k \in Nat /\ e.k < Len(devList) BY DEF TypeOK, Event, RightPairing
  <2>2. e.k + 1 \in DOMAIN devList BY <1>2, <2>1
  <2> QED BY <1>2, <1>4, <2>1, <2>2 DEF Target
<1>11. RightPairing' BY <1>1, <1>9 DEF RightPairing, PathAtTx
<1>12. EventOnTime' BY <1>1 DEF EventOnTime
<1>13. \A t, x : Receptions(t, x)' = Receptions(t, x) BY <1>1, <1>9 DEF Receptions
<1>14. OncePerReceiver' BY <1>1, <1>13 DEF OncePerReceiver, Finished
<1>15. HeardOnTime' BY <1>1 DEF HeardOnTime, PathAtTx
<1> QED BY <1>3, <1>5, <1>6, <1>8, <1>11, <1>12, <1>14, <1>15

\* Nothing of the channel depends on where the nodes stand now.
LEMMA MoveStep ==
    ASSUME IInv, NEW n \in Node, NEW p \in Position, Move(n, p)
    PROVE  IInv'
<1> USE DEF IInv
<1>1. /\ pc = "idle" /\ pos' = [pos EXCEPT ![n] = p]
      /\ UNCHANGED <<now, devList, events, uid, heard, txLog, pc, locals>>
  BY DEF Move
<1>2. TypeOK' BY <1>1 DEF TypeOK, locals
<1>3. DistinctDevices' /\ InCall' /\ Gathered' /\ Answered' /\ Scheduled'
  BY <1>1 DEF DistinctDevices, InCall, Gathered, Answered, Scheduled, locals
<1>4. History' BY <1>1 DEF History, Attached
<1>5. RightPairing' /\ EventOnTime' /\ HeardOnTime'
  BY <1>1 DEF RightPairing, EventOnTime, HeardOnTime, Target, PathAtTx
<1>6. OncePerReceiver' BY <1>1 DEF OncePerReceiver, Finished, Receptions, Target
<1> QED BY <1>2, <1>3, <1>4, <1>5, <1>6

\* A call begins: no reception is of it yet.
LEMMA TxPacketStep ==
    ASSUME IInv, NEW d \in Device, NEW thres \in Threshold, TxPacket(d, thres)
    PROVE  IInv'
<1> USE DEF IInv
<1> DEFINE call == [src |-> d, at |-> now, pos |-> pos, attached |-> Attached, thres |-> thres]
<1>1. /\ pc = "idle" /\ d \in Attached /\ txLog' = Append(txLog, call)
      /\ pc' = "gather" /\ src' = d /\ chAttThresDb' = thres
      /\ UNCHANGED <<simVars, events, uid, heard, senderMobility, rxMobVector, uanPdpVector, i, j, k>>
  BY DEF TxPacket
<1>2. /\ rxMobVector = <<>> /\ i = 1 /\ txLog \in Seq(Call) /\ Len(txLog) \in Nat
      /\ devList \in Seq(Device) /\ Len(devList) \in Nat
  BY <1>1 DEF InCall, TypeOK
<1>3. Attached \subseteq Device BY <1>2 DEF Attached
<1>4. call \in Call BY <1>3, BoundAssumption DEF Call, TypeOK
<1>5. /\ txLog' \in Seq(Call) /\ Len(txLog') = Len(txLog) + 1
      /\ txLog'[Len(txLog) + 1] = call
      /\ \A t \in DOMAIN txLog : t \in DOMAIN txLog' /\ txLog'[t] = txLog[t]
      /\ \A t \in DOMAIN txLog' : t \in DOMAIN txLog \/ t = Len(txLog) + 1
  BY <1>1, <1>2, <1>4
<1>6. TypeOK'
  <2>1. thres \in Int BY ThresholdAssumption
  <2> QED BY <1>1, <1>5, <2>1 DEF TypeOK, simVars
<1>7. DistinctDevices' BY <1>1 DEF DistinctDevices, simVars
<1>8. Attached' = Attached BY <1>1 DEF Attached, simVars
<1>9. InCall'
  <2>1. \A h \in heard : h.e.tx \in DOMAIN txLog BY DEF History
  <2>2. \A h \in heard : h.e.tx < Len(txLog) + 1 BY <1>2, <2>1
  <2> QED BY <1>1, <1>2, <1>5, <1>8, <2>2 DEF InCall, simVars
<1>10. Gathered' BY <1>1, <1>2 DEF Gathered, Receivers, Passed
<1>11. Answered' BY <1>1 DEF Answered
<1>12. /\ \A e \in events : e.tx \in DOMAIN txLog
       /\ \A h \in heard : h.e.tx \in DOMAIN txLog
  BY DEF RightPairing, History
<1>13. History' BY <1>1, <1>5, <1>8, <1>12 DEF History
<1>14. \A t, x : Receptions(t, x)' = Receptions(t, x)
  BY <1>1 DEF Receptions, Target, simVars
<1>15. \A x : Receptions(Len(txLog) + 1, x) = {} BY <1>2, <1>12 DEF Receptions
<1>16. Scheduled' BY <1>1, <1>5, <1>14, <1>15 DEF Scheduled
<1>17. RightPairing' BY <1>1, <1>5 DEF RightPairing, Target, PathAtTx, simVars
<1>18. EventOnTime' BY <1>1, <1>5, <1>12 DEF EventOnTime, simVars
<1>19. HeardOnTime' BY <1>1, <1>5, <1>12 DEF HeardOnTime, PathAtTx
<1>20. OncePerReceiver'
  <2>1. \A t \in DOMAIN txLog' : Finished(t)' => t \in DOMAIN txLog
    BY <1>1, <1>2, <1>5 DEF Finished
  <2>2. \A t \in DOMAIN txLog : Finished(t) BY <1>1 DEF Finished
  <2> QED BY <1>5, <1>14, <2>1, <2>2 DEF OncePerReceiver
<1> QED BY <1>6, <1>7, <1>9, <1>10, <1>11, <1>13, <1>16, <1>17, <1>18, <1>19, <1>20

\* What a pass of either loop starts from.
LEMMA CallFacts ==
    ASSUME IInv, pc # "idle"
    PROVE  /\ devList \in Seq(Device) /\ Len(devList) \in Nat
           /\ txLog \in Seq(Call) /\ Len(txLog) \in Nat /\ Len(txLog) \in DOMAIN txLog
           /\ txLog[Len(txLog)].src = src /\ txLog[Len(txLog)].at = now
           /\ txLog[Len(txLog)].pos = pos /\ txLog[Len(txLog)].attached = Attached
           /\ Clamp(chAttThresDb) = Clamp(txLog[Len(txLog)].thres)
           /\ src \in Attached /\ i \in 1 .. Len(devList) + 1 /\ i - 1 \in 0 .. Len(devList)
<1>1. /\ devList \in Seq(Device) /\ Len(devList) \in Nat /\ txLog \in Seq(Call)
      /\ Len(txLog) \in Nat /\ i \in Nat /\ i # 0
  BY DEF IInv, TypeOK
<1>2. Len(txLog) > 0 /\ i <= Len(devList) + 1 BY DEF IInv, InCall
<1> QED BY <1>1, <1>2 DEF IInv, InCall

\* What the steps of a call leave alone keeps the facts about receptions.
LEMMA ReceptionsKept ==
    ASSUME IInv, pc # "idle", pc' # "idle", UNCHANGED <<simVars, events, uid, heard, txLog>>
    PROVE  DistinctDevices' /\ History' /\ RightPairing' /\ EventOnTime' /\ OncePerReceiver' /\ HeardOnTime'
<1> USE DEF IInv
<1>1. DistinctDevices' /\ History' BY DEF DistinctDevices, History, Attached, simVars
<1>2. RightPairing' /\ EventOnTime' /\ HeardOnTime'
  BY DEF RightPairing, EventOnTime, HeardOnTime, Target, PathAtTx, simVars
<1>3. OncePerReceiver' BY DEF OncePerReceiver, Finished, Receptions, Target, simVars
<1> QED BY <1>1, <1>2, <1>3

\* A pass of the first loop: a receiver is appended at its rank.
LEMMA GatherStepStep ==
    ASSUME IInv, GatherStep
    PROVE  IInv'
<1> USE DEF IInv
<1>1. /\ pc = "gather" /\ pc' = "gather" /\ i <= Len(devList) /\ i' = i + 1
      /\ UNCHANGED <<simVars, events, uid, heard, txLog, pc, src, chAttThresDb, uanPdpVector, j, k>>
  BY DEF GatherStep
<1>2. /\ devList \in Seq(Device) /\ Len(devList) \in Nat /\ i \in 1 .. Len(devList)
      /\ devList[i] \in Device /\ i - 1 \in 0 .. Len(devList) - 1 /\ (i - 1) + 1 = i
      /\ i' - 1 = i
  BY <1>1, CallFacts
<1>3. NodeOf[devList[i]] \in Node BY <1>2, NodeOfAssumption
<1>4. rxMobVector \in Seq(Node) BY DEF TypeOK
<1>5. TypeOK'
  <2>1. rxMobVector' \in Seq(Node) /\ senderMobility' \in Node \cup {NoNode}
    <3>1. CASE src # devList[i]
      <4>1. rxMobVector' = Append(rxMobVector, NodeOf[devList[i]]) /\ senderMobility' = senderMobility
        BY <3>1 DEF GatherStep
      <4> QED BY <1>3, <1>4, <4>1 DEF TypeOK
    <3>2. CASE src = devList[i]
      <4>1. rxMobVector' = rxMobVector /\ senderMobility' = NodeOf[devList[i]]
        BY <3>2 DEF GatherStep
      <4> QED BY <1>3, <1>4, <4>1
    <3> QED BY <3>1, <3>2
  <2>2. i' \in Nat \ {0} BY <1>1, <1>2
  <2> QED BY <1>1, <2>1, <2>2 DEF TypeOK, simVars
<1>6. DistinctDevices' /\ History' /\ RightPairing' /\ EventOnTime' /\ OncePerReceiver' /\ HeardOnTime'
  BY <1>1, ReceptionsKept
<1>7. InCall' BY <1>1, <1>2 DEF InCall, Attached, simVars
<1>8. Answered' BY <1>1 DEF Answered
<1>9. Scheduled' BY <1>1 DEF Scheduled, Receptions, Target, simVars
<1>10. \A n : Passed(n)' = Passed(n) /\ Receivers(n)' = Receivers(n)
  BY <1>1 DEF Receivers, Passed, simVars
<1>11. /\ Len(rxMobVector) = Receivers(i - 1)
       /\ \A m \in 1 .. i - 1 : devList[m] # src => rxMobVector[Receivers(m)] = NodeOf[devList[m]]
       /\ Passed(i - 1) => senderMobility = NodeOf[src]
  BY <1>1 DEF Gathered
<1>12. Gathered'
  <2>1. CASE src # devList[i]
    <3>1. rxMobVector' = Append(rxMobVector, NodeOf[devList[i]]) /\ senderMobility' = senderMobility
      BY <2>1 DEF GatherStep
    <3>2. Receivers(i) = Receivers(i - 1) + 1 BY <1>2, <2>1, ReceiversFacts
    <3>3. Len(rxMobVector') = Receivers(i) BY <1>4, <1>11, <3>1, <3>2
    <3>4. ASSUME NEW m \in 1 .. i, devList[m] # src
          PROVE  rxMobVector'[Receivers(m)] = NodeOf[devList[m]]
      <4>1. CASE m = i BY <1>4, <1>11, <3>1, <3>2, <4>1
      <4>2. CASE m # i
        <5>1. m \in 1 .. i - 1 /\ m \in 1 .. Len(devList) /\ m \in 0 .. Len(devList)
              /\ i - 1 \in 0 .. Len(devList) /\ m <= i - 1
          BY <1>2, <4>2
        <5>2. Receivers(m) \in Nat /\ Receivers(m) >= 1 /\ Receivers(m) <= Receivers(i - 1)
          BY <1>2, <3>4, <5>1, ReceiversFacts
        <5>3. Receivers(m) \in DOMAIN rxMobVector BY <1>4, <1>11, <5>2
        <5>4. rxMobVector'[Receivers(m)] = rxMobVector[Receivers(m)] BY <1>4, <3>1, <5>3
        <5> QED BY <1>11, <3>4, <5>1, <5>4
      <4> QED BY <4>1, <4>2
    <3>5. Passed(i) => Passed(i - 1) BY <1>2, <2>1 DEF Passed
    <3> QED BY <1>1, <1>2, <1>10, <1>11, <3>1, <3>3, <3>4, <3>5 DEF Gathered, simVars
  <2>2. CASE src = devList[i]
    <3>1. rxMobVector' = rxMobVector /\ senderMobility' = NodeOf[src] BY <2>2 DEF GatherStep
    <3>2. Receivers(i) = Receivers(i - 1) BY <1>2, <2>2, ReceiversFacts
    <3>3. ASSUME NEW m \in 1 .. i, devList[m] # src
          PROVE  rxMobVector'[Receivers(m)] = NodeOf[devList[m]]
      <4>1. m \in 1 .. i - 1 BY <1>2, <2>2, <3>3
      <4> QED BY <1>11, <3>1, <3>3, <4>1
    <3> QED BY <1>1, <1>2, <1>10, <1>11, <3>1, <3>2, <3>3 DEF Gathered, simVars
  <2> QED BY <2>1, <2>2
<1> QED BY <1>5, <1>6, <1>7, <1>8, <1>9, <1>12

\* The query: one response per receiver, for the path of the receiver of the
\* same rank.
LEMMA GetPdpVectorStep ==
    ASSUME IInv, GetPdpVector
    PROVE  IInv'
<1> USE DEF IInv
<1>1. /\ pc = "gather" /\ i > Len(devList) /\ pc' = "schedule" /\ i' = 1 /\ j' = 1 /\ k' = 0
      /\ uanPdpVector' = CoordzPairs(senderMobility, rxMobVector)
      /\ UNCHANGED <<simVars, events, uid, heard, txLog, src, chAttThresDb, senderMobility, rxMobVector>>
  BY DEF GetPdpVector
<1>2. /\ devList \in Seq(Device) /\ Len(devList) \in Nat /\ i - 1 = Len(devList)
      /\ txLog \in Seq(Call) /\ Len(txLog) \in DOMAIN txLog
      /\ txLog[Len(txLog)].src = src /\ txLog[Len(txLog)].pos = pos
      /\ src \in Attached /\ src \in Device
  BY <1>1, CallFacts DEF Attached
<1>3. /\ Len(rxMobVector) = Receivers(Len(devList))
      /\ \A m \in 1 .. Len(devList) : devList[m] # src => rxMobVector[Receivers(m)] = NodeOf[devList[m]]
      /\ senderMobility = NodeOf[src]
  <2>1. Passed(Len(devList)) BY <1>2 DEF Passed, Attached
  <2> QED BY <1>1, <1>2, <2>1 DEF Gathered
<1>4. rxMobVector \in Seq(Node) /\ pos \in [Node -> Position] BY DEF TypeOK
<1>5. senderMobility \in Node BY <1>2, <1>3, NodeOfAssumption
<1>6. /\ uanPdpVector' \in Seq(Position \X Position)
      /\ Len(uanPdpVector') = Len(rxMobVector)
      /\ \A m \in DOMAIN rxMobVector : uanPdpVector'[m] = <<pos[senderMobility], pos[rxMobVector[m]]>>
  <2>1. uanPdpVector' = [m \in 1 .. Len(rxMobVector) |-> <<pos[senderMobility], pos[rxMobVector[m]]>>]
    BY <1>1, <1>4 DEF CoordzPairs
  <2>2. \A m \in 1 .. Len(rxMobVector) :
           <<pos[senderMobility], pos[rxMobVector[m]]>> \in Position \X Position
    BY <1>4, <1>5
  <2> QED BY <1>4, <2>1, <2>2
<1>7. TypeOK' BY <1>1, <1>6 DEF TypeOK, simVars
<1>8. DistinctDevices' /\ History' /\ RightPairing' /\ EventOnTime' /\ OncePerReceiver' /\ HeardOnTime'
  BY <1>1, ReceptionsKept
<1>9. InCall' BY <1>1, <1>2 DEF InCall, Attached, simVars
<1>10. Gathered' BY <1>1 DEF Gathered
<1>11. Scheduled' BY <1>1 DEF Scheduled, Receptions, Target, simVars
<1>12. \A n : Receivers(n)' = Receivers(n) BY <1>1 DEF Receivers, Passed, simVars
<1>13. Answered'
  <2>1. ASSUME NEW m \in DOMAIN devList, devList[m] # src
        PROVE  uanPdpVector'[Receivers(m)] = PathAtTx(txLog[Len(txLog)], devList[m])
    <3>1. m \in 1 .. Len(devList) /\ m \in 0 .. Len(devList) /\ Len(devList) \in 0 .. Len(devList)
          /\ m <= Len(devList)
      BY <1>2
    <3>2. Receivers(m) \in Nat /\ Receivers(m) >= 1 /\ Receivers(m) <= Receivers(Len(devList))
      BY <1>2, <2>1, <3>1, ReceiversFacts
    <3>3. Receivers(m) \in DOMAIN rxMobVector BY <1>3, <1>4, <3>2
    <3> QED BY <1>2, <1>3, <1>6, <2>1, <3>1, <3>3 DEF PathAtTx
  <2>2. Receivers(0) = 0 BY DEF Receivers, Passed
  <2> QED BY <1>1, <1>3, <1>6, <1>12, <2>1, <2>2 DEF Answered, PathAtTx, simVars
<1> QED BY <1>7, <1>8, <1>9, <1>10, <1>11, <1>13

\* A pass of the second loop: the source, or the receiver whose rank is j.
LEMMA ScheduleStepStep ==
    ASSUME IInv, ScheduleStep
    PROVE  IInv'
<1> USE DEF IInv
<1> DEFINE cur == Len(txLog)
<1>1. /\ pc = "schedule" /\ pc' = "schedule" /\ i <= Len(devList) /\ i' = i + 1 /\ k' = k + 1
      /\ UNCHANGED <<simVars, heard, txLog, pc, src, senderMobility, rxMobVector, uanPdpVector>>
  BY DEF ScheduleStep
<1>2. /\ devList \in Seq(Device) /\ Len(devList) \in Nat /\ i \in 1 .. Len(devList)
      /\ devList[i] \in Device /\ i - 1 \in 0 .. Len(devList) - 1 /\ (i - 1) + 1 = i
      /\ i' - 1 = i
  BY <1>1, CallFacts
<1>3. /\ txLog \in Seq(Call) /\ cur \in Nat /\ cur \in DOMAIN txLog
      /\ txLog[cur].src = src /\ txLog[cur].at = now /\ txLog[cur].pos = pos
      /\ txLog[cur].attached = Attached
      /\ Clamp(chAttThresDb) = Clamp(txLog[cur].thres)
  BY <1>1, CallFacts
<1>4. /\ Len(uanPdpVector) = Receivers(Len(devList))
      /\ \A m \in DOMAIN devList : devList[m] # src =>
            uanPdpVector[Receivers(m)] = PathAtTx(txLog[cur], devList[m])
      /\ k = i - 1 /\ j = Receivers(i - 1) + 1
  BY <1>1 DEF Answered
<1>5. \A n : Passed(n)' = Passed(n) /\ Receivers(n)' = Receivers(n)
  BY <1>1 DEF Receivers, Passed, simVars
<1>6. DistinctDevices' /\ History' /\ HeardOnTime' /\ Attached' = Attached
  BY <1>1 DEF DistinctDevices, History, HeardOnTime, Attached, PathAtTx, simVars
<1>7. Gathered' BY <1>1 DEF Gathered
<1>8. CASE src = devList[i]
  <2>1. UNCHANGED <<chAttThresDb, events, uid, j>> BY <1>8 DEF ScheduleStep
  <2>2. TypeOK'
    <3>1. i' \in Nat \ {0} /\ k' \in Nat BY <1>1, <1>2, <1>4
    <3> QED BY <1>1, <2>1, <3>1 DEF TypeOK, simVars
  <2>3. InCall' BY <1>1, <1>2, <1>6, <2>1 DEF InCall, simVars
  <2>4. Receivers(i) = Receivers(i - 1) BY <1>2, <1>8, ReceiversFacts
  <2>5. Answered'
    BY <1>1, <1>2, <1>4, <1>5, <2>1, <2>4 DEF Answered, PathAtTx, simVars
  <2>6. \A t, x : Receptions(t, x)' = Receptions(t, x)
    BY <1>1, <2>1 DEF Receptions, Target, simVars
  <2>7. \A x : (\E m \in 1 .. i : devList[m] = x /\ x # src) <=>
               (\E m \in 1 .. i - 1 : devList[m] = x /\ x # src)
    BY <1>2, <1>8
  <2>8. Scheduled' BY <1>1, <1>2, <2>6, <2>7 DEF Scheduled, simVars
  <2>9. RightPairing' /\ EventOnTime'
    BY <1>1, <2>1 DEF RightPairing, EventOnTime, Target, PathAtTx, simVars
  <2>10. OncePerReceiver' BY <1>1, <2>6 DEF OncePerReceiver, Finished
  <2> QED BY <1>6, <1>7, <2>2, <2>3, <2>5, <2>8, <2>9, <2>10
<1>9. CASE src # devList[i]
  <2> DEFINE budget == Clamp(chAttThresDb)
             path == PathAtTx(txLog[cur], devList[i])
  <2>a. PICK e : e = SendUpEvent(uanPdpVector[j], budget) OBVIOUS
  <2>b. PICK x0 \in Device : x0 = devList[i] BY <1>2
  <2>c. PICK c : c = cur OBVIOUS
  <2>1. /\ chAttThresDb' = budget /\ events' = events \cup {e} /\ uid' = uid + 1
        /\ j' = NextResponse
    BY <1>9, <2>a DEF ScheduleStep
  <2>2. Receivers(i) = Receivers(i - 1) + 1 /\ j = Receivers(i) BY <1>2, <1>4, <1>9, ReceiversFacts
  <2>3. uanPdpVector[j] = path BY <1>2, <1>4, <1>9, <2>2
  <2>4. Len(uanPdpVector) \in Nat /\ j \in 1 .. Len(uanPdpVector)
    <3>1. i \in 0 .. Len(devList) /\ i - 1 \in 0 .. Len(devList)
          /\ Len(devList) \in 0 .. Len(devList) /\ i <= Len(devList)
      BY <1>2
    <3>2. Receivers(i) <= Receivers(Len(devList)) /\ Receivers(Len(devList)) \in Nat
          /\ Receivers(i) \in Nat /\ Receivers(i - 1) \in Nat
      BY <1>2, <3>1, ReceiversFacts
    <3> QED BY <1>4, <2>2, <3>2
  <2>5. j' = j + 1 BY <2>1, <2>4 DEF NextResponse
  <2>6. /\ chAttThresDb \in Int /\ budget \in Int
        /\ Clamp(budget) = Clamp(txLog[cur].thres) /\ budget = Clamp(txLog[cur].thres)
    BY <1>3, ClampType DEF TypeOK
  <2>7. path \in Position \X Position
    <3>1. uanPdpVector[j] \in Position \X Position BY <2>4 DEF TypeOK
    <3> QED BY <2>3, <3>1
  <2>8. /\ GetDelay(Pdp[path], budget) \in 0 .. MaxDelay
        /\ FirstUsable(Pdp[path], budget) \in Nat
    BY <2>6, <2>7, ResponseFacts
  <2>9. /\ e.at = now + GetDelay(Pdp[path], budget) /\ e.uid = uid /\ e.tx = cur
        /\ e.ctx = NodeOf[devList[i]] /\ e.k = k /\ e.pair = path
        /\ e.from = FirstUsable(Pdp[path], budget)
    BY <2>3, <2>a DEF SendUpEvent
  <2>10. now \in Nat /\ now <= MaxTime BY BoundAssumption DEF TypeOK
  <2>11. e \in Event
    <3>1. NodeOf[devList[i]] \in Node BY <1>2, NodeOfAssumption
    <3>2. now + GetDelay(Pdp[path], budget) \in Nat BY <2>8, <2>10, BoundAssumption
    <3>3. uid \in Nat /\ k \in Nat BY DEF TypeOK
    <3> QED BY <1>3, <2>3, <2>7, <2>8, <3>1, <3>2, <3>3, <2>a DEF SendUpEvent, Event
  <2>12. TypeOK'
    <3>1. i' \in Nat \ {0} /\ j' \in Nat \ {0} /\ k' \in Nat BY <1>1, <1>2, <1>4, <2>4, <2>5
    <3>2. events' \subseteq Event /\ uid' \in Nat BY <2>1, <2>11 DEF TypeOK
    <3> QED BY <1>1, <2>1, <2>6, <3>1, <3>2 DEF TypeOK, simVars
  <2>13. InCall' BY <1>1, <1>2, <1>3, <1>6, <2>1, <2>6 DEF InCall, simVars
  <2>14. Answered'
    BY <1>1, <1>2, <1>4, <1>5, <2>2, <2>5 DEF Answered, PathAtTx, simVars
  <2>15. Target(e) = devList[i] /\ e.k < Len(devList) BY <1>2, <1>4, <2>9 DEF Target
  <2>16. RightPairing'
    <3>1. \A f \in events : Target(f)' = Target(f) BY <1>1 DEF Target, simVars
    <3>2. Target(e)' = x0 BY <1>1, <2>b, <2>15 DEF Target, simVars
    <3>3. \A t, x : PathAtTx(txLog[t], x)' = PathAtTx(txLog[t], x)
      BY <1>1 DEF PathAtTx
    <3>4. e.tx \in DOMAIN txLog /\ x0 # txLog[e.tx].src /\ e.ctx = NodeOf[x0]
          /\ e.pair = PathAtTx(txLog[e.tx], x0)
      BY <1>3, <1>9, <2>9, <2>b
    <3> QED BY <1>1, <2>1, <2>15, <3>1, <3>2, <3>3, <3>4 DEF RightPairing, simVars, PathAtTx
  <2>17. EventOnTime'
    <3>1. /\ e.at = txLog[e.tx].at + GetDelay(Pdp[e.pair], Clamp(txLog[e.tx].thres)) /\ e.at >= now
          /\ e.from = FirstUsable(Pdp[e.pair], Clamp(txLog[e.tx].thres))
      BY <1>3, <2>6, <2>8, <2>9, <2>10, BoundAssumption
    <3> QED BY <1>1, <2>1, <3>1 DEF EventOnTime, simVars
  <2>18. \A t, x : Receptions(t, x)' =
                 IF t = c /\ x = x0 THEN Receptions(t, x) \cup {e} ELSE Receptions(t, x)
    <3>1. \A f : Target(f)' = Target(f) BY <1>1 DEF Target, simVars
    <3>2. e.tx = c /\ Target(e) = x0 BY <2>9, <2>15, <2>b, <2>c
    <3> QED BY <1>1, <2>1, <3>1, <3>2 DEF Receptions
  <2>19. OncePerReceiver'
    <3>1. \A t \in DOMAIN txLog : Finished(t)' => Finished(t) /\ t # c
      BY <1>1, <1>3, <2>c DEF Finished
    <3> QED BY <1>1, <2>18, <3>1 DEF OncePerReceiver
  <2>20. Scheduled'
    <3>1. Receptions(c, x0) = {}
      <4>1. ~\E m \in 1 .. i - 1 : devList[m] = devList[i]
        BY <1>2 DEF DistinctDevices
      <4> QED BY <1>1, <4>1, <2>b, <2>c DEF Scheduled
    <3>2. Receptions(c, x0)' = {e} BY <2>18, <3>1
    <3>3. \A x : x # x0 => Receptions(c, x)' = Receptions(c, x) BY <2>18
    <3>4. \A x : x # x0 =>
             ((\E m \in 1 .. i : devList[m] = x /\ x # src) <=>
              (\E m \in 1 .. i - 1 : devList[m] = x /\ x # src))
      BY <1>2, <2>b
    <3>5. \E m \in 1 .. i : devList[m] = x0 /\ x0 # src BY <1>2, <1>9, <2>b
    <3>6. ASSUME NEW x \in Device
          PROVE  IF \E m \in 1 .. i : devList[m] = x /\ x # src
                    THEN \E f \in Receptions(c, x)' : Receptions(c, x)' = {f}
                    ELSE Receptions(c, x)' = {}
      <4>1. CASE x = x0 BY <3>2, <3>5, <4>1
      <4>2. CASE x # x0 BY <1>1, <2>c, <3>3, <3>4, <4>2 DEF Scheduled
      <4> QED BY <4>1, <4>2
    <3>7. Len(txLog)' = c /\ i' - 1 = i /\ devList' = devList /\ src' = src /\ pc' = "schedule"
      BY <1>1, <1>2, <2>c DEF simVars
    <3> QED BY <3>6, <3>7 DEF Scheduled
  <2> QED BY <1>6, <1>7, <2>12, <2>13, <2>14, <2>16, <2>17, <2>19, <2>20
<1> QED BY <1>8, <1>9

\* The call returns: every receiver of the list is behind i.
LEMMA TxReturnStep ==
    ASSUME IInv, TxReturn
    PROVE  IInv'
<1> USE DEF IInv
<1>1. /\ pc = "schedule" /\ i > Len(devList) /\ pc' = "idle" /\ LocalsReset
      /\ UNCHANGED <<simVars, events, uid, heard, txLog>>
  BY DEF TxReturn
<1>2. /\ Len(devList) \in Nat /\ i - 1 = Len(devList) /\ Len(txLog) \in DOMAIN txLog
      /\ Len(txLog) \in Nat /\ txLog \in Seq(Call)
      /\ txLog[Len(txLog)].src = src /\ txLog[Len(txLog)].attached = Attached
      /\ devList \in Seq(Device)
  BY <1>1, CallFacts
<1>3. TypeOK' BY <1>1 DEF TypeOK, LocalsReset, simVars
<1>4. DistinctDevices' /\ History' BY <1>1 DEF DistinctDevices, History, Attached, simVars
<1>5. InCall' /\ Gathered' /\ Answered' /\ Scheduled'
  BY <1>1 DEF InCall, Gathered, Answered, Scheduled, LocalsReset
<1>6. RightPairing' /\ EventOnTime' /\ HeardOnTime'
  BY <1>1 DEF RightPairing, EventOnTime, HeardOnTime, Target, PathAtTx, simVars
<1>7. \A t, x : Receptions(t, x)' = Receptions(t, x) BY <1>1 DEF Receptions, Target, simVars
<1>8. OncePerReceiver'
  <2>1. ASSUME NEW t \in DOMAIN txLog, NEW x \in Device
        PROVE  IF x \in txLog[t].attached \ {txLog[t].src}
                  THEN \E e \in Receptions(t, x) : Receptions(t, x) = {e}
                  ELSE Receptions(t, x) = {}
    <3>1. CASE t = Len(txLog)
      <4>1. (\E m \in 1 .. i - 1 : devList[m] = x /\ x # src) <=> x \in Attached \ {src}
        BY <1>2 DEF Attached
      <4> QED BY <1>1, <1>2, <3>1, <4>1 DEF Scheduled
    <3>2. CASE t # Len(txLog)
      <4>1. Finished(t) BY <1>2, <3>2 DEF Finished
      <4> QED BY <4>1 DEF OncePerReceiver
    <3> QED BY <3>1, <3>2
  <2> QED BY <1>1, <1>7, <2>1 DEF OncePerReceiver
<1> QED BY <1>3, <1>4, <1>5, <1>6, <1>8

\* An event is run: its reception moves from the future to the past.
LEMMA SendUpStep ==
    ASSUME IInv, SendUp
    PROVE  IInv'
<1> USE DEF IInv
<1>1. PICK e \in events :
         /\ Due(e) /\ events' = events \ {e}
         /\ heard' = heard \cup {[e |-> e, dst |-> devList[e.k + 1], time |-> now]}
  BY DEF SendUp
<1>2. pc = "idle" /\ UNCHANGED <<simVars, uid, txLog, pc, locals>> BY DEF SendUp
<1> DEFINE h == [e |-> e, dst |-> devList[e.k + 1], time |-> now]
<1>3. /\ e \in Event /\ e.tx \in DOMAIN txLog /\ e.k < Len(devList) /\ e.at = now
      /\ e.pair = PathAtTx(txLog[e.tx], Target(e))
      /\ e.at = txLog[e.tx].at + GetDelay(Pdp[e.pair], Clamp(txLog[e.tx].thres))
  BY <1>1 DEF RightPairing, EventOnTime, Due, TypeOK
<1>4. devList \in Seq(Device) /\ Len(devList) \in Nat /\ now \in Nat
  BY BoundAssumption DEF TypeOK
<1>5. h \in [e : Event, dst : Device, time : Nat]
  <2>1. e.k \in Nat BY <1>3 DEF Event
  <2>2. devList[e.k + 1] \in Device BY <1>3, <1>4, <2>1
  <2> QED BY <1>3, <1>4, <2>2
<1>6. TypeOK' BY <1>1, <1>2, <1>5 DEF TypeOK, simVars, locals
<1>7. DistinctDevices' /\ InCall' /\ Gathered' /\ Answered' /\ Scheduled'
  BY <1>2 DEF DistinctDevices, InCall, Gathered, Answered, Scheduled, simVars, locals
<1>8. History' BY <1>1, <1>2, <1>3 DEF History, Attached, simVars
<1>9. RightPairing' /\ EventOnTime'
  BY <1>1, <1>2 DEF RightPairing, EventOnTime, Target, PathAtTx, simVars
<1>10. HeardOnTime'
  <2>1. h.time = txLog[h.e.tx].at + GetDelay(Pdp[PathAtTx(txLog[h.e.tx], h.dst)], Clamp(txLog[h.e.tx].thres))
    BY <1>3 DEF Target
  <2> QED BY <1>1, <1>2, <2>1 DEF HeardOnTime, PathAtTx
<1>11. \A t, x : Receptions(t, x)' = Receptions(t, x)
  <2>1. \A f : Target(f)' = Target(f) BY <1>2 DEF Target, simVars
  <2>2. h.e = e /\ h.dst = Target(e) BY DEF Target
  <2> QED BY <1>1, <2>1, <2>2 DEF Receptions
<1>12. OncePerReceiver' BY <1>2, <1>11 DEF OncePerReceiver, Finished
<1> QED BY <1>6, <1>7, <1>8, <1>9, <1>10, <1>12

\* Time moves on only when every event is in the future.
LEMMA TickStep ==
    ASSUME IInv, Tick
    PROVE  IInv'
<1> USE DEF IInv
<1>1. /\ pc = "idle" /\ now < MaxTime /\ now' = now + 1 /\ \A e \in events : e.at > now
      /\ UNCHANGED <<pos, devList, events, uid, heard, txLog, pc, locals>>
  BY DEF Tick
<1>2. now \in Nat BY BoundAssumption DEF TypeOK
<1>3. TypeOK' BY <1>1, <1>2, BoundAssumption DEF TypeOK, locals
<1>4. DistinctDevices' /\ InCall' /\ Gathered' /\ Answered' /\ Scheduled' /\ History'
  BY <1>1 DEF DistinctDevices, InCall, Gathered, Answered, Scheduled, History, Attached, locals
<1>5. RightPairing' /\ HeardOnTime' BY <1>1 DEF RightPairing, HeardOnTime, Target, PathAtTx
<1>6. EventOnTime'
  <2>1. \A e \in events : e.at \in Nat BY DEF TypeOK, Event
  <2>2. \A e \in events : e.at >= now + 1 BY <1>1, <1>2, <2>1
  <2> QED BY <1>1, <2>2 DEF EventOnTime
<1>7. OncePerReceiver' BY <1>1 DEF OncePerReceiver, Finished, Receptions, Target
<1> QED BY <1>3, <1>4, <1>5, <1>6, <1>7

\* Every step keeps the strengthening.
LEMMA InductiveStep == IInv /\ [Next]_vars => IInv'
<1> SUFFICES ASSUME IInv, [Next]_vars PROVE IInv' OBVIOUS
<1>1. ASSUME NEW d \in Device, AddDevice(d) PROVE IInv' BY <1>1, AddDeviceStep
<1>2. ASSUME NEW n \in Node, NEW p \in Position, Move(n, p) PROVE IInv' BY <1>2, MoveStep
<1>3. ASSUME NEW d \in Device, NEW thres \in Threshold, TxPacket(d, thres) PROVE IInv'
  BY <1>3, TxPacketStep
<1>4. CASE GatherStep BY <1>4, GatherStepStep
<1>5. CASE GetPdpVector BY <1>5, GetPdpVectorStep
<1>6. CASE ScheduleStep BY <1>6, ScheduleStepStep
<1>7. CASE TxReturn BY <1>7, TxReturnStep
<1>8. CASE SendUp BY <1>8, SendUpStep
<1>9. CASE Tick BY <1>9, TickStep
<1>10. CASE UNCHANGED vars
  <2> USE <1>10 DEF IInv, vars, simVars, locals
  <2>1. TypeOK' BY DEF TypeOK
  <2>2. DistinctDevices' /\ InCall' /\ History' BY DEF DistinctDevices, InCall, History, Attached
  <2>5. Gathered' BY DEF Gathered, Receivers, Passed
  <2>6. Answered' BY DEF Answered, Receivers, Passed, PathAtTx
  <2>7. Scheduled' BY DEF Scheduled, Receptions, Target
  <2>3. RightPairing' /\ EventOnTime' /\ HeardOnTime'
    BY DEF RightPairing, EventOnTime, HeardOnTime, Target, PathAtTx
  <2>4. OncePerReceiver' BY DEF OncePerReceiver, Finished, Receptions, Target
  <2> QED BY <2>1, <2>2, <2>3, <2>4, <2>5, <2>6, <2>7
<1> QED BY <1>1, <1>2, <1>3, <1>4, <1>5, <1>6, <1>7, <1>8, <1>9, <1>10 DEF Next, TxStep

\* The strengthening is an invariant.
THEOREM InductiveInvariant == Spec => []IInv
<1> QED BY InductiveInit, InductiveStep, PTL DEF Spec

\* Types of the channel state and of the locals of a call.
THEOREM TypeCorrect == Spec => []TypeOK
<1>1. IInv => TypeOK BY DEF IInv
<1> QED BY <1>1, InductiveInvariant, PTL

\* However many devices there are and wherever the source is in the list, the
\* device index, the event context and the response of every scheduled SendUp
\* belong to one and the same receiver.
THEOREM RightPairingHolds == Spec => []RightPairing
<1>1. IInv => RightPairing BY DEF IInv
<1> QED BY <1>1, InductiveInvariant, PTL

\* Each receiver of a finished call has one reception, pending or past; the
\* source and the devices that joined later have none.
THEOREM OncePerReceiverHolds == Spec => []OncePerReceiver
<1>1. IInv => OncePerReceiver BY DEF IInv
<1> QED BY <1>1, InductiveInvariant, PTL

\* A packet is heard after the delay of the path at the time it was sent.
THEOREM HeardOnTimeHolds == Spec => []HeardOnTime
<1>1. IInv => HeardOnTime BY DEF IInv
<1> QED BY <1>1, InductiveInvariant, PTL

\* The second loop never dereferences the end of the vector of responses.
THEOREM ResponseInRangeHolds == Spec => []ResponseInRange
<1>1. ASSUME IInv, pc = "schedule", i <= Len(devList), devList[i] # src
      PROVE  j \in DOMAIN uanPdpVector
  <2>1. /\ devList \in Seq(Device) /\ DistinctDevices /\ Len(devList) \in Nat
        /\ i \in 1 .. Len(devList) /\ i - 1 \in 0 .. Len(devList) - 1 /\ (i - 1) + 1 = i
    BY <1>1, CallFacts DEF IInv
  <2>2. /\ Len(uanPdpVector) = Receivers(Len(devList)) /\ j = Receivers(i - 1) + 1
    BY <1>1 DEF IInv, Answered
  <2>3. j = Receivers(i) BY <1>1, <2>1, <2>2, ReceiversFacts
  <2>4. Receivers(i) \in Nat /\ Receivers(i) >= 1 /\ Receivers(i) <= Receivers(Len(devList))
    <3>1. i \in 0 .. Len(devList) /\ Len(devList) \in 0 .. Len(devList) /\ i <= Len(devList)
      BY <2>1
    <3> QED BY <1>1, <2>1, <3>1, ReceiversFacts
  <2> QED BY <1>1, <2>2, <2>3, <2>4 DEF IInv, TypeOK
<1>2. IInv => ResponseInRange BY <1>1 DEF ResponseInRange
<1> QED BY <1>2, InductiveInvariant, PTL

=============================================================================
