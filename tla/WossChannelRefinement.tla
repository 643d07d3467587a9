----------------------- MODULE WossChannelRefinement -----------------------
(***************************************************************************)
(* WossChannel implements AcousticMedium: a call of TxPacket maps to one   *)
(* Transmit at its return, every earlier step of it to stuttering.         *)
(* (The fairness part of the implementation is left to TLC.)               *)
(***************************************************************************)
EXTENDS WossChannelProofs

\* The two modules choose a tap by the same definitions.
LEMMA SameTapSelection ==
    /\ \A pdp, thres : Medium!GetDelay(pdp, thres) = GetDelay(pdp, thres)
    /\ \A pdp, thres : Medium!UsableTaps(pdp, thres) = UsableTaps(pdp, thres)
    /\ \A thres : Medium!Clamp(thres) = Clamp(thres)
<1>1. \A pdp, thres : Medium!UsableTaps(pdp, thres) = UsableTaps(pdp, thres)
  BY DEF UsableTaps, Usable, Medium!UsableTaps, Medium!Usable
<1>2. \A pdp, thres : Medium!FirstUsable(pdp, thres) = FirstUsable(pdp, thres)
  <2>1. \A S : Medium!Least(S) = Least(S) BY DEF Least, Medium!Least
  <2> QED BY <1>1, <2>1 DEF FirstUsable, Medium!FirstUsable
<1>3. \A pdp, thres : Medium!GetDelay(pdp, thres) = GetDelay(pdp, thres)
  BY <1>1, <1>2 DEF GetDelay, Medium!GetDelay
<1>4. \A thres : Medium!Clamp(thres) = Clamp(thres) BY DEF Clamp, Medium!Clamp
<1> QED BY <1>1, <1>3, <1>4

\* The images of the state under the refinement mapping.
Sent == IF pc = "idle" THEN Len(txLog) ELSE Len(txLog) - 1
InFlight(e) == [tx |-> e.tx, src |-> txLog[e.tx].src, dst |-> Target(e), at |-> e.at,
                audible |-> e.from # 0]
Flight == {InFlight(e) : e \in {e \in events : Finished(e.tx)}}
WasHeard(h) == [tx |-> h.e.tx, src |-> txLog[h.e.tx].src, dst |-> h.dst, at |-> h.time,
                audible |-> h.e.from # 0]
Heard == {WasHeard(h) : h \in heard}

\* A step that leaves the image alone is a stuttering step of the medium.
LEMMA Stutter ==
    ASSUME UNCHANGED <<now, pos, Attached, Sent, Flight, Heard>>
    PROVE  UNCHANGED Medium!mvars
BY DEF Medium!mvars, Sent, Flight, Heard, InFlight, WasHeard

\* A step of a call that has not returned: what it schedules does not show.
LEMMA HiddenStep ==
    ASSUME IInv, GatherStep \/ GetPdpVector \/ ScheduleStep
    PROVE  UNCHANGED Medium!mvars
<1>1. /\ pc # "idle" /\ pc' # "idle" /\ UNCHANGED <<simVars, heard, txLog>>
      /\ \/ events' = events
         \/ \E e : e.tx = Len(txLog) /\ events' = events \cup {e}
  BY DEF GatherStep, GetPdpVector, ScheduleStep, SendUpEvent
<1>2. Len(txLog) \in Nat BY DEF IInv, TypeOK
<1>3. Attached' = Attached /\ Sent' = Sent BY <1>1 DEF Attached, Sent, simVars
<1>4. Heard' = Heard BY <1>1 DEF Heard, WasHeard
<1>5. \A e : InFlight(e)' = InFlight(e) BY <1>1 DEF InFlight, Target, simVars
<1>6. \A t : Finished(t)' = Finished(t) BY <1>1 DEF Finished
<1>7. ~Finished(Len(txLog)) BY <1>1, <1>2 DEF Finished
<1>8. {e \in events : Finished(e.tx)}' = {e \in events : Finished(e.tx)}
  BY <1>1, <1>6, <1>7
<1>9. Flight' = Flight BY <1>5, <1>8 DEF Flight
<1> QED BY <1>1, <1>3, <1>4, <1>9, Stutter DEF simVars

\* The call returns: what it scheduled is what Transmit puts in flight.
LEMMA TransmitStep ==
    ASSUME IInv, TxReturn
    PROVE  \E d \in Device, thres \in Threshold : Medium!Transmit(d, thres)
<1> DEFINE c == Len(txLog)
           call == txLog[c]
<1>1. /\ pc = "schedule" /\ i > Len(devList) /\ pc' = "idle"
      /\ UNCHANGED <<simVars, events, uid, heard, txLog>>
  BY DEF TxReturn
<1>2. /\ Len(devList) \in Nat /\ i - 1 = Len(devList) /\ c \in Nat /\ c \in DOMAIN txLog
      /\ devList \in Seq(Device) /\ txLog \in Seq(Call)
      /\ call.src = src /\ call.at = now /\ call.pos = pos /\ call.attached = Attached
      /\ src \in Attached
  BY <1>1, CallFacts DEF IInv
<1>3. call \in Call BY <1>2
<1>4. src \in Device /\ call.thres \in Threshold BY <1>2, <1>3 DEF Call
<1>5. /\ TypeOK /\ RightPairing /\ EventOnTime
      /\ \A h \in heard : h.e.tx < c
  BY <1>1 DEF IInv, InCall
<1>6. \A e \in events : e \in Event /\ e.tx \in Nat /\ e.tx \in DOMAIN txLog /\ e.tx <= c
  BY <1>2, <1>5 DEF TypeOK, Event, RightPairing
<1>7. \A h \in heard : h.e.tx # c BY <1>2, <1>5
<1>8. Attached' = Attached /\ Heard' = Heard /\ Sent' = Sent + 1
  BY <1>1, <1>2 DEF Attached, Heard, WasHeard, Sent, simVars
<1>9. \A e : InFlight(e)' = InFlight(e) BY <1>1 DEF InFlight, Target, simVars
<1>10. Flight' = Flight \cup {InFlight(e) : e \in {e \in events : e.tx = c}}
  <2>1. \A e \in events : Finished(e.tx)' BY <1>1 DEF Finished
  <2>2. \A e \in events : Finished(e.tx) <=> e.tx # c BY <1>1, <1>2, <1>6 DEF Finished
  <2>3. Flight' = {InFlight(e) : e \in events} BY <1>1, <1>9, <2>1 DEF Flight
  <2> QED BY <2>2, <2>3 DEF Flight
<1>11. ASSUME NEW e \in events, e.tx = c
       PROVE  /\ Target(e) \in Attached \ {src}
              /\ InFlight(e) = Medium!Reception(Sent + 1, src, Target(e), call.thres)
  <2>1. /\ e.pair = PathAtTx(call, Target(e)) /\ Target(e) # src /\ e.k < Len(devList)
        /\ e.at = now + GetDelay(Pdp[e.pair], Clamp(call.thres))
        /\ e.from = FirstUsable(Pdp[e.pair], Clamp(call.thres))
    BY <1>2, <1>5, <1>11 DEF RightPairing, EventOnTime
  <2>2. e.k \in Nat /\ e.pair \in Position \X Position BY <1>6 DEF Event
  <2>3. Target(e) \in Attached BY <1>2, <2>1, <2>2 DEF Target, Attached
  <2>4. e.pair = <<pos[NodeOf[src]], pos[NodeOf[Target(e)]]>> BY <1>2, <2>1 DEF PathAtTx
  <2>5. e.from # 0 <=> UsableTaps(Pdp[e.pair], Clamp(call.thres)) # {}
    <3>1. Pdp[e.pair] \in Seq(Tap) BY <2>2, PdpAssumption
    <3>2. Clamp(call.thres) \in Int BY <1>4, ThresholdAssumption, ClampType
    <3>3. UsableTaps(Pdp[e.pair], Clamp(call.thres)) \subseteq DOMAIN Pdp[e.pair] BY DEF UsableTaps
    <3>4. 0 \notin DOMAIN Pdp[e.pair] BY <3>1
    <3>5. CASE UsableTaps(Pdp[e.pair], Clamp(call.thres)) = {}
      BY <2>1, <3>5 DEF FirstUsable
    <3>6. CASE UsableTaps(Pdp[e.pair], Clamp(call.thres)) # {}
      BY <2>1, <3>1, <3>2, <3>3, <3>4, <3>6, FirstUsableIsLeast
    <3> QED BY <3>5, <3>6
  <2>6. Sent + 1 = c /\ txLog[e.tx].src = src BY <1>1, <1>2, <1>11 DEF Sent
  <2>7. InFlight(e) = [tx |-> c, src |-> src, dst |-> Target(e), at |-> e.at,
                       audible |-> e.from # 0]
    BY <1>11, <2>6 DEF InFlight
  <2>8. Medium!Reception(c, src, Target(e), call.thres)
          = [tx |-> c, src |-> src, dst |-> Target(e),
             at |-> now + GetDelay(Pdp[e.pair], Clamp(call.thres)),
             audible |-> UsableTaps(Pdp[e.pair], Clamp(call.thres)) # {}]
    BY <2>4, SameTapSelection DEF Medium!Reception
  <2> QED BY <2>1, <2>3, <2>5, <2>6, <2>7, <2>8
<1>12. ASSUME NEW d \in Attached \ {src}
       PROVE  \E e \in events : e.tx = c /\ Target(e) = d
  <2>1. d \in Device BY <1>2 DEF Attached
  <2>2. \E m \in 1 .. i - 1 : devList[m] = d /\ d # src BY <1>2 DEF Attached
  <2>3. \E e \in Receptions(c, d) : Receptions(c, d) = {e}
    BY <1>1, <2>1, <2>2 DEF IInv, Scheduled
  <2> QED BY <1>7, <2>3 DEF Receptions
<1>13. {InFlight(e) : e \in {e \in events : e.tx = c}}
         = {Medium!Reception(Sent + 1, src, d, call.thres) : d \in Attached \ {src}}
  BY <1>11, <1>12
<1>14. PICK d \in Device, thres \in Threshold : d = src /\ thres = call.thres BY <1>4
<1>15. Medium!Transmit(d, thres)
  <2>1. Flight' = Flight \cup {Medium!Reception(Sent + 1, d, x, thres) : x \in Attached \ {d}}
    BY <1>10, <1>13, <1>14
  <2>2. d \in Attached /\ Sent' = Sent + 1 /\ UNCHANGED <<now, pos, Attached, Heard>>
    BY <1>1, <1>2, <1>8, <1>14 DEF simVars
  <2> QED BY <2>1, <2>2, Zenon DEF Medium!Transmit, Sent, Flight, Heard, InFlight, WasHeard
<1> QED BY <1>15

\* An event is run: it is the only one of its transmission and receiver, so
\* exactly one reception leaves the flight.
LEMMA ReceiveStep ==
    ASSUME IInv, SendUp
    PROVE  Medium!Receive
<1>1. PICK e \in events :
         /\ Due(e) /\ events' = events \ {e}
         /\ heard' = heard \cup {[e |-> e, dst |-> devList[e.k + 1], time |-> now]}
  BY DEF SendUp
<1>2. pc = "idle" /\ UNCHANGED <<simVars, uid, txLog, pc, locals>> BY DEF SendUp
<1>3. /\ TypeOK /\ RightPairing /\ OncePerReceiver BY DEF IInv
<1>4. \A t : Finished(t) /\ Finished(t)' BY <1>2 DEF Finished
<1>5. Flight = {InFlight(f) : f \in events} BY <1>4 DEF Flight
<1>6. \A f : InFlight(f)' = InFlight(f) BY <1>2 DEF InFlight, Target, simVars
<1>7. Flight' = {InFlight(f) : f \in events \ {e}} BY <1>1, <1>4, <1>6 DEF Flight
<1>8. ASSUME NEW f \in events, InFlight(f) = InFlight(e)
      PROVE  f = e
  <2>1. f.tx = e.tx /\ Target(f) = Target(e) BY <1>8 DEF InFlight
  <2>2. e.tx \in DOMAIN txLog /\ Target(e) \in Device
    <3>1. e.k \in Nat /\ e.k < Len(devList) /\ devList \in Seq(Device) /\ Len(devList) \in Nat
      BY <1>3 DEF TypeOK, Event, RightPairing
    <3> QED BY <1>3, <3>1 DEF RightPairing, Target
  <2>3. e \in Receptions(e.tx, Target(e)) /\ f \in Receptions(e.tx, Target(e))
    BY <2>1 DEF Receptions
  <2>4. \E g : Receptions(e.tx, Target(e)) = {g}
    BY <1>3, <1>4, <2>2, <2>3 DEF OncePerReceiver
  <2> QED BY <2>3, <2>4
<1>9. Flight' = Flight \ {InFlight(e)} BY <1>5, <1>7, <1>8
<1>10. Heard' = Heard \cup {InFlight(e)}
  <2> DEFINE h == [e |-> e, dst |-> devList[e.k + 1], time |-> now]
  <2>1. \A g : WasHeard(g)' = WasHeard(g) BY <1>2 DEF WasHeard
  <2>2. WasHeard(h) = InFlight(e) BY <1>1 DEF WasHeard, InFlight, Target, Due
  <2>3. Heard' = {WasHeard(g) : g \in heard \cup {h}} BY <1>1, <2>1 DEF Heard
  <2> QED BY <2>2, <2>3 DEF Heard
<1>11. InFlight(e) \in Flight /\ InFlight(e).at = now BY <1>1, <1>5 DEF InFlight, Due
<1>12. Attached' = Attached /\ Sent' = Sent BY <1>2 DEF Attached, Sent, simVars
<1> QED BY <1>2, <1>9, <1>10, <1>11, <1>12
    DEF Medium!Receive, Sent, Flight, Heard, InFlight, WasHeard, simVars

\* Every step of the channel is a step of the medium or leaves it alone.
LEMMA StepRefines == IInv /\ [Next]_vars => [Medium!MNext]_(Medium!mvars)
<1> SUFFICES ASSUME IInv, [Next]_vars PROVE Medium!MNext \/ UNCHANGED Medium!mvars OBVIOUS
<1>0. /\ TypeOK /\ RightPairing BY DEF IInv
<1>1. ASSUME NEW d \in Device, AddDevice(d) PROVE Medium!MNext
  <2>1. /\ pc = "idle" /\ d \notin Attached /\ devList' = Append(devList, d)
        /\ UNCHANGED <<now, pos, events, uid, heard, txLog, pc, locals>>
    BY <1>1 DEF AddDevice
  <2>2. devList \in Seq(Device) /\ Len(devList) \in Nat BY <1>0 DEF TypeOK
  <2>3. Attached' = Attached \cup {d} BY <2>1, <2>2 DEF Attached
  <2>4. \A e \in events : Target(e)' = Target(e)
    <3> SUFFICES ASSUME NEW e \in events PROVE Target(e)' = Target(e) OBVIOUS
    <3>1. e.k \in Nat /\ e.k < Len(devList) BY <1>0 DEF TypeOK, Event, RightPairing
    <3>2. e.k + 1 \in DOMAIN devList BY <2>2, <3>1
    <3> QED BY <2>1, <2>2, <3>2 DEF Target
  <2>5. Flight' = Flight BY <2>1, <2>4 DEF Flight, InFlight, Finished
  <2>6. Sent' = Sent /\ Heard' = Heard BY <2>1 DEF Sent, Heard, WasHeard
  <2>7. Medium!Attach(d)
    BY <2>1, <2>3, <2>5, <2>6 DEF Medium!Attach, Sent, Flight, Heard, InFlight, WasHeard
  <2> QED BY <2>7 DEF Medium!MNext
<1>2. ASSUME NEW n \in Node, NEW p \in Position, Move(n, p) PROVE Medium!MNext
  <2>1. pos' = [pos EXCEPT ![n] = p] /\ UNCHANGED <<now, devList, events, uid, heard, txLog, pc, locals>>
    BY <1>2 DEF Move
  <2>2. UNCHANGED <<Attached, Sent, Flight, Heard>>
    BY <2>1 DEF Attached, Sent, Flight, Heard, InFlight, WasHeard, Target, Finished
  <2>3. Medium!Relocate(n, p)
    BY <2>1, <2>2 DEF Medium!Relocate, Sent, Flight, Heard, InFlight, WasHeard
  <2> QED BY <2>3 DEF Medium!MNext
<1>3. ASSUME NEW d \in Device, NEW thres \in Threshold, TxPacket(d, thres)
      PROVE  UNCHANGED Medium!mvars
  <2> DEFINE call == [src |-> d, at |-> now, pos |-> pos, attached |-> Attached, thres |-> thres]
  <2>1. /\ pc = "idle" /\ pc' = "gather" /\ txLog' = Append(txLog, call)
        /\ UNCHANGED <<simVars, events, uid, heard>>
    BY <1>3 DEF TxPacket
  <2>2. txLog \in Seq(Call) /\ Len(txLog) \in Nat BY <1>0 DEF TypeOK
  <2>3. /\ Len(txLog') = Len(txLog) + 1
        /\ \A t \in DOMAIN txLog : txLog'[t] = txLog[t]
    BY <2>1, <2>2
  <2>4. /\ \A e \in events : e.tx \in DOMAIN txLog
        /\ \A h \in heard : h.e.tx \in DOMAIN txLog
    BY DEF IInv, RightPairing, History
  <2>5. \A e \in events : Finished(e.tx) /\ Finished(e.tx)'
    BY <2>1, <2>2, <2>3, <2>4 DEF Finished
  <2>6. \A e \in events : InFlight(e)' = InFlight(e)
    BY <2>1, <2>3, <2>4 DEF InFlight, Target, simVars
  <2>7. Flight' = Flight BY <2>1, <2>5, <2>6 DEF Flight
  <2>8. Heard' = Heard BY <2>1, <2>3, <2>4 DEF Heard, WasHeard
  <2>9. Attached' = Attached /\ Sent' = Sent BY <2>1, <2>2, <2>3 DEF Attached, Sent, simVars
  <2> QED BY <2>1, <2>7, <2>8, <2>9, Stutter DEF simVars
<1>4. CASE GatherStep \/ GetPdpVector \/ ScheduleStep BY <1>4, HiddenStep
<1>5. CASE TxReturn BY <1>5, TransmitStep DEF Medium!MNext
<1>6. CASE SendUp BY <1>6, ReceiveStep DEF Medium!MNext
<1>7. CASE Tick
  <2>1. /\ now < MaxTime /\ now' = now + 1 /\ \A e \in events : e.at > now
        /\ UNCHANGED <<pos, devList, events, uid, heard, txLog, pc, locals>>
    BY <1>7 DEF Tick
  <2>2. UNCHANGED <<Attached, Sent, Flight, Heard>>
    BY <2>1 DEF Attached, Sent, Flight, Heard, InFlight, WasHeard, Target, Finished
  <2>3. \A r \in Flight : r.at > now BY <2>1 DEF Flight, InFlight
  <2>4. Medium!Pass
    BY <2>1, <2>2, <2>3 DEF Medium!Pass, Sent, Flight, Heard, InFlight, WasHeard
  <2> QED BY <2>4 DEF Medium!MNext
<1>8. CASE UNCHANGED vars
  <2>1. UNCHANGED <<now, pos, Attached, Sent, Flight, Heard>>
    BY <1>8 DEF vars, simVars, Attached, Sent, Flight, Heard, InFlight, WasHeard, Target, Finished
  <2> QED BY <2>1, Stutter
<1> QED BY <1>1, <1>2, <1>3, <1>4, <1>5, <1>6, <1>7, <1>8 DEF Next, TxStep

\* The channel implements the safety part of the medium, for every set of
\* devices, every response and any number of transmissions.
THEOREM ImplementsMediumSafety == Spec => Medium!MSafety
<1>1. Init => Medium!MInit BY DEF Init, Medium!MInit, Attached
<1> QED BY <1>1, InductiveInvariant, StepRefines, PTL DEF Spec, Medium!MSafety

=============================================================================
