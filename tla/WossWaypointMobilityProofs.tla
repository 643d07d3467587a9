----------------------- MODULE WossWaypointMobilityProofs -----------------------
(***************************************************************************)
(* Proofs about WossWaypointMobility: its types, the two assertions of     *)
(* Update, the notification of rest, the track and the velocity.  The      *)
(* strengthening says that the next waypoint and the ones behind it are    *)
(* waypoints that were added, so that a waypoint added later is later than *)
(* all of them.                                                            *)
(***************************************************************************)
EXTENDS WossWaypointMobility, TLAPS

\* The times of the waypoints added so far.
AddedTimes == {added[n].time : n \in DOMAIN added}

\* The waypoint ahead and those behind it were added, but for the origin, where
\* a node is before it has a waypoint, and for the time -1 of a node at rest.
FromScript ==
    /\ \A n \in DOMAIN m_waypoints : m_waypoints[n].time \in AddedTimes
    /\ AtRest \/ m_first \/ m_next.time \in AddedTimes
    /\ m_first => m_waypoints = <<>>

IInv == TypeOK /\ FromScript /\ SpansPositive /\ RestNotifiedOnce

\* What makes OnTrack inductive relative to IInv: every leg runs between two
\* positions of the script, and the node is on it inside Update as well.
LegEnds ==
    /\ ~m_first => m_next.position \in Positions /\ departure.position \in Positions
    /\ \A n \in DOMAIN m_waypoints : m_waypoints[n].position \in Positions
    /\ m_first => ~(departure.time < m_next.time)

OnLeg ==
    departure.time < m_next.time =>
        /\ departure.time <= m_current.time
        /\ m_current.position = Along(departure.position, m_next.position,
                                      m_current.time - departure.time, m_next.time - departure.time)

-----------------------------------------------------------------------------
\* The fields of the waypoints the model keeps.
LEMMA WaypointFacts ==
    ASSUME TypeOK
    PROVE  /\ MaxTime \in Nat /\ now \in 0 .. MaxTime
           /\ m_current.time \in -1 .. MaxTime /\ m_current.position \in Int
           /\ m_next.time \in -1 .. MaxTime /\ m_next.position \in Int
           /\ m_current = Waypoint(m_current.time, m_current.position)
           /\ m_next = Waypoint(m_next.time, m_next.position)
           /\ DOMAIN m_waypoints = 1 .. Len(m_waypoints) /\ Len(m_waypoints) \in Nat
           /\ \A n \in DOMAIN m_waypoints : m_waypoints[n].time \in -1 .. MaxTime /\ m_waypoints[n].position \in Int
<1>1. \A w \in WaypointType : /\ w.time \in -1 .. MaxTime /\ w.position \in Int
                              /\ w = Waypoint(w.time, w.position)
  BY DEF WaypointType, Waypoint
<1>2. m_current \in WaypointType /\ m_next \in WaypointType /\ m_waypoints \in Seq(WaypointType)
  BY DEF TypeOK
<1>3. \A n \in 1 .. Len(m_waypoints) : m_waypoints[n] \in WaypointType BY <1>2
<1>4. DOMAIN m_waypoints = 1 .. Len(m_waypoints) /\ Len(m_waypoints) \in Nat BY <1>2
<1>5. now \in 0 .. MaxTime BY DEF TypeOK
<1> QED BY <1>1, <1>2, <1>3, <1>4, <1>5, MobilityBoundAssumption

LEMMA WaypointIsTyped ==
    ASSUME NEW t \in -1 .. MaxTime, NEW p \in Int
    PROVE  Waypoint(t, p) \in WaypointType /\ Waypoint(t, p).time = t /\ Waypoint(t, p).position = p
BY DEF Waypoint, WaypointType

\* A position along a leg is a position.
LEMMA AlongIsPosition ==
    ASSUME NEW from \in Int, NEW to \in Int, NEW done \in Int, NEW span \in Int, span > 0
    PROVE  Along(from, to, done, span) \in Int
<1>1. (to - from) * done \in Int OBVIOUS
<1>2. ASSUME NEW x \in Int PROVE x \div span \in Int OBVIOUS
<1>3. ((to - from) * done) \div span \in Int BY <1>1, <1>2
<1> QED BY <1>3 DEF Along

\* The velocity of a leg is a speed.
LEMMA VelocityIsSpeed ==
    ASSUME NEW from, NEW to, from.position \in Int, to.position \in Int,
           from.time \in Int, to.time \in Int, to.time > from.time
    PROVE  Velocity(from, to) \in Int
<1>1. to.position - from.position \in Int /\ to.time - from.time \in Int /\ to.time - from.time > 0 OBVIOUS
<1>2. ASSUME NEW x \in Int, NEW span \in Int, span > 0 PROVE x \div span \in Int BY <1>2
<1>3. (to.position - from.position) \div (to.time - from.time) \in Int BY <1>1, <1>2
<1> QED BY <1>3 DEF Velocity

\* The initial state: no waypoint, at rest in all but name.
LEMMA InductiveInit == Init => IInv
<1> SUFFICES ASSUME Init PROVE IInv OBVIOUS
<1>1. MaxTime \in Nat BY MobilityBoundAssumption
<1>2. Origin \in WaypointType /\ Origin.time = 0 /\ Origin.position = 0 BY <1>1, WaypointIsTyped DEF Origin
<1>3. TypeOK
  <2>1. lazyNotify \in BOOLEAN /\ m_first \in BOOLEAN /\ newWaypoint \in BOOLEAN
    BY ModesAssumption DEF Init
  <2>2. <<>> \in Seq(WaypointType) OBVIOUS
  <2>3. {m_current, m_next, departure} \subseteq WaypointType BY <1>2 DEF Init
  <2>4. /\ now \in 0 .. MaxTime /\ pc \in {"idle", "update"} /\ m_waypoints = <<>> /\ added = <<>>
        /\ pending \subseteq 0 .. MaxTime /\ m_velocity \in Int /\ restNotices \in Nat
    BY <1>1 DEF Init
  <2> QED BY <2>1, <2>2, <2>3, <2>4 DEF TypeOK
<1>4. FromScript BY DEF Init, FromScript
<1>5. SpansPositive BY <1>2 DEF Init, SpansPositive
<1>6. RestNotifiedOnce BY <1>2 DEF Init, RestNotifiedOnce, AtRest
<1> QED BY <1>3, <1>4, <1>5, <1>6 DEF IInv

-----------------------------------------------------------------------------
\* A waypoint is added behind all others.
LEMMA AddWaypointKeeps ==
    ASSUME IInv, NEW t \in 0 .. MaxTime, NEW p \in Positions, AddWaypoint(t, p)
    PROVE  IInv'
<1>1. TypeOK /\ FromScript /\ SpansPositive /\ RestNotifiedOnce BY DEF IInv
<1>2. /\ MaxTime \in Nat /\ now \in 0 .. MaxTime /\ now' = now
      /\ m_current.time \in -1 .. MaxTime /\ m_next.time \in -1 .. MaxTime
      /\ DOMAIN m_waypoints = 1 .. Len(m_waypoints) /\ Len(m_waypoints) \in Nat
  BY <1>1, WaypointFacts DEF AddWaypoint
<1>3. p \in Int BY PositionsAssumption
<1>4. /\ Waypoint(t, p) \in WaypointType
      /\ Waypoint(t, p).time = t /\ Waypoint(t, p).position = p
  BY <1>2, <1>3, WaypointIsTyped
<1>5. /\ added \in Seq(WaypointType) /\ added' = Append(added, Waypoint(t, p))
      /\ m_waypoints \in Seq(WaypointType)
  BY <1>1 DEF TypeOK, AddWaypoint
<1>6. added' \in Seq(WaypointType) BY <1>4, <1>5
<1>7. t \in AddedTimes'
  <2>1. Len(added) + 1 \in DOMAIN added' /\ added'[Len(added) + 1] = Waypoint(t, p) BY <1>4, <1>5
  <2> QED BY <1>4, <2>1 DEF AddedTimes
<1>8. \A u : u \in AddedTimes => u \in AddedTimes' /\ u < t
  <2>1. \A n \in DOMAIN added : n \in DOMAIN added' /\ added'[n] = added[n] BY <1>4, <1>5
  <2>2. \A n \in DOMAIN added : added[n].time < t BY DEF AddWaypoint
  <2> QED BY <2>1, <2>2 DEF AddedTimes
<1>9. pending' \subseteq 0 .. MaxTime BY <1>1 DEF AddWaypoint, ScheduleFor, TypeOK
<1>10. CASE m_first
  <2>1. /\ m_waypoints = <<>> /\ m_waypoints' = <<>> /\ m_first' = FALSE /\ restNotices' = 0
        /\ m_current' = Waypoint(t, p) /\ m_next' = Waypoint(t, p) /\ departure' = Waypoint(t, p)
    BY <1>1, <1>10 DEF AddWaypoint, FromScript
  <2>2. TypeOK' BY <1>1, <1>2, <1>4, <1>6, <1>9, <2>1 DEF TypeOK, AddWaypoint
  <2>3. FromScript' BY <1>4, <1>7, <2>1 DEF FromScript
  <2>4. SpansPositive' BY <1>4, <2>1 DEF SpansPositive
  <2>5. RestNotifiedOnce' BY <1>4, <2>1 DEF RestNotifiedOnce, AtRest
  <2> QED BY <2>2, <2>3, <2>4, <2>5 DEF IInv
<1>11. CASE ~m_first
  <2>1. /\ m_waypoints' = Append(m_waypoints, Waypoint(t, p)) /\ m_first' = FALSE
        /\ UNCHANGED <<m_current, m_next, departure, restNotices>>
    BY <1>11 DEF AddWaypoint
  <2>2. m_waypoints' \in Seq(WaypointType) BY <1>4, <1>5, <2>1
  <2>3. TypeOK' BY <1>1, <1>6, <1>9, <2>1, <2>2 DEF TypeOK, AddWaypoint
  <2>4. /\ DOMAIN m_waypoints' = 1 .. Len(m_waypoints) + 1
        /\ \A n \in 1 .. Len(m_waypoints) : m_waypoints'[n] = m_waypoints[n]
        /\ m_waypoints'[Len(m_waypoints) + 1] = Waypoint(t, p)
    BY <1>2, <1>4, <1>5, <2>1
  <2>5. \A n \in DOMAIN m_waypoints : m_waypoints[n].time \in AddedTimes BY <1>1 DEF FromScript
  <2>6. \A n \in DOMAIN m_waypoints' : n = Len(m_waypoints) + 1 \/ n \in DOMAIN m_waypoints BY <1>2, <2>4
  <2>7. FromScript'
    <3>1. \A n \in DOMAIN m_waypoints' : m_waypoints'[n].time \in AddedTimes'
      <4> TAKE n \in DOMAIN m_waypoints'
      <4>1. CASE n = Len(m_waypoints) + 1 BY <1>4, <1>7, <2>4, <4>1
      <4>2. CASE n \in DOMAIN m_waypoints
        <5>1. m_waypoints'[n] = m_waypoints[n] BY <1>2, <2>4, <4>2
        <5> QED BY <1>8, <2>5, <4>2, <5>1
      <4> QED BY <2>6, <4>1, <4>2
    <3>2. (AtRest \/ m_first \/ m_next.time \in AddedTimes)' BY <1>1, <1>8, <1>11, <2>1 DEF FromScript, AtRest
    <3> QED BY <2>1, <3>1, <3>2 DEF FromScript, AddedTimes
  <2>8. SpansPositive'
    <3>1. ASSUME NEW n \in DOMAIN m_waypoints'
          PROVE  m_waypoints'[n].time > IF n = 1 THEN m_next.time ELSE m_waypoints'[n - 1].time
      <4>1. CASE n \in DOMAIN m_waypoints
        <5>1. m_waypoints'[n] = m_waypoints[n] /\ (n # 1 => m_waypoints'[n - 1] = m_waypoints[n - 1])
          BY <1>2, <2>4, <4>1
        <5> QED BY <1>1, <4>1, <5>1 DEF SpansPositive
      <4>2. CASE n = Len(m_waypoints) + 1
        <5>1. m_waypoints'[n].time = t BY <1>4, <2>4, <4>2
        <5>2. CASE n = 1
          <6>1. AtRest \/ m_next.time \in AddedTimes BY <1>1, <1>11 DEF FromScript
          <6> QED BY <1>2, <1>8, <5>1, <5>2, <6>1 DEF AtRest
        <5>3. CASE n # 1
          <6>1. n - 1 \in DOMAIN m_waypoints /\ m_waypoints'[n - 1] = m_waypoints[n - 1]
            BY <1>2, <2>4, <4>2, <5>3
          <6>2. m_waypoints[n - 1].time < t BY <1>8, <2>5, <6>1
          <6>3. m_waypoints[n - 1].time \in -1 .. MaxTime BY <1>1, <6>1, WaypointFacts
          <6> QED BY <1>2, <5>1, <5>3, <6>1, <6>2, <6>3
        <5> QED BY <5>2, <5>3
      <4> QED BY <2>6, <4>1, <4>2
    <3> QED BY <1>1, <2>1, <3>1 DEF SpansPositive, AtRest
  <2>9. RestNotifiedOnce' BY <1>1, <2>1 DEF RestNotifiedOnce, AtRest
  <2> QED BY <2>3, <2>7, <2>8, <2>9 DEF IInv
<1> QED BY <1>10, <1>11


-----------------------------------------------------------------------------
\* The loop takes up the next leg.
LEMMA LegKeeps ==
    ASSUME IInv, NextLeg
    PROVE  IInv'
<1>1. TypeOK /\ FromScript /\ SpansPositive /\ RestNotifiedOnce BY DEF IInv
<1>2. /\ m_waypoints \in Seq(WaypointType) /\ m_waypoints # <<>>
      /\ m_waypoints' = Tail(m_waypoints) /\ m_next' = Head(m_waypoints)
  BY <1>1 DEF TypeOK, NextLeg
<1>3. /\ DOMAIN m_waypoints = 1 .. Len(m_waypoints) /\ Len(m_waypoints) \in Nat \ {0}
      /\ m_next' = m_waypoints[1] /\ 1 \in DOMAIN m_waypoints
      /\ m_waypoints' \in Seq(WaypointType) /\ m_next' \in WaypointType
      /\ DOMAIN m_waypoints' = 1 .. Len(m_waypoints) - 1
      /\ \A n \in 1 .. Len(m_waypoints) - 1 : m_waypoints'[n] = m_waypoints[n + 1]
  BY <1>2
<1>4. /\ m_current' = m_next /\ departure' = m_next /\ restNotices' = 0
      /\ UNCHANGED <<now, lazyNotify, pc, m_first, pending, added>>
  BY DEF NextLeg
<1>5. m_waypoints[1].time > m_next.time BY <1>1, <1>3 DEF SpansPositive
<1>6. \A n \in DOMAIN m_waypoints : m_waypoints[n].time \in -1 .. MaxTime BY <1>1, WaypointFacts
<1>7. m_next.time \in -1 .. MaxTime /\ MaxTime \in Nat BY <1>1, WaypointFacts
<1>8. TypeOK'
  <2>1. /\ m_next.position \in Int /\ m_next'.position \in Int /\ m_next'.time \in -1 .. MaxTime
        /\ m_velocity' = Velocity(m_next, m_next')
    BY <1>1, <1>2, <1>3, WaypointFacts DEF NextLeg
  <2>2. m_velocity' \in Int BY <1>3, <1>5, <1>7, <2>1, VelocityIsSpeed
  <2> QED BY <1>1, <1>3, <1>4, <2>2 DEF TypeOK, NextLeg
<1>9. FromScript'
  <2>1. AddedTimes' = AddedTimes BY <1>4 DEF AddedTimes
  <2>2. \A n \in DOMAIN m_waypoints' : n + 1 \in DOMAIN m_waypoints BY <1>3
  <2>3. \A n \in DOMAIN m_waypoints' : m_waypoints'[n].time \in AddedTimes BY <1>1, <1>3, <2>2 DEF FromScript
  <2>4. m_next'.time \in AddedTimes BY <1>1, <1>3 DEF FromScript
  <2>5. ~m_first BY <1>1, <1>2 DEF FromScript
  <2> QED BY <1>4, <2>1, <2>3, <2>4, <2>5 DEF FromScript
<1>10. SpansPositive'
  <2>1. ASSUME NEW n \in DOMAIN m_waypoints'
        PROVE  m_waypoints'[n].time > IF n = 1 THEN m_next'.time ELSE m_waypoints'[n - 1].time
    <3>1. n \in 1 .. Len(m_waypoints) - 1 /\ n + 1 \in DOMAIN m_waypoints /\ n + 1 # 1 /\ (n + 1) - 1 = n
      BY <1>3, <2>1
    <3>2. m_waypoints[n + 1].time > m_waypoints[n].time BY <1>1, <3>1 DEF SpansPositive
    <3>3. m_waypoints'[n] = m_waypoints[n + 1] BY <1>3, <3>1
    <3>4. CASE n = 1 BY <1>3, <3>2, <3>3, <3>4
    <3>5. CASE n # 1
      <4>1. n - 1 \in 1 .. Len(m_waypoints) - 1 /\ (n - 1) + 1 = n BY <1>3, <3>1, <3>5
      <4>2. m_waypoints'[n - 1] = m_waypoints[n] BY <1>3, <4>1
      <4> QED BY <3>2, <3>3, <3>5, <4>2
    <3> QED BY <3>4, <3>5
  <2>2. m_current'.time <= m_next'.time BY <1>3, <1>4, <1>5, <1>6, <1>7
  <2> QED BY <2>1, <2>2 DEF SpansPositive
<1>11. RestNotifiedOnce'
  <2>1. ~(m_current'.time > m_next'.time) BY <1>3, <1>4, <1>5, <1>6, <1>7
  <2>2. m_next'.time # -1 BY <1>3, <1>5, <1>6, <1>7
  <2> QED BY <1>4, <2>1, <2>2 DEF RestNotifiedOnce, AtRest
<1> QED BY <1>8, <1>9, <1>10, <1>11 DEF IInv

\* The node comes to rest, or is still at rest.
LEMMA RestKeeps ==
    ASSUME IInv, Rest
    PROVE  IInv'
<1>1. TypeOK /\ FromScript /\ SpansPositive /\ RestNotifiedOnce BY DEF IInv
<1>2. /\ MaxTime \in Nat /\ now \in 0 .. MaxTime
      /\ m_current.time \in -1 .. MaxTime /\ m_current.position \in Int
      /\ m_next.time \in -1 .. MaxTime /\ m_next.position \in Int
      /\ m_current = Waypoint(m_current.time, m_current.position)
      /\ m_next = Waypoint(m_next.time, m_next.position)
  BY <1>1, WaypointFacts
<1>3. /\ now >= m_next.time /\ m_waypoints = <<>> /\ pc' = "idle" /\ newWaypoint' = FALSE
      /\ UNCHANGED <<now, lazyNotify, m_first, m_waypoints, pending, added, departure>>
  BY DEF Rest, script
<1>4. CASE m_current.time <= m_next.time
  <2>1. /\ m_next' = [m_next EXCEPT !.time = -1] /\ m_current' = Waypoint(now, m_next.position)
        /\ restNotices' = restNotices + 1
    BY <1>4 DEF Rest
  <2>2. /\ m_next' \in WaypointType /\ m_current' \in WaypointType
        /\ m_next'.time = -1 /\ m_next'.position = m_next.position
        /\ m_current'.time = now /\ m_current'.position = m_next.position
    BY <1>2, <2>1 DEF Waypoint, WaypointType
  <2>3. restNotices = 0 BY <1>1, <1>2, <1>4 DEF RestNotifiedOnce
  <2>4. TypeOK'
    <3>1. newWaypoint' \in BOOLEAN /\ pc' \in {"idle", "update"} BY <1>3
    <3>2. restNotices' \in Nat /\ m_velocity' \in Int BY <1>4, <2>1, <2>3 DEF Rest
    <3> QED BY <1>1, <1>3, <2>2, <3>1, <3>2 DEF TypeOK
  <2>5. FromScript' BY <1>1, <1>3, <2>2 DEF FromScript, AtRest
  <2>6. SpansPositive' BY <1>3, <2>2 DEF SpansPositive, AtRest
  <2>7. RestNotifiedOnce' BY <1>2, <2>1, <2>2, <2>3 DEF RestNotifiedOnce, AtRest
  <2> QED BY <2>4, <2>5, <2>6, <2>7 DEF IInv
<1>5. CASE ~(m_current.time <= m_next.time)
  <2>1. /\ m_current' = [m_current EXCEPT !.time = now]
        /\ m_next' = m_next /\ m_velocity' = m_velocity /\ restNotices' = restNotices
    BY <1>5 DEF Rest
  <2>2. m_current' \in WaypointType /\ m_current'.time = now /\ m_current'.position = m_current.position
    BY <1>2, <2>1 DEF Waypoint, WaypointType
  <2>3. m_next.time = -1 BY <1>1, <1>5 DEF SpansPositive, AtRest
  <2>4. TypeOK' BY <1>1, <1>3, <2>1, <2>2 DEF TypeOK
  <2>5. FromScript' BY <1>1, <1>3, <2>1, <2>3 DEF FromScript, AtRest
  <2>6. SpansPositive' BY <1>3, <2>1, <2>3 DEF SpansPositive, AtRest
  <2>7. RestNotifiedOnce' BY <1>1, <1>2, <1>5, <2>1, <2>2, <2>3 DEF RestNotifiedOnce, AtRest
  <2> QED BY <2>4, <2>5, <2>6, <2>7 DEF IInv
<1> QED BY <1>4, <1>5

\* The node moves on along its leg.
LEMMA InterpolateKeeps ==
    ASSUME IInv, Interpolate
    PROVE  IInv'
<1>1. TypeOK /\ FromScript /\ SpansPositive /\ RestNotifiedOnce BY DEF IInv
<1>2. /\ MaxTime \in Nat /\ now \in 0 .. MaxTime
      /\ m_current.time \in -1 .. MaxTime /\ m_current.position \in Int
      /\ m_next.time \in -1 .. MaxTime /\ m_next.position \in Int
  BY <1>1, WaypointFacts
<1>3. /\ now < m_next.time /\ pc' = "idle" /\ newWaypoint' = FALSE
      /\ UNCHANGED <<now, lazyNotify, m_next, m_velocity, m_first, m_waypoints, pending, added, departure,
                     restNotices>>
  BY DEF Interpolate, script
<1>4. m_next.time # -1 /\ m_current.time <= m_next.time BY <1>1, <1>2, <1>3 DEF SpansPositive, AtRest
<1>5. m_current' \in WaypointType /\ m_current'.time <= m_next.time /\ m_current'.time \in -1 .. MaxTime
  <2>1. CASE now > m_current.time
    <3> DEFINE place == Along(m_current.position, m_next.position,
                              now - m_current.time, m_next.time - m_current.time)
    <3>1. m_next.time - m_current.time > 0 /\ m_next.time - m_current.time \in Int /\ now - m_current.time \in Int
      BY <1>2, <1>3, <2>1
    <3>2. place \in Int BY <1>2, <3>1, AlongIsPosition
    <3>3. m_current' = Waypoint(now, place) BY <2>1 DEF Interpolate
    <3> HIDE DEF place
    <3> QED BY <1>2, <1>3, <3>2, <3>3, WaypointIsTyped
  <2>2. CASE ~(now > m_current.time)
    <3>1. m_current' = m_current BY <2>2 DEF Interpolate
    <3> QED BY <1>1, <1>2, <1>4, <3>1 DEF TypeOK
  <2> QED BY <2>1, <2>2
<1>6. TypeOK' BY <1>1, <1>3, <1>5 DEF TypeOK
<1>7. FromScript' BY <1>1, <1>3 DEF FromScript, AtRest, AddedTimes
<1>8. SpansPositive' BY <1>1, <1>3, <1>5 DEF SpansPositive, AtRest
<1>9. RestNotifiedOnce' BY <1>1, <1>2, <1>3, <1>4, <1>5 DEF RestNotifiedOnce, AtRest
<1> QED BY <1>6, <1>7, <1>8, <1>9 DEF IInv

\* The other steps leave the waypoints alone.
LEMMA OthersKeep ==
    ASSUME IInv, TypeOK', UNCHANGED <<m_current, m_next, m_first, m_waypoints, added, restNotices>>
    PROVE  IInv'
BY DEF IInv, FromScript, SpansPositive, RestNotifiedOnce, AtRest, AddedTimes

\* The inductive step, one case per action.
LEMMA InductiveStep == IInv /\ [Next]_vars => IInv'
<1> SUFFICES ASSUME IInv, [Next]_vars PROVE IInv' OBVIOUS
<1>1. TypeOK /\ MaxTime \in Nat BY MobilityBoundAssumption DEF IInv
<1>2. ASSUME NEW t \in 0 .. MaxTime, NEW p \in Positions, AddWaypoint(t, p) PROVE IInv'
  BY <1>2, AddWaypointKeeps
<1>3. CASE GetPosition
  <2>1. TypeOK' BY <1>1, <1>3 DEF GetPosition, EnterUpdate, TypeOK, script
  <2> QED BY <1>3, <2>1, OthersKeep DEF GetPosition, script
<1>4. CASE ScheduledUpdate
  <2>1. TypeOK' BY <1>1, <1>4 DEF ScheduledUpdate, EnterUpdate, TypeOK
  <2> QED BY <1>4, <2>1, OthersKeep DEF ScheduledUpdate
<1>5. CASE UpdateStep BY <1>5, LegKeeps, RestKeeps, InterpolateKeeps DEF UpdateStep
<1>6. CASE Tick
  <2>1. TypeOK' BY <1>1, <1>6 DEF Tick, TypeOK, script
  <2> QED BY <1>6, <2>1, OthersKeep DEF Tick, script
<1>7. CASE UNCHANGED vars
  <2>1. TypeOK' BY <1>1, <1>7 DEF vars, TypeOK, script
  <2> QED BY <1>7, <2>1, OthersKeep DEF vars, script
<1> QED BY <1>2, <1>3, <1>4, <1>5, <1>6, <1>7 DEF Next

\* The strengthening holds in every state of a behaviour of Update.
THEOREM InductiveInvariant == Spec => []IInv
<1>1. Init => IInv BY InductiveInit
<1>2. IInv /\ [Next]_vars => IInv' BY InductiveStep
<1> QED BY <1>1, <1>2, PTL DEF Spec

\* Waypoints, times and positions have their types, for all positions of a script.
THEOREM TypeCorrect == Spec => []TypeOK
<1>1. IInv => TypeOK BY DEF IInv
<1> QED BY <1>1, InductiveInvariant, PTL

\* The two assertions of Update hold for scripts of any length.
THEOREM SpansPositiveHolds == Spec => []SpansPositive
<1>1. IInv => SpansPositive BY DEF IInv
<1> QED BY <1>1, InductiveInvariant, PTL

\* Update notifies rest once for every time a node comes to rest.
THEOREM RestNotifiedOnceHolds == Spec => []RestNotifiedOnce
<1>1. IInv => RestNotifiedOnce BY DEF IInv
<1> QED BY <1>1, InductiveInvariant, PTL

-----------------------------------------------------------------------------
\* A whole number of spans is divided exactly.
LEMMA ExactQuotient ==
    ASSUME NEW x \in Int, NEW span \in Int, span > 0
    PROVE  (x * span) \div span = x
OBVIOUS

\* A leg between from and to of span ticks, crossed by a whole step in each.
Leg(from, to, span, step) ==
    /\ from \in Int /\ to \in Int /\ span \in Int /\ step \in Int
    /\ span > 0
    /\ to = from + step * span

\* Where the node is on it after so many ticks.
PlaceOnLeg(from, step, done) == from + step * done

LEMMA AlongByStep ==
    ASSUME NEW from, NEW to, NEW span, NEW step, NEW done \in Int, Leg(from, to, span, step)
    PROVE  /\ Along(from, to, done, span) = PlaceOnLeg(from, step, done)
           /\ PlaceOnLeg(from, step, done) \in Int
<1>1. from \in Int /\ to \in Int /\ span \in Int /\ span > 0 /\ step \in Int BY DEF Leg
<1>2. (to - from) * done = (step * done) * span BY <1>1 DEF Leg
<1>3. step * done \in Int BY <1>1
<1>4. Along(from, to, done, span) = from + step * done BY <1>1, <1>2, <1>3, ExactQuotient DEF Along
<1> QED BY <1>1, <1>3, <1>4 DEF PlaceOnLeg

\* Moving on from a place of the leg ends where the move from its start ends.
LEMMA MoveOn ==
    ASSUME NEW from, NEW to, NEW span, NEW step, Leg(from, to, span, step),
           NEW seen \in Int, NEW done \in Int, span - seen > 0
    PROVE  Along(Along(from, to, seen, span), to, done - seen, span - seen) = Along(from, to, done, span)
<1> DEFINE place == PlaceOnLeg(from, step, seen)
           ahead == span - seen
           moved == done - seen
<1>1. Along(from, to, seen, span) = place /\ place \in Int BY AlongByStep
<1>2. Along(from, to, done, span) = PlaceOnLeg(from, step, done) BY AlongByStep
<1>3. Leg(place, to, ahead, step) /\ moved \in Int BY DEF Leg, PlaceOnLeg
<1>4. PlaceOnLeg(place, step, moved) = PlaceOnLeg(from, step, done) BY DEF Leg, PlaceOnLeg
<1> HIDE DEF place, ahead, moved
<1>5. Along(place, to, moved, ahead) = PlaceOnLeg(place, step, moved) BY <1>3, AlongByStep
<1> QED BY <1>1, <1>2, <1>4, <1>5 DEF ahead, moved

\* The step of the leg between two positions of a script.
LEMMA LegStep ==
    ASSUME NEW p \in Positions, NEW q \in Positions, NEW span \in 1 .. MaxTime + 1
    PROVE  \E step : Leg(p, q, span, step)
<1>1. p \in Int /\ q \in Int /\ MaxTime \in Nat BY PositionsAssumption, MobilityBoundAssumption
<1>2. (q - p) % span = 0 BY ScaleAssumption
<1>3. span \in Int /\ span > 0 BY <1>1
<1>4. (q - p) \div span \in Int /\ q - p = ((q - p) \div span) * span BY <1>1, <1>2, <1>3
<1>5. q = p + ((q - p) \div span) * span BY <1>1, <1>3, <1>4
<1> QED BY <1>1, <1>3, <1>4, <1>5 DEF Leg

\* Every step keeps the node on its leg.
LEMMA OnLegStep ==
    ASSUME IInv, IInv', LegEnds, OnLeg, [Next]_vars
    PROVE  LegEnds' /\ OnLeg'
<1>1. TypeOK /\ FromScript /\ SpansPositive BY DEF IInv
<1>2. /\ MaxTime \in Nat /\ now \in 0 .. MaxTime
      /\ m_current.time \in -1 .. MaxTime /\ m_current.position \in Int
      /\ m_next.time \in -1 .. MaxTime /\ m_next.position \in Int
      /\ DOMAIN m_waypoints = 1 .. Len(m_waypoints) /\ Len(m_waypoints) \in Nat
  BY <1>1, WaypointFacts
<1>3. departure.time \in -1 .. MaxTime /\ departure.position \in Int
  BY <1>1 DEF TypeOK, WaypointType
<1>4. m_waypoints \in Seq(WaypointType) BY <1>1 DEF TypeOK
<1>5. ASSUME UNCHANGED <<m_current, m_next, m_first, m_waypoints, departure>>
      PROVE  LegEnds' /\ OnLeg'
  BY <1>5 DEF LegEnds, OnLeg
<1>6. ASSUME NEW t \in 0 .. MaxTime, NEW p \in Positions, AddWaypoint(t, p)
      PROVE  LegEnds' /\ OnLeg'
  <2>1. Waypoint(t, p) \in WaypointType /\ Waypoint(t, p).time = t /\ Waypoint(t, p).position = p
    BY <1>2, PositionsAssumption, WaypointIsTyped
  <2>2. CASE m_first
    <3>1. /\ m_waypoints' = <<>> /\ m_first' = FALSE
          /\ m_next' = Waypoint(t, p) /\ departure' = Waypoint(t, p)
      BY <1>1, <1>6, <2>2 DEF AddWaypoint, FromScript
    <3>2. ~(departure'.time < m_next'.time) BY <2>1, <3>1
    <3> QED BY <2>1, <3>1, <3>2 DEF LegEnds, OnLeg
  <2>3. CASE ~m_first
    <3>1. /\ m_waypoints' = Append(m_waypoints, Waypoint(t, p)) /\ m_first' = FALSE
          /\ UNCHANGED <<m_current, m_next, departure>>
      BY <1>6, <2>3 DEF AddWaypoint
    <3>2. \A n \in DOMAIN m_waypoints' :
             \/ n \in DOMAIN m_waypoints /\ m_waypoints'[n] = m_waypoints[n]
             \/ m_waypoints'[n] = Waypoint(t, p)
      BY <1>4, <2>1, <3>1
    <3>3. \A n \in DOMAIN m_waypoints' : m_waypoints'[n].position \in Positions
      BY <2>1, <3>2 DEF LegEnds
    <3> QED BY <2>3, <3>1, <3>3 DEF LegEnds, OnLeg
  <2> QED BY <2>2, <2>3
<1>7. CASE NextLeg
  <2>1. /\ m_waypoints # <<>> /\ m_waypoints' = Tail(m_waypoints) /\ m_next' = Head(m_waypoints)
        /\ m_current' = m_next /\ departure' = m_next /\ m_first' = m_first
    BY <1>7 DEF NextLeg
  <2>2. ~m_first BY <1>1, <2>1 DEF FromScript
  <2>3. /\ 1 \in DOMAIN m_waypoints /\ m_next' = m_waypoints[1]
        /\ \A n \in DOMAIN m_waypoints' :
              n + 1 \in DOMAIN m_waypoints /\ m_waypoints'[n] = m_waypoints[n + 1]
    BY <1>4, <2>1
  <2>4. LegEnds' BY <2>1, <2>2, <2>3 DEF LegEnds
  <2>5. m_next'.time \in -1 .. MaxTime /\ m_next'.position \in Int
    BY <1>1, <2>3, WaypointFacts
  <2>6. ASSUME m_next.time < m_next'.time
        PROVE  m_next.position = Along(m_next.position, m_next'.position,
                                       m_next.time - m_next.time, m_next'.time - m_next.time)
    <3>1. (m_next'.position - m_next.position) * (m_next.time - m_next.time) = 0 * (m_next'.time - m_next.time)
      BY <1>2, <2>5
    <3>2. m_next'.time - m_next.time \in Int /\ m_next'.time - m_next.time > 0 BY <1>2, <2>5, <2>6
    <3>3. (0 * (m_next'.time - m_next.time)) \div (m_next'.time - m_next.time) = 0 BY <3>2, ExactQuotient
    <3> QED BY <1>2, <3>1, <3>3 DEF Along
  <2> QED BY <1>2, <2>1, <2>4, <2>6 DEF OnLeg
<1>8. CASE Rest
  <2>1. m_waypoints' = m_waypoints /\ m_first' = m_first /\ departure' = departure
    BY <1>8 DEF Rest, script
  <2>2. m_next'.time = -1 /\ m_next'.position = m_next.position
    <3>1. CASE m_current.time <= m_next.time
      <4>1. m_next' = [m_next EXCEPT !.time = -1] BY <1>8, <3>1 DEF Rest
      <4>2. m_next \in WaypointType BY <1>1 DEF TypeOK
      <4> QED BY <4>1, <4>2 DEF WaypointType
    <3>2. CASE ~(m_current.time <= m_next.time)
      BY <1>1, <1>8, <3>2 DEF Rest, SpansPositive, AtRest
    <3> QED BY <3>1, <3>2
  <2>3. ~(departure'.time < m_next'.time) BY <1>3, <2>1, <2>2
  <2> QED BY <2>1, <2>2, <2>3 DEF LegEnds, OnLeg
<1>9. CASE Interpolate
  <2>1. now < m_next.time /\ UNCHANGED <<m_next, m_first, m_waypoints, departure>>
    BY <1>9 DEF Interpolate, script
  <2>2. LegEnds' BY <2>1 DEF LegEnds
  <2>3. CASE now > m_current.time /\ departure.time < m_next.time
    <3> DEFINE span == m_next.time - departure.time
               seen == m_current.time - departure.time
               done == now - departure.time
    <3>1. span \in 1 .. MaxTime + 1 /\ span \in Int /\ span > 0 BY <1>2, <1>3, <2>3
    <3>2. seen \in Int /\ done \in Int /\ span - seen > 0 BY <1>2, <1>3, <2>1, <2>3
    <3>3. ~m_first BY <2>3 DEF LegEnds
    <3>4. departure.position \in Positions /\ m_next.position \in Positions BY <3>3 DEF LegEnds
    <3>5. PICK step : Leg(departure.position, m_next.position, span, step)
      BY <3>1, <3>4, LegStep
    <3>6. departure.time <= m_current.time
          /\ m_current.position = Along(departure.position, m_next.position, seen, span)
      BY <2>3 DEF OnLeg
    <3>7. done - seen = now - m_current.time /\ span - seen = m_next.time - m_current.time
      BY <1>2, <1>3
    <3>8. m_current' = Waypoint(now, Along(m_current.position, m_next.position, done - seen, span - seen))
      BY <1>9, <2>3, <3>7 DEF Interpolate
    <3> HIDE DEF span, seen, done
    <3>9. Along(m_current.position, m_next.position, done - seen, span - seen)
          = Along(departure.position, m_next.position, done, span)
      BY <3>2, <3>5, <3>6, MoveOn
    <3>10. m_current'.time = now /\ m_current'.position = Along(departure.position, m_next.position, done, span)
      BY <3>8, <3>9 DEF Waypoint
    <3>11. departure.time <= now BY <1>2, <1>3, <2>3, <3>6
    <3> QED BY <2>1, <2>2, <3>10, <3>11 DEF OnLeg, span, done
  <2>4. CASE ~(now > m_current.time)
    <3>1. m_current' = m_current BY <1>9, <2>4 DEF Interpolate
    <3> QED BY <2>1, <2>2, <3>1 DEF OnLeg
  <2>5. CASE ~(departure.time < m_next.time) BY <2>1, <2>2, <2>5 DEF OnLeg
  <2> QED BY <2>3, <2>4, <2>5
<1>10. CASE GetPosition BY <1>5, <1>10 DEF GetPosition, script
<1>11. CASE ScheduledUpdate BY <1>5, <1>11 DEF ScheduledUpdate
<1>12. CASE Tick BY <1>5, <1>12 DEF Tick, script
<1>13. CASE UNCHANGED vars BY <1>5, <1>13 DEF vars, script
<1> QED BY <1>6, <1>7, <1>8, <1>9, <1>10, <1>11, <1>12, <1>13 DEF Next, UpdateStep

\* However often Update moves a node along a leg, it is where one interpolation
\* from the start of the leg puts it, for every script.
THEOREM OnTrackHolds == Spec => []OnTrack
<1>1. Init => LegEnds /\ OnLeg
  <2> SUFFICES ASSUME Init PROVE LegEnds /\ OnLeg OBVIOUS
  <2>1. departure.time = 0 /\ m_next.time = 0 /\ m_waypoints = <<>> /\ m_first = TRUE
    BY DEF Init, Origin, Waypoint
  <2> QED BY <2>1 DEF LegEnds, OnLeg
<1>2. IInv /\ IInv' /\ LegEnds /\ OnLeg /\ [Next]_vars => LegEnds' /\ OnLeg' BY OnLegStep
<1>3. OnLeg => OnTrack BY DEF OnLeg, OnTrack
<1> QED BY <1>1, <1>2, <1>3, InductiveInvariant, PTL DEF Spec

-----------------------------------------------------------------------------
\* What makes VelocityAlongTrack inductive relative to IInv and LegEnds: a node
\* without a waypoint stands still; with eager notifications an Update is
\* scheduled for every waypoint still to come, and one is due when a leg ends.
StillAtFirst == m_first => m_velocity = 0

Scheduled ==
    ~lazyNotify =>
        /\ \A n \in DOMAIN added : added[n].time > now => added[n].time \in pending
        /\ pc = "idle" => LegTakenUp \/ now \in pending

\* The velocity of a leg between positions of a script crosses it in its time.
LEMMA VelocityCrosses ==
    ASSUME NEW from, NEW to, from.position \in Positions, to.position \in Positions,
           from.time \in -1 .. MaxTime, to.time \in -1 .. MaxTime, to.time > from.time
    PROVE  to.position - from.position = Velocity(from, to) * (to.time - from.time)
<1> DEFINE span == to.time - from.time
<1>1. MaxTime \in Nat BY MobilityBoundAssumption
<1>2. span \in 1 .. MaxTime + 1 /\ span \in Int /\ span > 0 BY <1>1
<1>3. PICK step : Leg(from.position, to.position, span, step) BY <1>2, LegStep
<1>4. step \in Int /\ to.position - from.position = step * span BY <1>3 DEF Leg
<1> HIDE DEF span
<1>5. (to.position - from.position) \div span = step BY <1>2, <1>4, ExactQuotient
<1> QED BY <1>4, <1>5 DEF Velocity, span

\* The part of a leg that is left is crossed at the same velocity.
LEMMA VelocityStays ==
    ASSUME NEW from, NEW to, NEW span, NEW step, Leg(from, to, span, step),
           NEW done \in Int
    PROVE  to - Along(from, to, done, span) = step * (span - done)
<1>1. Along(from, to, done, span) = PlaceOnLeg(from, step, done) BY AlongByStep
<1>2. to = from + step * span /\ step \in Int /\ span \in Int /\ from \in Int BY DEF Leg
<1>3. to - (from + step * done) = step * (span - done) BY <1>2
<1> QED BY <1>1, <1>3 DEF PlaceOnLeg

\* After a pass that finds no waypoint the next one has the time -1.
LEMMA RestMarks ==
    ASSUME IInv, Rest
    PROVE  AtRest'
<1>1. TypeOK /\ SpansPositive BY DEF IInv
<1>2. CASE m_current.time <= m_next.time
  <2>1. m_next' = [m_next EXCEPT !.time = -1] BY <1>2 DEF Rest
  <2>2. m_next \in WaypointType BY <1>1 DEF TypeOK
  <2> QED BY <2>1, <2>2 DEF WaypointType, AtRest
<1>3. CASE ~(m_current.time <= m_next.time) BY <1>1, <1>3 DEF Rest, SpansPositive, AtRest
<1> QED BY <1>2, <1>3

\* Every step keeps the velocity that of the leg.
LEMMA VelocityStep ==
    ASSUME IInv, IInv', LegEnds, StillAtFirst, VelocityOfLeg, [Next]_vars
    PROVE  StillAtFirst' /\ VelocityOfLeg'
<1>1. TypeOK /\ FromScript /\ SpansPositive BY DEF IInv
<1>2. /\ MaxTime \in Nat /\ now \in 0 .. MaxTime
      /\ m_current.time \in -1 .. MaxTime /\ m_current.position \in Int
      /\ m_next.time \in -1 .. MaxTime /\ m_next.position \in Int
      /\ DOMAIN m_waypoints = 1 .. Len(m_waypoints) /\ Len(m_waypoints) \in Nat
  BY <1>1, WaypointFacts
<1>3. m_velocity \in Int BY <1>1 DEF TypeOK
<1>4. ASSUME UNCHANGED <<m_current, m_next, m_first, m_velocity>>
      PROVE  StillAtFirst' /\ VelocityOfLeg'
  BY <1>4 DEF StillAtFirst, VelocityOfLeg
<1>5. ASSUME NEW t \in 0 .. MaxTime, NEW p \in Positions, AddWaypoint(t, p)
      PROVE  StillAtFirst' /\ VelocityOfLeg'
  <2>1. m_first' = FALSE /\ m_velocity' = m_velocity BY <1>5 DEF AddWaypoint
  <2>2. CASE m_first
    <3>1. m_current' = Waypoint(t, p) /\ m_next' = Waypoint(t, p) BY <1>5, <2>2 DEF AddWaypoint
    <3>2. m_velocity' = 0 /\ ~(m_current'.time < m_next'.time) BY <2>1, <2>2, <3>1 DEF StillAtFirst, Waypoint
    <3> QED BY <2>1, <3>2 DEF StillAtFirst, VelocityOfLeg
  <2>3. CASE ~m_first
    <3>1. UNCHANGED <<m_current, m_next>> BY <1>5, <2>3 DEF AddWaypoint
    <3> QED BY <2>1, <3>1 DEF StillAtFirst, VelocityOfLeg
  <2> QED BY <2>2, <2>3
<1>6. CASE NextLeg
  <2>1. /\ m_waypoints # <<>> /\ m_waypoints \in Seq(WaypointType)
        /\ m_current' = m_next /\ m_next' = Head(m_waypoints) /\ m_first' = m_first
        /\ m_velocity' = Velocity(m_next, Head(m_waypoints))
    BY <1>1, <1>6 DEF NextLeg, TypeOK
  <2>2. ~m_first BY <1>1, <2>1 DEF FromScript
  <2>3. 1 \in DOMAIN m_waypoints /\ m_next' = m_waypoints[1] BY <2>1
  <2>4. m_next.position \in Positions /\ m_next'.position \in Positions BY <2>2, <2>3 DEF LegEnds
  <2>5. m_next'.time \in -1 .. MaxTime BY <1>1, <2>3, WaypointFacts
  <2>6. m_next'.time > m_next.time BY <1>1, <2>3 DEF SpansPositive
  <2>7. m_next'.position - m_next.position = Velocity(m_next, m_next') * (m_next'.time - m_next.time)
    BY <1>2, <2>4, <2>5, <2>6, VelocityCrosses
  <2>8. VelocityOfLeg' BY <1>2, <2>1, <2>5, <2>6, <2>7 DEF VelocityOfLeg
  <2> QED BY <2>1, <2>2, <2>8 DEF StillAtFirst
<1>7. CASE Rest
  <2>1. m_next'.time = -1 BY <1>7, RestMarks DEF AtRest
  <2>2. m_first' = m_first BY <1>7 DEF Rest, script
  <2>3. m_velocity' = 0
    <3>1. CASE m_current.time <= m_next.time BY <1>7, <3>1 DEF Rest
    <3>2. CASE ~(m_current.time <= m_next.time) BY <1>2, <1>7, <3>2 DEF Rest, VelocityOfLeg
    <3> QED BY <3>1, <3>2
  <2>4. m_current'.time = now
    <3>1. m_current' = Waypoint(now, m_next.position) \/ m_current' = [m_current EXCEPT !.time = now]
      BY <1>7 DEF Rest
    <3>2. m_current \in WaypointType BY <1>1 DEF TypeOK
    <3> QED BY <3>1, <3>2 DEF Waypoint, WaypointType
  <2>5. ~(m_current'.time < m_next'.time) BY <1>2, <2>1, <2>4
  <2> QED BY <2>2, <2>3, <2>5 DEF StillAtFirst, VelocityOfLeg
<1>8. CASE Interpolate
  <2>1. now < m_next.time /\ UNCHANGED <<m_next, m_first, m_velocity>> BY <1>8 DEF Interpolate, script
  <2>2. StillAtFirst' BY <2>1 DEF StillAtFirst
  <2>3. CASE now > m_current.time
    <3> DEFINE span == m_next.time - m_current.time
               done == now - m_current.time
               place == Along(m_current.position, m_next.position, done, span)
    <3>1. m_current.time < m_next.time /\ span \in Int /\ span > 0 /\ done \in Int BY <1>2, <2>1, <2>3
    <3>2. m_next.position - m_current.position = m_velocity * span BY <3>1 DEF VelocityOfLeg
    <3>3. Leg(m_current.position, m_next.position, span, m_velocity) BY <1>2, <1>3, <3>1, <3>2 DEF Leg
    <3>4. m_current' = Waypoint(now, place) BY <1>8, <2>3 DEF Interpolate
    <3>5. span - done = m_next.time - now BY <1>2
    <3> HIDE DEF span, done
    <3>6. m_next.position - place = m_velocity * (span - done) BY <3>1, <3>3, VelocityStays
    <3> HIDE DEF place
    <3>7. m_current'.time = now /\ m_current'.position = place BY <3>4 DEF Waypoint
    <3> QED BY <2>1, <2>2, <3>5, <3>6, <3>7 DEF VelocityOfLeg
  <2>4. CASE ~(now > m_current.time)
    <3>1. m_current' = m_current BY <1>8, <2>4 DEF Interpolate
    <3> QED BY <2>1, <2>2, <3>1 DEF VelocityOfLeg
  <2> QED BY <2>3, <2>4
<1>9. CASE GetPosition BY <1>4, <1>9 DEF GetPosition, script
<1>10. CASE ScheduledUpdate BY <1>4, <1>10 DEF ScheduledUpdate
<1>11. CASE Tick BY <1>4, <1>11 DEF Tick, script
<1>12. CASE UNCHANGED vars BY <1>4, <1>12 DEF vars, script
<1> QED BY <1>5, <1>6, <1>7, <1>8, <1>9, <1>10, <1>11, <1>12 DEF Next, UpdateStep

\* A call of Update that returns at once finds a leg that has not begun.
LEMMA EarlyReturn ==
    ASSUME IInv, EnterUpdate, pc' = "idle", UNCHANGED <<now, m_next, m_first>>
    PROVE  LegTakenUp'
<1>1. TypeOK /\ SpansPositive BY DEF IInv
<1>2. now < m_current.time BY DEF EnterUpdate
<1>3. now \in Int /\ m_current.time \in Int /\ m_next.time \in Int BY <1>1, WaypointFacts
<1>4. AtRest \/ now < m_next.time BY <1>1, <1>2, <1>3 DEF SpansPositive
<1> QED BY <1>4 DEF LegTakenUp, AtRest

\* Every step keeps the calls of Update scheduled.
LEMMA ScheduledStep ==
    ASSUME IInv, IInv', Scheduled, [Next]_vars
    PROVE  Scheduled'
<1>1. TypeOK /\ FromScript /\ SpansPositive BY DEF IInv
<1>2. /\ MaxTime \in Nat /\ now \in 0 .. MaxTime
      /\ m_current.time \in -1 .. MaxTime /\ m_next.time \in -1 .. MaxTime
  BY <1>1, WaypointFacts
<1>3. lazyNotify' = lazyNotify
  BY DEF Next, UpdateStep, vars, AddWaypoint, GetPosition, ScheduledUpdate, NextLeg, Rest, Interpolate, Tick
<1> SUFFICES ASSUME ~lazyNotify
             PROVE  /\ \A n \in DOMAIN added' : added'[n].time > now' => added'[n].time \in pending'
                    /\ pc' = "idle" => LegTakenUp' \/ now' \in pending'
  BY <1>3 DEF Scheduled
<1>4. \A n \in DOMAIN added : added[n].time > now => added[n].time \in pending BY DEF Scheduled
<1>5. pc = "idle" => LegTakenUp \/ now \in pending BY DEF Scheduled
<1> DEFINE Goal == /\ \A n \in DOMAIN added' : added'[n].time > now' => added'[n].time \in pending'
                   /\ pc' = "idle" => LegTakenUp' \/ now' \in pending'
<1>6. ASSUME NEW t \in 0 .. MaxTime, NEW p \in Positions, AddWaypoint(t, p) PROVE Goal
  <2>1. /\ pending' = pending \cup {t} /\ now' = now /\ pc = "idle" /\ t >= now
        /\ added' = Append(added, Waypoint(t, p)) /\ m_first' = FALSE
    BY <1>6 DEF AddWaypoint, ScheduleFor
  <2>2. Waypoint(t, p) \in WaypointType /\ Waypoint(t, p).time = t
    BY <1>2, PositionsAssumption, WaypointIsTyped
  <2>3. added \in Seq(WaypointType) BY <1>1 DEF TypeOK
  <2>4. \A n \in DOMAIN added' : (n \in DOMAIN added /\ added'[n] = added[n]) \/ added'[n] = Waypoint(t, p)
    BY <2>1, <2>2, <2>3
  <2>5. \A n \in DOMAIN added' : added'[n].time > now' => added'[n].time \in pending'
    BY <1>4, <2>1, <2>2, <2>4
  <2>6. LegTakenUp' \/ now' \in pending'
    <3>1. CASE m_first
      <4>1. m_next'.time = t BY <1>6, <2>2, <3>1 DEF AddWaypoint
      <4> QED BY <1>2, <2>1, <4>1 DEF LegTakenUp
    <3>2. CASE ~m_first
      <4>1. m_next' = m_next BY <1>6, <3>2 DEF AddWaypoint
      <4> QED BY <1>5, <2>1, <3>2, <4>1 DEF LegTakenUp, AtRest
    <3> QED BY <3>1, <3>2
  <2> QED BY <2>5, <2>6
<1>7. ASSUME GetPosition PROVE Goal
  <2>1. EnterUpdate /\ UNCHANGED <<now, m_next, m_first, added, pending>> BY <1>7 DEF GetPosition, script
  <2>2. pc' = "idle" => LegTakenUp' BY <2>1, EarlyReturn
  <2> QED BY <1>4, <2>1, <2>2
<1>8. ASSUME ScheduledUpdate PROVE Goal
  <2>1. EnterUpdate /\ UNCHANGED <<now, m_next, m_first, added>> /\ pending' = pending \ {now}
    BY <1>8 DEF ScheduledUpdate
  <2>2. pc' = "idle" => LegTakenUp' BY <2>1, EarlyReturn
  <2>3. \A n \in DOMAIN added : added[n].time > now => added[n].time # now BY <1>2
  <2> QED BY <1>4, <2>1, <2>2, <2>3
<1>9. ASSUME NextLeg PROVE Goal
  <2>1. pc' = "update" /\ UNCHANGED <<now, added, pending>> BY <1>9 DEF NextLeg
  <2> QED BY <1>4, <2>1
<1>10. ASSUME Rest PROVE Goal
  <2>1. LegTakenUp' BY <1>10, RestMarks DEF LegTakenUp
  <2>2. UNCHANGED <<now, added, pending>> BY <1>10 DEF Rest, script
  <2> QED BY <1>4, <2>1, <2>2
<1>11. ASSUME Interpolate PROVE Goal
  <2>1. now < m_next.time /\ UNCHANGED <<now, m_next, m_first, added, pending>>
    BY <1>11 DEF Interpolate, script
  <2>2. LegTakenUp' BY <2>1 DEF LegTakenUp
  <2> QED BY <1>4, <2>1, <2>2
<1>12. ASSUME Tick PROVE Goal
  <2>1. /\ pc = "idle" /\ now \notin pending /\ now' = now + 1
        /\ UNCHANGED <<m_next, m_first, added, pending>>
    BY <1>12 DEF Tick, script
  <2>2. \A n \in DOMAIN added : added[n].time \in Int
    <3>1. added \in Seq(WaypointType) BY <1>1 DEF TypeOK
    <3>2. \A n \in DOMAIN added : added[n] \in WaypointType BY <3>1
    <3> QED BY <1>2, <3>2 DEF WaypointType
  <2>3. \A n \in DOMAIN added : added[n].time > now + 1 => added[n].time > now BY <1>2, <2>2
  <2>4. m_first \/ AtRest \/ now < m_next.time BY <1>5, <2>1 DEF LegTakenUp
  <2>5. CASE m_first \/ AtRest BY <1>4, <2>1, <2>3, <2>5 DEF LegTakenUp, AtRest
  <2>6. CASE ~m_first /\ ~AtRest
    <3>1. PICK n \in DOMAIN added : m_next.time = added[n].time BY <1>1, <2>6 DEF FromScript, AddedTimes
    <3>2. m_next.time \in pending BY <1>4, <2>4, <2>6, <3>1
    <3>3. now + 1 < m_next.time \/ now + 1 \in pending BY <1>2, <2>4, <2>6, <3>2
    <3> QED BY <1>4, <2>1, <2>3, <3>3 DEF LegTakenUp
  <2> QED BY <2>5, <2>6
<1>13. ASSUME UNCHANGED vars PROVE Goal
  BY <1>4, <1>5, <1>13 DEF vars, script, LegTakenUp, AtRest
<1> QED BY <1>6, <1>7, <1>8, <1>9, <1>10, <1>11, <1>12, <1>13 DEF Next, UpdateStep

\* What GetVelocity answers belongs to the leg the node is on, for every script;
\* with eager notifications the leg is that of the present.
THEOREM VelocityAlongTrackHolds == Spec => []VelocityAlongTrack
<1> DEFINE Strong == LegEnds /\ OnLeg /\ StillAtFirst /\ VelocityOfLeg /\ Scheduled
<1>1. Init => Strong
  <2> SUFFICES ASSUME Init PROVE Strong OBVIOUS
  <2>1. /\ departure.time = 0 /\ m_current.time = 0 /\ m_next.time = 0 /\ m_waypoints = <<>> /\ m_first = TRUE
        /\ m_velocity = 0 /\ added = <<>>
    BY DEF Init, Origin, Waypoint
  <2> QED BY <2>1 DEF LegEnds, OnLeg, StillAtFirst, VelocityOfLeg, Scheduled, LegTakenUp
<1>2. IInv /\ IInv' /\ Strong /\ [Next]_vars => Strong' BY OnLegStep, VelocityStep, ScheduledStep
<1>3. Strong => VelocityAlongTrack BY DEF VelocityAlongTrack, Scheduled
<1> QED BY <1>1, <1>2, <1>3, InductiveInvariant, PTL DEF Spec

=============================================================================
