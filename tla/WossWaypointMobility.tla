------------------------- MODULE WossWaypointMobility -------------------------
(***************************************************************************)
(* WossWaypointMobilityModel::Update: a node's position is brought up to   *)
(* date whenever somebody asks for it (GetPosition) and, unless LazyNotify *)
(* is set, at the time of every waypoint.  A call consumes the waypoints   *)
(* that are due and then moves the node along the great circle.            *)
(*                                                                         *)
(* The great circle and the depth, which are crossed at the same ratio,    *)
(* are one line; a tick is a second.  WaypointMobilityModel, which keeps   *)
(* the waypoints, and the simulator are external.  Both notifications are  *)
(* the last effect of their path, so a listener that asks for the position *)
(* makes one more call of Update.  GetVelocity of the base class returns   *)
(* m_velocity as it is, without a call of Update.                          *)
(***************************************************************************)
EXTENDS Integers, Sequences

CONSTANTS
    Positions,      \* positions of waypoints
    Modes,          \* values of the attribute LazyNotify to try
    MaxTime,        \* bound: the simulation stops at this time
    MaxWaypoints    \* bound: waypoints a script adds

ASSUME PositionsAssumption == Positions \subseteq Int
ASSUME ModesAssumption == Modes \subseteq BOOLEAN
ASSUME MobilityBoundAssumption == MaxTime \in Nat /\ MaxWaypoints \in Nat

\* The code has doubles: the unit of the positions is small enough for the place
\* of a node at every tick of a leg, of MaxTime + 1 ticks at most, to be whole.
ASSUME ScaleAssumption ==
    \A p, q \in Positions : \A span \in 1 .. MaxTime + 1 : (q - p) % span = 0

VARIABLES
    now,            \* Simulator::Now
    lazyNotify,     \* attribute LazyNotify
    pc,             \* "idle" or "update"
    m_first,        \* no waypoint has been added
    m_current,      \* where the node is, and since when that is so
    m_next,         \* the waypoint it goes to
    m_waypoints,    \* the waypoints behind that
    m_velocity,     \* what GetVelocity returns
    newWaypoint,    \* local of Update
    pending,        \* times of scheduled calls of Update
    added,          \* history: the waypoints added
    departure,      \* history: the waypoint the leg under way began at
    restNotices     \* history: notifications of rest since that leg began

script == <<m_first, m_waypoints, pending, added>>
vars == <<now, lazyNotify, pc, m_current, m_next, m_velocity, newWaypoint, script, departure, restNotices>>

Waypoint(t, p) == [time |-> t, position |-> p]
Origin == Waypoint(0, 0)

Init ==
    /\ now = 0
    /\ lazyNotify \in Modes
    /\ pc = "idle"
    /\ m_first = TRUE
    /\ m_current = Origin /\ m_next = Origin /\ m_waypoints = <<>>
    /\ m_velocity = 0
    /\ newWaypoint = FALSE
    /\ pending = {} /\ added = <<>>
    /\ departure = Origin /\ restNotices = 0

-----------------------------------------------------------------------------
\* Mutation: the delay given to the simulator is the time of the waypoint.
ScheduleAfter(t) == IF lazyNotify THEN pending ELSE pending \cup {now + t}

\* Simulator::Schedule of an Update for the time of a waypoint.
ScheduleFor(t) == IF lazyNotify THEN pending ELSE pending \cup {t}

\* WaypointMobilityModel::AddWaypoint, not for the past.  Ascending order of time
\* is the documented precondition of the base class, whose code checks it only
\* while waypoints are queued.
AddWaypoint(t, p) ==
    /\ pc = "idle"
    /\ Len(added) < MaxWaypoints
    /\ t >= now
    /\ \A n \in DOMAIN added : added[n].time < t
    /\ added' = Append(added, Waypoint(t, p))
    /\ pending' = ScheduleFor(t)
    /\ m_first' = FALSE
    /\ IF m_first
          THEN /\ m_current' = Waypoint(t, p) /\ m_next' = Waypoint(t, p)
               /\ departure' = Waypoint(t, p) /\ restNotices' = 0
               /\ UNCHANGED m_waypoints
          ELSE /\ m_waypoints' = Append(m_waypoints, Waypoint(t, p))
               /\ UNCHANGED <<m_current, m_next, departure, restNotices>>
    /\ UNCHANGED <<now, lazyNotify, pc, m_velocity, newWaypoint>>

\* Update up to its loop.
EnterUpdate ==
    /\ pc' = IF now < m_current.time THEN "idle" ELSE "update"
    /\ newWaypoint' = FALSE

\* GetPosition, GetNextWaypoint and WaypointsLeft call Update.
GetPosition ==
    /\ pc = "idle"
    /\ EnterUpdate
    /\ UNCHANGED <<now, lazyNotify, m_current, m_next, m_velocity, script, departure, restNotices>>

\* The call scheduled for the time of a waypoint.
ScheduledUpdate ==
    /\ pc = "idle"
    /\ now \in pending
    /\ pending' = pending \ {now}
    /\ EnterUpdate
    /\ UNCHANGED <<now, lazyNotify, m_current, m_next, m_velocity, m_first, m_waypoints, added, departure,
                   restNotices>>

\* m_velocity of a leg.
Velocity(from, to) == (to.position - from.position) \div (to.time - from.time)

\* Mutation: the waypoint is left in the queue.
NextLegKeeps ==
    /\ pc = "update"
    /\ now >= m_next.time
    /\ m_waypoints # <<>>
    /\ m_current' = m_next
    /\ m_next' = Head(m_waypoints)
    /\ m_velocity' = Velocity(m_next, Head(m_waypoints))
    /\ newWaypoint' = TRUE
    /\ departure' = m_next
    /\ restNotices' = 0
    /\ UNCHANGED <<now, lazyNotify, pc, m_first, m_waypoints, pending, added>>

\* A pass of the loop: the next waypoint has been reached and another follows.
NextLeg ==
    /\ pc = "update"
    /\ now >= m_next.time
    /\ m_waypoints # <<>>
    /\ m_current' = m_next
    /\ m_next' = Head(m_waypoints)
    /\ m_velocity' = Velocity(m_next, Head(m_waypoints))
    /\ m_waypoints' = Tail(m_waypoints)
    /\ newWaypoint' = TRUE
    /\ departure' = m_next
    /\ restNotices' = 0
    /\ UNCHANGED <<now, lazyNotify, pc, m_first, pending, added>>

\* Mutation: the comparison with the time of the last waypoint is strict.
RestStrict ==
    /\ pc = "update"
    /\ now >= m_next.time
    /\ m_waypoints = <<>>
    /\ IF m_current.time < m_next.time
          THEN /\ m_next' = [m_next EXCEPT !.time = -1]
               /\ m_current' = Waypoint(now, m_next.position)
               /\ m_velocity' = 0
               /\ restNotices' = restNotices + 1
          ELSE /\ m_current' = [m_current EXCEPT !.time = now]
               /\ UNCHANGED <<m_next, m_velocity, restNotices>>
    /\ pc' = "idle"
    /\ newWaypoint' = FALSE
    /\ UNCHANGED <<now, lazyNotify, script, departure>>

\* Mutation: the velocity of the last leg is not reset.
RestKeepsVelocity ==
    /\ pc = "update"
    /\ now >= m_next.time
    /\ m_waypoints = <<>>
    /\ IF m_current.time <= m_next.time
          THEN /\ m_next' = [m_next EXCEPT !.time = -1]
               /\ m_current' = Waypoint(now, m_next.position)
               /\ restNotices' = restNotices + 1
          ELSE /\ m_current' = [m_current EXCEPT !.time = now]
               /\ UNCHANGED <<m_next, restNotices>>
    /\ pc' = "idle"
    /\ newWaypoint' = FALSE
    /\ UNCHANGED <<now, lazyNotify, m_velocity, script, departure>>

\* A pass of the loop that finds no waypoint behind the next one: the node is
\* at rest.  Only the first such pass notifies.
Rest ==
    /\ pc = "update"
    /\ now >= m_next.time
    /\ m_waypoints = <<>>
    /\ IF m_current.time <= m_next.time
          THEN /\ m_next' = [m_next EXCEPT !.time = -1]
               /\ m_current' = Waypoint(now, m_next.position)
               /\ m_velocity' = 0
               /\ restNotices' = restNotices + 1
          ELSE /\ m_current' = [m_current EXCEPT !.time = now]
               /\ UNCHANGED <<m_next, m_velocity, restNotices>>
    /\ pc' = "idle"
    /\ newWaypoint' = FALSE
    /\ UNCHANGED <<now, lazyNotify, script, departure>>

\* getCoordAlongGreatCircle (from, to, ratio * circleDist), ratio = done / span.
Along(from, to, done, span) == from + ((to - from) * done) \div span

\* Mutation: the position is moved, the time it was seen at is not.
InterpolateKeepsTime ==
    /\ pc = "update"
    /\ now < m_next.time
    /\ m_current' = IF now > m_current.time
          THEN Waypoint(m_current.time, Along(m_current.position, m_next.position,
                            now - m_current.time, m_next.time - m_current.time))
          ELSE m_current
    /\ pc' = "idle"
    /\ newWaypoint' = FALSE
    /\ UNCHANGED <<now, lazyNotify, m_next, m_velocity, script, departure, restNotices>>

\* After the loop: move on from where the node was last seen, and notify if a
\* leg began.
Interpolate ==
    /\ pc = "update"
    /\ now < m_next.time
    /\ m_current' = IF now > m_current.time
          THEN Waypoint(now, Along(m_current.position, m_next.position,
                                   now - m_current.time, m_next.time - m_current.time))
          ELSE m_current
    /\ pc' = "idle"
    /\ newWaypoint' = FALSE
    /\ UNCHANGED <<now, lazyNotify, m_next, m_velocity, script, departure, restNotices>>

\* The simulator moves on when no call is due.
Tick ==
    /\ pc = "idle"
    /\ now < MaxTime
    /\ now \notin pending
    /\ now' = now + 1
    /\ UNCHANGED <<lazyNotify, pc, m_current, m_next, m_velocity, newWaypoint, script, departure, restNotices>>

UpdateStep == NextLeg \/ Rest \/ Interpolate

Next ==
    \/ \E t \in 0 .. MaxTime, p \in Positions : AddWaypoint(t, p)
    \/ GetPosition
    \/ ScheduledUpdate
    \/ UpdateStep
    \/ Tick

Spec == Init /\ [][Next]_vars

\* A call of Update runs to its end; the position is asked for finitely often
\* at one time, so the event loop runs what is due and moves on.
FairSpec == Spec /\ WF_vars(UpdateStep) /\ SF_vars(ScheduledUpdate) /\ SF_vars(Tick)

-----------------------------------------------------------------------------
WaypointType == [time : -1 .. MaxTime, position : Int]

\* Type invariant of the mobility model.
TypeOK ==
    /\ now \in 0 .. MaxTime
    /\ lazyNotify \in BOOLEAN /\ m_first \in BOOLEAN /\ newWaypoint \in BOOLEAN
    /\ pc \in {"idle", "update"}
    /\ {m_current, m_next, departure} \subseteq WaypointType
    /\ m_waypoints \in Seq(WaypointType) /\ added \in Seq(WaypointType)
    /\ pending \subseteq 0 .. MaxTime
    /\ m_velocity \in Int /\ restNotices \in Nat

\* At rest m_next has been given the time -1.
AtRest == m_next.time = -1

\* Wherever and however often the position was asked for along a leg, the node
\* is where a single interpolation from the start of the leg puts it: moving
\* on from the last position seen accumulates no error.
OnTrack ==
    pc = "idle" /\ ~AtRest /\ departure.time < m_next.time =>
        m_current.position = Along(departure.position, m_next.position,
                                   m_current.time - departure.time, m_next.time - departure.time)

\* NS_ASSERT (tSpan > 0) and NS_ASSERT (ratio <= 1.0): the waypoints ahead are
\* in ascending order behind the next one, also when it has the time -1, and
\* the node is never seen later than its next waypoint unless it rests.
SpansPositive ==
    /\ \A n \in DOMAIN m_waypoints :
          m_waypoints[n].time > IF n = 1 THEN m_next.time ELSE m_waypoints[n - 1].time
    /\ ~AtRest => m_current.time <= m_next.time

\* A node seen later than its next waypoint has notified rest exactly once, in
\* the case of one waypoint too, one still under way has not, and the node rests
\* at the last waypoint.
RestNotifiedOnce ==
    /\ restNotices = IF m_current.time > m_next.time THEN 1 ELSE 0
    /\ AtRest => m_current.position = m_next.position

\* m_velocity takes the node from where it was last seen to its next waypoint,
\* and is zero when it has none to go to.
VelocityOfLeg ==
    IF m_current.time < m_next.time
       THEN m_next.position - m_current.position = m_velocity * (m_next.time - m_current.time)
       ELSE m_velocity = 0

\* Some leg, or no leg at all, is taken up for the present.
LegTakenUp == m_first \/ AtRest \/ now < m_next.time

\* GetVelocity, which does not bring the node up to date first, answers for the
\* leg that was taken up last; with eager notifications, for no leg that has
\* ended, once the calls that are due have been made.
VelocityAlongTrack ==
    /\ VelocityOfLeg
    /\ pc = "idle" /\ ~lazyNotify /\ now \notin pending => LegTakenUp

\* With eager notifications a node comes to rest at the last waypoint of its
\* script, whether or not anybody asks for its position.
Settles ==
    \A n \in 1 .. MaxWaypoints :
        (~lazyNotify /\ Len(added) = n)
        ~> \/ Len(added) > n
           \/ Len(added) = n /\ AtRest /\ m_current.position = added[n].position

=============================================================================
