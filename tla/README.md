# woss-ns3 in TLA+

A model of the WOSS integration for ns-3 (`model/`, `helper/`, `examples/`), checked with TLC on small
instances and proved with TLAPS: every safety invariant the passing runs check is also a theorem for every
value of the constants.

## 1. The system

woss-ns3 puts the WOSS channel simulator under the UAN (underwater acoustic network) classes of ns-3. A
simulation script builds nodes with positions, a `WossHelper` configures WOSS, and from then on every
transmission asks WOSS for the responses of the paths to all receivers.

```
 script --attributes, Initialize--> WossHelper --creators, managers--> WOSS controller
   |                                   | SetWossManager                     |
   |                                   v                                    v
   |   UanTransducer --TxPacket--> WossChannel --GetPdpVector--> WossPropModel --> WossManager
   |                                   | ScheduleWithContext                ^
   |                                   v                                    | GetPosition
   |                              ns-3 event loop --SendUp--> receivers     |
   +--positions-----> allocators, WossWaypointMobilityModel <----WossLocation
```

| Component | State | Operations | What makes it correct |
|---|---|---|---|
| `WossChannel` | device list, pending `SendUp` events, locals of a call | `TxPacket`, `SendUp` | every attached device but the source hears a packet once, on the response and delay of its own path at the time of sending |
| `WossPropModel` | pointer to the WOSS manager | `GetPdp`, `GetPdpVector`, `GetDelay`, `CreateUanPdp` | the PDP samples and spans the response; no fatal error |
| `WossHelper`, life cycle | `m_initialized`, prototypes that are moved from, creators, managers | attributes, `Initialize`, `CheckInitialized`, `DoDispose` | one manager for controller and models; nothing used after it was moved |
| `WossHelper`, node pairs | `m_locMap`, tables of the bellhop creator | set, get, erase of angles and custom transducers | a lookup for a pair finds what was bound to these nodes |
| `WossHelper`, custom environment | the WOSS database manager | set, import, get and erase of bathymetry, SSP, sediment, altimetry | what is stored and returned for a string, well formed or not |
| `WossSimTime` | two times | `operator<<`, `operator>>` as an attribute | no text brings in times that are not valid |
| `WossWaypointMobilityModel` | current and next waypoint, queue, velocity | `Update` (from `GetPosition` and from scheduled events) | track independent of who asks; rest notified once; velocity that of the leg; arrival |
| `WossGridPositionAllocator` | `m_current`, attributes | `GetNext`, setters | spacing and shape of the grid, also when attributes change half way |
| other allocators, `WossRandomGenerator` | random variables, streams | setters, `AssignStreams`, `GetNext`, `create`, `clone`, assignment, `getRand` | streams disjoint; no number serves twice, copies of a generator included |
| `woss-aloha-example` | the allocator of the nodes, received bytes | `Experiment::Run` | every selector of the command line places the nodes |
| coordinate conversions, `WossTimeReference` | none | arithmetic | not modelled (section 8) |

What is hard here is not threads: ns-3 runs one event at a time, and the threads of WOSS are behind one call
that returns when all responses are there. It is

* calls that schedule by index into a list that may have grown when the event runs, in a world that has moved
  since (`TxPacket` and `SendUp`);
* pairs of loop counters that must agree (`k` and `j` of `TxPacket`, taps and arrivals of `CreateUanPdp`),
  with floating-point ties;
* tables keyed by the addresses of objects that come and go (`m_locMap`);
* a position that is updated as a side effect of being read;
* configuration that works in one order of calls only;
* strings that turn out to be broken after half of them has been stored.

`PROJECT.json` lists the hazards with their lines and the properties that cover them.

## 2. Modules

| Module | Models | Proofs |
|---|---|---|
| `TapSelection` | first usable tap and delay of a PDP (pure operators, shared by the next two) | in `WossChannelProofs` |
| `AcousticMedium` | abstract: what devices may rely on | |
| `WossChannel` | `TxPacket` over the event loop | `WossChannelProofs`, `WossChannelRefinement` |
| `PdpBuilder` | `GetPdpVector`, `CreateUanPdpVector`, `CreateUanPdp` | `PdpBuilderProofs` |
| `NodePairSettings` | angles, custom transducers, `m_locMap`, `WossLocation` | `NodePairSettingsProofs` |
| `CustomDatabase` | the custom environment: strings, objects, files, getters, erasing | `CustomDatabaseProofs` |
| `WossWaypointMobility` | `Update` | `WossWaypointMobilityProofs` |
| `WossHelperLifecycle` | attributes, `WossSimTime` as text, `Initialize`, `DoDispose` | `WossHelperLifecycleProofs` |
| `RandomStreams` | random variables, their streams and their numbers | in `PositionAllocatorsProofs` |
| `GridAllocator` | the grid and its attributes | in `PositionAllocatorsProofs` |
| `PositionAllocators` | the two allocator modules side by side | `PositionAllocatorsProofs` |
| `WossAlohaExample` | `Experiment::Run` | |

Modules named `MC...` give the constants their values for TLC. Definitions called "Mutation" in a comment are
wrong variants of the definition below them: with one of them in its place the property it is paired with in
`PROJECT.json` fails. They are used by nothing else.

### WossChannel and AcousticMedium

`TxPacket` is entered, passes its first loop device by device (`GatherStep`), asks for all responses at once
(`GetPdpVector`), passes its second loop device by device (`ScheduleStep`) and returns (`TxReturn`). `pc`
keeps every other action out while a call runs, because an ns-3 event runs to completion. A scheduled `SendUp`
is a record with its time, its number of scheduling, its context and its index `k`, as in
`ScheduleWithContext`; for the properties it also records the call and the end points of the path of the
response it was made from. Between events, nodes move (`Move`), devices attach (`AddDevice`) and time passes
(`Tick`) — as the base class, the mobility models and the simulator do; those are external.

A tap is a delay and its attenuation in dB; the sum of the taps' power and the normalised PDP, which `SendUp`
hands on, are not in the model. `heard` and `txLog` are histories.

`AcousticMedium` is the promise: `Transmit` puts one reception for every other attached device in flight,
timed by the positions of that moment; `Receive` takes one that is due. Its variables are images of the
channel's: a call counts as sent when it returns, and what a call in progress has scheduled is not in flight
yet (`Medium` in `WossChannel`).

### PdpBuilder

Time is in integer ticks. `SetTap` and `SkipTap` are the two kinds of passes of the loop of `CreateUanPdp`;
both are enabled at a distance of exactly the tolerance, where the comparison of doubles may go either way,
and `CeilQuotient` has both values when the span is a whole number of symbols. Responses are what
`coherentSumSample (symbolTime)` returns; it belongs to WOSS, and the model takes from it that no two arrivals
are within one symbol time (`Resolved`). The amplitude of a tap is abstracted to the number of the arrival it
came from.

### NodePairSettings

Memory is explicit. A mobility model has an address, which may be given to another one when it is gone; it
lives while the script refers to it or a `WossLocation` does. `Call` is the part common to all operations:
locations are made for the models named. `anglesFor` and `transducersFor` remember what the caller bound, by
model and not by address. `GetAngles` and `GetCustomTransducer` make locations as the setters do, although
they are `const`; the angles of no pair are the attributes' (`DefaultAngles`), which `Initialize` binds.

### CustomDatabase

A string is the sequence of its fields. `ReadTotal`, one action per pass of the loop, and the returns follow
`SetCustomBathymetry` and `SetCustomSsp`, which read the same way and store differently. The other calls hand
an object or a file name to the manager, or ask it; they are an action each. `db` is the manager's tables by
place: a geometry, with its time for a profile; bathymetry points join those a place has (`Overlay`). The
manager may refuse anything. `call`, and which of its points the manager has `taken` and `refused`, are
histories of the last call.

### WossWaypointMobility

The great circle and the depth are crossed at the same ratio, so one coordinate stands for both, and for the
velocity. `GetPosition` and `ScheduledUpdate` enter `Update`; `NextLeg`, `Rest` and `Interpolate` are its paths.
`AddWaypoint`, the queue of scheduled calls and `GetVelocity`, which returns `m_velocity` as it is, are those of
the base class. Its documentation wants waypoints in ascending order of time, which its code checks only while
waypoints are queued: a script that adds an earlier one to a node without waypoints ahead breaks that
precondition unnoticed, and is not in the model.

### WossHelperLifecycle

Every order of setting attributes, initializing for two models, using and disposing, in a debug and an
optimized build. Running into an assertion or `NS_FATAL_ERROR` is `"aborted"`, using a null pointer
`"crashed"`.

A text for `WossSimTime` is how many of its numbers can be read, whether the separators are `|`, and whether
the dates exist. `Fails` is when `operator>>` sets `failbit`, `Times` what it leaves in its argument all the
same (`"garbage"` if variables were not read). The attribute system, external, drops the value of a reading
that failed, and ends the script or not (`SetAttribute`, `SetAttributeFailSafe`). `SetSimTimeObject` passes no
text and no check.

### RandomStreams, GridAllocator, PositionAllocators

`RandomStreams` names every random variable, so that sharing is visible; a script hands out streams by what
`AssignStreams` returns. A random variable yields the numbers of its stream in order and begins again when its
stream is set; `used` remembers, for every stream and for every variable's own source, which places of it were
drawn by `GetNext`, `getRand` and `getRandInt`. A script is the sequence of the classes of its allocators.

What an allocator takes (`Taken`) is what its `AssignStreams` returns, and not derived from the streams it sets
(`Offsets`): the properties hold because the two agree.

`GridAllocator` places the n-th object on a flat earth. `PositionAllocators` runs the two side by side: a step
is one of the grid, if the script has a grid, or of the other allocators and the generators, in any order. A
crash of the grid ends the script.

### WossAlohaExample

`Run` is a sequence: `InitWossHelper`, `InstallDevices`, `SelectAllocator`, `InstallMobility`, then packets
and `Stop`. `pos` is the variable of the outer scope: the uniform disc configures another one.

## 3. Runs

| Run | Instance | Shows |
|---|---|---|
| `pdp_builder` | two responses per batch, 0 to 3 arrivals, gaps of 20 to 51 ticks at a symbol time of 20; 201,768 states | no fatal error, `cnt == n_taps`, every tap samples its own response, at most the last arrival is lost, the taps span the response |
| `channel` | 3 devices on 3 nodes, 2 positions, 2 transmissions, budgets -2 and 20 dB; symmetry of devices with their nodes; 1,552,562 states | right device, response, context; iterator in range; once per receiver; on time |
| `channel_medium` | 3 devices, 1 transmission, fairness; 88,960 states | every receiver hears; the channel implements `AcousticMedium` with its liveness |
| `node_pairs` | 3 models at 2 addresses, 3 calls; symmetry of models and of addresses; 107,662 states | locations never mixed up; transducers and wildcard angles as bound |
| `node_pairs_angles` | the same, no symmetry | *violated*: angles of a pair are not bound |
| `custom_database` | 2 places, 3 calls of any form, strings of up to 2 points, complete, broken, negative, or with a repeated range; symmetry of places; 370,330 states | what is stored, during and after the call, and returned for well-formed and broken strings |
| `waypoint_mobility` | 3 waypoints in 5 s, 3 positions, eager and lazy; 178,458 states | track, assertions, rest, velocity, arrival |
| `helper_lifecycle` | 2 models, 3 attributes set, all texts of simulation times, both builds; 121,896 states | one manager, generator used once, one model connected, times from texts valid |
| `helper_woa` | the same | *violated*: `SspDbWoaDbType` has no effect |
| `position_allocators` | four scripts: rectangle and uniform disc, disc and list, box and list, grid and uniform disc; 2 generators, 4 streams, 2 members replaced, 2 draws; grids of 7 objects, widths 0 to 3, 2 attributes set; 2,552,321 states | disjoint streams; no number used twice; the grid keeps its shape, other allocators at work or not |
| `grid_column` | spacings 2 or 3 by 5, widths 0 to 3 | *violated*: columns are not `DeltaLongitude` apart |
| `experiment_selector` | selectors 0 to 5, up to 2 nodes | *violated*: selector 4 installs the nodes with a null allocator |

**Why the bounds are enough.** Three devices put the source first, in the middle and last in the list, which
is all that `k` and `j` tell apart; the response depends on the direction and on both positions, so a path
taken the wrong way or to the wrong node changes the delay; the first tap is too weak, so first tap and first
usable tap differ; one path has no usable tap; with two transmissions a later packet overtakes an earlier one
(`channel_medium` has one only: that each of several overlapping packets is heard is `OncePerReceiver` in
`channel`). Gaps between arrivals lie on, and on both sides of, a whole number of symbols and of the tolerance
behind a tap; three arrivals let an offset carry over from one arrival to the next (the proof covers any
number). Three models at two addresses force one address to be used twice. Two points have a last one and one
that is not; three calls store something at one place, disturb it through another call, and look. Three
waypoints give a leg that is neither first nor last and several waypoints due at once; positions are multiples
of 420, so that interpolation is exact for all spans of the instance. Two allocators with two variables each
let variables be shared, within one and between two, and streams be handed out twice to the same one; two
draws are one before and one after a stream is set or a member replaced. Seven objects fill two lines of the
widest grid and begin a third.

**Deadlock** is checked for `PdpBuilder`, which can always take a next call. In the others `CHECK_DEADLOCK
FALSE` is right because the instance stops: at `MaxTime` with nothing due and nothing left to attach, at
`MaxOps`, `MaxCalls`, `MaxDraws` or `MaxObjects`, after `Stop`, or because the program has been aborted. That
no `SendUp` is forgotten is what `EveryReceiverHears` says, that no `Update` is, `Settles`.

## 4. Fairness

ns-3 is single-threaded: an event runs to completion, then the loop takes the one with the least time, and
among those the one scheduled first. So a call in progress continues (`WF` on the steps of `TxPacket` and of
`Update`), an event that is due is run, and time moves on when none is (`WF_vars (SendUp)`, `WF_vars (Tick)`).
In `WossWaypointMobility` a `GetPosition` can be called at any moment and disables both while it runs, again
and again; a script calls it finitely often at one simulation time, hence `SF` on `ScheduledUpdate` and
`Tick`. Nothing is assumed of scripts: they need not add waypoints, send or ask.

## 5. Theorems

All proofs are for arbitrary constants under the named assumptions of the modules.

* **PdpBuilder** (`SymbolTimeAssumption`, `ToleranceAssumption`, `ResponsesAssumption`, `MaxBatchAssumption`):
  `TypeOK`, `NeverFatal`, `TapCountAsserted`, `OnlyLastArrivalLost`, `PdpTracksResponse`, `PdpSpansResponse`.
  None is inductive alone. `IInv` adds where the two walks stand: the next arrival is not earlier than the tap
  by more than `SymbolTime - Tolerance` (`Grid`). A matched tap leaves it so, because the next arrival is a
  symbol time later and the next tap too; an unmatched tap was too early by more than the tolerance, and the
  next one is one symbol later. As `SymbolTime - Tolerance < Tolerance`, a tap never passes an arrival that
  does not match it: no fatal error. `Span` bounds the number of taps by the span; when the arrivals run out,
  the last one was within the tolerance of the previous tap, so all taps have been taken (`TapCountAsserted`);
  when the taps run out, only arrivals less than a symbol time from the end are left, and there is one at
  most. `Consumed` says that every arrival passed is in a tap, `SamplingSoFar` the converse: the taps laid
  sample the response, with arrivals the walk has passed only, so that the next one it takes comes later than
  all of them. `LaidSoFar` puts the taps a symbol time apart; with `Span` and `TapCountAsserted` the last one
  is not later than the last arrival and at most a symbol time before it (`PdpSpansResponse`). From this, and
  from there being a tap even for an empty response (`PdpNeverEmpty`, a part of `IInv`), follows what
  `WossChannel` assumes of the responses it is given (`PdpAssumptionHolds`, for the delays; the attenuation of
  a tap is a value the conversion copies).
* **WossChannel** (`NoDeviceAssumption`, `NodeOfAssumption`, `PdpAssumption`, `ThresholdAssumption`,
  `BoundAssumption`): `TypeOK`, `RightPairing`, `ResponseInRange`, `OncePerReceiver`, `HeardOnTime`, for any
  number of devices, nodes, positions and transmissions. `IInv` adds `Receivers (m)`, the rank among the
  receivers of the device at place `m`: the first loop puts it at that rank of `rxMobVector` (`Gathered`), the
  responses keep the order (`Answered`), and in the second loop `k = i - 1` and `j = Receivers (i - 1) + 1`,
  so that both name the device at `i`. `Scheduled` says which devices the call in progress has served,
  `InCall` that the world has stood still since it began, `EventOnTime` that no event is due in the past.
* **WossChannelRefinement**: `Spec => Medium!MSafety`. All steps of a call but its return are stuttering steps
  of the medium, the return is its `Transmit`.
* **TapSelection** (in `WossChannelProofs`): the first usable tap is the least one, a larger budget never makes
  the delay later, and `ClampKeepsDelay`: that `TxPacket` raises a negative budget to zero, and `GetDelay`
  does not, changes the delay only for a response with a tap of exactly 0 dB.
* **NodePairSettings** (its named assumptions): `TypeOK`, `LocationOfItsModel`, `TransducersAsBound`,
  `WildcardAnglesAsBound`, for any models, addresses and calls. `IInv` adds that a living model is
  the only one at its address (`OwnAddress`), that `m_locMap` and the list of locations are inverse to each
  other, so a located model is alive and at the address it was located at (`Consistent`), and that each
  table holds, under the locations of a pair, what the caller bound to the pair (`Tables`).
* **WossHelperLifecycle** (`LifecycleAssumption`): all five invariants, for any number of models. `IInv` adds
  what a fresh helper is (`Fresh`: while the generator is owned nothing is connected), that a generator is
  lost to a running helper by disposal only (`Lost`), and that of the models `Initialize` returned for one is
  connected and no other (`FirstConnected`).
* **CustomDatabase** (`DatabaseAssumption`, `ObjectsAssumption`): `TypeOK`, `BathymetryOverlaid`,
  `BathymetryAccepted`, `SspAllOrNothing`, for strings of any length, objects of any kind and any number of
  calls. The code cuts the string it reads, the properties speak of the string it was given. `Reading`
  connects the two: in front of point `cnt + 1` the fields not read are those behind field `2 * cnt + 1`, and
  the `cnt` points read are valid. So the point the loop sees is that of the reference reading (`PointFacts`),
  it goes on when that is valid and fails only when it is not (`FailFacts`), the missing separator behind the
  very last number included. `ProfileRead` says that a profile under construction is the points read while
  nothing stored has changed, `TakenSoFar` that the manager has been given the points that were read and has
  taken or refused each, so that the next one is the latest of its range, and `Accepted` that the strings
  accepted are the well-formed ones, whatever the manager answers. `BathymetryOverlaid` itself had to be
  stated for the whole duration of a call to be inductive. `Rebound` is what a call may do to the tables:
  every call is shown to change one entry, to something that fits it.
* **RandomStreams** (`StreamsAssumption`): `StreamsTypeOK`, `StreamsDisjoint`, `NumbersUsedOnce`,
  for every script. Streams are handed out in ascending order: all in use lie below `free`
  (`Below`), and no number of the others has been drawn (`Unused`), so a variable that begins again begins on
  an untouched stream. That holds because every class returns as many streams as it sets (`TakenIsMembers`).
  `Offset` gives the variables of an allocator different streams even if one is two of its members, because the
  last `SetStream` counts (`OffsetFacts`).
* **GridAllocator** (`GridAssumption`): `GridShape`, for any width, spacings, layout and number of objects, and
  attributes that change on the way. `GridInv` adds that the object placed as the n-th stands at the quotient
  and the remainder of n by the width, counted from the origin, and that n is below `m_current`. Quotient and
  remainder determine n; the objects of a line are told apart by their remainders, of which there are as many
  as the width. A spacing of 0 is left out: the code accepts it and puts objects on top of each other.
* **PositionAllocators**: `Spec => StreamsSpec /\ GridSpec` (`ScriptImplementsBoth`): every step of a script
  that mixes a grid with random allocators and generators is a step of one and a stutter of the other. So the
  four invariants hold together in every state of every such script (`AllocatorsCorrect`), which is what the
  run checks.
* **WossWaypointMobility** (`PositionsAssumption`, `ModesAssumption`, `MobilityBoundAssumption`,
  `ScaleAssumption`): `TypeOK`, `SpansPositive`, `RestNotifiedOnce`, `OnTrack`, `VelocityAlongTrack`, for
  scripts of any length. `IInv` adds that the times ahead are times of waypoints that were added
  (`FromScript`): a new waypoint is later than all of those, or follows -1. For `OnTrack` a leg begins and
  ends at waypoints of the script (`LegEnds`) and the node stands on it (`OnLeg`): moving on from a point of
  the leg by the ratio of the times that are left leads to the point one interpolation from the start of the
  leg would (`AlongByStep`), so it does not matter who asked before. The velocity of a leg crosses it in its
  time (`VelocityCrosses`), and what is left of it in the time that is left (`VelocityStays`); that no ended
  leg is left in an eager model follows from an `Update` being scheduled for every waypoint to come
  (`Scheduled`). `ScaleAssumption` chooses the unit of positions small enough for these quotients to be whole;
  the code has doubles, whose rounding is not in the model.

Only model-checked: all liveness (`EveryReceiverHears`, `Settles`, the fairness half of `ImplementsMedium`),
which is out of the prover's reach, and the four runs that show a violation, where there is nothing to prove.

## 6. Where code and documentation disagree

With a run that shows it, and listed in `PROJECT.json`:

1. `SetAngles` with a transmitter erases angles (`woss-helper.cc:581`, `586`).
2. `SspDbWoaDbType` is never given to the creator of the database (`woss-helper.cc:219`, `360-367`).
3. The column layout of the grid uses `DeltaLatitude` for longitudes (`woss-position-allocator.cc:239`).
4. The example's uniform disc (selector 4) is configured in a variable that hides the allocator
   (`woss-aloha-example.cc:231`), and the nodes are installed with a null one.

Noticed while modelling, read from the code and without a run of their own:

* `CreateUanPdp` loses the last arrival of a response whenever it lies more than 0.55 symbol times behind the
  last tap (`woss-prop-model.cc:178`, `198`): the number of taps is the ceiling of the span in symbol times, and
  the last tap may lie up to a symbol time in front of the end. `OnlyLastArrivalLost` states what holds.
* `SetCustomBathymetry` is documented to return true if successful (`woss-helper.h:391`) and returns true when
  the manager refused points as well (`woss-helper.cc:1124`). `BathymetryAccepted` speaks of a manager that
  takes every point.
* A sediment string is documented with seven numbers, five are read (`woss-helper.h:268`,
  `woss-helper.cc:889`).
* `operator<<` writes six numbers of a `WossSimTime`, `operator>>` wants twelve, as documented
  (`woss-helper.cc:124-177`, `woss-helper.h:570`): what is written cannot be read back.
* The directory of the results database is made inside `NS_ASSERT` (`woss-helper.cc:374`): not in an optimized
  build.
* `Initialize` promises all connections for the model it is given (`woss-helper.h:120-121`) and returns at once
  for a second one (`woss-helper.cc:318`). `OneModelConnected` states what holds.
* The doc of `m_channelEqSnrThresDb` promises the first tap above the SNR threshold; with a negative budget a
  tap below it can be used (`woss-channel.cc:153`).
* A waypoint added to a node at rest starts its leg at time -1 (`woss-waypoint-mobility-model.cc:79`, `93`):
  the node jumps. Until the next `Update` its velocity is still zero.
* A grid of width 0 is divided by (`woss-position-allocator.cc:227`).
* With selector 1 the example's grid begins at the coordinates of the sink: node 0 is placed on it
  (`woss-aloha-example.cc:205-206`).
* The constructor of `WossHelper` sets `m_wossClearWorkDir`, the attribute's default clears it
  (`woss-helper.cc:233`).
* `SDefHandler` is a singleton that every helper of a process configures (`woss-helper.cc:192`, `326`): the
  last one initialized counts.

## 7. Plan

Done, in order of importance: channel and its abstract medium, conversion of responses, node pairs, custom
environment, mobility, life cycle, streams and numbers, grid, example; the invariants of all of these that a
passing run checks are proved.

Next:

1. A composition of `WossChannel` with `PdpBuilder`, in which the responses are built and not a constant: the
   assumption of one is the guarantee of the other (`PdpAssumptionHolds`), and the composition refines the
   channel.
2. A composition of `WossChannel` with `WossWaypointMobility`: gathering positions updates them.
3. Theorems about `AcousticMedium` alone, carried over to the channel by the refinement.

## 8. Not modelled

* WOSS, Bellhop, UAN and the simulator: external, as used by the code. A response is a constant of the channel
  and an input of the conversion. `MemoryOptimization` resets the WOSS manager after a query; WOSS answers the
  next query all the same.
* Floating-point values: received power, attenuation beyond a comparison, coordinates, great circles. `CoordZ`
  to and from `Vector` are pure conversions by WOSS.
* `WossTimeReference` (one expression), and what the characters of a `WossSimTime` text are beyond numbers and
  separators.
* The worker threads of WOSS, and whether several of them ask the random generator they are given at a time:
  that is inside WOSS.
* Attributes only passed on to WOSS, logging, most of `GetTypeId`, build files and tests; of the example, what
  it sets in PHY, MAC and applications.
