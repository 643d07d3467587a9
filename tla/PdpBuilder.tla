----------------------------- MODULE PdpBuilder -----------------------------
(***************************************************************************)
(* WossPropModel::GetPdpVector: one query to the WOSS manager, then one    *)
(* CreateUanPdp per channel response.  CreateUanPdp lays the arrivals of   *)
(* one response on a grid of one tap per symbol time, walking the grid     *)
(* (cnt) and the arrivals (it) together.                                   *)
(*                                                                         *)
(* Time is an integer number of ticks.  The amplitude of a tap is          *)
(* abstracted to the arrival it was copied from, 0 for the zero amplitude. *)
(***************************************************************************)
EXTENDS Integers, Sequences

CONSTANTS
    SymbolTime,   \* 1 / mode.GetPhyRateSps (), in ticks
    Tolerance,    \* symbolTime * 1.1 / 2.0, in ticks
    Responses,    \* the coherently summed responses WOSS may return, each the
                  \* sequence of its arrival times
    MaxBatch      \* bound: receivers of one query

\* What coherentSumSample (symbolTime), a function of the WOSS library, gives
\* the loop: arrivals in order of time, no two within a symbol time.
Resolved(s) == \A a, b \in DOMAIN s : a < b => s[b] >= s[a] + SymbolTime

ASSUME SymbolTimeAssumption == SymbolTime \in Nat /\ SymbolTime > 0
ASSUME ToleranceAssumption == Tolerance \in Nat /\ 20 * Tolerance = 11 * SymbolTime
ASSUME ResponsesAssumption == Responses \subseteq Seq(Nat) /\ \A s \in Responses : Resolved(s)
ASSUME MaxBatchAssumption == MaxBatch \in Nat

VARIABLES
    pc,       \* "idle", "next" (between two responses), "loop", "exit" or "fatal"
    batch,    \* the responses of this query, in receiver order
    retVal,   \* the PDPs built so far, in receiver order
    nTaps,    \* n_taps
    cnt,      \* the tap being filled
    it,       \* index of the first arrival not consumed yet
    vectTap   \* the taps of the PDP under construction

vars == <<pc, batch, retVal, nTaps, cnt, it, vectTap>>

Tap(delay, from) == [delay |-> delay, from |-> from]

\* The response being converted.
Arr == batch[Len(retVal) + 1]

StartTime == Arr[1]
EndTime == Arr[Len(Arr)]
\* Mutation: the grid starts one symbol early.
TapTimeEarly(c) == StartTime + (c - 1) * SymbolTime

TapTime(c) == StartTime + c * SymbolTime

\* Mutation: one tap too many.
CeilQuotientPlusOne(span) ==
    {n \in 2 .. span + 2 : (n - 2) * SymbolTime <= span /\ span <= (n - 1) * SymbolTime}

\* std::ceil of a quotient of doubles: when the span is a whole number of
\* symbols the rounding of the quotient can fall on either side.
CeilQuotient(span) ==
    {n \in 1 .. span + 1 : (n - 1) * SymbolTime <= span /\ span <= n * SymbolTime}

NumTaps == IF StartTime < EndTime THEN CeilQuotient(EndTime - StartTime) ELSE {1}

\* PDouble (t, tolerance) == a.  At a distance of exactly the tolerance the
\* comparison of doubles may go either way.
Matches(t, a) == -Tolerance <= t - a /\ t - a <= Tolerance
Differs(t, a) == t - a <= -Tolerance \/ Tolerance <= t - a

-----------------------------------------------------------------------------
Init ==
    /\ pc = "idle"
    /\ batch = <<>>
    /\ retVal = <<>>
    /\ nTaps = 0
    /\ cnt = 0
    /\ it = 1
    /\ vectTap = <<>>

\* GetPdpVector (and GetPdp, GetDelay with one receiver): the WOSS manager
\* answers with one response per receiver.
GetWossTimeArr(responses) ==
    /\ pc = "idle"
    /\ pc' = "next"
    /\ batch' = responses
    /\ retVal' = <<>>
    /\ UNCHANGED <<nTaps, cnt, it, vectTap>>

\* CreateUanPdp up to the loop; an empty response skips it.
StartResponse ==
    /\ pc = "next"
    /\ Len(retVal) < Len(batch)
    /\ IF Arr = <<>>
          THEN pc' = "exit" /\ UNCHANGED nTaps
          ELSE pc' = "loop" /\ nTaps' \in NumTaps
    /\ UNCHANGED <<batch, retVal, cnt, it, vectTap>>

InLoop == pc = "loop" /\ cnt < nTaps /\ it <= Len(Arr)

\* Mutation: the iterator of the arrivals is not advanced.
SetTapKeepsArrival ==
    /\ InLoop
    /\ Matches(TapTime(cnt), Arr[it])
    /\ vectTap' = Append(vectTap, Tap(TapTime(cnt), it))
    /\ cnt' = cnt + 1
    /\ UNCHANGED <<pc, batch, retVal, nTaps, it>>

\* Mutation: the arrivals are indexed by the tap counter.
SetTapByCounter ==
    /\ InLoop
    /\ Matches(TapTime(cnt), Arr[it])
    /\ vectTap' = Append(vectTap, Tap(TapTime(cnt), cnt + 1))
    /\ it' = it + 1
    /\ cnt' = cnt + 1
    /\ UNCHANGED <<pc, batch, retVal, nTaps>>

\* A pass of the loop that takes the next arrival.
SetTap ==
    /\ InLoop
    /\ Matches(TapTime(cnt), Arr[it])
    /\ vectTap' = Append(vectTap, Tap(TapTime(cnt), it))
    /\ it' = it + 1
    /\ cnt' = cnt + 1
    /\ UNCHANGED <<pc, batch, retVal, nTaps>>

\* Mutation: the iterator of the arrivals is advanced by an empty tap too.
SkipTapAndArrival ==
    /\ InLoop
    /\ Differs(TapTime(cnt), Arr[it])
    /\ vectTap' = Append(vectTap, Tap(TapTime(cnt), 0))
    /\ cnt' = cnt + 1
    /\ it' = it + 1
    /\ UNCHANGED <<pc, batch, retVal, nTaps>>

\* A pass that does not: the tap has passed the arrival (NS_FATAL_ERROR, the
\* simulation ends) or is still before it.
SkipTap ==
    /\ InLoop
    /\ Differs(TapTime(cnt), Arr[it])
    /\ IF TapTime(cnt) > Arr[it]
          THEN pc' = "fatal" /\ UNCHANGED <<vectTap, cnt>>
          ELSE /\ pc' = pc
               /\ vectTap' = Append(vectTap, Tap(TapTime(cnt), 0))
               /\ cnt' = cnt + 1
    /\ UNCHANGED <<batch, retVal, nTaps, it>>

\* The loop ends on its bound or on the break.
LoopExit ==
    /\ pc = "loop"
    /\ ~InLoop
    /\ pc' = "exit"
    /\ UNCHANGED <<batch, retVal, nTaps, cnt, it, vectTap>>

\* An empty tap vector is replaced by one zero tap.
Padded(taps) == IF taps = <<>> THEN <<Tap(0, 0)>> ELSE taps

\* CreateUanPdp returns and its locals are gone; CreateUanPdpVector appends its result.
PushPdp ==
    /\ pc = "exit"
    /\ retVal' = Append(retVal, Padded(vectTap))
    /\ pc' = "next"
    /\ nTaps' = 0
    /\ cnt' = 0
    /\ it' = 1
    /\ vectTap' = <<>>
    /\ UNCHANGED batch

\* GetPdpVector returns to its caller: its locals are gone.
ReturnPdps ==
    /\ pc = "next"
    /\ Len(retVal) = Len(batch)
    /\ pc' = "idle"
    /\ batch' = <<>>
    /\ retVal' = <<>>
    /\ UNCHANGED <<nTaps, cnt, it, vectTap>>

Next ==
    \/ \E n \in 0 .. MaxBatch : \E responses \in [1 .. n -> Responses] : GetWossTimeArr(responses)
    \/ StartResponse
    \/ SetTap
    \/ SkipTap
    \/ LoopExit
    \/ PushPdp
    \/ ReturnPdps

Spec == Init /\ [][Next]_vars

-----------------------------------------------------------------------------
\* Type invariant of the conversion.
TypeOK ==
    /\ pc \in {"idle", "next", "loop", "exit", "fatal"}
    /\ batch \in Seq(Responses)
    /\ retVal \in Seq(Seq([delay : Nat, from : Nat]))
    /\ Len(retVal) <= Len(batch)
    /\ nTaps \in Nat /\ cnt \in Nat /\ it \in Nat \ {0}
    /\ vectTap \in Seq([delay : Nat, from : Nat])
    /\ pc \in {"loop", "exit", "fatal"} => Len(retVal) < Len(batch)

\* The grid never runs past an arrival that has not been consumed, so the
\* NS_FATAL_ERROR of CreateUanPdp is unreachable.
NeverFatal == pc # "fatal"

\* NS_ASSERT (cnt == n_taps) after the loop: the arrivals never run out while
\* taps are still due.
TapCountAsserted == pc = "exit" => cnt = nTaps

\* The arrivals a PDP carries, in tap order.
Carried(pdp) == {t \in DOMAIN pdp : pdp[t].from # 0}

\* Every tap of a PDP that carries an arrival of the response sits within the
\* tolerance of the arrival's own time; the arrivals are carried in the order
\* of the response, none of them twice.
Samples(pdp, response) ==
    /\ \A t \in Carried(pdp) :
          /\ pdp[t].from \in DOMAIN response
          /\ Matches(pdp[t].delay, response[pdp[t].from])
    /\ \A t, u \in Carried(pdp) : t < u => pdp[t].from < pdp[u].from

\* The r-th PDP CreateUanPdpVector returns is a sampling of the r-th response.
PdpTracksResponse == \A r \in DOMAIN retVal : Samples(retVal[r], batch[r])

\* The first tap is at the first arrival, no tap is later than the last one, and
\* the last tap is at most a symbol time before it.
Spans(pdp, response) ==
    LET last == response[Len(response)]
    IN  /\ pdp[1].delay = response[1]
        /\ \A t \in DOMAIN pdp : response[1] <= pdp[t].delay /\ pdp[t].delay <= last
        /\ last - SymbolTime <= pdp[Len(pdp)].delay

\* A PDP spans its response, whichever way the number of taps was rounded and
\* however the loop ended: the delays the channel reads off it, of the first tap
\* when none is usable, are those of a path.  An empty response has a zero tap.
PdpSpansResponse ==
    \A r \in DOMAIN retVal :
        IF batch[r] = <<>> THEN retVal[r] = <<Tap(0, 0)>> ELSE Spans(retVal[r], batch[r])

\* The conversion drops no arrival but possibly the last one of a response.
OnlyLastArrivalLost ==
    \A r \in DOMAIN retVal : \A a \in 1 .. Len(batch[r]) - 1 :
        \E t \in DOMAIN retVal[r] : retVal[r][t].from = a

-----------------------------------------------------------------------------
(* The strengthening by which the invariants above are inductive. *)

\* Only the conversion of a response has values in its locals.
LocalsReset ==
    /\ pc \in {"idle", "next"} => nTaps = 0 /\ cnt = 0 /\ it = 1 /\ vectTap = <<>>
    /\ pc = "loop" => Arr # <<>>
    /\ pc = "exit" /\ Arr = <<>> => nTaps = 0 /\ cnt = 0 /\ it = 1 /\ vectTap = <<>>

Converting == pc \in {"loop", "exit"} /\ Arr # <<>>

\* The taps cover the span of the response but for its last symbol time.
Span ==
    Converting =>
        /\ nTaps >= 1 /\ cnt <= nTaps
        /\ (nTaps - 1) * SymbolTime <= EndTime - StartTime
        /\ EndTime - StartTime <= nTaps * SymbolTime

\* Where the walk along the grid and the walk along the arrivals stand: the
\* next arrival is at most symbolTime - tolerance before the tap; once there
\* is none, the last was within the tolerance of the previous tap.
Grid ==
    Converting =>
        /\ it <= Len(Arr) + 1
        /\ it <= Len(Arr) => Arr[it] >= TapTime(cnt) - (SymbolTime - Tolerance)
        /\ it > Len(Arr) => cnt >= 1 /\ EndTime <= TapTime(cnt - 1) + Tolerance
        /\ pc = "exit" => cnt = nTaps \/ it > Len(Arr)

\* Every arrival the walk has passed is in a tap.
Consumed == Converting => \A a \in 1 .. it - 1 : \E t \in DOMAIN vectTap : vectTap[t].from = a

\* Every PDP has a first tap.
PdpNeverEmpty == \A r \in DOMAIN retVal : retVal[r] # <<>>

IInv ==
    /\ TypeOK /\ LocalsReset /\ Span /\ Grid /\ Consumed
    /\ NeverFatal /\ PdpNeverEmpty /\ OnlyLastArrivalLost

\* The taps laid so far sample the response, and carry only arrivals the walk
\* has passed: what makes PdpTracksResponse inductive relative to IInv.
SamplingSoFar ==
    Converting =>
        /\ Samples(vectTap, Arr)
        /\ \A t \in Carried(vectTap) : vectTap[t].from < it

\* The taps laid so far are a symbol time apart: what makes PdpSpansResponse
\* inductive relative to IInv.
LaidSoFar == Converting => Len(vectTap) = cnt /\ \A t \in 1 .. cnt : vectTap[t].delay = TapTime(t - 1)

=============================================================================
