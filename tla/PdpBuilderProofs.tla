-------------------------- MODULE PdpBuilderProofs --------------------------
(***************************************************************************)
(* The conversion of PdpBuilder for every symbol time, every set of        *)
(* resolved responses and every batch.  The heart of the argument is Grid: *)
(* at the head of the loop the next arrival is never earlier than the tap  *)
(* by more than symbolTime - tolerance, which is less than the tolerance.  *)
(***************************************************************************)
EXTENDS PdpBuilder, TLAPS

\* Multiples of the symbol time are naturals and grow by one symbol time.
LEMMA SymbolMultiple ==
    ASSUME NEW c \in Nat
    PROVE  c * SymbolTime \in Nat /\ (c + 1) * SymbolTime = c * SymbolTime + SymbolTime
BY SymbolTimeAssumption

\* A later multiple of the symbol time is later by at least one symbol time.
LEMMA SymbolMultipleGrows ==
    ASSUME NEW c \in Nat, NEW d \in Nat, c < d
    PROVE  c * SymbolTime + SymbolTime <= d * SymbolTime
<1>1. PICK e \in Nat : d = (c + 1) + e
  <2>1. d - (c + 1) \in Nat /\ d = (c + 1) + (d - (c + 1)) OBVIOUS
  <2> QED BY <2>1
<1>2. e * SymbolTime \in Nat BY SymbolTimeAssumption
<1>3. d * SymbolTime = (c + 1) * SymbolTime + e * SymbolTime BY <1>1, SymbolTimeAssumption
<1> QED BY <1>2, <1>3, SymbolMultiple, SymbolTimeAssumption

\* The tolerance, 0.55 symbol times, lies between half a symbol time and one.
LEMMA ToleranceBounds == Tolerance < SymbolTime /\ SymbolTime < 2 * Tolerance
BY SymbolTimeAssumption, ToleranceAssumption

\* Every step keeps the types.
LEMMA TypeStep ==
    ASSUME TypeOK, [Next]_vars
    PROVE  TypeOK'
  <2> USE SymbolTimeAssumption, ResponsesAssumption, MaxBatchAssumption, ToleranceAssumption
  <2>0. pc \in {"next", "loop", "exit"} /\ Len(retVal) < Len(batch) => Arr \in Seq(Nat)
    BY DEF TypeOK, Arr
  <2>1. ASSUME NEW n \in 0 .. MaxBatch, NEW responses \in [1 .. n -> Responses],
               GetWossTimeArr(responses)
        PROVE  TypeOK'
    <3>1. responses \in Seq(Responses) OBVIOUS
    <3> QED BY <2>1, <3>1 DEF GetWossTimeArr, TypeOK
  <2>2. CASE StartResponse
    <3>1. Arr # <<>> => NumTaps \subseteq Nat
      BY <2>0, <2>2 DEF StartResponse, NumTaps, CeilQuotient, StartTime, EndTime, TypeOK
    <3> QED BY <2>2, <3>1 DEF StartResponse, TypeOK
  <2>3. ASSUME InLoop PROVE TapTime(cnt) \in Nat
    <3>1. Arr \in Seq(Nat) /\ cnt \in Nat BY <2>0, <2>3 DEF InLoop, TypeOK
    <3>2. Len(Arr) >= 1 BY <2>3, <3>1 DEF InLoop, TypeOK
    <3>3. Arr[1] \in Nat BY <3>1, <3>2
    <3> QED BY <3>1, <3>3, SymbolMultiple DEF TapTime, StartTime
  <2>4. CASE SetTap
    <3>1. Tap(TapTime(cnt), it) \in [delay : Nat, from : Nat]
      BY <2>3, <2>4 DEF SetTap, Tap, TypeOK
    <3> QED BY <2>4, <3>1 DEF SetTap, InLoop, TypeOK
  <2>5. CASE SkipTap
    <3>1. Tap(TapTime(cnt), 0) \in [delay : Nat, from : Nat]
      BY <2>3, <2>5 DEF SkipTap, Tap, TypeOK
    <3>2. CASE TapTime(cnt) > Arr[it] BY <2>5, <3>2 DEF SkipTap, InLoop, TypeOK
    <3>3. CASE ~(TapTime(cnt) > Arr[it])
      <4>1. /\ vectTap' = Append(vectTap, Tap(TapTime(cnt), 0))
            /\ cnt' = cnt + 1
            /\ pc' = pc
            /\ UNCHANGED <<batch, retVal, nTaps, it>>
        BY <2>5, <3>3 DEF SkipTap
      <4>2. vectTap' \in Seq([delay : Nat, from : Nat]) BY <3>1, <4>1 DEF TypeOK
      <4> QED BY <4>1, <4>2 DEF TypeOK
    <3> QED BY <3>2, <3>3
  <2>6. CASE LoopExit BY <2>6 DEF LoopExit, TypeOK
  <2>7. CASE PushPdp
    <3>1. Padded(vectTap) \in Seq([delay : Nat, from : Nat])
      <4>1. Tap(0, 0) \in [delay : Nat, from : Nat] BY DEF Tap
      <4>2. <<Tap(0, 0)>> \in Seq([delay : Nat, from : Nat]) BY <4>1
      <4> QED BY <4>2 DEF Padded, TypeOK
    <3>2. retVal' \in Seq(Seq([delay : Nat, from : Nat])) /\ Len(retVal') = Len(retVal) + 1
      BY <2>7, <3>1 DEF PushPdp, TypeOK
    <3>3. Len(retVal) < Len(batch) BY <2>7 DEF PushPdp, TypeOK
    <3>4. Len(retVal) \in Nat /\ Len(batch) \in Nat BY DEF TypeOK
    <3>5. Len(retVal') <= Len(batch) BY <3>2, <3>3, <3>4
    <3>6. /\ pc' = "next" /\ batch' = batch /\ nTaps' = 0 /\ cnt' = 0 /\ it' = 1
          /\ vectTap' = <<>>
      BY <2>7 DEF PushPdp
    <3> QED BY <3>2, <3>5, <3>6 DEF TypeOK
  <2>8. CASE ReturnPdps BY <2>8 DEF ReturnPdps, TypeOK
  <2>9. CASE UNCHANGED vars BY <2>9 DEF vars, TypeOK
  <2> QED BY <2>1, <2>2, <2>4, <2>5, <2>6, <2>7, <2>8, <2>9 DEF Next

\* The type invariant is an invariant: what every later proof starts from.
THEOREM TypeCorrect == Spec => []TypeOK
<1>1. Init => TypeOK BY DEF Init, TypeOK
<1>2. TypeOK /\ [Next]_vars => TypeOK' BY TypeStep
<1> QED BY <1>1, <1>2, PTL DEF Spec

\* What the steps of a conversion know of the response and of the grid.
LEMMA ResponseFacts ==
    ASSUME TypeOK, Len(retVal) < Len(batch), Arr # <<>>
    PROVE  /\ Arr \in Seq(Nat) /\ Len(Arr) \in Nat /\ Len(Arr) >= 1
           /\ \A a \in 1 .. Len(Arr) : Arr[a] \in Nat
           /\ \A a, b \in 1 .. Len(Arr) : a < b => Arr[b] >= Arr[a] + SymbolTime
           /\ StartTime \in Nat /\ EndTime \in Nat /\ StartTime <= EndTime
           /\ StartTime = EndTime <=> Len(Arr) = 1
<1>1. Arr \in Responses BY DEF TypeOK, Arr
<1>2. Arr \in Seq(Nat) /\ Resolved(Arr) BY <1>1, ResponsesAssumption
<1>3. Len(Arr) \in Nat /\ Len(Arr) >= 1 BY <1>2
<1>4. \A a \in 1 .. Len(Arr) : Arr[a] \in Nat BY <1>2
<1>5. \A a, b \in 1 .. Len(Arr) : a < b => Arr[b] >= Arr[a] + SymbolTime
  BY <1>2 DEF Resolved
<1>6. StartTime \in Nat /\ EndTime \in Nat BY <1>3, <1>4 DEF StartTime, EndTime
<1>7. Len(Arr) > 1 => EndTime >= StartTime + SymbolTime
  BY <1>3, <1>5 DEF StartTime, EndTime
<1>8. Len(Arr) = 1 => EndTime = StartTime BY DEF StartTime, EndTime
<1>9. StartTime <= EndTime /\ (StartTime = EndTime <=> Len(Arr) = 1)
  <2>1. CASE Len(Arr) = 1 BY <1>6, <1>8, <2>1
  <2>2. CASE Len(Arr) # 1
    <3>1. EndTime >= StartTime + SymbolTime BY <1>3, <1>7, <2>2
    <3>2. StartTime < EndTime BY <1>6, <3>1, SymbolTimeAssumption
    <3> QED BY <1>6, <2>2, <3>2
  <2> QED BY <2>1, <2>2
<1> QED BY <1>2, <1>3, <1>4, <1>5, <1>6, <1>9

\* The taps are one symbol time apart.
LEMMA GridFacts ==
    ASSUME StartTime \in Nat
    PROVE  /\ TapTime(0) = StartTime
           /\ \A c \in Nat : TapTime(c) \in Nat /\ TapTime(c + 1) = TapTime(c) + SymbolTime
           /\ \A c, d \in Nat : c < d => TapTime(c) + SymbolTime <= TapTime(d)
<1>1. TapTime(0) = StartTime BY SymbolTimeAssumption DEF TapTime
<1>2. ASSUME NEW c \in Nat
      PROVE  TapTime(c) \in Nat /\ TapTime(c + 1) = TapTime(c) + SymbolTime
  <2>1. c * SymbolTime \in Nat /\ (c + 1) * SymbolTime = c * SymbolTime + SymbolTime
    BY SymbolMultiple
  <2>2. TapTime(c) = StartTime + c * SymbolTime /\ TapTime(c + 1) = StartTime + (c + 1) * SymbolTime
    BY DEF TapTime
  <2> QED BY <2>1, <2>2, SymbolTimeAssumption
<1>3. ASSUME NEW c \in Nat, NEW d \in Nat, c < d
      PROVE  TapTime(c) + SymbolTime <= TapTime(d)
  <2>1. c * SymbolTime \in Nat /\ d * SymbolTime \in Nat BY SymbolMultiple
  <2>2. c * SymbolTime + SymbolTime <= d * SymbolTime BY <1>3, SymbolMultipleGrows
  <2> QED BY <2>1, <2>2, SymbolTimeAssumption DEF TapTime
<1> QED BY <1>1, <1>2, <1>3

\* The initial state satisfies the strengthening.
LEMMA InductiveInit == Init => IInv
<1> SUFFICES ASSUME Init PROVE IInv OBVIOUS
<1>1. TypeOK BY DEF Init, TypeOK
<1> QED BY <1>1 DEF Init, IInv, LocalsReset, Converting, Span, Grid, Consumed, NeverFatal,
                    PdpNeverEmpty, OnlyLastArrivalLost

\* The first passage into the loop, or past it when the response is empty.
LEMMA StartResponseStep ==
    ASSUME IInv, StartResponse, TypeOK'
    PROVE  IInv'
<1> USE DEF IInv
<1>1. /\ Arr' = Arr /\ batch' = batch /\ retVal' = retVal
      /\ cnt' = 0 /\ it' = 1 /\ vectTap' = <<>> /\ nTaps = 0
      /\ Len(retVal) < Len(batch)
  BY DEF StartResponse, Arr, LocalsReset
<1>2. CASE Arr = <<>>
  <2>1. pc' = "exit" /\ nTaps' = 0 BY <1>1, <1>2 DEF StartResponse
  <2>2. LocalsReset' /\ ~Converting' BY <1>1, <1>2, <2>1 DEF LocalsReset, Converting
  <2> QED BY <1>1, <2>1, <2>2 DEF Span, Grid, Consumed, NeverFatal, PdpNeverEmpty,
                                  OnlyLastArrivalLost
<1>3. CASE Arr # <<>>
  <2>1. pc' = "loop" /\ nTaps' \in NumTaps BY <1>1, <1>3 DEF StartResponse
  <2>2. /\ Len(Arr) \in Nat /\ Len(Arr) >= 1
        /\ StartTime \in Nat /\ EndTime \in Nat /\ StartTime <= EndTime
    BY <1>1, <1>3, ResponseFacts
  <2>3. /\ nTaps' \in Nat /\ nTaps' >= 1
        /\ (nTaps' - 1) * SymbolTime <= EndTime - StartTime
        /\ EndTime - StartTime <= nTaps' * SymbolTime
    <3>1. CASE StartTime < EndTime BY <2>1, <2>2, <3>1 DEF NumTaps, CeilQuotient
    <3>2. CASE ~(StartTime < EndTime)
      BY <2>1, <2>2, <3>2, SymbolTimeAssumption DEF NumTaps
    <3> QED BY <3>1, <3>2
  <2>4. StartTime' = StartTime /\ EndTime' = EndTime BY <1>1 DEF StartTime, EndTime
  <2>5. Span' BY <1>1, <2>3, <2>4 DEF Span
  <2>6. TapTime(0)' = StartTime BY <1>1, <2>2, <2>4, SymbolTimeAssumption DEF TapTime
  <2>7. Arr[1] >= TapTime(0)' - (SymbolTime - Tolerance)
    BY <2>2, <2>6, ToleranceBounds, SymbolTimeAssumption, ToleranceAssumption DEF StartTime
  <2>8. Grid' BY <1>1, <2>1, <2>2, <2>7 DEF Grid
  <2>9. Consumed' BY <1>1 DEF Consumed
  <2>10. LocalsReset' BY <1>1, <1>3, <2>1 DEF LocalsReset
  <2> QED BY <1>1, <2>1, <2>5, <2>8, <2>9, <2>10 DEF NeverFatal, PdpNeverEmpty,
                                                     OnlyLastArrivalLost
<1> QED BY <1>2, <1>3

\* The facts every pass of the loop starts from.
LEMMA LoopFacts ==
    ASSUME IInv, InLoop
    PROVE  /\ Converting /\ Len(retVal) < Len(batch)
           /\ Arr \in Seq(Nat) /\ Len(Arr) \in Nat /\ it \in 1 .. Len(Arr)
           /\ cnt \in Nat /\ nTaps \in Nat /\ cnt < nTaps
           /\ \A a \in 1 .. Len(Arr) : Arr[a] \in Nat
           /\ \A a, b \in 1 .. Len(Arr) : a < b => Arr[b] >= Arr[a] + SymbolTime
           /\ StartTime \in Nat /\ EndTime \in Nat
           /\ TapTime(cnt) \in Nat /\ TapTime(cnt + 1) = TapTime(cnt) + SymbolTime
           /\ Arr[it] >= TapTime(cnt) - (SymbolTime - Tolerance)
<1> USE DEF IInv
<1>1. Arr # <<>> /\ Converting /\ Len(retVal) < Len(batch)
  BY DEF InLoop, LocalsReset, Converting, TypeOK
<1>2. /\ Arr \in Seq(Nat) /\ Len(Arr) \in Nat /\ StartTime \in Nat /\ EndTime \in Nat
      /\ \A a \in 1 .. Len(Arr) : Arr[a] \in Nat
      /\ \A a, b \in 1 .. Len(Arr) : a < b => Arr[b] >= Arr[a] + SymbolTime
  BY <1>1, ResponseFacts
<1>3. cnt \in Nat /\ nTaps \in Nat /\ cnt < nTaps /\ it \in 1 .. Len(Arr)
  BY <1>2 DEF InLoop, TypeOK
<1>4. TapTime(cnt) \in Nat /\ TapTime(cnt + 1) = TapTime(cnt) + SymbolTime
  BY <1>2, <1>3, GridFacts
<1>5. Arr[it] >= TapTime(cnt) - (SymbolTime - Tolerance) BY <1>1, <1>3 DEF Grid
<1> QED BY <1>1, <1>2, <1>3, <1>4, <1>5

\* A pass that takes an arrival: the next one is at least a symbol time later.
LEMMA SetTapStep ==
    ASSUME IInv, SetTap, TypeOK'
    PROVE  IInv'
<1> USE DEF IInv
<1>1. /\ InLoop /\ Matches(TapTime(cnt), Arr[it])
      /\ Arr' = Arr /\ batch' = batch /\ retVal' = retVal /\ nTaps' = nTaps /\ pc' = "loop"
      /\ cnt' = cnt + 1 /\ it' = it + 1
      /\ vectTap' = Append(vectTap, Tap(TapTime(cnt), it))
  BY DEF SetTap, InLoop, Arr
<1>2. /\ Converting
      /\ Len(Arr) \in Nat /\ it \in 1 .. Len(Arr)
      /\ cnt \in Nat /\ nTaps \in Nat /\ cnt < nTaps
      /\ \A a \in 1 .. Len(Arr) : Arr[a] \in Nat
      /\ \A a, b \in 1 .. Len(Arr) : a < b => Arr[b] >= Arr[a] + SymbolTime
      /\ TapTime(cnt) \in Nat /\ TapTime(cnt + 1) = TapTime(cnt) + SymbolTime
      /\ Arr[it] >= TapTime(cnt) - (SymbolTime - Tolerance)
  BY <1>1, LoopFacts
<1>3. /\ StartTime' = StartTime /\ EndTime' = EndTime
      /\ TapTime(cnt)' = TapTime(cnt + 1) /\ TapTime(cnt - 1)' = TapTime(cnt)
  BY <1>1, <1>2 DEF StartTime, EndTime, TapTime
<1>4. Span' BY <1>1, <1>2, <1>3 DEF Span
<1>5. Grid'
  <2>1. it' <= Len(Arr) => Arr[it'] >= TapTime(cnt + 1) - (SymbolTime - Tolerance)
    BY <1>1, <1>2, SymbolTimeAssumption, ToleranceAssumption
  <2>2. it' > Len(Arr) => EndTime <= TapTime(cnt) + Tolerance
    BY <1>1, <1>2, ToleranceAssumption DEF Matches, EndTime
  <2>3. it' <= Len(Arr) + 1 /\ cnt' >= 1 BY <1>1, <1>2
  <2> QED BY <1>1, <1>3, <2>1, <2>2, <2>3 DEF Grid
<1>6. Consumed'
  <2>1. vectTap \in Seq([delay : Nat, from : Nat]) BY DEF TypeOK
  <2>2. \A a \in 1 .. it - 1 : \E t \in DOMAIN vectTap : vectTap[t].from = a
    BY <1>2 DEF Consumed
  <2>3. /\ \A t \in DOMAIN vectTap : t \in DOMAIN vectTap' /\ vectTap'[t] = vectTap[t]
        /\ Len(vectTap) + 1 \in DOMAIN vectTap'
        /\ vectTap'[Len(vectTap) + 1] = Tap(TapTime(cnt), it)
    BY <1>1, <2>1
  <2>4. vectTap'[Len(vectTap) + 1].from = it BY <2>3 DEF Tap
  <2>5. \A a \in 1 .. it : \E t \in DOMAIN vectTap' : vectTap'[t].from = a
    BY <1>2, <2>2, <2>3, <2>4
  <2>6. it' - 1 = it BY <1>1, <1>2
  <2> QED BY <2>5, <2>6 DEF Consumed
<1>7. LocalsReset' BY <1>1, <1>2 DEF LocalsReset, Converting
<1> QED BY <1>1, <1>4, <1>5, <1>6, <1>7 DEF NeverFatal, PdpNeverEmpty, OnlyLastArrivalLost

\* A pass that takes none: the arrival is after the tap, never before it,
\* because symbolTime - tolerance is less than the tolerance.
LEMMA SkipTapStep ==
    ASSUME IInv, SkipTap, TypeOK'
    PROVE  IInv'
<1> USE DEF IInv
<1>1. InLoop /\ Differs(TapTime(cnt), Arr[it]) BY DEF SkipTap
<1>2. /\ Converting
      /\ Len(Arr) \in Nat /\ it \in 1 .. Len(Arr)
      /\ cnt \in Nat /\ nTaps \in Nat /\ cnt < nTaps
      /\ \A a \in 1 .. Len(Arr) : Arr[a] \in Nat
      /\ TapTime(cnt) \in Nat /\ TapTime(cnt + 1) = TapTime(cnt) + SymbolTime
      /\ Arr[it] >= TapTime(cnt) - (SymbolTime - Tolerance)
  BY <1>1, LoopFacts
<1>3. Arr[it] >= TapTime(cnt) + Tolerance
  BY <1>1, <1>2, ToleranceBounds, SymbolTimeAssumption, ToleranceAssumption DEF Differs
<1>4. ~(TapTime(cnt) > Arr[it])
  BY <1>2, <1>3, ToleranceBounds, SymbolTimeAssumption, ToleranceAssumption
<1>5. /\ Arr' = Arr /\ batch' = batch /\ retVal' = retVal /\ nTaps' = nTaps /\ pc' = "loop"
      /\ cnt' = cnt + 1 /\ it' = it
      /\ vectTap' = Append(vectTap, Tap(TapTime(cnt), 0))
  BY <1>4 DEF SkipTap, InLoop, Arr
<1>6. StartTime' = StartTime /\ EndTime' = EndTime /\ TapTime(cnt)' = TapTime(cnt + 1)
  BY <1>2, <1>5 DEF StartTime, EndTime, TapTime
<1>7. Span' BY <1>2, <1>5, <1>6 DEF Span
<1>8. Grid'
  <2>1. Arr[it] >= TapTime(cnt + 1) - (SymbolTime - Tolerance)
    BY <1>2, <1>3, SymbolTimeAssumption, ToleranceAssumption
  <2> QED BY <1>2, <1>5, <1>6, <2>1 DEF Grid
<1>9. Consumed'
  <2>1. vectTap \in Seq([delay : Nat, from : Nat]) BY DEF TypeOK
  <2>2. \A t \in DOMAIN vectTap : t \in DOMAIN vectTap' /\ vectTap'[t] = vectTap[t]
    BY <1>5, <2>1
  <2> QED BY <1>2, <1>5, <2>2 DEF Consumed
<1>10. LocalsReset' BY <1>2, <1>5 DEF LocalsReset, Converting
<1> QED BY <1>5, <1>7, <1>8, <1>9, <1>10 DEF NeverFatal, PdpNeverEmpty, OnlyLastArrivalLost

\* At the end of the loop: the taps are complete, and at most one arrival is
\* left, because a second one would lie beyond the span.
LEMMA ExitFacts ==
    ASSUME IInv, pc = "exit"
    PROVE  /\ cnt = nTaps
           /\ \A a \in 1 .. Len(Arr) - 1 : \E t \in DOMAIN vectTap : vectTap[t].from = a
<1> USE DEF IInv
<1>1. CASE Arr = <<>> BY <1>1 DEF LocalsReset
<1>2. CASE Arr # <<>>
  <2>1. Converting /\ Len(retVal) < Len(batch) BY <1>2 DEF Converting, TypeOK
  <2>2. /\ Len(Arr) \in Nat /\ Len(Arr) >= 1
        /\ \A a \in 1 .. Len(Arr) : Arr[a] \in Nat
        /\ \A a, b \in 1 .. Len(Arr) : a < b => Arr[b] >= Arr[a] + SymbolTime
        /\ StartTime \in Nat /\ EndTime \in Nat
    BY <1>2, <2>1, ResponseFacts
  <2>3. cnt \in Nat /\ nTaps \in Nat /\ nTaps >= 1 /\ cnt <= nTaps /\ it \in Nat /\ it >= 1
    BY <2>1 DEF Span, TypeOK
  <2>4. /\ TapTime(nTaps - 1) <= EndTime /\ EndTime <= TapTime(nTaps)
        /\ TapTime(nTaps - 1) \in Nat /\ TapTime(nTaps) \in Nat
    <3>1. nTaps - 1 \in Nat BY <2>3
    <3>2. (nTaps - 1) * SymbolTime \in Nat /\ nTaps * SymbolTime \in Nat
      BY <2>3, <3>1, SymbolMultiple
    <3> QED BY <2>1, <2>2, <3>2 DEF Span, TapTime
  <2>5. cnt = nTaps
    <3>1. SUFFICES ASSUME cnt < nTaps PROVE FALSE BY <2>3
    <3>2. it > Len(Arr) BY <2>1, <2>3, <3>1 DEF Grid
    <3>3. cnt >= 1 /\ EndTime <= TapTime(cnt - 1) + Tolerance BY <2>1, <3>2 DEF Grid
    <3>4. cnt - 1 \in Nat /\ nTaps - 1 \in Nat /\ cnt - 1 < nTaps - 1 BY <2>3, <3>1, <3>3
    <3>5. /\ TapTime(cnt - 1) \in Nat
          /\ TapTime(cnt - 1) + SymbolTime <= TapTime(nTaps - 1)
      BY <2>2, <3>4, GridFacts
    <3> QED BY <2>2, <2>4, <3>3, <3>5, ToleranceBounds, SymbolTimeAssumption, ToleranceAssumption
  <2>6. it > Len(Arr) - 1
    <3>1. SUFFICES ASSUME it <= Len(Arr) - 1 PROVE FALSE BY <2>2, <2>3
    <3>2. it <= Len(Arr) BY <2>2, <2>3, <3>1
    <3>4. Arr[it] >= TapTime(cnt) - (SymbolTime - Tolerance) BY <2>1, <3>2 DEF Grid
    <3>3. EndTime >= Arr[it] + SymbolTime /\ Arr[it] \in Nat
      BY <2>2, <2>3, <3>1 DEF EndTime
    <3> QED BY <2>2, <2>4, <2>5, <3>3, <3>4, ToleranceBounds, SymbolTimeAssumption, ToleranceAssumption
  <2>7. \A a \in 1 .. it - 1 : \E t \in DOMAIN vectTap : vectTap[t].from = a
    BY <2>1 DEF Consumed
  <2> QED BY <2>2, <2>3, <2>5, <2>6, <2>7
<1> QED BY <1>1, <1>2

\* A finished PDP joins the result.
LEMMA PushPdpStep ==
    ASSUME IInv, PushPdp, TypeOK'
    PROVE  IInv'
<1> USE DEF IInv
<1>1. /\ pc = "exit" /\ pc' = "next" /\ batch' = batch
      /\ retVal' = Append(retVal, Padded(vectTap))
      /\ nTaps' = 0 /\ cnt' = 0 /\ it' = 1 /\ vectTap' = <<>>
  BY DEF PushPdp
<1>2. /\ retVal \in Seq(Seq([delay : Nat, from : Nat]))
      /\ vectTap \in Seq([delay : Nat, from : Nat])
      /\ Len(retVal) < Len(batch)
  BY <1>1 DEF TypeOK
<1>3. Len(retVal) \in Nat BY <1>2
<1>4. Padded(vectTap) # <<>> BY <1>2 DEF Padded
<1>5. /\ DOMAIN retVal' = 1 .. Len(retVal) + 1
      /\ \A r \in DOMAIN retVal : retVal'[r] = retVal[r]
      /\ retVal'[Len(retVal) + 1] = Padded(vectTap)
  BY <1>1, <1>2
<1>6. \A r \in DOMAIN retVal' : r \in DOMAIN retVal \/ r = Len(retVal) + 1
  BY <1>2, <1>3, <1>5
<1>7. PdpNeverEmpty' BY <1>4, <1>5, <1>6 DEF PdpNeverEmpty
<1>8. OnlyLastArrivalLost'
  <2>1. \A a \in 1 .. Len(Arr) - 1 : \E t \in DOMAIN vectTap : vectTap[t].from = a
    BY <1>1, ExitFacts
  <2>2. \A a \in 1 .. Len(Arr) - 1 :
           \E t \in DOMAIN Padded(vectTap) : Padded(vectTap)[t].from = a
    <3>1. CASE vectTap = <<>>
      <4>1. DOMAIN vectTap = {} BY <3>1
      <4> QED BY <2>1, <4>1
    <3>2. CASE vectTap # <<>>
      <4>1. Padded(vectTap) = vectTap BY <3>2 DEF Padded
      <4> QED BY <2>1, <4>1
    <3> QED BY <3>1, <3>2
  <2>3. ASSUME NEW r \in DOMAIN retVal'
        PROVE  \A a \in 1 .. Len(batch[r]) - 1 :
                  \E t \in DOMAIN retVal'[r] : retVal'[r][t].from = a
    <3>1. CASE r \in DOMAIN retVal BY <1>5, <3>1 DEF OnlyLastArrivalLost
    <3>2. CASE r = Len(retVal) + 1 BY <1>5, <2>2, <3>2 DEF Arr
    <3> QED BY <1>6, <3>1, <3>2
  <2> QED BY <1>1, <2>3 DEF OnlyLastArrivalLost
<1>9. LocalsReset' /\ ~Converting' BY <1>1 DEF LocalsReset, Converting
<1> QED BY <1>1, <1>7, <1>8, <1>9 DEF Span, Grid, Consumed, NeverFatal

\* Every step keeps the strengthening.
LEMMA InductiveStep == IInv /\ [Next]_vars => IInv'
<1> SUFFICES ASSUME IInv, [Next]_vars PROVE IInv' OBVIOUS
<1>0. TypeOK' BY TypeStep DEF IInv
<1> USE DEF IInv
<1>1. ASSUME NEW n \in 0 .. MaxBatch, NEW responses \in [1 .. n -> Responses],
             GetWossTimeArr(responses)
      PROVE  IInv'
  <2>1. pc' = "next" /\ retVal' = <<>> /\ UNCHANGED <<nTaps, cnt, it, vectTap>> /\ pc = "idle"
    BY <1>1 DEF GetWossTimeArr
  <2>2. LocalsReset' /\ ~Converting' BY <2>1 DEF LocalsReset, Converting
  <2> QED BY <1>0, <2>1, <2>2 DEF Span, Grid, Consumed, NeverFatal, PdpNeverEmpty,
                                  OnlyLastArrivalLost
<1>2. CASE StartResponse BY <1>0, <1>2, StartResponseStep
<1>3. CASE SetTap BY <1>0, <1>3, SetTapStep
<1>4. CASE SkipTap BY <1>0, <1>4, SkipTapStep
<1>5. CASE LoopExit
  <2>1. /\ pc = "loop" /\ ~InLoop /\ pc' = "exit"
        /\ UNCHANGED <<batch, retVal, nTaps, cnt, it, vectTap>>
    BY <1>5 DEF LoopExit
  <2>2. Arr # <<>> /\ Converting /\ Len(retVal) < Len(batch) BY <2>1 DEF LocalsReset, Converting, TypeOK
  <2>3. Arr' = Arr BY <2>1 DEF Arr
  <2>4. LocalsReset' BY <2>1, <2>2, <2>3 DEF LocalsReset
  <2>5. Span' BY <2>1, <2>2, <2>3 DEF Span, StartTime, EndTime
  <2>6. Len(Arr) \in Nat BY <2>2, ResponseFacts
  <2>7. Grid'
    <3>1. cnt = nTaps \/ it > Len(Arr) BY <2>1, <2>2, <2>6 DEF InLoop, Span, TypeOK
    <3>2. \A c : TapTime(c)' = TapTime(c) BY <2>3 DEF TapTime, StartTime
    <3> QED BY <2>1, <2>2, <2>3, <3>1, <3>2 DEF Grid, EndTime, TapTime, StartTime
  <2>8. Consumed' BY <2>1, <2>2, <2>3 DEF Consumed
  <2> QED BY <1>0, <2>1, <2>4, <2>5, <2>7, <2>8 DEF NeverFatal, PdpNeverEmpty,
                                                    OnlyLastArrivalLost
<1>6. CASE PushPdp BY <1>0, <1>6, PushPdpStep
<1>7. CASE ReturnPdps
  <2>1. pc = "next" /\ pc' = "idle" /\ retVal' = <<>> /\ UNCHANGED <<nTaps, cnt, it, vectTap>>
    BY <1>7 DEF ReturnPdps
  <2>2. LocalsReset' /\ ~Converting' BY <2>1 DEF LocalsReset, Converting
  <2> QED BY <1>0, <2>1, <2>2 DEF Span, Grid, Consumed, NeverFatal, PdpNeverEmpty,
                                  OnlyLastArrivalLost
<1>8. CASE UNCHANGED vars
  BY <1>0, <1>8 DEF vars, LocalsReset, Converting, Span, Grid, Consumed, NeverFatal, PdpNeverEmpty,
                    OnlyLastArrivalLost, Arr, StartTime, EndTime, TapTime
<1> QED BY <1>1, <1>2, <1>3, <1>4, <1>5, <1>6, <1>7, <1>8 DEF Next

\* The strengthening is an invariant.
THEOREM InductiveInvariant == Spec => []IInv
<1> QED BY InductiveInit, InductiveStep, PTL DEF Spec

\* NS_FATAL_ERROR of CreateUanPdp is unreachable, for every symbol time and
\* every response of arrivals at least a symbol time apart.
THEOREM NeverFatalHolds == Spec => []NeverFatal
<1>1. IInv => NeverFatal BY DEF IInv
<1> QED BY <1>1, InductiveInvariant, PTL

\* The NS_ASSERT (cnt == n_taps) of CreateUanPdp holds.
THEOREM TapCountHolds == Spec => []TapCountAsserted
<1>1. IInv => TapCountAsserted BY ExitFacts DEF TapCountAsserted
<1> QED BY <1>1, InductiveInvariant, PTL

\* Whatever the response, only its last arrival can be missing in the PDP.
THEOREM OnlyLastArrivalLostHolds == Spec => []OnlyLastArrivalLost
<1>1. IInv => OnlyLastArrivalLost BY DEF IInv
<1> QED BY <1>1, InductiveInvariant, PTL

\* An element of a sequence over a set is in the set.
LEMMA ElementOfSeq ==
    ASSUME NEW S, NEW seq \in Seq(S), NEW t \in DOMAIN seq
    PROVE  seq[t] \in S
OBVIOUS

\* What a tap carries is an index.
LEMMA CarriedFrom ==
    ASSUME NEW pdp \in Seq([delay : Nat, from : Nat])
    PROVE  \A t \in Carried(pdp) : pdp[t].from \in Nat
<1>1. ASSUME NEW t \in DOMAIN pdp PROVE pdp[t].from \in Nat
  <2>1. pdp[t] \in [delay : Nat, from : Nat] BY ElementOfSeq
  <2> QED BY <2>1
<1> QED BY <1>1 DEF Carried

\* A tap put at the end of a PDP keeps the PDP a sampling when it carries
\* nothing, or a later arrival within the tolerance.
LEMMA AppendSamples ==
    ASSUME NEW pdp \in Seq([delay : Nat, from : Nat]), NEW response, NEW last \in Nat,
           NEW tap \in [delay : Nat, from : Nat],
           Samples(pdp, response),
           \A t \in Carried(pdp) : pdp[t].from < last,
           tap.from # 0 => /\ tap.from = last /\ last \in DOMAIN response
                           /\ Matches(tap.delay, response[last])
    PROVE  /\ Samples(Append(pdp, tap), response)
           /\ \A t \in Carried(Append(pdp, tap)) :
                 \/ Append(pdp, tap)[t].from < last
                 \/ Append(pdp, tap)[t].from = last /\ tap.from = last
<1> DEFINE longer == Append(pdp, tap)
<1>1. Len(pdp) \in Nat /\ DOMAIN pdp = 1 .. Len(pdp) /\ DOMAIN longer = 1 .. Len(pdp) + 1
  OBVIOUS
<1>2. (\A t \in 1 .. Len(pdp) : longer[t] = pdp[t]) /\ longer[Len(pdp) + 1] = tap OBVIOUS
<1> HIDE DEF longer
<1>3. ASSUME NEW t \in Carried(longer)
      PROVE  \/ t \in Carried(pdp) /\ longer[t] = pdp[t] /\ t \in 1 .. Len(pdp)
             \/ t = Len(pdp) + 1 /\ longer[t] = tap /\ tap.from # 0
  BY <1>1, <1>2 DEF Carried
<1>4. ASSUME NEW t \in Carried(longer)
      PROVE  /\ longer[t].from \in DOMAIN response
             /\ Matches(longer[t].delay, response[longer[t].from])
             /\ \/ longer[t].from < last
                \/ longer[t].from = last /\ tap.from = last
  <2>1. CASE t \in Carried(pdp) /\ longer[t] = pdp[t]
    <3>1. pdp[t].from \in DOMAIN response /\ Matches(pdp[t].delay, response[pdp[t].from])
      BY <2>1 DEF Samples
    <3>2. pdp[t].from \in Nat /\ pdp[t].from < last BY <2>1, CarriedFrom
    <3>3. longer[t].from = pdp[t].from /\ longer[t].delay = pdp[t].delay BY <2>1
    <3>4. longer[t].from \in DOMAIN response BY <3>1, <3>3
    <3>5. Matches(longer[t].delay, response[longer[t].from]) BY <3>1, <3>3
    <3>6. longer[t].from < last BY <3>2, <3>3
    <3> QED BY <3>4, <3>5, <3>6
  <2>2. CASE longer[t] = tap /\ tap.from # 0 BY <2>2
  <2> QED BY <1>3, <2>1, <2>2
<1>5. ASSUME NEW t \in Carried(longer), NEW u \in Carried(longer), t < u
      PROVE  longer[t].from < longer[u].from
  <2>1. t \in Carried(pdp) /\ longer[t] = pdp[t] BY <1>1, <1>3, <1>5
  <2>2. CASE u \in Carried(pdp) /\ longer[u] = pdp[u] BY <1>5, <2>1, <2>2 DEF Samples
  <2>3. CASE longer[u] = tap /\ tap.from # 0 BY <2>1, <2>3
  <2> QED BY <1>3, <2>2, <2>3
<1> QED BY <1>4, <1>5 DEF Samples, longer

\* Every step keeps the taps of the PDP under construction, and of those
\* returned, a sampling.
LEMMA SamplingStep ==
    ASSUME IInv, SamplingSoFar, PdpTracksResponse, IInv', [Next]_vars
    PROVE  SamplingSoFar' /\ PdpTracksResponse'
<1> USE DEF IInv
<1>1. ASSUME NEW n \in 0 .. MaxBatch, NEW responses \in [1 .. n -> Responses],
             GetWossTimeArr(responses)
      PROVE  SamplingSoFar' /\ PdpTracksResponse'
  <2>1. pc' = "next" /\ retVal' = <<>> BY <1>1 DEF GetWossTimeArr
  <2> QED BY <2>1 DEF SamplingSoFar, Converting, PdpTracksResponse
<1>2. CASE StartResponse
  <2>1. vectTap' = <<>> /\ batch' = batch /\ retVal' = retVal
    BY <1>2 DEF StartResponse, LocalsReset
  <2>2. Carried(vectTap)' = {} BY <2>1 DEF Carried
  <2> QED BY <2>1, <2>2 DEF SamplingSoFar, Samples, PdpTracksResponse
<1>3. CASE SetTap
  <2>1. /\ InLoop /\ Matches(TapTime(cnt), Arr[it]) /\ batch' = batch /\ retVal' = retVal
        /\ Arr' = Arr /\ it' = it + 1 /\ vectTap' = Append(vectTap, Tap(TapTime(cnt), it))
    BY <1>3 DEF SetTap, Arr
  <2>2. /\ Converting /\ it \in DOMAIN Arr /\ it \in Nat
        /\ Tap(TapTime(cnt), it) \in [delay : Nat, from : Nat]
    BY <2>1, LoopFacts DEF Tap
  <2>3. vectTap \in Seq([delay : Nat, from : Nat]) BY DEF TypeOK
  <2>4. Tap(TapTime(cnt), it).from = it /\ Tap(TapTime(cnt), it).delay = TapTime(cnt) BY DEF Tap
  <2>5. /\ Samples(vectTap', Arr)
        /\ \A t \in Carried(vectTap') : vectTap'[t].from < it \/ vectTap'[t].from = it
    BY <2>1, <2>2, <2>3, <2>4, AppendSamples DEF SamplingSoFar
  <2>6. \A t \in Carried(vectTap') : vectTap'[t].from < it + 1
    <3>1. vectTap' \in Seq([delay : Nat, from : Nat]) BY DEF TypeOK
    <3>2. \A t \in Carried(vectTap') : vectTap'[t].from \in Nat BY <3>1, CarriedFrom
    <3> QED BY <2>2, <2>5, <3>2
  <2> QED BY <2>1, <2>5, <2>6 DEF SamplingSoFar, PdpTracksResponse, Carried, Samples
<1>4. CASE SkipTap
  <2>1. InLoop /\ batch' = batch /\ retVal' = retVal /\ Arr' = Arr /\ it' = it
    BY <1>4 DEF SkipTap, Arr
  <2>2. Converting /\ TapTime(cnt) \in Nat BY <2>1, LoopFacts
  <2>3. vectTap' = Append(vectTap, Tap(TapTime(cnt), 0)) BY <1>4 DEF SkipTap, NeverFatal
  <2>4. vectTap \in Seq([delay : Nat, from : Nat]) BY DEF TypeOK
  <2>5. Tap(TapTime(cnt), 0) \in [delay : Nat, from : Nat] /\ Tap(TapTime(cnt), 0).from = 0
    BY <2>2 DEF Tap
  <2>6. it \in Nat /\ it # 0 BY DEF TypeOK
  <2>7. Samples(vectTap', Arr) /\ \A t \in Carried(vectTap') : vectTap'[t].from < it
    BY <2>2, <2>3, <2>4, <2>5, <2>6, AppendSamples DEF SamplingSoFar
  <2> QED BY <2>1, <2>7 DEF SamplingSoFar, PdpTracksResponse, Carried, Samples
<1>5. CASE LoopExit
  <2>1. pc = "loop" /\ UNCHANGED <<batch, retVal, it, vectTap>> BY <1>5 DEF LoopExit
  <2>2. Arr' = Arr BY <2>1 DEF Arr
  <2>3. Converting' => Converting BY <2>1, <2>2 DEF Converting
  <2> QED BY <2>1, <2>2, <2>3 DEF SamplingSoFar, PdpTracksResponse
<1>6. CASE PushPdp
  <2>1. /\ pc = "exit" /\ pc' = "next" /\ batch' = batch
        /\ retVal' = Append(retVal, Padded(vectTap))
    BY <1>6 DEF PushPdp
  <2>2. Samples(Padded(vectTap), Arr)
    <3>1. CASE vectTap = <<>>
      <4>1. Padded(vectTap) = <<Tap(0, 0)>> BY <3>1 DEF Padded
      <4>2. Carried(Padded(vectTap)) = {} BY <4>1 DEF Carried, Tap
      <4> QED BY <4>2 DEF Samples
    <3>2. CASE vectTap # <<>>
      <4>1. Padded(vectTap) = vectTap /\ Converting
        BY <2>1, <3>2 DEF Padded, LocalsReset, Converting
      <4> QED BY <4>1 DEF SamplingSoFar
    <3> QED BY <3>1, <3>2
  <2>3. retVal \in Seq(Seq([delay : Nat, from : Nat])) BY DEF TypeOK
  <2>4. \A r \in DOMAIN retVal' :
           \/ r \in DOMAIN retVal /\ retVal'[r] = retVal[r]
           \/ r = Len(retVal) + 1 /\ retVal'[r] = Padded(vectTap)
    BY <2>1, <2>3
  <2> QED BY <2>1, <2>2, <2>4 DEF SamplingSoFar, Converting, PdpTracksResponse, Arr
<1>7. CASE ReturnPdps
  <2>1. pc' = "idle" /\ retVal' = <<>> BY <1>7 DEF ReturnPdps
  <2> QED BY <2>1 DEF SamplingSoFar, Converting, PdpTracksResponse
<1>8. CASE UNCHANGED vars
  BY <1>8 DEF vars, SamplingSoFar, PdpTracksResponse, Converting, Arr
<1> QED BY <1>1, <1>2, <1>3, <1>4, <1>5, <1>6, <1>7, <1>8 DEF Next

\* Every PDP is a faithful sampling of the response it was made from.
THEOREM PdpTracksResponseHolds == Spec => []PdpTracksResponse
<1>1. Init => SamplingSoFar /\ PdpTracksResponse
  BY DEF Init, SamplingSoFar, Converting, PdpTracksResponse
<1>2. IInv /\ IInv' /\ SamplingSoFar /\ PdpTracksResponse /\ [Next]_vars
      => SamplingSoFar' /\ PdpTracksResponse'
  BY SamplingStep
<1> QED BY <1>1, <1>2, InductiveInvariant, PTL DEF Spec

-----------------------------------------------------------------------------
\* One more tap in its place.
LEMMA AppendLaid ==
    ASSUME IInv, LaidSoFar, InLoop, NEW from \in Nat,
           vectTap' = Append(vectTap, Tap(TapTime(cnt), from)), cnt' = cnt + 1, Arr' = Arr
    PROVE  LaidSoFar'
<1>1. /\ Converting /\ cnt \in Nat /\ TapTime(cnt) \in Nat BY LoopFacts
<1>2. vectTap \in Seq([delay : Nat, from : Nat]) /\ Tap(TapTime(cnt), from) \in [delay : Nat, from : Nat]
  BY <1>1 DEF IInv, TypeOK, Tap
<1>3. Len(vectTap) = cnt /\ \A t \in 1 .. cnt : vectTap[t].delay = TapTime(t - 1)
  BY <1>1 DEF LaidSoFar
<1>4. /\ Len(vectTap') = cnt + 1 /\ \A t \in 1 .. cnt : vectTap'[t] = vectTap[t]
      /\ vectTap'[cnt + 1] = Tap(TapTime(cnt), from)
  BY <1>2, <1>3
<1>5. ASSUME NEW t \in 1 .. cnt + 1 PROVE vectTap'[t].delay = TapTime(t - 1)
  <2>1. CASE t \in 1 .. cnt BY <1>3, <1>4, <2>1
  <2>2. CASE t = cnt + 1
    <3>1. t - 1 = cnt BY <1>1, <2>2
    <3>2. vectTap'[cnt + 1].delay = TapTime(cnt) BY <1>4 DEF Tap
    <3>3. TapTime(t - 1) = TapTime(cnt) BY <3>1 DEF TapTime
    <3> QED BY <2>2, <3>2, <3>3
  <2>3. cnt \in Nat BY <1>1
  <2>4. t \in 1 .. cnt \/ t = cnt + 1 BY <2>3
  <2> QED BY <2>1, <2>2, <2>4
<1>6. \A t \in 1 .. cnt + 1 : TapTime(t - 1)' = TapTime(t - 1) BY DEF TapTime, StartTime
<1> QED BY <1>4, <1>5, <1>6 DEF LaidSoFar

\* When the loop has ended all taps are laid, from the first arrival to within
\* a symbol time of the last.
LEMMA LaidSpans ==
    ASSUME IInv, LaidSoFar, pc = "exit", Arr # <<>>
    PROVE  vectTap # <<>> /\ Spans(vectTap, Arr)
<1>1. Converting /\ Len(retVal) < Len(batch) /\ TypeOK BY DEF Converting, IInv, TypeOK
<1>2. StartTime \in Nat /\ EndTime \in Nat BY <1>1, ResponseFacts
<1>3. cnt = nTaps /\ nTaps \in Nat BY <1>1, ExitFacts DEF TypeOK
<1>4. /\ nTaps >= 1 /\ (nTaps - 1) * SymbolTime <= EndTime - StartTime
      /\ EndTime - StartTime <= nTaps * SymbolTime
  BY <1>1 DEF IInv, Span
<1>5. Len(vectTap) = nTaps /\ \A t \in 1 .. nTaps : vectTap[t].delay = TapTime(t - 1)
  BY <1>1, <1>3 DEF LaidSoFar
<1>6. vectTap \in Seq([delay : Nat, from : Nat]) BY <1>1 DEF TypeOK
<1>7. DOMAIN vectTap = 1 .. nTaps /\ vectTap # <<>> BY <1>3, <1>4, <1>5, <1>6
<1>8. /\ TapTime(0) = StartTime /\ \A c \in Nat : TapTime(c) \in Nat
      /\ \A c, d \in Nat : c < d => TapTime(c) + SymbolTime <= TapTime(d)
  BY <1>2, GridFacts
<1>9. nTaps - 1 \in Nat /\ nTaps * SymbolTime = (nTaps - 1) * SymbolTime + SymbolTime
      /\ (nTaps - 1) * SymbolTime \in Nat
  <2>1. nTaps - 1 \in Nat /\ (nTaps - 1) + 1 = nTaps BY <1>3, <1>4
  <2> QED BY <2>1, SymbolMultiple
<1>10. TapTime(nTaps - 1) <= EndTime /\ EndTime - SymbolTime <= TapTime(nTaps - 1)
  BY <1>2, <1>4, <1>9, SymbolTimeAssumption DEF TapTime
<1>11. vectTap[1].delay = StartTime
  <2>1. 1 \in 1 .. nTaps /\ 1 - 1 = 0 BY <1>3, <1>4
  <2> QED BY <1>5, <1>8, <2>1
<1>12. ASSUME NEW t \in 1 .. nTaps PROVE StartTime <= vectTap[t].delay /\ vectTap[t].delay <= EndTime
  <2>1. t - 1 \in Nat /\ (t - 1 = 0 \/ 0 < t - 1) /\ (t - 1 = nTaps - 1 \/ t - 1 < nTaps - 1) BY <1>3
  <2>2. TapTime(0) \in Nat /\ TapTime(t - 1) \in Nat /\ TapTime(nTaps - 1) \in Nat BY <1>8, <1>9, <2>1
  <2>3. TapTime(0) <= TapTime(t - 1)
    <3>1. CASE t - 1 = 0 BY <2>2, <3>1
    <3>2. CASE 0 < t - 1
      <4>1. TapTime(0) + SymbolTime <= TapTime(t - 1) BY <1>8, <2>1, <3>2
      <4> QED BY <2>2, <4>1, SymbolTimeAssumption
    <3> QED BY <2>1, <3>1, <3>2
  <2>4. TapTime(t - 1) <= TapTime(nTaps - 1)
    <3>1. CASE t - 1 = nTaps - 1 BY <2>2, <3>1
    <3>2. CASE t - 1 < nTaps - 1
      <4>1. TapTime(t - 1) + SymbolTime <= TapTime(nTaps - 1) BY <1>8, <1>9, <2>1, <3>2
      <4> QED BY <2>2, <4>1, SymbolTimeAssumption
    <3> QED BY <2>1, <3>1, <3>2
  <2>5. TapTime(t - 1) <= EndTime BY <1>2, <1>10, <2>2, <2>4
  <2>6. vectTap[t].delay = TapTime(t - 1) BY <1>5
  <2> QED BY <1>8, <2>3, <2>5, <2>6
<1>13. EndTime - SymbolTime <= vectTap[Len(vectTap)].delay
  <2>1. nTaps \in 1 .. nTaps BY <1>3, <1>4
  <2> QED BY <1>5, <1>10, <2>1
<1> QED BY <1>7, <1>11, <1>12, <1>13 DEF Spans, StartTime, EndTime

LEMMA SpanningStep ==
    ASSUME IInv, LaidSoFar, PdpSpansResponse, IInv', [Next]_vars
    PROVE  LaidSoFar' /\ PdpSpansResponse'
<1>1. ASSUME NEW n \in 0 .. MaxBatch, NEW responses \in [1 .. n -> Responses],
             GetWossTimeArr(responses)
      PROVE  LaidSoFar' /\ PdpSpansResponse'
  <2>1. pc' = "next" /\ retVal' = <<>> BY <1>1 DEF GetWossTimeArr
  <2> QED BY <2>1 DEF LaidSoFar, Converting, PdpSpansResponse
<1>2. CASE StartResponse
  <2>1. vectTap' = <<>> /\ cnt' = 0 /\ batch' = batch /\ retVal' = retVal
    BY <1>2 DEF StartResponse, IInv, LocalsReset
  <2>2. Len(vectTap') = cnt' /\ \A t \in 1 .. cnt' : FALSE BY <2>1
  <2> QED BY <2>1, <2>2 DEF LaidSoFar, PdpSpansResponse
<1>3. CASE SetTap
  <2>1. /\ InLoop /\ batch' = batch /\ retVal' = retVal /\ Arr' = Arr /\ cnt' = cnt + 1
        /\ vectTap' = Append(vectTap, Tap(TapTime(cnt), it)) /\ it \in Nat
    BY <1>3 DEF SetTap, Arr, IInv, TypeOK
  <2> QED BY <2>1, AppendLaid DEF PdpSpansResponse
<1>4. CASE SkipTap
  <2>1. /\ InLoop /\ batch' = batch /\ retVal' = retVal /\ Arr' = Arr /\ cnt' = cnt + 1
        /\ vectTap' = Append(vectTap, Tap(TapTime(cnt), 0))
    BY <1>4 DEF SkipTap, Arr, IInv, NeverFatal
  <2> QED BY <2>1, AppendLaid DEF PdpSpansResponse
<1>5. CASE LoopExit
  <2>1. pc = "loop" /\ UNCHANGED <<batch, retVal, cnt, vectTap>> BY <1>5 DEF LoopExit
  <2>2. Arr' = Arr BY <2>1 DEF Arr
  <2>3. Converting' => Converting BY <2>1, <2>2 DEF Converting
  <2>4. \A t \in 1 .. cnt : TapTime(t - 1)' = TapTime(t - 1) BY <2>2 DEF TapTime, StartTime
  <2> QED BY <2>1, <2>3, <2>4 DEF LaidSoFar, PdpSpansResponse
<1>6. CASE PushPdp
  <2>1. /\ pc = "exit" /\ pc' = "next" /\ batch' = batch
        /\ retVal' = Append(retVal, Padded(vectTap))
    BY <1>6 DEF PushPdp
  <2>2. IF Arr = <<>> THEN Padded(vectTap) = <<Tap(0, 0)>> ELSE Spans(Padded(vectTap), Arr)
    <3>1. CASE Arr = <<>> BY <2>1, <3>1 DEF IInv, LocalsReset, Padded
    <3>2. CASE Arr # <<>> BY <2>1, <3>2, LaidSpans DEF Padded
    <3> QED BY <3>1, <3>2
  <2>3. retVal \in Seq(Seq([delay : Nat, from : Nat])) BY DEF IInv, TypeOK
  <2>4. \A r \in DOMAIN retVal' :
           \/ r \in DOMAIN retVal /\ retVal'[r] = retVal[r]
           \/ r = Len(retVal) + 1 /\ retVal'[r] = Padded(vectTap)
    BY <2>1, <2>3
  <2>5. ~Converting' BY <2>1 DEF Converting
  <2> QED BY <2>1, <2>2, <2>4, <2>5 DEF LaidSoFar, PdpSpansResponse, Arr
<1>7. CASE ReturnPdps
  <2>1. pc' = "idle" /\ retVal' = <<>> BY <1>7 DEF ReturnPdps
  <2> QED BY <2>1 DEF LaidSoFar, Converting, PdpSpansResponse
<1>8. CASE UNCHANGED vars
  BY <1>8 DEF vars, LaidSoFar, PdpSpansResponse, Converting, Arr, TapTime, StartTime
<1> QED BY <1>1, <1>2, <1>3, <1>4, <1>5, <1>6, <1>7, <1>8 DEF Next

\* Every PDP begins and ends with its response, for every span and rounding.
THEOREM PdpSpansResponseHolds == Spec => []PdpSpansResponse
<1>1. Init => LaidSoFar /\ PdpSpansResponse BY DEF Init, LaidSoFar, Converting, PdpSpansResponse
<1>2. IInv /\ IInv' /\ LaidSoFar /\ PdpSpansResponse /\ [Next]_vars
      => LaidSoFar' /\ PdpSpansResponse'
  BY SpanningStep
<1> QED BY <1>1, <1>2, InductiveInvariant, PTL DEF Spec

\* What WossChannel assumes of the responses it is given (PdpAssumption there),
\* as far as it is about taps and delays: a PDP has a tap, and if no arrival
\* WOSS returns is later than a bound, no tap is.
MeetsPdpAssumption(maxDelay) ==
    \A r \in DOMAIN retVal :
        /\ Len(retVal[r]) > 0
        /\ \A t \in DOMAIN retVal[r] : retVal[r][t].delay \in Nat /\ retVal[r][t].delay <= maxDelay

\* The conversion meets that assumption for every bound on the arrivals.
THEOREM PdpAssumptionHolds ==
    ASSUME NEW CONSTANT maxDelay \in Nat,
           \A s \in Responses : \A a \in DOMAIN s : s[a] <= maxDelay
    PROVE  Spec => []MeetsPdpAssumption(maxDelay)
<1>1. ASSUME IInv, PdpSpansResponse PROVE MeetsPdpAssumption(maxDelay)
  <2> USE DEF IInv
  <2> SUFFICES ASSUME NEW r \in DOMAIN retVal
               PROVE  /\ Len(retVal[r]) > 0
                      /\ \A t \in DOMAIN retVal[r] :
                            retVal[r][t].delay \in Nat /\ retVal[r][t].delay <= maxDelay
    BY DEF MeetsPdpAssumption
  <2>1. retVal[r] \in Seq([delay : Nat, from : Nat]) BY <1>1, ElementOfSeq DEF TypeOK
  <2>2. Len(retVal[r]) > 0 BY <1>1, <2>1 DEF PdpNeverEmpty
  <2>3. ASSUME NEW t \in DOMAIN retVal[r]
        PROVE  retVal[r][t].delay \in Nat /\ retVal[r][t].delay <= maxDelay
    <3>1. retVal[r][t] \in [delay : Nat, from : Nat] BY <2>1, ElementOfSeq
    <3>2. retVal[r][t].delay \in Nat BY <3>1
    <3>3. CASE batch[r] = <<>>
      <4>1. retVal[r] = <<Tap(0, 0)>> BY <1>1, <3>3 DEF PdpSpansResponse
      <4>2. retVal[r][t].delay = 0 BY <4>1 DEF Tap
      <4> QED BY <4>2
    <3>4. CASE batch[r] # <<>>
      <4>1. r \in DOMAIN batch
        <5>1. retVal \in Seq(Seq([delay : Nat, from : Nat])) /\ batch \in Seq(Responses)
              /\ Len(retVal) <= Len(batch)
          BY <1>1 DEF TypeOK
        <5> QED BY <5>1
      <4>2. batch[r] \in Responses BY <1>1, <4>1, ElementOfSeq DEF TypeOK
      <4>3. batch[r] \in Seq(Nat) BY <4>2, ResponsesAssumption
      <4>4. Len(batch[r]) \in DOMAIN batch[r] /\ batch[r][Len(batch[r])] \in Nat BY <3>4, <4>3
      <4>5. batch[r][Len(batch[r])] <= maxDelay BY <4>2, <4>4
      <4>6. retVal[r][t].delay <= batch[r][Len(batch[r])] BY <1>1, <3>4 DEF PdpSpansResponse, Spans
      <4> QED BY <3>2, <4>4, <4>5, <4>6
    <3> QED BY <3>2, <3>3, <3>4
  <2> QED BY <2>2, <2>3
<1>2. IInv /\ PdpSpansResponse => MeetsPdpAssumption(maxDelay) BY <1>1
<1> QED BY <1>2, InductiveInvariant, PdpSpansResponseHolds, PTL

=============================================================================
