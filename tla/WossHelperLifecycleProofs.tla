---------------------- MODULE WossHelperLifecycleProofs ----------------------
(***************************************************************************)
(* The life cycle for every set of propagation models and any number of    *)
(* attributes.  The prototype of the generator is what tells a helper that *)
(* may still be initialized from one that was: as long as it is owned,     *)
(* nothing has been connected, and it is moved once.                       *)
(***************************************************************************)
EXTENDS WossHelperLifecycle, TLAPS

\* Nothing has been set up while the prototype is owned.
Fresh ==
    generator = "owned" =>
        ~m_initialized /\ controller = None /\ given = {} /\ \A p \in PropModel : manager[p] = None

\* A helper in use that is not initialized and has lost its prototype was disposed of.
Lost == status = "running" /\ generator = "moved" /\ ~m_initialized => disposed

\* One of the models Initialize returned for is connected, and no other model is.
FirstConnected ==
    m_initialized \/ given # {} =>
        \E p \in given : \A q \in PropModel : manager[q] # None <=> q = p

IInv ==
    /\ TypeOK /\ Fresh /\ Lost /\ FirstConnected
    /\ OneManager /\ GeneratorUsedOnce /\ SimTimeChecked

-----------------------------------------------------------------------------
\* What the controller is given has its types.
LEMMA ResDbCreatorType ==
    ASSUME attributes \in Attributes
    PROVE  /\ ResDbCreator \in {None, "TimeArrBin", "TimeArrTxt", "PressureBin", "PressureTxt"}
              /\ WossManager \in {"ResDb", "ResDbMT"}
BY DEF ResDbCreator, WossManager, Attributes

\* A text that operator>> accepts holds valid times.
LEMMA AcceptedTimes ==
    ASSUME NEW text \in Text, ~Fails(text)
    PROVE  Times(text) = "valid"
BY DEF Text, Fails, Times

LEMMA WrittenText == Written \in Text
BY DEF Written, Text

\* The initial state.
LEMMA InductiveInit == Init => IInv
<1> SUFFICES ASSUME Init PROVE IInv OBVIOUS
<1> USE DEF Init
<1>1. attributes \in Attributes BY DEF Attributes, Database
<1>2. TypeOK
  <2>1. status \in {"running", "aborted", "crashed"} /\ settings \in 0 .. MaxSettings
        /\ generator \in {"owned", "moved"} /\ controller \in ControllerType \cup {None} /\ given \subseteq PropModel
    BY LifecycleAssumption
  <2>2. {simTimeObject, m_initialized, directory, disposed} \subseteq BOOLEAN OBVIOUS
  <2>3. manager \in [PropModel -> {None, "ResDb", "ResDbMT"}] OBVIOUS
  <2> QED BY <1>1, <2>1, <2>2, <2>3 DEF TypeOK
<1>3. Fresh /\ Lost /\ FirstConnected BY DEF Fresh, Lost, FirstConnected
<1>4. OneManager /\ GeneratorUsedOnce /\ SimTimeChecked
  BY LifecycleAssumption DEF OneManager, GeneratorUsedOnce, SimTimeChecked
<1> QED BY <1>2, <1>3, <1>4 DEF IInv

\* Steps that set attributes, or end the script, leave the helper as it is.
LEMMA HelperUntouched ==
    ASSUME IInv, UNCHANGED <<helper, build, given>>,
           status' = status \/ status' # "running",
           cause' = cause \/ cause' \in PropModel, status' \in {"running", "aborted", "crashed"},
           disposed' = disposed,
           attributes' \in Attributes, settings' \in 0 .. MaxSettings, simTimeObject' \in BOOLEAN,
           attributes'.simTime # "valid" => simTimeObject'
    PROVE  IInv'
<1> USE DEF helper
<1>1. TypeOK' BY DEF IInv, TypeOK
<1>2. Fresh' /\ Lost' /\ FirstConnected' BY DEF IInv, Fresh, Lost, FirstConnected
<1>3. OneManager' BY DEF IInv, OneManager
<1>4. GeneratorUsedOnce' BY LifecycleAssumption DEF IInv, GeneratorUsedOnce
<1>5. SimTimeChecked' BY DEF SimTimeChecked
<1> QED BY <1>1, <1>2, <1>3, <1>4, <1>5 DEF IInv

\* The first Initialize.
LEMMA InitializeFirstKeeps ==
    ASSUME IInv, NEW p \in PropModel, status = "running", InitializeFirst(p),
           UNCHANGED <<build, set, disposed>>
    PROVE  IInv'
<1>1. attributes \in Attributes BY DEF IInv, TypeOK
<1>2. CASE generator = "moved" /\ Crash("generator") /\ UNCHANGED <<helper, given>>
  <2>1. disposed BY <1>2 DEF InitializeFirst, IInv, Lost
  <2>2. TypeOK' BY <1>2 DEF IInv, TypeOK, Crash, helper, set
  <2>3. Fresh' /\ Lost' /\ FirstConnected'
    BY <1>2 DEF IInv, Fresh, Lost, FirstConnected, Crash, helper
  <2>4. OneManager' /\ GeneratorUsedOnce' /\ SimTimeChecked'
    BY <1>2, <2>1 DEF IInv, OneManager, GeneratorUsedOnce, SimTimeChecked, helper, set
  <2> QED BY <2>2, <2>3, <2>4 DEF IInv
<1>3. CASE generator = "owned" /\ Abort /\ UNCHANGED <<helper, given>>
  BY <1>1, <1>3, HelperUntouched DEF Abort, set, IInv, TypeOK, SimTimeChecked
<1>4. CASE /\ generator = "owned"
           /\ generator' = "moved"
           /\ directory' = (directory \/ DirectoryMade)
           /\ controller' = [dbs |-> attributes.dbs, resDb |-> ResDbCreator, manager |-> WossManager]
           /\ manager' = Connect(p)
           /\ UNCHANGED sspDbType
           /\ \/ m_initialized' = TRUE /\ given' = given \cup {p} /\ Runs
              \/ Abort /\ UNCHANGED <<m_initialized, given>>
  <2>1. /\ controller = None /\ given = {} /\ ~m_initialized
        /\ \A q \in PropModel : manager[q] = None
    BY <1>4 DEF IInv, Fresh
  <2>2. manager \in [PropModel -> {None, "ResDb", "ResDbMT"}] BY DEF IInv, TypeOK
  <2>3. WossManager \in {"ResDb", "ResDbMT"} /\ WossManager # None
    BY <1>1, ResDbCreatorType, LifecycleAssumption
  <2>4. /\ manager' \in [PropModel -> {None, "ResDb", "ResDbMT"}]
        /\ manager'[p] = WossManager
        /\ \A q \in PropModel : q # p => manager'[q] = None
    BY <1>4, <2>1, <2>2, <2>3 DEF Connect
  <2>5. controller' \in ControllerType /\ controller' # None /\ controller'.manager = WossManager
    <3>1. attributes.dbs \in SUBSET Database BY <1>1 DEF Attributes
    <3>2. controller' \in ControllerType BY <1>1, <1>4, <3>1, ResDbCreatorType DEF ControllerType
    <3> QED BY <1>4, <3>2, LifecycleAssumption
  <2>6. directory' \in BOOLEAN BY <1>4 DEF IInv, TypeOK, DirectoryMade
  <2>7. CASE m_initialized' = TRUE /\ given' = given \cup {p} /\ Runs
    <3>1. TypeOK' BY <1>4, <2>4, <2>5, <2>6, <2>7 DEF IInv, TypeOK, Runs, set
    <3>2. Fresh' /\ Lost' BY <1>4, <2>7 DEF Fresh, Lost
    <3>3. FirstConnected'
      <4>1. p \in given' /\ \A q \in PropModel : manager'[q] # None <=> q = p BY <2>3, <2>4, <2>7
      <4> QED BY <4>1 DEF FirstConnected
    <3>4. OneManager' BY <2>4, <2>5 DEF OneManager
    <3>5. GeneratorUsedOnce' BY <2>7 DEF IInv, GeneratorUsedOnce, Runs
    <3>6. SimTimeChecked' BY DEF IInv, SimTimeChecked, set
    <3> QED BY <3>1, <3>2, <3>3, <3>4, <3>5, <3>6 DEF IInv
  <2>8. CASE Abort /\ UNCHANGED <<m_initialized, given>>
    <3>1. TypeOK' BY <1>4, <2>4, <2>5, <2>6, <2>8 DEF IInv, TypeOK, Abort, set
    <3>2. Fresh' /\ Lost' BY <1>4, <2>8 DEF Fresh, Lost, Abort
    <3>3. FirstConnected' BY <2>1, <2>8 DEF FirstConnected
    <3>4. OneManager' BY <2>4, <2>5 DEF OneManager
    <3>5. GeneratorUsedOnce' BY <2>8 DEF IInv, GeneratorUsedOnce, Abort
    <3>6. SimTimeChecked' BY DEF IInv, SimTimeChecked, set
    <3> QED BY <3>1, <3>2, <3>3, <3>4, <3>5, <3>6 DEF IInv
  <2> QED BY <1>4, <2>7, <2>8
<1> QED BY <1>2, <1>3, <1>4 DEF InitializeFirst

\* A later Initialize only returns.
LEMMA InitializeAgainKeeps ==
    ASSUME IInv, NEW p \in PropModel, InitializeAgain(p), UNCHANGED <<build, set, disposed>>
    PROVE  IInv'
<1> USE DEF InitializeAgain, Runs, helper, set
<1>1. TypeOK' BY DEF IInv, TypeOK
<1>2. Fresh' /\ Lost' BY DEF IInv, Fresh, Lost
<1>3. FirstConnected' BY DEF IInv, FirstConnected
<1>4. OneManager' /\ GeneratorUsedOnce' /\ SimTimeChecked'
  BY DEF IInv, OneManager, GeneratorUsedOnce, SimTimeChecked
<1> QED BY <1>1, <1>2, <1>3, <1>4 DEF IInv

\* WossSimTime set from a text.
LEMMA SetSimTimeTextKeeps ==
    ASSUME IInv, NEW text \in Text, SetSimTimeText(text)
    PROVE  IInv'
<1>1. attributes \in Attributes /\ settings \in 0 .. MaxSettings /\ simTimeObject \in BOOLEAN
  BY DEF IInv, TypeOK
<1>2. settings' \in 0 .. MaxSettings BY <1>1, LifecycleAssumption DEF SetSimTimeText
<1>3. CASE ~Fails(text)
  <2>1. attributes' = [attributes EXCEPT !.simTime = "valid"] /\ simTimeObject' = FALSE /\ Runs
    BY <1>3, AcceptedTimes DEF SetSimTimeText
  <2>2. attributes' \in Attributes /\ attributes'.simTime = "valid" BY <1>1, <2>1 DEF Attributes
  <2> QED BY <1>2, <2>1, <2>2, HelperUntouched DEF SetSimTimeText, Runs, IInv, TypeOK
<1>4. CASE Fails(text)
  <2>1. (Abort \/ Runs) /\ UNCHANGED <<attributes, simTimeObject>> BY <1>4 DEF SetSimTimeText
  <2> QED BY <1>1, <1>2, <2>1, HelperUntouched DEF SetSimTimeText, Abort, Runs, IInv, TypeOK, SimTimeChecked
<1> QED BY <1>3, <1>4

\* The inductive step, one case per operation.
LEMMA InductiveStep == IInv /\ [Next]_vars => IInv'
<1> SUFFICES ASSUME IInv, [Next]_vars PROVE IInv' OBVIOUS
<1> USE DEF IInv, TypeOK, SimTimeChecked
<1>1. ASSUME NEW value \in Attributes, SetAttribute(value) PROVE IInv'
  <2>1. settings' \in 0 .. MaxSettings BY <1>1, LifecycleAssumption DEF SetAttribute
  <2>2. attributes'.simTime # "valid" => simTimeObject' BY <1>1 DEF SetAttribute
  <2> QED BY <1>1, <2>1, <2>2, HelperUntouched DEF SetAttribute
<1>2. ASSUME NEW text \in Text, SetSimTimeText(text) PROVE IInv' BY <1>2, SetSimTimeTextKeeps
<1>3. CASE RestoreSimTime BY <1>3, WrittenText, SetSimTimeTextKeeps DEF RestoreSimTime
<1>4. ASSUME NEW times \in {"valid", "invalid"}, SetSimTimeObject(times) PROVE IInv'
  <2>1. settings' \in 0 .. MaxSettings BY <1>4, LifecycleAssumption DEF SetSimTimeObject
  <2>2. attributes' \in Attributes BY <1>4 DEF SetSimTimeObject, Attributes
  <2> QED BY <1>4, <2>1, <2>2, HelperUntouched DEF SetSimTimeObject
<1>5. ASSUME NEW p \in PropModel, Initialize(p) PROVE IInv'
  BY <1>5, InitializeFirstKeeps, InitializeAgainKeeps DEF Initialize
<1>6. ASSUME NEW p \in PropModel, PropModelDoInitialize(p) PROVE IInv'
  BY <1>6, HelperUntouched DEF PropModelDoInitialize, Abort, set
<1>7. ASSUME NEW p \in PropModel, Query(p) PROVE IInv'
  BY <1>7, HelperUntouched DEF Query, Crash, set
<1>8. CASE CheckInitialized
  BY <1>8, HelperUntouched DEF CheckInitialized, Abort, set
<1>9. CASE DoDispose
  <2>1. TypeOK' BY <1>9 DEF DoDispose, set
  <2>2. Fresh' /\ Lost' /\ FirstConnected' BY <1>9 DEF DoDispose, Fresh, Lost, FirstConnected
  <2>3. OneManager' /\ GeneratorUsedOnce' /\ SimTimeChecked'
    BY <1>9 DEF DoDispose, OneManager, GeneratorUsedOnce, set
  <2> QED BY <2>1, <2>2, <2>3
<1>10. CASE UNCHANGED vars
  BY <1>10, HelperUntouched DEF vars, set
<1> QED BY <1>1, <1>2, <1>3, <1>4, <1>5, <1>6, <1>7, <1>8, <1>9, <1>10 DEF Next

\* The strengthening: what is untouched while the generator is owned, and what
\* has become of a helper that lost it.
THEOREM InductiveInvariant == Spec => []IInv
<1>1. Init => IInv BY InductiveInit
<1>2. IInv /\ [Next]_vars => IInv' BY InductiveStep
<1> QED BY <1>1, <1>2, PTL DEF Spec

\* The helper's state has its types.
THEOREM TypeCorrect == Spec => []TypeOK
<1>1. IInv => TypeOK BY DEF IInv
<1> QED BY <1>1, InductiveInvariant, PTL

\* Every connected model queries the manager of the controller, whatever
\* attributes change between calls of Initialize.
THEOREM OneManagerHolds == Spec => []OneManager
<1>1. IInv => OneManager BY DEF IInv
<1> QED BY <1>1, InductiveInvariant, PTL

\* Initialize uses the prototype after it was moved only in a disposed helper.
THEOREM GeneratorUsedOnceHolds == Spec => []GeneratorUsedOnce
<1>1. IInv => GeneratorUsedOnce BY DEF IInv
<1> QED BY <1>1, InductiveInvariant, PTL

\* Of any number of models, one that Initialize returned for is connected and no
\* other is, however often it was called.
THEOREM OneModelConnectedHolds == Spec => []OneModelConnected
<1>1. IInv => OneModelConnected BY DEF IInv, FirstConnected, OneModelConnected
<1> QED BY <1>1, InductiveInvariant, PTL

\* No text, however broken, leaves invalid simulation times in the attribute.
THEOREM SimTimeCheckedHolds == Spec => []SimTimeChecked
<1>1. IInv => SimTimeChecked BY DEF IInv
<1> QED BY <1>1, InductiveInvariant, PTL

=============================================================================
