------------------------- MODULE WossHelperLifecycle -------------------------
(***************************************************************************)
(* How a script brings a WossHelper and its propagation models up:         *)
(* attributes, WossHelper::Initialize, the DoInitialize of both classes,   *)
(* the operations that need an initialized helper or a connected model,    *)
(* and DoDispose.                                                          *)
(*                                                                         *)
(* What WOSS builds from its creators is external; its controller may      *)
(* refuse to initialize.  NS_ASSERT is code of a debug build only.         *)
(***************************************************************************)
EXTENDS Integers, FiniteSets

CONSTANTS
    PropModel,      \* WossPropModel objects of the script
    Builds,         \* "debug", "optimized"
    None,           \* no object
    MaxSettings     \* bound: attributes set

Database == {"bathymetry", "sediment", "ssp"}

\* The attributes Initialize reads, but for those it only passes on.
Attributes ==
    [dbs : SUBSET Database,         \* environment databases that have a path
     resDb : BOOLEAN,               \* results database: has a path and a name,
     useBinary : BOOLEAN,           \* format,
     useTimeArr : BOOLEAN,          \* and data
     useMultiThread : BOOLEAN,
     simTime : {"valid", "invalid", "garbage"},
     woaDbType : {0, 1}]

\* What a text says of two simulation times: how many of its twelve numbers can be
\* read, whether the characters between them are |, and whether the dates exist.
Text == [numbers : 0 .. 12, bars : BOOLEAN, startValid : BOOLEAN, endValid : BOOLEAN]

\* What the WOSS controller is given: databases, manager, results database.
ControllerType ==
    [dbs : SUBSET Database, manager : {"ResDb", "ResDbMT"},
     resDb : {None, "TimeArrBin", "TimeArrTxt", "PressureBin", "PressureTxt"}]

ASSUME LifecycleAssumption ==
    /\ Builds \subseteq {"debug", "optimized"} /\ MaxSettings \in Nat
    /\ None \notin PropModel /\ "generator" \notin PropModel
    /\ None \notin {"ResDb", "ResDbMT", "generator"} /\ None \notin ControllerType

VARIABLES
    build,          \* the build the script runs in
    status,         \* "running", "aborted" (assertion, NS_FATAL_ERROR) or "crashed"
    cause,          \* history: what a crash dereferenced
    attributes,
    settings,       \* attributes set so far
    simTimeObject,  \* history: the simulation time was last set from an object
    m_initialized,
    generator,      \* m_randomGenProto: "owned", or "moved" to the definition handler
    sspDbType,      \* the format m_sspDbCreator was made for
    controller,     \* what the WOSS controller was given
    manager,        \* m_wossManager of every propagation model
    directory,      \* the directory of the results database exists
    given,          \* history: the models Initialize returned for
    disposed        \* history: DoDispose has run

helper == <<m_initialized, generator, sspDbType, controller, manager, directory>>
set == <<attributes, settings, simTimeObject>>
vars == <<build, status, cause, set, helper, given, disposed>>

\* The constructor: the creator of the SSP database is made with the default format.
Init ==
    /\ build \in Builds
    /\ status = "running" /\ cause = None
    /\ attributes = [dbs |-> {}, resDb |-> FALSE, useBinary |-> TRUE, useTimeArr |-> TRUE,
                     useMultiThread |-> FALSE, simTime |-> "valid", woaDbType |-> 1]
    /\ settings = 0 /\ simTimeObject = FALSE
    /\ m_initialized = FALSE
    /\ generator = "owned"
    /\ sspDbType = 1
    /\ controller = None
    /\ manager = [p \in PropModel |-> None]
    /\ directory = FALSE
    /\ given = {} /\ disposed = FALSE

-----------------------------------------------------------------------------
Abort == status' = "aborted" /\ UNCHANGED cause
Crash(what) == status' = "crashed" /\ cause' = what
Runs == UNCHANGED <<status, cause>>

SetAttribute(value) ==
    /\ status = "running"
    /\ settings < MaxSettings
    /\ Cardinality({f \in DOMAIN value : value[f] # attributes[f]}) = 1
    /\ value.simTime = attributes.simTime
    /\ attributes' = value
    /\ settings' = settings + 1
    /\ UNCHANGED <<build, status, cause, simTimeObject, helper, given, disposed>>

\* Mutation: the dates are not looked at.
FailsByForm(text) == text.numbers < 12 \/ ~text.bars

\* operator>> sets failbit: a number cannot be read, a separator is another
\* character, or a date does not exist.
Fails(text) == text.numbers < 12 \/ ~text.bars \/ ~text.startValid \/ ~text.endValid

\* The times operator>> leaves behind, failed or not: behind a number that cannot
\* be read the variables are uninitialised.
Times(text) ==
    IF text.numbers < 12 THEN "garbage"
    ELSE IF text.startValid /\ text.endValid THEN "valid" ELSE "invalid"

\* WossSimTime set from a text: when operator>> fails, the attribute keeps its
\* value and the script ends (SetAttribute) or goes on (SetAttributeFailSafe).
SetSimTimeText(text) ==
    /\ status = "running"
    /\ settings < MaxSettings
    /\ settings' = settings + 1
    /\ \/ /\ ~Fails(text)
          /\ attributes' = [attributes EXCEPT !.simTime = Times(text)]
          /\ simTimeObject' = FALSE
          /\ Runs
       \/ Fails(text) /\ (Abort \/ Runs) /\ UNCHANGED <<attributes, simTimeObject>>
    /\ UNCHANGED <<build, helper, given, disposed>>

\* operator<<: three numbers of each time, so six can be read back.
Written ==
    [numbers |-> 6, bars |-> TRUE, startValid |-> FALSE, endValid |-> FALSE]

\* The attribute system writes the attribute and sets it from what it wrote.
RestoreSimTime == SetSimTimeText(Written)

\* WossSimTime set from a WossSimTimeValue: nothing checks the times.
SetSimTimeObject(times) ==
    /\ status = "running"
    /\ settings < MaxSettings
    /\ settings' = settings + 1
    /\ attributes' = [attributes EXCEPT !.simTime = times]
    /\ simTimeObject' = TRUE
    /\ UNCHANGED <<build, status, cause, helper, given, disposed>>

\* The creator of the results database the two flags select.
ResDbCreator ==
    IF ~attributes.resDb THEN None
    ELSE CASE attributes.useTimeArr /\ attributes.useBinary -> "TimeArrBin"
           [] attributes.useTimeArr /\ ~attributes.useBinary -> "TimeArrTxt"
           [] ~attributes.useTimeArr /\ attributes.useBinary -> "PressureBin"
           [] ~attributes.useTimeArr /\ ~attributes.useBinary -> "PressureTxt"

\* Mutation: there is no manager without threads.
WossManagerThreads == IF attributes.useMultiThread THEN "ResDbMT" ELSE None

WossManager == IF attributes.useMultiThread THEN "ResDbMT" ELSE "ResDb"

\* The assertions of Initialize: the directory of the results database can be
\* made, the simulation times are valid.
AssertionsFail == build = "debug" /\ attributes.simTime # "valid"

\* CreateDirectory is called by an assertion.
DirectoryMade == build = "debug" /\ attributes.resDb

\* WossPropModel::SetWossManager.
Connect(p) == [manager EXCEPT ![p] = WossManager]

\* Mutation: a second Initialize connects its model to the manager of the
\* attributes as they are now.
InitializeAgainConnects(p) ==
    /\ m_initialized
    /\ given' = given \cup {p}
    /\ manager' = Connect(p)
    /\ Runs
    /\ UNCHANGED <<m_initialized, generator, sspDbType, controller, directory>>

\* A second Initialize returns at once, whatever model it is given.
InitializeAgain(p) ==
    /\ m_initialized
    /\ given' = given \cup {p}
    /\ Runs
    /\ UNCHANGED helper

\* Mutation: no early return of a second Initialize.
InitializeAlways(p) ==
    \/ generator = "moved" /\ Crash("generator") /\ UNCHANGED <<helper, given>>
    \/ /\ generator = "owned"
       /\ ~AssertionsFail
       /\ generator' = "moved"
       /\ directory' = (directory \/ DirectoryMade)
       /\ controller' = [dbs |-> attributes.dbs, resDb |-> ResDbCreator, manager |-> WossManager]
       /\ manager' = Connect(p)
       /\ m_initialized' = TRUE /\ given' = given \cup {p} /\ Runs
       /\ UNCHANGED sspDbType

\* The generator is configured through m_randomGenProto, which it is moved from.
InitializeFirst(p) ==
    /\ ~m_initialized
    /\ \/ generator = "moved" /\ Crash("generator") /\ UNCHANGED <<helper, given>>
       \/ /\ generator = "owned"
          /\ AssertionsFail \/ DirectoryMade      \* mkdir may fail
          /\ Abort
          /\ UNCHANGED <<helper, given>>
       \/ /\ generator = "owned"
          /\ ~AssertionsFail
          /\ generator' = "moved"
          /\ directory' = (directory \/ DirectoryMade)
          /\ controller' = [dbs |-> attributes.dbs, resDb |-> ResDbCreator, manager |-> WossManager]
          /\ manager' = Connect(p)
          /\ UNCHANGED sspDbType
          /\ \/ m_initialized' = TRUE /\ given' = given \cup {p} /\ Runs
             \/ Abort /\ UNCHANGED <<m_initialized, given>>

Initialize(p) ==
    /\ status = "running"
    /\ InitializeAgain(p) \/ InitializeFirst(p)
    /\ UNCHANGED <<build, set, disposed>>

\* WossPropModel::DoInitialize asserts that the model has a manager.
PropModelDoInitialize(p) ==
    /\ status = "running"
    /\ build = "debug" /\ manager[p] = None
    /\ Abort
    /\ UNCHANGED <<build, set, helper, given, disposed>>

\* GetPdp and GetPdpVector use the manager; a query of a model that has one
\* changes nothing here.
Query(p) ==
    /\ status = "running"
    /\ manager[p] = None
    /\ Crash(p)
    /\ UNCHANGED <<build, set, helper, given, disposed>>

\* CheckInitialized, at the start of every other operation and of DoInitialize.
CheckInitialized ==
    /\ status = "running"
    /\ ~m_initialized
    /\ Abort
    /\ UNCHANGED <<build, set, helper, given, disposed>>

DoDispose ==
    /\ status = "running"
    /\ m_initialized' = FALSE
    /\ disposed' = TRUE
    /\ UNCHANGED <<build, status, cause, set, generator, sspDbType,
                   controller, manager, directory, given>>

Next ==
    \/ \E value \in Attributes : SetAttribute(value)
    \/ \E text \in Text : SetSimTimeText(text)
    \/ RestoreSimTime
    \/ \E times \in {"valid", "invalid"} : SetSimTimeObject(times)
    \/ \E p \in PropModel : Initialize(p) \/ PropModelDoInitialize(p) \/ Query(p)
    \/ CheckInitialized
    \/ DoDispose

Spec == Init /\ [][Next]_vars

-----------------------------------------------------------------------------
\* Type invariant of the helper.
TypeOK ==
    /\ status \in {"running", "aborted", "crashed"}
    /\ attributes \in Attributes
    /\ settings \in 0 .. MaxSettings
    /\ {simTimeObject, m_initialized, directory, disposed} \subseteq BOOLEAN
    /\ generator \in {"owned", "moved"}
    /\ controller \in ControllerType \cup {None}
    /\ manager \in [PropModel -> {None, "ResDb", "ResDbMT"}]
    /\ given \subseteq PropModel

\* Every connected propagation model queries the manager the controller set up,
\* also when attributes changed and Initialize was called again in between.
OneManager ==
    \A p \in PropModel : manager[p] # None => controller # None /\ manager[p] = controller.manager

\* The prototype of the generator is used after it was moved only by a script
\* that initializes a helper it has disposed of.
GeneratorUsedOnce == cause = "generator" => disposed

\* However many models a script initializes the helper with, in whatever order and
\* with whatever disposals in between, exactly one is connected, and Initialize has
\* returned for it.  So a script with one model has it connected; woss-helper.h:120
\* promises that of every model, which holds for no second one.
OneModelConnected ==
    given # {} => \E p \in given : \A q \in PropModel : manager[q] # None <=> q = p

\* The simulation times Initialize asserts to be valid, and hands to WOSS in a
\* build without assertions, are valid whenever they came from a text, however
\* broken the texts were that the attribute refused: only an object can be invalid.
SimTimeChecked == attributes.simTime # "valid" => simTimeObject

\* The attribute SspDbWoaDbType selects the format of the SSP database: the
\* creator a script's first Initialize hands to the controller is of it.
WoaDbTypeApplied ==
    [][~m_initialized /\ m_initialized' /\ "ssp" \in attributes.dbs
           => sspDbType' = attributes.woaDbType]_vars

=============================================================================
