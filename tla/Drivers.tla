------------------------------ MODULE Drivers ------------------------------
(***************************************************************************)
(* How a star of cosmic-hyperspace starts its drivers.  The Drivers task   *)
(* takes one factory at a time: it registers the driver's point, makes the *)
(* driver in a task of its own, and starts a listener on the driver's      *)
(* status; when the driver is Ready the listener has the Drivers task go   *)
(* on with the next factory.  The first driver is the DriverDriver, and    *)
(* every later one is initialised by it.  After the last factory a final   *)
(* listener tells the star, which sends its own loop StartWrangling and    *)
(* then is Ready.                                                          *)
(*                                                                         *)
(* The listeners look at the map statuses_rx.  init0 inserts every status  *)
(* receiver under the same key, so the map always holds one entry, that of *)
(* the driver started last; `entry` is that driver and `entryFresh` says   *)
(* whether the receiver has yet to see a change.  DriversCall::Init1 and   *)
(* DriverStatus::Retrying are used nowhere and have no action here.        *)
(*                                                                         *)
(* The names are other than those of Machine, so that one module can speak *)
(* of both.                                                                *)
(***************************************************************************)
EXTENDS Naturals, Sequences

CONSTANTS
    Factories,      \* the drivers to start, in order; the first one is the DriverDriver
    StarDriver,     \* the star's own driver, one of them
    FailingDrivers, \* the drivers that may fail to start
    None            \* no driver

DriverSet == {Factories[i] : i \in DOMAIN Factories}
DriverDriver == Head(Factories)

ASSUME FactoriesAssumption ==
    /\ Factories \in Seq(DriverSet)
    /\ Factories # <<>>
    /\ \A i, j \in DOMAIN Factories : Factories[i] = Factories[j] => i = j
    /\ StarDriver \in DriverSet \ {DriverDriver}
    /\ FailingDrivers \subseteq DriverSet
    /\ None \notin DriverSet

VARIABLES
    left,       \* the factories not yet taken
    callQ,      \* the call channel of the Drivers task
    entry,      \* the driver in statuses_rx
    entryFresh, \* whether its receiver there has yet to see a change
    maker,      \* per driver, the task that makes it: "none", "make", "add" or "done"
    runner,     \* per driver, its runner: "idle", or "init" while Driver::init runs
    runnerQ,    \* per driver, the calls to its runner
    registered, \* the drivers in kind_to_driver
    known,      \* the drivers the DriverDriver has been given
    driverQ,    \* per driver, statuses on their way to its watch
    driver,     \* per driver, its status watch
    listener,   \* the current listener: where it is, whether it is the final one, what it read
    toldQ,      \* statuses on their way to the watch of the Drivers task
    told,       \* that watch
    toldFresh,  \* whether the star's status task has yet to see a change of it
    task,       \* the star's status task: where it is, `previous`, and what it acts on
    starStatus, \* the star's published status
    wrangles    \* how many times the star's loop was sent StartWrangling

boot  == <<left, callQ, maker, registered>>
run   == <<runner, runnerQ, known>>
watch == <<driverQ, driver, entry, entryFresh>>
tell  == <<listener, toldQ>>
top   == <<told, toldFresh, task, starStatus, wrangles>>
driversVars == <<boot, run, watch, tell, top>>

InitCall == [op |-> "Init0", arg |-> None]
AddCall(d) == [op |-> "AddDriver", arg |-> d]
OnAdded == [op |-> "OnAdded", arg |-> None]

DriversInit ==
    /\ left = Factories
    /\ callQ = <<InitCall>>
    /\ entry = None
    /\ entryFresh = FALSE
    /\ maker = [d \in DriverSet |-> "none"]
    /\ runner = [d \in DriverSet |-> "idle"]
    /\ runnerQ = [d \in DriverSet |-> <<>>]
    /\ registered = {}
    /\ known = {}
    /\ driverQ = [d \in DriverSet |-> <<>>]
    /\ driver = [d \in DriverSet |-> "Pending"]
    /\ listener = [at |-> "none", final |-> FALSE, read |-> "Pending"]
    /\ toldQ = <<>>
    /\ told = "Pending"
    /\ toldFresh = FALSE
    /\ task = [at |-> "compare", previous |-> "Unknown", act |-> "Pending"]
    /\ starStatus = "Pending"
    /\ wrangles = 0

-----------------------------------------------------------------------------
(* The Drivers task.                                                       *)

Listen(final) == [at |-> "look", final |-> final, read |-> "Pending"]

\* init0 with a factory left: the new receiver replaces the entry, the driver's
\* point is registered, its maker is spawned, and a listener is started.  If the
\* registration fails the watch is set to Fatal and there is no maker.
InitNext ==
    /\ callQ # <<>> /\ Head(callQ) = InitCall
    /\ left # <<>>
    /\ LET d == Head(left)
       IN  /\ entry' = d
           /\ \/ /\ maker' = [maker EXCEPT ![d] = "make"]
                 /\ entryFresh' = FALSE
                 /\ UNCHANGED driver
              \/ /\ d \in FailingDrivers
                 /\ driver' = [driver EXCEPT ![d] = "Fatal"]
                 /\ entryFresh' = TRUE
                 /\ UNCHANGED maker
    /\ left' = Tail(left)
    /\ callQ' = Tail(callQ)
    /\ listener' = Listen(FALSE)
    /\ UNCHANGED <<registered, run, driverQ, toldQ, top>>

\* init0 with no factory left: only a listener that nobody waits for.
InitDone ==
    /\ callQ # <<>> /\ Head(callQ) = InitCall
    /\ left = <<>>
    /\ callQ' = Tail(callQ)
    /\ listener' = Listen(TRUE)
    /\ UNCHANGED <<left, maker, registered, run, watch, toldQ, top>>

\* AddDriver: a driver other than the DriverDriver is passed on to it.
AddDriver ==
    /\ callQ # <<>> /\ Head(callQ).op = "AddDriver"
    /\ LET d == Head(callQ).arg
       IN  /\ registered' = registered \cup {d}
           /\ runnerQ' = IF d = DriverDriver THEN runnerQ
                         ELSE [runnerQ EXCEPT ![DriverDriver] = Append(@, AddCall(d))]
    /\ callQ' = Tail(callQ)
    /\ UNCHANGED <<left, maker, runner, known, watch, tell, top>>

DriversTask == InitNext \/ InitDone \/ AddDriver

-----------------------------------------------------------------------------
(* The task that makes one driver, and the driver's runner.                *)

Make(d) ==
    /\ maker[d] = "make"
    /\ \/ /\ maker' = [maker EXCEPT ![d] = "add"]
          /\ callQ' = Append(callQ, AddCall(d))
          /\ UNCHANGED driverQ
       \/ /\ d \in FailingDrivers
          /\ maker' = [maker EXCEPT ![d] = "done"]
          /\ driverQ' = [driverQ EXCEPT ![d] = Append(@, "Fatal")]
          /\ UNCHANGED callQ
    /\ UNCHANGED <<left, registered, run, driver, entry, entryFresh, tell, top>>

\* on_added is called by the maker for the DriverDriver only.
Added(d) ==
    /\ maker[d] = "add"
    /\ maker' = [maker EXCEPT ![d] = "done"]
    /\ runnerQ' = IF d = DriverDriver THEN [runnerQ EXCEPT ![d] = Append(@, OnAdded)] ELSE runnerQ
    /\ UNCHANGED <<left, callQ, registered, runner, known, watch, tell, top>>

\* OnAdded: Driver::init starts; some drivers publish Init first.
RunOnAdded(d) ==
    /\ runner[d] = "idle"
    /\ runnerQ[d] # <<>> /\ Head(runnerQ[d]) = OnAdded
    /\ runner' = [runner EXCEPT ![d] = "init"]
    /\ runnerQ' = [runnerQ EXCEPT ![d] = Tail(@)]
    /\ \E said \in {<<>>, <<"Init">>} : driverQ' = [driverQ EXCEPT ![d] = @ \o said]
    /\ UNCHANGED <<boot, known, driver, entry, entryFresh, tell, top>>

\* Driver::init ends: it has sent Ready, or failed and the runner sends Fatal.
RunInit(d) ==
    /\ runner[d] = "init"
    /\ runner' = [runner EXCEPT ![d] = "idle"]
    /\ \E said \in {"Ready"} \cup (IF d \in FailingDrivers THEN {"Fatal"} ELSE {}) :
          driverQ' = [driverQ EXCEPT ![d] = Append(@, said)]
    /\ UNCHANGED <<boot, runnerQ, known, driver, entry, entryFresh, tell, top>>

\* The DriverDriver is given a driver, and has it initialise itself.
RunAddDriver ==
    LET q == runnerQ[DriverDriver]
    IN  /\ runner[DriverDriver] = "idle"
        /\ q # <<>> /\ Head(q).op = "AddDriver"
        /\ known' = known \cup {Head(q).arg}
        /\ runnerQ' = [d \in DriverSet |->
                         CASE d = DriverDriver -> Tail(q)
                           [] d = Head(q).arg  -> Append(runnerQ[d], OnAdded)
                           [] OTHER            -> runnerQ[d]]
        /\ UNCHANGED <<boot, runner, watch, tell, top>>

\* The task between a driver's status channel and its watch.
RelayDriver(d) ==
    /\ driverQ[d] # <<>>
    /\ driver' = [driver EXCEPT ![d] = Head(driverQ[d])]
    /\ driverQ' = [driverQ EXCEPT ![d] = Tail(@)]
    /\ entryFresh' = IF entry = d THEN TRUE ELSE entryFresh
    /\ UNCHANGED <<boot, run, entry, tell, top>>

DriverStep(d) == Make(d) \/ Added(d) \/ RunOnAdded(d) \/ RunInit(d) \/ RelayDriver(d)

-----------------------------------------------------------------------------
(* The listener.                                                           *)

\* It reads the statuses in the map: here the one entry.
Look ==
    /\ listener.at = "look"
    /\ listener' = [listener EXCEPT !.at = "tell", !.read = driver[entry]]
    /\ UNCHANGED <<boot, run, watch, toldQ, top>>

\* All Ready, and somebody waits for that: Init0 is sent again, by a task of its own.
MutTellReady ==
    /\ listener.at = "tell"
    /\ listener.read \in {"Init", "Ready"}
    /\ ~listener.final
    /\ listener' = [listener EXCEPT !.at = "none"]
    /\ callQ' = Append(callQ, InitCall)
    /\ UNCHANGED <<left, maker, registered, run, watch, toldQ, top>>

MutTellAlways ==
    /\ listener.at = "tell"
    /\ ~listener.final
    /\ listener' = [listener EXCEPT !.at = "none"]
    /\ callQ' = Append(callQ, InitCall)
    /\ UNCHANGED <<left, maker, registered, run, watch, toldQ, top>>

TellReady ==
    /\ listener.at = "tell"
    /\ listener.read = "Ready"
    /\ ~listener.final
    /\ listener' = [listener EXCEPT !.at = "none"]
    /\ callQ' = Append(callQ, InitCall)
    /\ UNCHANGED <<left, maker, registered, run, watch, toldQ, top>>

\* Otherwise the status of the Drivers is told to the star; Fatal ends the listener.
MutSummary(read) == IF read = "Fatal" THEN "Unknown" ELSE read
Summary(read) == IF read = "Pending" THEN "Unknown" ELSE read

TellStatus ==
    /\ listener.at = "tell"
    /\ listener.read = "Ready" => listener.final
    /\ toldQ' = Append(toldQ, Summary(listener.read))
    /\ listener' = [listener EXCEPT !.at = IF listener.read = "Fatal" THEN "none" ELSE "wait"]
    /\ UNCHANGED <<boot, run, watch, top>>

\* The receiver in the map sees a change.
ListenerWakes ==
    /\ listener.at = "wait"
    /\ entryFresh
    /\ entryFresh' = FALSE
    /\ listener' = [listener EXCEPT !.at = "look"]
    /\ UNCHANGED <<boot, run, driverQ, driver, entry, toldQ, top>>

Listener == Look \/ TellReady \/ TellStatus \/ ListenerWakes

-----------------------------------------------------------------------------
(* The star's status task.                                                 *)

RelayTold ==
    /\ toldQ # <<>>
    /\ told' = Head(toldQ)
    /\ toldQ' = Tail(toldQ)
    /\ toldFresh' = TRUE
    /\ UNCHANGED <<boot, run, watch, listener, task, starStatus, wrangles>>

\* if previous != drivers.status() ...
Compare ==
    /\ task.at = "compare"
    /\ task' = [task EXCEPT !.at = IF task.previous # told THEN "assign" ELSE "wait"]
    /\ UNCHANGED <<boot, run, watch, tell, told, toldFresh, starStatus, wrangles>>

\* ... previous = drivers.status() ...
Assign ==
    /\ task.at = "assign"
    /\ task' = [task EXCEPT !.at = "match", !.previous = told]
    /\ UNCHANGED <<boot, run, watch, tell, told, toldFresh, starStatus, wrangles>>

\* ... match drivers.status(): each of the three reads the watch anew.
Match ==
    /\ task.at = "match"
    /\ task' = [task EXCEPT !.at = "act", !.act = told]
    /\ UNCHANGED <<boot, run, watch, tell, told, toldFresh, starStatus, wrangles>>

\* Ready: the star's item is initialised by its driver, which must be there, and
\* the star's own loop is sent StartWrangling ...
ActReady ==
    /\ task.at = "act"
    /\ task.act = "Ready"
    /\ StarDriver \in registered
    /\ wrangles' = wrangles + 1
    /\ task' = [task EXCEPT !.at = "publish"]
    /\ UNCHANGED <<boot, run, watch, tell, told, toldFresh, starStatus>>

\* ... before it publishes Ready; everything else it publishes at once.
ActPublish ==
    /\ task.at = "publish" \/ (task.at = "act" /\ task.act # "Ready")
    /\ starStatus' = task.act
    /\ task' = [task EXCEPT !.at = "wait"]
    /\ UNCHANGED <<boot, run, watch, tell, told, toldFresh, wrangles>>

TaskWakes ==
    /\ task.at = "wait"
    /\ toldFresh
    /\ toldFresh' = FALSE
    /\ task' = [task EXCEPT !.at = "compare"]
    /\ UNCHANGED <<boot, run, watch, tell, told, starStatus, wrangles>>

StatusTask == Compare \/ Assign \/ Match \/ ActReady \/ ActPublish \/ TaskWakes

DriversNext ==
    \/ DriversTask \/ RunAddDriver \/ Listener \/ RelayTold \/ StatusTask
    \/ \E d \in DriverSet : DriverStep(d)

\* Every task is run by tokio while it can go on, and Driver::init returns.
DriversFairness ==
    /\ WF_driversVars(DriversTask)
    /\ WF_driversVars(Listener)
    /\ WF_driversVars(RelayTold)
    /\ WF_driversVars(StatusTask)
    /\ WF_driversVars(RunAddDriver)
    /\ \A d \in DriverSet :
          /\ WF_driversVars(Make(d) \/ Added(d))
          /\ WF_driversVars(RunOnAdded(d) \/ RunInit(d))
          /\ WF_driversVars(RelayDriver(d))

DriversSpec == DriversInit /\ [][DriversNext]_driversVars
DriversFairSpec == DriversSpec /\ DriversFairness

-----------------------------------------------------------------------------
Values == {"Pending", "Unknown", "Init", "Ready", "Fatal"}

\* The types of the variables.
DriversTypeOK ==
    /\ left \in Seq(DriverSet)
    /\ callQ \in Seq({InitCall} \cup {AddCall(d) : d \in DriverSet})
    /\ entry \in DriverSet \cup {None}
    /\ entryFresh \in BOOLEAN
    /\ maker \in [DriverSet -> {"none", "make", "add", "done"}]
    /\ runner \in [DriverSet -> {"idle", "init"}]
    /\ runnerQ \in [DriverSet -> Seq({OnAdded} \cup {AddCall(d) : d \in DriverSet})]
    /\ registered \subseteq DriverSet
    /\ known \subseteq DriverSet
    /\ driverQ \in [DriverSet -> Seq(Values)]
    /\ driver \in [DriverSet -> Values]
    /\ listener \in [at : {"none", "look", "tell", "wait"}, final : BOOLEAN, read : Values]
    /\ toldQ \in Seq(Values)
    /\ told \in Values
    /\ toldFresh \in BOOLEAN
    /\ task \in [at : {"compare", "assign", "match", "act", "publish", "wait"},
                 previous : Values, act : Values]
    /\ starStatus \in Values
    /\ wrangles \in Nat
    /\ listener.at # "none" => entry # None

\* Although the map of statuses only ever holds the driver started last, the star is
\* told Ready only when every one of its drivers is Ready, registered with the star
\* and, but for the DriverDriver itself, known to the DriverDriver.
ReadyMeansAll ==
    \/ "Ready" \in {told, starStatus, task.act, task.previous}
    \/ \E i \in DOMAIN toldQ : toldQ[i] = "Ready"
    => \A d \in DriverSet :
          /\ driver[d] = "Ready"
          /\ d \in registered
          /\ d = DriverDriver \/ d \in known

\* What the task unwraps is there: the DriverDriver when another driver is to be
\* passed on to it, and the star's own driver when all are Ready.
UnwrapsFind ==
    /\ callQ # <<>> /\ Head(callQ).op = "AddDriver" /\ Head(callQ).arg # DriverDriver
         => DriverDriver \in registered
    /\ task.at = "act" /\ task.act = "Ready" => StarDriver \in registered

\* The star implements what the machine assumes of it.
phaseBar ==
    IF starStatus = "Fatal" THEN "failed"
    ELSE IF starStatus = "Ready" THEN "up"
    ELSE IF wrangles > 0 THEN "queued" ELSE "boot"
Promised == INSTANCE StarBoot WITH star <- starStatus, phase <- phaseBar, MayFail <- (FailingDrivers # {})
StarBoots == Promised!Spec
=============================================================================
