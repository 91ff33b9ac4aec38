---------------------------- MODULE UiConsumers ----------------------------
(***************************************************************************)
(* The consumers and the configuration of the UI server,                   *)
(* crates/core/src/ui_app.rs.                                              *)
(*                                                                         *)
(* One UiApp is cloned into every request, so any number of calls share    *)
(* the configuration in memory, the table of running collectors, the       *)
(* configuration file and the storage security derived from it.  The first *)
(* two have a tokio RwLock each, which is a fair queue; nothing covers a   *)
(* whole update.  A step is what a call does between two points where it   *)
(* may wait.                                                               *)
(*                                                                         *)
(* What a consumer is configured with is one value: two settings differ    *)
(* when their JSON does.  The endpoint of the publisher it forwards to is  *)
(* not part of it.  Requests that fail validation change nothing and are   *)
(* left out.                                                               *)
(***************************************************************************)
EXTENDS Naturals, Sequences, FiniteSets, SequencesExt

CONSTANTS
  Clients,    \* concurrent calls
  Consumers,  \* runtime keys of consumers
  Settings,   \* what a consumer may be configured with
  Enabled,    \* the settings whose consumer is started at boot
  Submitted,  \* bound: the configurations the UI may load or be given
  None,       \* not configured, no handle, no consumer
  Torn        \* the contents of a file whose writing has failed

ASSUME EnabledAreSettings == Enabled \subseteq Settings

Handles == [settings : Settings, live : BOOLEAN]
ASSUME NoneIsNothing == None \notin Settings \cup Consumers \cup Handles

Configs == [Consumers -> Settings \cup {None}]
ASSUME SubmittedAreConfigs == Submitted \subseteq Configs

VARIABLES
  config,       \* UiApp.config
  configLock,   \* its lock: who holds it or waits for it, in order
  handles,      \* UiApp.ui_handles
  handlesLock,  \* its lock
  file,         \* the configuration file
  security,     \* UiApp.storage_security: the configuration it was derived from
  tasks,        \* the number of live collector tasks of each consumer
  booted,       \* whether start_configured_consumers has been called
  pc,           \* where each call is
  keys,         \* the consumers a call has yet to come to
  copy,         \* the configuration it has read
  new,          \* the configuration it was given
  hand,         \* the consumer whose live task it starts or stops
  overlapped    \* history: whether an update ran beside an update or a start

locks == <<configLock, handlesLock>>
stores == <<config, file, security>>
callVars == <<pc, keys, copy, new, hand>>
vars == <<config, configLock, handles, handlesLock, file, security, tasks,
          booted, pc, keys, copy, new, hand, overlapped>>

StartPhases  == {"start_config", "boot_config", "start_handles", "run"}
StopPhases   == {"stop_config", "stop_handles", "stop_task"}
UpdatePhases == {"update_config", "update_handles", "update_task", "save",
                 "secure", "swap"}
StatusPhases == {"status_config", "status_handles", "status_probe"}
Phases == {"idle"} \cup StartPhases \cup StopPhases \cup UpdatePhases
            \cup StatusPhases

TypeOK ==
  /\ config \in Configs
  /\ {configLock, handlesLock} \subseteq Seq(Clients \X {"read", "write"})
  /\ handles \in [Consumers -> Handles \cup {None}]
  /\ file \in Configs \cup {Torn}
  /\ security \in Configs
  /\ tasks \in [Consumers -> 0 .. 1]
  /\ booted \in BOOLEAN
  /\ pc \in [Clients -> Phases]
  /\ keys \in [Clients -> SUBSET Consumers]
  /\ copy \in [Clients -> Configs \cup {None}]
  /\ new \in [Clients -> Configs \cup {None}]
  /\ hand \in [Clients -> Consumers \cup {None}]
  /\ overlapped \in BOOLEAN

Init ==
  /\ config \in Submitted
  /\ configLock = <<>>
  /\ handles = [k \in Consumers |-> None]
  /\ handlesLock = <<>>
  /\ file = config
  /\ security = config
  /\ tasks = [k \in Consumers |-> 0]
  /\ booted = FALSE
  /\ pc = [c \in Clients |-> "idle"]
  /\ keys = [c \in Clients |-> {}]
  /\ copy = [c \in Clients |-> None]
  /\ new = [c \in Clients |-> None]
  /\ hand = [c \in Clients |-> None]
  /\ overlapped = FALSE

-----------------------------------------------------------------------------
(* The locks and the course of a call.                                     *)

\* A call joins the queue of a lock, in which it is once at most, or leaves it.
Ask(lock, c, mode) == Append(lock, <<c, mode>>)

Places(lock, c) == {i \in DOMAIN lock : lock[i][1] = c}
Left(lock, c) ==
  IF Places(lock, c) = {} THEN lock
  ELSE RemoveAt(lock, CHOOSE i \in Places(lock, c) : TRUE)

\* A writer is served when it is first; a reader, with the readers before it.
Granted(lock, c) ==
  \E i \in DOMAIN lock :
    /\ lock[i][1] = c
    /\ i = 1 \/ \A j \in 1 .. i : lock[j][2] = "read"

Goto(c, phase) == pc' = [pc EXCEPT ![c] = phase]

\* The call returns, and what it has read is dropped with its guards.
Return(c) ==
  /\ Goto(c, "idle")
  /\ configLock' = Left(configLock, c)
  /\ handlesLock' = Left(handlesLock, c)
  /\ keys' = [keys EXCEPT ![c] = {}]
  /\ copy' = [copy EXCEPT ![c] = None]
  /\ new' = [new EXCEPT ![c] = None]
  /\ hand' = [hand EXCEPT ![c] = None]

\* Every call begins by asking for the configuration.
Begin(c, phase, ks) ==
  /\ pc[c] = "idle"
  /\ Goto(c, phase)
  /\ keys' = [keys EXCEPT ![c] = ks]
  /\ configLock' = Ask(configLock, c, "read")
  /\ UNCHANGED <<stores, handles, handlesLock, tasks, copy, hand>>

Busy(phases) == \E c \in Clients : pc[c] \in phases

\* The configuration has been read: its lock is given up for the other one.
ThenHandles(c, phase) ==
  /\ configLock' = Left(configLock, c)
  /\ handlesLock' = Ask(handlesLock, c, "write")
  /\ Goto(c, phase)

\* The live task in the hands of a call, if any, is one less.
EndTask(c) ==
  tasks' = [k \in Consumers |-> IF k = hand[c] THEN tasks[k] - 1 ELSE tasks[k]]

IsLive(handle) == handle # None /\ handle.live

-----------------------------------------------------------------------------
(* start_consumer, and start_configured_consumers, which starts the        *)
(* consumers it has read one after the other.                              *)

StartBegin(c, k) ==
  /\ Begin(c, "start_config", {k})
  /\ overlapped' = (overlapped \/ Busy(UpdatePhases))
  /\ UNCHANGED <<booted, new>>

BootBegin(c) ==
  /\ ~booted
  /\ booted' = TRUE
  /\ Begin(c, "boot_config", Consumers)
  /\ overlapped' = (overlapped \/ Busy(UpdatePhases))
  /\ UNCHANGED new

\* The consumers to start, as the configuration has them now.
ToStart(c) ==
  {k \in keys[c] : config[k] # None /\ (pc[c] = "boot_config" => config[k] \in Enabled)}

StartRead(c) ==
  /\ pc[c] \in {"start_config", "boot_config"}
  /\ Granted(configLock, c)
  /\ ToStart(c) # {}
  /\ keys' = [keys EXCEPT ![c] = ToStart(c)]
  /\ copy' = [copy EXCEPT ![c] = config]
  /\ ThenHandles(c, "start_handles")
  /\ UNCHANGED <<stores, handles, tasks, booted, new, hand, overlapped>>

\* Not found, or nothing enabled.
StartNothing(c) ==
  /\ pc[c] \in {"start_config", "boot_config"}
  /\ Granted(configLock, c)
  /\ ToStart(c) = {}
  /\ Return(c)
  /\ UNCHANGED <<stores, handles, tasks, booted, overlapped>>

\* A bug: the table is not locked while the route comes up.
StartRunUnlocked(c, k) ==
  /\ pc[c] = "start_handles"
  /\ Granted(handlesLock, c)
  /\ k \in keys[c]
  /\ ~IsLive(handles[k])
  /\ tasks' = [tasks EXCEPT ![k] = @ + 1]
  /\ hand' = [hand EXCEPT ![c] = k]
  /\ handlesLock' = Left(handlesLock, c)
  /\ Goto(c, "run")
  /\ UNCHANGED <<stores, configLock, handles, booted, keys, copy, new, overlapped>>

\* run() is called with the table locked; a handle of an ended task may be
\* replaced.
StartRun(c, k) ==
  /\ pc[c] = "start_handles"
  /\ Granted(handlesLock, c)
  /\ k \in keys[c]
  /\ ~IsLive(handles[k])
  /\ tasks' = [tasks EXCEPT ![k] = @ + 1]
  /\ hand' = [hand EXCEPT ![c] = k]
  /\ Goto(c, "run")
  /\ UNCHANGED <<stores, locks, handles, booted, keys, copy, new, overlapped>>

\* The table is unlocked, and locked again for the next consumer.
StartNext(c, k) ==
  IF keys[c] = {k}
  THEN Return(c)
  ELSE /\ keys' = [keys EXCEPT ![c] = @ \ {k}]
       /\ hand' = [hand EXCEPT ![c] = None]
       /\ handlesLock' = Ask(Left(handlesLock, c), c, "write")
       /\ Goto(c, "start_handles")
       /\ UNCHANGED <<configLock, copy, new>>

\* It runs already, has no endpoint, or its output cannot be resolved.
StartSkip(c, k) ==
  /\ pc[c] = "start_handles"
  /\ Granted(handlesLock, c)
  /\ k \in keys[c]
  /\ StartNext(c, k)
  /\ UNCHANGED <<stores, handles, tasks, booted, overlapped>>

StartInsert(c) ==
  /\ pc[c] = "run"
  /\ handles' = [handles EXCEPT ![hand[c]] =
                   [settings |-> copy[c][hand[c]], live |-> TRUE]]
  /\ StartNext(c, hand[c])
  /\ UNCHANGED <<stores, tasks, booted, overlapped>>

\* run() returned an error: the engine has ended the task.
StartFailed(c) ==
  /\ pc[c] = "run"
  /\ EndTask(c)
  /\ StartNext(c, hand[c])
  /\ UNCHANGED <<stores, handles, booted, overlapped>>

-----------------------------------------------------------------------------
(* stop_consumer.                                                          *)

StopBegin(c, k) ==
  /\ Begin(c, "stop_config", {k})
  /\ UNCHANGED <<booted, new, overlapped>>

\* A consumer that is no longer configured is still stopped by its key.
StopRead(c) ==
  /\ pc[c] = "stop_config"
  /\ Granted(configLock, c)
  /\ ThenHandles(c, "stop_handles")
  /\ UNCHANGED <<stores, handles, tasks, booted, keys, copy, new, hand, overlapped>>

\* The handle leaves the table, which stays locked until its task has ended.
TakeOut(c, k, phase) ==
  /\ handles' = [handles EXCEPT ![k] = None]
  /\ hand' = [hand EXCEPT ![c] = IF IsLive(handles[k]) THEN k ELSE None]
  /\ Goto(c, phase)

StopRemove(c) ==
  /\ pc[c] = "stop_handles"
  /\ Granted(handlesLock, c)
  /\ \E k \in keys[c] : handles[k] # None /\ TakeOut(c, k, "stop_task")
  /\ UNCHANGED <<stores, locks, tasks, booted, keys, copy, new, overlapped>>

StopNothing(c) ==
  /\ pc[c] = "stop_handles"
  /\ Granted(handlesLock, c)
  /\ \A k \in keys[c] : handles[k] = None
  /\ Return(c)
  /\ UNCHANGED <<stores, handles, tasks, booted, overlapped>>

StopTask(c) ==
  /\ pc[c] = "stop_task"
  /\ EndTask(c)
  /\ Return(c)
  /\ UNCHANGED <<stores, handles, booted, overlapped>>

-----------------------------------------------------------------------------
(* update_config.                                                          *)

UpdateBegin(c, cfg) ==
  /\ Begin(c, "update_config", {})
  /\ new' = [new EXCEPT ![c] = cfg]
  /\ overlapped' = (overlapped \/ Busy(StartPhases \cup UpdatePhases))
  /\ UNCHANGED booted

UpdateRead(c) ==
  /\ pc[c] = "update_config"
  /\ Granted(configLock, c)
  /\ copy' = [copy EXCEPT ![c] = config]
  /\ ThenHandles(c, "update_handles")
  /\ UNCHANGED <<stores, handles, tasks, booted, keys, new, hand, overlapped>>

\* A bug: only a consumer that is gone is stopped.
ShouldStopGone(c, k) == new[c][k] = None

\* A running consumer stays only if it is in both configurations, unchanged.
ShouldStop(c, k) == copy[c][k] = None \/ new[c][k] = None \/ copy[c][k] # new[c][k]

UpdateStop(c, k) ==
  /\ pc[c] = "update_handles"
  /\ Granted(handlesLock, c)
  /\ handles[k] # None
  /\ ShouldStop(c, k)
  /\ TakeOut(c, k, "update_task")
  /\ UNCHANGED <<stores, locks, tasks, booted, keys, copy, new, overlapped>>

\* A bug: the handle is dropped, which does not end its task.
UpdateTaskDrops(c) ==
  /\ pc[c] = "update_task"
  /\ hand' = [hand EXCEPT ![c] = None]
  /\ Goto(c, "update_handles")
  /\ UNCHANGED <<stores, locks, handles, tasks, booted, keys, copy, new, overlapped>>

UpdateTask(c) ==
  /\ pc[c] = "update_task"
  /\ EndTask(c)
  /\ hand' = [hand EXCEPT ![c] = None]
  /\ Goto(c, "update_handles")
  /\ UNCHANGED <<stores, locks, handles, booted, keys, copy, new, overlapped>>

\* A bug: the table stays locked to the end of the update.
UpdateUnlockLate(c) ==
  /\ pc[c] = "update_handles"
  /\ Granted(handlesLock, c)
  /\ \A k \in Consumers : handles[k] # None => ~ShouldStop(c, k)
  /\ Goto(c, "save")
  /\ UNCHANGED <<stores, locks, handles, tasks, booted, keys, copy, new, hand,
                 overlapped>>

\* What is left keeps running, and the table is unlocked before the save.
UpdateUnlock(c) ==
  /\ pc[c] = "update_handles"
  /\ Granted(handlesLock, c)
  /\ \A k \in Consumers : handles[k] # None => ~ShouldStop(c, k)
  /\ handlesLock' = Left(handlesLock, c)
  /\ Goto(c, "save")
  /\ UNCHANGED <<stores, configLock, handles, tasks, booted, keys, copy, new,
                 hand, overlapped>>

\* A bug: an error of the save is logged only.
UpdateFailsGoesOn(c) ==
  /\ pc[c] = "save"
  /\ Goto(c, "secure")
  /\ UNCHANGED <<stores, locks, handles, tasks, booted, keys, copy, new, hand,
                 overlapped>>

\* An output cannot be registered or the save fails, with the file as it was or
\* cut short; the consumers that were stopped stay stopped.
UpdateFails(c) ==
  /\ pc[c] = "save"
  /\ file' \in {file, Torn}
  /\ Return(c)
  /\ UNCHANGED <<config, security, handles, tasks, booted, overlapped>>

UpdateSave(c) ==
  /\ pc[c] = "save"
  /\ file' = new[c]
  /\ Goto(c, "secure")
  /\ UNCHANGED <<config, security, locks, handles, tasks, booted, keys, copy,
                 new, hand, overlapped>>

UpdateSecure(c) ==
  /\ pc[c] = "secure"
  /\ security' = new[c]
  /\ configLock' = Ask(configLock, c, "write")
  /\ Goto(c, "swap")
  /\ UNCHANGED <<config, file, handles, handlesLock, tasks, booted, keys, copy,
                 new, hand, overlapped>>

UpdateSwap(c) ==
  /\ pc[c] = "swap"
  /\ Granted(configLock, c)
  /\ config' = new[c]
  /\ Return(c)
  /\ UNCHANGED <<file, security, handles, tasks, booted, overlapped>>

-----------------------------------------------------------------------------
(* runtime_status and consumer_status: the configuration stays locked for  *)
(* reading while the table is read, and while each consumer is probed.     *)

StatusBegin(c) ==
  /\ Begin(c, "status_config", {})
  /\ UNCHANGED <<booted, new, overlapped>>

\* The table is read once, and by runtime_status once more for each consumer.
StatusRead(c) ==
  /\ pc[c] = "status_config"
  /\ Granted(configLock, c)
  /\ \E ks \in {{}, {k \in Consumers : config[k] # None}} :
       keys' = [keys EXCEPT ![c] = ks]
  /\ handlesLock' = Ask(handlesLock, c, "read")
  /\ Goto(c, "status_handles")
  /\ UNCHANGED <<stores, configLock, handles, tasks, booted, copy, new, hand,
                 overlapped>>

StatusHandles(c) ==
  /\ pc[c] = "status_handles"
  /\ Granted(handlesLock, c)
  /\ handlesLock' = Left(handlesLock, c)
  /\ Goto(c, "status_probe")
  /\ UNCHANGED <<stores, configLock, handles, tasks, booted, keys, copy, new,
                 hand, overlapped>>

StatusProbe(c, k) ==
  /\ pc[c] = "status_probe"
  /\ k \in keys[c]
  /\ keys' = [keys EXCEPT ![c] = @ \ {k}]
  /\ handlesLock' = Ask(handlesLock, c, "read")
  /\ Goto(c, "status_handles")
  /\ UNCHANGED <<stores, configLock, handles, tasks, booted, copy, new, hand,
                 overlapped>>

StatusEnd(c) ==
  /\ pc[c] = "status_probe"
  /\ keys[c] = {}
  /\ Return(c)
  /\ UNCHANGED <<stores, handles, tasks, booted, overlapped>>

\* runtime_status gives up after RUNTIME_STATUS_PROBE_TIMEOUT; dropping the
\* probe takes it out of the queues.
StatusTimeout(c) ==
  /\ pc[c] \in StatusPhases
  /\ Return(c)
  /\ UNCHANGED <<stores, handles, tasks, booted, overlapped>>

-----------------------------------------------------------------------------
\* A source is drained or fails: the handle stays, with an outcome.  A task that
\* ends while a call starts or stops it is not told from one that ends after.
TaskEnds(k) ==
  /\ IsLive(handles[k])
  /\ handles' = [handles EXCEPT ![k].live = FALSE]
  /\ tasks' = [tasks EXCEPT ![k] = @ - 1]
  /\ UNCHANGED <<stores, locks, booted, callVars, overlapped>>

CallStep(c) ==
  \/ StartRead(c) \/ StartNothing(c) \/ StartInsert(c) \/ StartFailed(c)
  \/ \E k \in Consumers : StartRun(c, k) \/ StartSkip(c, k)
  \/ StopRead(c) \/ StopRemove(c) \/ StopNothing(c) \/ StopTask(c)
  \/ UpdateRead(c) \/ (\E k \in Consumers : UpdateStop(c, k)) \/ UpdateTask(c)
  \/ UpdateUnlock(c) \/ UpdateFails(c) \/ UpdateSave(c) \/ UpdateSecure(c)
  \/ UpdateSwap(c)
  \/ StatusRead(c) \/ StatusHandles(c) \/ (\E k \in Consumers : StatusProbe(c, k))
  \/ StatusEnd(c)

CallBegins(c) ==
  \/ \E k \in Consumers : StartBegin(c, k) \/ StopBegin(c, k)
  \/ BootBegin(c)
  \/ \E cfg \in Submitted : UpdateBegin(c, cfg)
  \/ StatusBegin(c)

Next ==
  \/ \E c \in Clients : CallBegins(c) \/ CallStep(c) \/ StatusTimeout(c)
  \/ \E k \in Consumers : TaskEnds(k)

Spec == Init /\ [][Next]_vars

\* The runtime drives a call that can go on: run() and stop() return, and the
\* locks are queues.  Nothing relies on the timeout of a status call, which
\* consumer_status does not have.
FairSpec == Spec /\ \A c \in Clients : WF_vars(CallStep(c))

-----------------------------------------------------------------------------
(* Properties.                                                             *)

\* Every live task is in the table, where it can be seen and stopped, or in the
\* hands of one call: RouteHandle has no Drop, so a handle lost would leave its
\* task consuming the source.
EveryTaskIsTracked ==
  \A k \in Consumers :
    tasks[k] = Cardinality({c \in Clients : hand[c] = k})
                 + (IF IsLive(handles[k]) THEN 1 ELSE 0)

\* The table, locked while a route comes up, is one slot per consumer.
Slots == INSTANCE RouteSlots WITH
  Names <- Consumers,
  Runs <- Settings,
  slot <- [k \in Consumers |->
             IF \E c \in Clients : pc[c] = "run" /\ hand[c] = k THEN "reserved"
             ELSE IF IsLive(handles[k]) THEN "running" ELSE "free"],
  running <- [k \in Consumers |->
                IF IsLive(handles[k]) THEN handles[k].settings ELSE None]

SlotSpec == Slots!SlotSpec

\* What runs is what is configured, also after an update that failed: a changed
\* consumer is stopped before its new settings can be seen.  An update beside
\* another or beside a start, each of which works on a copy, breaks it.
RunningFollowsConfig ==
  ~overlapped =>
    \A k \in Consumers : IsLive(handles[k]) => handles[k].settings = config[k]

\* File, memory and storage security hold the same configuration whenever no
\* update is under way, whether the last one was saved or failed; a failed write
\* may only leave a file that cannot be read.
CopiesAgree ==
  ~overlapped /\ ~Busy(UpdatePhases) =>
    security = config /\ file \in {config, Torn}

\* No call waits for ever: a status call holds the configuration while it waits
\* for the table, and nothing holds the table while it waits for the
\* configuration.
CallsReturn == \A c \in Clients : pc[c] # "idle" ~> pc[c] = "idle"

=============================================================================
