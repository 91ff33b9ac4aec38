----------------------------- MODULE McpRoutes -----------------------------
(***************************************************************************)
(* The route manager of the MCP server, crates/cli/src/mcp.rs.             *)
(*                                                                         *)
(* One server value is cloned into every session (run_http), so any number *)
(* of tool calls run concurrently over the same four pieces of state: the  *)
(* table of running routes, the set of names being started, the message    *)
(* counters of RouteMetrics, and the capture buffers, which live in a      *)
(* process-global registry keyed by topic and outlive their route.         *)
(*                                                                         *)
(* A client is one tool call at a time; a step is what a call does between *)
(* two points where it may be interrupted (an await, or releasing a lock). *)
(* A run is one route that got past the claim of its name: its RouteHandle *)
(* and the task behind it.  The routing engine (mq-bridge) is external: a  *)
(* task may move messages from the moment run() is called until it ends.   *)
(***************************************************************************)
EXTENDS Naturals, Sequences

CONSTANTS
  Clients,          \* concurrent tool calls
  Names,            \* route names
  Runs,             \* identities of the routes that start_route brings up
  KeepLast,         \* the values of capture_last a caller may pass, 0 included
  DefaultCapacity,  \* capacity of a capture channel opened without one
  MaxMessages,      \* bound: messages one run moves
  None              \* no run, no channel owner

ASSUME NoneIsNotARun == None \notin Runs
ASSUME CapacitiesAreNaturals ==
  /\ KeepLast \subseteq Nat
  /\ DefaultCapacity \in Nat \ {0}
  /\ MaxMessages \in Nat

VARIABLES
  routes,    \* BridgeMcp.routes: the run that holds each name
  starting,  \* BridgeMcp.starting: names reserved by a start in progress
  life,      \* the task of each run
  nameOf,    \* the name a run was started under
  keep,      \* its capture_last
  counters,  \* RouteMetrics.counters: which counter each name maps to
  count,     \* the value of each counter, a counter being known by the run
             \* that created it
  feeds,     \* the counter the handler of a run increments
  buffer,    \* the capture channel of each name: the run that pushed each message
  capacity,  \* its capacity, 0 until the channel is created
  pc,        \* where each call is
  name,      \* the name each call is about
  run,       \* the run each call works on
  reply,     \* what the last finished stop_route or wait_route reported
  moved      \* history: messages each run really moved

routeVars  == <<routes, starting>>
engineVars == <<life, nameOf, keep>>
metricVars == <<counters, count, feeds>>
captureVars == <<buffer, capacity>>
vars == <<routes, starting, life, nameOf, keep, counters, count, feeds,
          buffer, capacity, pc, name, run, reply, moved>>

StartPhases == {"counter", "run", "await", "insert",
                "fail_forget", "fail_drain", "fail_release"}
StopPhases  == {"stop_handle", "stop_read", "stop_forget", "stop_drain"}
ReadPhases  == {"drain", "poll", "wait_read"}
Phases == {"idle"} \cup StartPhases \cup StopPhases \cup ReadPhases

NoReply == [run |-> None, total |-> 0]

TypeOK ==
  /\ routes \in [Names -> Runs \cup {None}]
  /\ starting \in SUBSET Names
  /\ life \in [Runs -> {"unborn", "claimed", "live", "ended"}]
  /\ nameOf \in [Runs -> Names \cup {None}]
  /\ keep \in [Runs -> KeepLast \cup {0}]
  /\ counters \in [Names -> Runs \cup {None}]
  /\ count \in [Runs -> Nat]
  /\ feeds \in [Runs -> Runs]
  /\ buffer \in [Names -> Seq(Runs)]
  /\ capacity \in [Names -> Nat]
  /\ pc \in [Clients -> Phases]
  /\ name \in [Clients -> Names \cup {None}]
  /\ run \in [Clients -> Runs \cup {None}]
  /\ reply \in [Clients -> [run : Runs \cup {None}, total : Nat]]
  /\ moved \in [Runs -> Nat]

Init ==
  /\ routes = [n \in Names |-> None]
  /\ starting = {}
  /\ life = [r \in Runs |-> "unborn"]
  /\ nameOf = [r \in Runs |-> None]
  /\ keep = [r \in Runs |-> 0]
  /\ counters = [n \in Names |-> None]
  /\ count = [r \in Runs |-> 0]
  /\ feeds = [r \in Runs |-> r]
  /\ buffer = [n \in Names |-> <<>>]
  /\ capacity = [n \in Names |-> 0]
  /\ pc = [c \in Clients |-> "idle"]
  /\ name = [c \in Clients |-> None]
  /\ run = [c \in Clients |-> None]
  /\ reply = [c \in Clients |-> NoReply]
  /\ moved = [r \in Runs |-> 0]

-----------------------------------------------------------------------------
(* RouteMetrics and MessageCapture, as the manager uses them.              *)

\* sequence(key): 0 for a key that has no counter.
Sequence(n) == IF counters[n] = None THEN 0 ELSE count[counters[n]]

\* counter_for(key): the counter registered for the key, else a new one.
CounterFor(n, r) ==
  /\ counters' = [counters EXCEPT ![n] = IF @ = None THEN r ELSE @]
  /\ feeds' = [feeds EXCEPT ![r] = IF counters[n] = None THEN r ELSE counters[n]]

\* forget(key): the counter lives on in the handlers that hold it.
Forget(n) == counters' = [counters EXCEPT ![n] = None]

\* with_capacity and open: the channel is created on first access, and the
\* capacity of that access stays.
OpenCapture(n, k) ==
  capacity' = [capacity EXCEPT ![n] = IF @ = 0 THEN k ELSE @]

\* open(topic).drain(): every buffered message, leaving the buffer empty.
DrainCapture(n) ==
  /\ OpenCapture(n, DefaultCapacity)
  /\ buffer' = [buffer EXCEPT ![n] = <<>>]

\* push: the oldest message makes room when the channel is full.
Pushed(n, r) ==
  IF Len(buffer[n]) < capacity[n] THEN Append(buffer[n], r)
                                  ELSE Append(Tail(buffer[n]), r)

\* Call c goes on to its next phase, or returns.
Goto(c, phase) == pc' = [pc EXCEPT ![c] = phase]

Return(c) ==
  /\ Goto(c, "idle")
  /\ name' = [name EXCEPT ![c] = None]
  /\ run' = [run EXCEPT ![c] = None]

-----------------------------------------------------------------------------
(* start_route.                                                            *)

\* A bug: only the table is consulted, and a start in progress is overlooked.
StartClaimOverlooks(c, n, r, k) ==
  /\ pc[c] = "idle"
  /\ life[r] = "unborn"
  /\ routes[n] = None
  /\ starting' = starting \cup {n}
  /\ life' = [life EXCEPT ![r] = "claimed"]
  /\ nameOf' = [nameOf EXCEPT ![r] = n]
  /\ keep' = [keep EXCEPT ![r] = k]
  /\ Goto(c, "counter")
  /\ name' = [name EXCEPT ![c] = n]
  /\ run' = [run EXCEPT ![c] = r]
  /\ UNCHANGED <<routes, metricVars, captureVars, reply, moved>>

\* The name is claimed under both locks, or the call is rejected.
StartClaim(c, n, r, k) ==
  /\ pc[c] = "idle"
  /\ life[r] = "unborn"
  /\ routes[n] = None
  /\ n \notin starting
  /\ starting' = starting \cup {n}
  /\ life' = [life EXCEPT ![r] = "claimed"]
  /\ nameOf' = [nameOf EXCEPT ![r] = n]
  /\ keep' = [keep EXCEPT ![r] = k]
  /\ Goto(c, "counter")
  /\ name' = [name EXCEPT ![c] = n]
  /\ run' = [run EXCEPT ![c] = r]
  /\ UNCHANGED <<routes, metricVars, captureVars, reply, moved>>

StartCounter(c) ==
  /\ pc[c] = "counter"
  /\ CounterFor(name[c], run[c])
  /\ Goto(c, "run")
  /\ UNCHANGED <<routeVars, engineVars, count, captureVars, name, run, reply,
                 moved>>

\* The capture channel is opened only for a route that captures; from the
\* call of run() on, the task may move messages.
StartRun(c) ==
  /\ pc[c] = "run"
  /\ IF keep[run[c]] > 0 THEN OpenCapture(name[c], keep[run[c]])
                         ELSE UNCHANGED capacity
  /\ life' = [life EXCEPT ![run[c]] = "live"]
  /\ Goto(c, "await")
  /\ UNCHANGED <<routeVars, nameOf, keep, metricVars, buffer, name, run, reply,
                 moved>>

StartUp(c) ==
  /\ pc[c] = "await"
  /\ Goto(c, "insert")
  /\ UNCHANGED <<routeVars, engineVars, metricVars, captureVars, name, run,
                 reply, moved>>

\* run() returned an error: the engine has ended the task.
StartFailed(c) ==
  /\ pc[c] = "await"
  /\ life' = [life EXCEPT ![run[c]] = "ended"]
  /\ Goto(c, "fail_forget")
  /\ UNCHANGED <<routeVars, nameOf, keep, metricVars, captureVars, name, run,
                 reply, moved>>

\* A bug: the route is inserted and its reservation kept.
StartInsertKeeps(c) ==
  /\ pc[c] = "insert"
  /\ routes' = [routes EXCEPT ![name[c]] = run[c]]
  /\ Return(c)
  /\ UNCHANGED <<starting, engineVars, metricVars, captureVars, reply, moved>>

\* Both locks are held, so the name is never free while its route is live.
StartInsert(c) ==
  /\ pc[c] = "insert"
  /\ starting' = starting \ {name[c]}
  /\ routes' = [routes EXCEPT ![name[c]] = run[c]]
  /\ Return(c)
  /\ UNCHANGED <<engineVars, metricVars, captureVars, reply, moved>>

\* A bug: the name is released as soon as the start has failed.
FailForgetReleases(c) ==
  /\ pc[c] = "fail_forget"
  /\ Forget(name[c])
  /\ starting' = starting \ {name[c]}
  /\ Goto(c, "fail_drain")
  /\ UNCHANGED <<routes, engineVars, count, feeds, captureVars, name, run,
                 reply, moved>>

FailForget(c) ==
  /\ pc[c] = "fail_forget"
  /\ Forget(name[c])
  /\ Goto(c, "fail_drain")
  /\ UNCHANGED <<routeVars, engineVars, count, feeds, captureVars, name, run,
                 reply, moved>>

\* A bug: what the failed route has captured stays in the buffer.
FailDrainKeeps(c) ==
  /\ pc[c] = "fail_drain"
  /\ Goto(c, "fail_release")
  /\ UNCHANGED <<routeVars, engineVars, metricVars, captureVars, name, run,
                 reply, moved>>

FailDrain(c) ==
  /\ pc[c] = "fail_drain"
  /\ IF keep[run[c]] > 0 THEN DrainCapture(name[c]) ELSE UNCHANGED captureVars
  /\ Goto(c, "fail_release")
  /\ UNCHANGED <<routeVars, engineVars, metricVars, name, run, reply, moved>>

\* A bug: the failed start returns and leaves its reservation behind.
FailReleaseForgets(c) ==
  /\ pc[c] = "fail_release"
  /\ Return(c)
  /\ UNCHANGED <<routeVars, engineVars, metricVars, captureVars, reply, moved>>

\* The name is released last.
FailRelease(c) ==
  /\ pc[c] = "fail_release"
  /\ starting' = starting \ {name[c]}
  /\ Return(c)
  /\ UNCHANGED <<routes, engineVars, metricVars, captureVars, reply, moved>>

-----------------------------------------------------------------------------
(* stop_route: the handle leaves the table first, with the lock released;  *)
(* what follows runs beside every other call.                              *)

StopRemove(c, n) ==
  /\ pc[c] = "idle"
  /\ routes[n] # None
  /\ routes' = [routes EXCEPT ![n] = None]
  /\ Goto(c, "stop_handle")
  /\ name' = [name EXCEPT ![c] = n]
  /\ run' = [run EXCEPT ![c] = routes[n]]
  /\ UNCHANGED <<starting, engineVars, metricVars, captureVars, reply, moved>>

\* handle.stop().await returns when the task has ended.
StopHandle(c) ==
  /\ pc[c] = "stop_handle"
  /\ life' = [life EXCEPT ![run[c]] = "ended"]
  /\ Goto(c, "stop_read")
  /\ UNCHANGED <<routeVars, nameOf, keep, metricVars, captureVars, name, run,
                 reply, moved>>

StopRead(c) ==
  /\ pc[c] = "stop_read"
  /\ reply' = [reply EXCEPT ![c] = [run |-> run[c], total |-> Sequence(name[c])]]
  /\ Goto(c, "stop_forget")
  /\ UNCHANGED <<routeVars, engineVars, metricVars, captureVars, name, run,
                 moved>>

\* A bug: the counter stays registered for the next route of the name.
StopForgetKeeps(c) ==
  /\ pc[c] = "stop_forget"
  /\ Goto(c, "stop_drain")
  /\ UNCHANGED <<routeVars, engineVars, metricVars, captureVars, name, run,
                 reply, moved>>

StopForget(c) ==
  /\ pc[c] = "stop_forget"
  /\ Forget(name[c])
  /\ Goto(c, "stop_drain")
  /\ UNCHANGED <<routeVars, engineVars, count, feeds, captureVars, name, run,
                 reply, moved>>

\* A bug: only route_messages drains the buffer.
StopDrainKeeps(c) ==
  /\ pc[c] = "stop_drain"
  /\ Return(c)
  /\ UNCHANGED <<routeVars, engineVars, metricVars, captureVars, reply, moved>>

StopDrain(c) ==
  /\ pc[c] = "stop_drain"
  /\ DrainCapture(name[c])
  /\ Return(c)
  /\ UNCHANGED <<routeVars, engineVars, metricVars, reply, moved>>

-----------------------------------------------------------------------------
(* route_messages and wait_route: the table is consulted under the lock,   *)
(* the buffer and the counter are read after it is released.               *)

MessagesCheck(c, n) ==
  /\ pc[c] = "idle"
  /\ routes[n] # None
  /\ Goto(c, "drain")
  /\ name' = [name EXCEPT ![c] = n]
  /\ UNCHANGED <<routeVars, engineVars, metricVars, captureVars, run, reply,
                 moved>>

MessagesDrain(c) ==
  /\ pc[c] = "drain"
  /\ DrainCapture(name[c])
  /\ Return(c)
  /\ UNCHANGED <<routeVars, engineVars, metricVars, reply, moved>>

WaitBegin(c, n) ==
  /\ pc[c] = "idle"
  /\ Goto(c, "poll")
  /\ name' = [name EXCEPT ![c] = n]
  /\ UNCHANGED <<routeVars, engineVars, metricVars, captureVars, run, reply,
                 moved>>

\* The handle of the route that holds n has an outcome.
Finished(n) == routes[n] # None /\ life[routes[n]] = "ended"

\* The outcome of the route that holds the name, if its task has ended.
WaitFinished(c) ==
  /\ pc[c] = "poll"
  /\ Finished(name[c])
  /\ run' = [run EXCEPT ![c] = routes[name[c]]]
  /\ Goto(c, "wait_read")
  /\ UNCHANGED <<routeVars, engineVars, metricVars, captureVars, name, reply,
                 moved>>

\* An unknown name is an error; a deadline that passed leaves the route running,
\* and the total reported then is that of a route still moving, so it is not kept.
WaitGivesUp(c) ==
  /\ pc[c] = "poll"
  /\ ~Finished(name[c])
  /\ reply' = [reply EXCEPT ![c] = NoReply]
  /\ Return(c)
  /\ UNCHANGED <<routeVars, engineVars, metricVars, captureVars, moved>>

WaitRead(c) ==
  /\ pc[c] = "wait_read"
  /\ reply' = [reply EXCEPT ![c] = [run |-> run[c], total |-> Sequence(name[c])]]
  /\ Return(c)
  /\ UNCHANGED <<routeVars, engineVars, metricVars, captureVars, moved>>

-----------------------------------------------------------------------------
(* The task of a run, driven by the engine.                                *)

Capture(r) ==
  IF keep[r] > 0
  THEN buffer' = [buffer EXCEPT ![nameOf[r]] = Pushed(nameOf[r], r)]
  ELSE UNCHANGED buffer

\* The handler counts a message once, and captures every delivery of it.
HandleMessage(r) ==
  /\ life[r] = "live"
  /\ moved[r] < MaxMessages
  /\ count' = [count EXCEPT ![feeds[r]] = @ + 1]
  /\ moved' = [moved EXCEPT ![r] = @ + 1]
  /\ Capture(r)
  /\ UNCHANGED <<routeVars, engineVars, counters, feeds, capacity, pc, name,
                 run, reply>>

HandleRedelivery(r) ==
  /\ life[r] = "live"
  /\ moved[r] > 0
  /\ Capture(r)
  /\ UNCHANGED <<routeVars, engineVars, metricVars, capacity, pc, name, run,
                 reply, moved>>

\* A drained or failed task ends on its own; its handle stays in the table.
TaskEnds(r) ==
  /\ life[r] = "live"
  /\ life' = [life EXCEPT ![r] = "ended"]
  /\ UNCHANGED <<routeVars, nameOf, keep, metricVars, captureVars, pc, name,
                 run, reply, moved>>

CallStep(c) ==
  \/ StartCounter(c) \/ StartRun(c) \/ StartUp(c) \/ StartFailed(c)
  \/ StartInsert(c) \/ FailForget(c) \/ FailDrain(c) \/ FailRelease(c)
  \/ StopHandle(c) \/ StopRead(c) \/ StopForget(c) \/ StopDrain(c)
  \/ MessagesDrain(c) \/ WaitFinished(c) \/ WaitGivesUp(c) \/ WaitRead(c)

CallBegins(c) ==
  \E n \in Names :
    \/ \E r \in Runs, k \in KeepLast : StartClaim(c, n, r, k)
    \/ StopRemove(c, n)
    \/ MessagesCheck(c, n)
    \/ WaitBegin(c, n)

Next ==
  \/ \E c \in Clients : CallBegins(c) \/ CallStep(c)
  \/ \E r \in Runs : HandleMessage(r) \/ HandleRedelivery(r) \/ TaskEnds(r)

Spec == Init /\ [][Next]_vars

\* A call that has begun is driven to its end by the async runtime: the locks
\* are fair, run() and stop() return, and wait_route has a deadline.
FairSpec == Spec /\ \A c \in Clients : WF_vars(CallStep(c))

-----------------------------------------------------------------------------
(* What holds whatever the calls interleave.                               *)

\* A live task is always reachable: the table holds its handle, or a call that
\* is starting or stopping it does.  RouteHandle has no Drop, so a handle lost
\* by a second start of the name would leave a task nothing can stop.
NoOrphanRoute ==
  \A r \in Runs :
    life[r] = "live" =>
      \/ routes[nameOf[r]] = r
      \/ \E c \in Clients : /\ pc[c] \in {"await", "insert", "stop_handle"}
                            /\ run[c] = r

\* While a start is in progress its name is reserved, no route holds it and no
\* other start works on it, up to the step that gives the name away again: the
\* `routes` and `starting` locks are one decision.
ReservationIsExclusive ==
  \A c \in Clients :
    pc[c] \in StartPhases =>
      /\ name[c] \in starting
      /\ routes[name[c]] = None
      /\ \A d \in Clients :
           pc[d] \in StartPhases /\ name[d] = name[c] => d = c

\* Call c may still leave something behind under name n.
WorksOn(c, n) == name[c] = n /\ pc[c] \in StartPhases \cup StopPhases

\* A name no route holds and no start or stop works on is as good as new: a
\* failed start and a stop leave neither a counter nor captured messages that
\* the next route of that name would inherit, in whatever order they finish.
QuiescentNameIsClean ==
  \A n \in Names :
    routes[n] = None /\ (\A c \in Clients : ~WorksOn(c, n)) =>
      counters[n] = None /\ buffer[n] = <<>>

\* The table and the reservations together implement one slot per name.
Slots == INSTANCE RouteSlots WITH
  slot <- [n \in Names |-> IF n \in starting THEN "reserved"
                           ELSE IF routes[n] # None THEN "running" ELSE "free"],
  running <- routes

SlotSpec == Slots!SlotSpec

\* A reserved name is released in the end, so a failed start can be retried.
NamesAreReleased == \A n \in Names : n \in starting ~> n \notin starting

-----------------------------------------------------------------------------
(* What holds of one caller that waits for each answer before the next     *)
(* call, and not of concurrent callers: stop_route frees the name before   *)
(* it clears the counter and the capture buffer kept under that name.      *)

\* What list_routes and route_status show for a route is what it has moved, and
\* stop_route and wait_route report the total of the route they ended with.
TotalsAreTrue ==
  /\ \A n \in Names :
       routes[n] # None => Sequence(n) = moved[routes[n]]
  /\ \A c \in Clients :
       reply[c].run # None => reply[c].total = moved[reply[c].run]

\* route_messages returns messages of the route that holds the name only.
CapturedAreOwn ==
  \A n \in Names :
    routes[n] # None =>
      \A i \in DOMAIN buffer[n] : buffer[n][i] = routes[n]

\* A route started with capture_last: N keeps its last N messages.
KeepsLastN ==
  \A n \in Names :
    routes[n] # None /\ keep[routes[n]] > 0 => capacity[n] = keep[routes[n]]

=============================================================================
