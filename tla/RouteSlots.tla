----------------------------- MODULE RouteSlots -----------------------------
(***************************************************************************)
(* What a route manager promises about its names, whatever locks and       *)
(* tables it uses: each name is one slot, which goes from free to reserved *)
(* to running and back to free.  A running route is never replaced: the    *)
(* slot has to become free before another route can be reserved in it.     *)
(* McpRoutes (crates/cli/src/mcp.rs) implements this specification.        *)
(***************************************************************************)

CONSTANTS
  Names,   \* route names
  Runs,    \* the routes that may be brought up, one identity per start
  None     \* no route

VARIABLES
  slot,    \* the phase of each name
  running  \* the route that holds each running name

slotVars == <<slot, running>>

SlotPhases == {"free", "reserved", "running"}

SlotTypeOK ==
  /\ slot \in [Names -> SlotPhases]
  /\ running \in [Names -> Runs \cup {None}]

SlotInit ==
  /\ slot = [n \in Names |-> "free"]
  /\ running = [n \in Names |-> None]

\* A start claims a free name.
Reserve(n) ==
  /\ slot[n] = "free"
  /\ slot' = [slot EXCEPT ![n] = "reserved"]
  /\ UNCHANGED running

\* The start that holds the reservation puts its route in the slot.
Commit(n, r) ==
  /\ slot[n] = "reserved"
  /\ slot' = [slot EXCEPT ![n] = "running"]
  /\ running' = [running EXCEPT ![n] = r]

\* The start failed: the name is free again.
Abort(n) ==
  /\ slot[n] = "reserved"
  /\ slot' = [slot EXCEPT ![n] = "free"]
  /\ UNCHANGED running

\* A stop takes the route out of its slot.
Release(n) ==
  /\ slot[n] = "running"
  /\ slot' = [slot EXCEPT ![n] = "free"]
  /\ running' = [running EXCEPT ![n] = None]

SlotNext ==
  \E n \in Names :
    \/ Reserve(n)
    \/ \E r \in Runs : Commit(n, r)
    \/ Abort(n)
    \/ Release(n)

SlotSpec == SlotInit /\ [][SlotNext]_slotVars

=============================================================================
