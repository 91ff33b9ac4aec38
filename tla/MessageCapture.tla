--------------------------- MODULE MessageCapture ---------------------------
(***************************************************************************)
(* MessageCapture of crates/core/src/route_metrics.rs: the bounded buffer  *)
(* of the most recent messages of a route.                                 *)
(*                                                                         *)
(* A pusher is one handler of the route; a route of concurrency N runs N   *)
(* of them at a time.  A reader is a call of drain(): the UI's /messages,  *)
(* or the MCP server.  The channel is external: its try_send and try_recv  *)
(* are atomic, and a push makes up to three of those calls.  A message is  *)
(* its number, in the order of the first calls of try_send.                *)
(***************************************************************************)
EXTENDS Naturals, Sequences, SequencesExt

CONSTANTS
  Pushers,    \* handlers of the route
  Readers,    \* concurrent drains
  Capacity,   \* keep_last.max(1), at least 1
  MaxPushed   \* bound: messages pushed

ASSUME CapacityIsPositive == Capacity \in Nat \ {0}
ASSUME BoundIsNatural == MaxPushed \in Nat

VARIABLES
  queue,   \* the channel
  pushed,  \* history: the number of pushes begun
  phase,   \* where each pusher is
  msg,     \* the message it has yet to put into the channel
  draining, \* whether each reader is in drain()
  got,     \* what that drain() has taken so far
  lost,    \* history: the messages that made room, or found none
  owner,   \* history: the pusher of each message
  overlapped \* history: whether two pushes have ever run at a time

captureVars == <<queue, pushed, phase, msg, draining, got, lost, owner, overlapped>>
history == <<owner, overlapped>>

Messages == 1 .. MaxPushed

CaptureTypeOK ==
  /\ queue \in Seq(Messages)
  /\ Len(queue) <= Capacity
  /\ pushed \in 0 .. MaxPushed
  /\ phase \in [Pushers -> {"idle", "evict", "resend"}]
  /\ msg \in [Pushers -> 0 .. MaxPushed]
  /\ draining \in [Readers -> BOOLEAN]
  /\ got \in [Readers -> Seq(Messages)]
  /\ lost \subseteq Messages
  /\ owner \in Seq(Pushers)
  /\ overlapped \in BOOLEAN

CaptureInit ==
  /\ queue = <<>>
  /\ pushed = 0
  /\ phase = [p \in Pushers |-> "idle"]
  /\ msg = [p \in Pushers |-> 0]
  /\ draining = [r \in Readers |-> FALSE]
  /\ got = [r \in Readers |-> <<>>]
  /\ lost = {}
  /\ owner = <<>>
  /\ overlapped = FALSE

HasRoom == Len(queue) < Capacity

\* The message is tagged, and the first try_send succeeds or finds no room.
PushSend(p) ==
  /\ phase[p] = "idle"
  /\ pushed < MaxPushed
  /\ pushed' = pushed + 1
  /\ msg' = [msg EXCEPT ![p] = IF HasRoom THEN 0 ELSE pushed']
  /\ queue' = IF HasRoom THEN Append(queue, pushed') ELSE queue
  /\ phase' = [phase EXCEPT ![p] = IF HasRoom THEN "idle" ELSE "evict"]
  /\ owner' = Append(owner, p)
  /\ overlapped' = (overlapped \/ \E q \in Pushers : phase[q] # "idle")
  /\ UNCHANGED <<draining, got, lost>>

\* A bug: nothing makes room, so it is the new message that goes.
PushEvictNothing(p) ==
  /\ phase[p] = "evict"
  /\ phase' = [phase EXCEPT ![p] = "resend"]
  /\ UNCHANGED <<queue, pushed, msg, draining, got, lost, history>>

\* try_recv: the channel may have been drained in the meantime.
PushEvict(p) ==
  /\ phase[p] = "evict"
  /\ queue' = IF queue = <<>> THEN queue ELSE Tail(queue)
  /\ lost' = IF queue = <<>> THEN lost ELSE lost \cup {Head(queue)}
  /\ phase' = [phase EXCEPT ![p] = "resend"]
  /\ UNCHANGED <<pushed, msg, draining, got, history>>

\* The second try_send, whose result is ignored.
PushResend(p) ==
  /\ phase[p] = "resend"
  /\ queue' = IF HasRoom THEN Append(queue, msg[p]) ELSE queue
  /\ lost' = IF HasRoom THEN lost ELSE lost \cup {msg[p]}
  /\ phase' = [phase EXCEPT ![p] = "idle"]
  /\ msg' = [msg EXCEPT ![p] = 0]
  /\ UNCHANGED <<pushed, draining, got, history>>

DrainBegin(r) ==
  /\ ~draining[r]
  /\ draining' = [draining EXCEPT ![r] = TRUE]
  /\ got' = [got EXCEPT ![r] = <<>>]
  /\ UNCHANGED <<queue, pushed, phase, msg, lost, history>>

\* A bug: a drain copies the messages and clears the channel at its end.
DrainTakeCopies(r) ==
  /\ draining[r]
  /\ Len(got[r]) < Len(queue)
  /\ got' = [got EXCEPT ![r] = Append(@, queue[Len(@) + 1])]
  /\ UNCHANGED <<queue, pushed, phase, msg, draining, lost, history>>

\* try_recv, until the channel is empty.
DrainTake(r) ==
  /\ draining[r]
  /\ queue # <<>>
  /\ got' = [got EXCEPT ![r] = Append(@, Head(queue))]
  /\ queue' = Tail(queue)
  /\ UNCHANGED <<pushed, phase, msg, draining, lost, history>>

DrainEnd(r) ==
  /\ draining[r]
  /\ queue = <<>>
  /\ draining' = [draining EXCEPT ![r] = FALSE]
  /\ UNCHANGED <<queue, pushed, phase, msg, got, lost, history>>

CaptureNext ==
  \/ \E p \in Pushers : PushSend(p) \/ PushEvict(p) \/ PushResend(p)
  \/ \E r \in Readers : DrainBegin(r) \/ DrainTake(r) \/ DrainEnd(r)

CaptureSpec == CaptureInit /\ [][CaptureNext]_captureVars

-----------------------------------------------------------------------------
(* Properties.                                                             *)

\* The messages pusher p has yet to put into the channel.
InHand(p) == IF phase[p] = "idle" THEN {} ELSE {msg[p]}

\* Reads are destructive: a message is returned to one drain, once, and none is
\* both returned and counted as lost, or still in the channel.
EachMessageOnce ==
  /\ IsInjective(queue)
  /\ \A r \in Readers :
       /\ IsInjective(got[r])
       /\ Range(got[r]) \cap (Range(queue) \cup lost) = {}
       /\ \A q \in Readers \ {r} : Range(got[r]) \cap Range(got[q]) = {}
  /\ Range(queue) \cap lost = {}
  /\ \A p \in Pushers : InHand(p) \cap (Range(queue) \cup lost) = {}

\* A message that had to go is older than every message that stayed: the buffer
\* holds the last ones.  Handlers that push at the same time break it.
OldestIsDropped ==
  \A m \in lost, i \in DOMAIN queue : m < queue[i]

\* Pushes that never overlap, as those of a route with one handler, keep the
\* last messages, whatever the drains take between the calls of one push; and
\* however many handlers and drains there are, the messages of one handler stay
\* in the order it pushed them, in the channel and in what a drain returns.
PushesKeepTheLast ==
  /\ ~overlapped => OldestIsDropped
  /\ \A s \in {queue} \cup Range(got) :
       \A i, j \in DOMAIN s :
         i < j /\ owner[s[i]] = owner[s[j]] => s[i] < s[j]

=============================================================================
