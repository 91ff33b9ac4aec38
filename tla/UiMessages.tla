----------------------------- MODULE UiMessages -----------------------------
(***************************************************************************)
(* How the browser UI learns what its consumers do and collects what they  *)
(* capture: the status poller of ui/src/lib/runtime-status.ts and the      *)
(* message fetching of ui/src/lib/consumers-view.ts.                       *)
(*                                                                         *)
(* A step is what JavaScript does between two awaits of a request.  The    *)
(* server is external: its counters and its capture buffer are those of    *)
(* RouteMetrics and MessageCapture.  Messages are numbered in the order in *)
(* which they are captured, consumers in the order of the list; the key of *)
(* a consumer is its id, which every loaded consumer has.                  *)
(***************************************************************************)
EXTENDS Naturals, Sequences, FiniteSets

CONSTANTS
  NumConsumers,
  Polls,        \* bound: the polls under way at a time
  Timer,        \* the poll of the interval, which waits for its last one
  NumFetches,   \* bound: the fetch loops under way at a time
  KeepLast,     \* what keep_last may be
  Buffer,       \* the capacity of a capture buffer
  MaxMessages,  \* bound
  MaxEvents,    \* bound: what fails and what the user changes
  None

ASSUME ConstantsAssumption ==
  /\ NumConsumers \in Nat \ {0}
  /\ Timer \in Polls
  /\ NumFetches \in Nat \ {0}
  /\ KeepLast \subseteq Nat \ {0} /\ 1 \in KeepLast
  /\ \E n \in KeepLast : \A i \in KeepLast : i <= n
  /\ Buffer \in Nat \ {0}
  /\ MaxMessages \in Nat

Consumers == 1 .. NumConsumers
Messages  == 1 .. MaxMessages
Fetches   == 1 .. NumFetches
Outcomes  == {None, "ended"}

VARIABLES
  buffer,    \* external: the capture buffer of each consumer, oldest first
  count,     \* external: message_sequence
  up,        \* external: whether the consumer runs
  outcome,   \* external: how it ended, if it ended by itself
  capture,   \* message_capture of each consumer on the page
  rows,      \* messagesByConsumer, newest block first
  stored,    \* the rows in the browser's storage
  lastSeen,  \* lastMessageSequenceByConsumer
  finalPoll, \* finalPollByConsumer
  runtime,   \* the status as last published
  polls, fetches,
  captured, events,
  restarted, \* history: whether the server has been restarted
  gone       \* history: the messages that are dropped

server == <<buffer, count, up, outcome, captured>>
view == <<capture, rows, stored, lastSeen, finalPoll>>
vars == <<server, view, runtime, polls, fetches, events, restarted,
          gone>>

Status == [running : BOOLEAN, message_sequence : Nat, outcome : Outcomes]
Statuses == [Consumers -> Status]

NoPoll == [phase |-> "free", answer |-> None]
NoFetch == [phase |-> "free", at |-> 0, runtime |-> None, keep |-> 1,
            answer |-> <<>>]

\* The elements of a sequence, and the first n of them.
Elements(s) == {s[i] : i \in DOMAIN s}
slice(s, n) == SubSeq(s, 1, IF Len(s) < n THEN Len(s) ELSE n)
Dropped(s, n) == Elements(s) \ Elements(slice(s, n))

DEFAULT_CAPTURE ==
  [enabled |-> TRUE, keep_last |-> CHOOSE n \in KeepLast : \A i \in KeepLast : i <= n]

\* EMPTY_RUNTIME_STATUS has no consumers: none of them runs.
EMPTY_RUNTIME_STATUS ==
  [k \in Consumers |-> [running |-> FALSE, message_sequence |-> 0,
                        outcome |-> None]]

\* The outcome is not among the fields that are carried over.
normalizeStatus(raw) == [k \in Consumers |-> [raw[k] EXCEPT !.outcome = None]]

TypeOK ==
  /\ buffer \in [Consumers -> Seq(Messages)]
  /\ \A k \in Consumers : Len(buffer[k]) <= Buffer
  /\ count \in [Consumers -> 0 .. MaxMessages]
  /\ up \in [Consumers -> BOOLEAN]
  /\ outcome \in [Consumers -> Outcomes]
  /\ capture \in [Consumers -> [enabled : BOOLEAN, keep_last : KeepLast]]
  /\ rows \in [Consumers -> Seq(Messages)]
  /\ \A k \in Consumers : \E n \in KeepLast : Len(rows[k]) <= n
  /\ stored = rows
  /\ lastSeen \in [Consumers -> 0 .. MaxMessages]
  /\ runtime \in Statuses
  /\ \A p \in Polls : polls[p].phase \in {"free", "answered"}
  /\ \A f \in Fetches :
       /\ fetches[f].phase \in {"free", "asked", "answered"}
       /\ fetches[f].phase # "free" => fetches[f].at \in Consumers

Init ==
  /\ buffer = [k \in Consumers |-> <<>>]
  /\ count = [k \in Consumers |-> 0]
  /\ up \in [Consumers -> BOOLEAN]
  /\ outcome = [k \in Consumers |-> None]
  /\ capture = [k \in Consumers |-> DEFAULT_CAPTURE]
  /\ rows = [k \in Consumers |-> <<>>]
  /\ stored = rows
  /\ lastSeen = [k \in Consumers |-> 0]
  /\ finalPoll = [k \in Consumers |-> None]
  /\ runtime = EMPTY_RUNTIME_STATUS
  /\ polls = [p \in Polls |-> NoPoll]
  /\ fetches = [f \in Fetches |-> NoFetch]
  /\ captured = 0 /\ events = 0
  /\ restarted = FALSE
  /\ gone = {}

Event == events < MaxEvents /\ events' = events + 1

-----------------------------------------------------------------------------
(* The server: a consumer starts, captures, stops, or ends by itself.      *)

Start(k) ==
  /\ ~ up[k]
  /\ Event
  /\ up' = [up EXCEPT ![k] = TRUE]
  /\ outcome' = [outcome EXCEPT ![k] = None]
  /\ UNCHANGED <<buffer, count, captured, view, runtime, polls, fetches,
                 restarted, gone>>

Stop(k, how) ==
  /\ up[k]
  /\ Event
  /\ up' = [up EXCEPT ![k] = FALSE]
  /\ outcome' = [outcome EXCEPT ![k] = how]
  /\ UNCHANGED <<buffer, count, captured, view, runtime, polls, fetches,
                 restarted, gone>>

Capture(k) ==
  /\ up[k]
  /\ captured < MaxMessages
  /\ captured' = captured + 1
  /\ count' = [count EXCEPT ![k] = @ + 1]
  /\ LET full == Len(buffer[k]) = Buffer
         rest == IF full THEN Tail(buffer[k]) ELSE buffer[k]
     IN  /\ buffer' = [buffer EXCEPT ![k] = Append(rest, captured')]
         /\ gone' = IF full THEN gone \cup {Head(buffer[k])} ELSE gone
  /\ UNCHANGED <<up, outcome, view, runtime, polls, fetches, events,
                 restarted>>

\* Buffers and counters are in memory only.
ServerRestart ==
  /\ Event
  /\ gone' = gone \cup UNION {Elements(buffer[k]) : k \in Consumers}
  /\ buffer' = [k \in Consumers |-> <<>>]
  /\ count' = [k \in Consumers |-> 0]
  /\ up' = [k \in Consumers |-> FALSE]
  /\ outcome' = [k \in Consumers |-> None]
  /\ restarted' = TRUE
  /\ UNCHANGED <<captured, view, runtime, polls, fetches>>

-----------------------------------------------------------------------------
(* The fetch loop: one consumer after the other, each on the status that   *)
(* was published when the loop began.                                      *)

\* A route that has ended is polled once for its outcome and sequence.
terminal(k, status) == ~ status[k].running /\ status[k].outcome # None

\* A bug: a list without rows is left alone.
wantsFetchIfRows(k, status) ==
  /\ status[k].running \/ status[k].outcome # None
  /\ capture[k].enabled
  /\ status[k].message_sequence > lastSeen[k] /\ rows[k] # <<>>

wantsFetch(k, status) ==
  /\ status[k].running \/ status[k].outcome # None
  /\ capture[k].enabled
  /\ IF terminal(k, status)
     THEN finalPoll[k] # <<status[k].outcome, status[k].message_sequence>>
     ELSE status[k].message_sequence > lastSeen[k] \/ rows[k] = <<>>

\* The loop goes on after consumer k, with what has become of the rows.
Asking(k, status) ==
  LET later == {j \in Consumers : j > k /\ wantsFetch(j, status)}
  IN  IF later = {} THEN NoFetch
      ELSE LET j == CHOOSE i \in later : \A l \in later : i <= l
           IN  [phase |-> "asked", at |-> j, runtime |-> status,
                keep |-> capture[j].keep_last, answer |-> <<>>]

Drain(f) ==
  LET k == fetches[f].at IN
  /\ fetches[f].phase = "asked"
  /\ fetches' = [fetches EXCEPT ![f].phase = "answered", ![f].answer = buffer[k]]
  /\ buffer' = [buffer EXCEPT ![k] = <<>>]
  /\ UNCHANGED <<count, up, outcome, captured, view, runtime, polls,
                 events, restarted, gone>>

\* A bug: the rows are those in storage together with those on the page.
mergedTwice(k, answer) == answer \o rows[k] \o stored[k]

\* The answer goes before the rows there are now.
merged(k, answer) == answer \o rows[k]

fetchNewMessagesForRunningConsumers(f) ==
  LET fetch == fetches[f]
      k == fetch.at
      all == merged(k, fetch.answer)
      seen == fetch.runtime[k]
  IN  /\ fetch.phase = "answered"
      /\ rows' = [rows EXCEPT ![k] = slice(all, fetch.keep)]
      /\ stored' = rows'
      /\ gone' = gone \cup Dropped(all, fetch.keep)
      /\ lastSeen' = [lastSeen EXCEPT ![k] = seen.message_sequence]
      /\ finalPoll' = IF terminal(k, fetch.runtime)
                      THEN [finalPoll EXCEPT ![k] = <<seen.outcome,
                                                      seen.message_sequence>>]
                      ELSE finalPoll
      /\ fetches' = [fetches EXCEPT ![f] = Asking(k, fetch.runtime)]
      /\ UNCHANGED <<server, capture, runtime, polls, events, restarted>>

\* An answer that is not ok: the loop goes on.  A request that throws ends it.
\* Either way what the server has drained for it is lost.
fetchFails(f) ==
  LET fetch == fetches[f] IN
  /\ fetch.phase # "free"
  /\ Event
  /\ gone' = gone \cup Elements(fetch.answer)
  /\ \/ fetches' = [fetches EXCEPT ![f] = Asking(fetch.at, fetch.runtime)]
     \/ fetches' = [fetches EXCEPT ![f] = NoFetch]
  /\ UNCHANGED <<server, view, runtime, polls, restarted>>

\* The first slot that is free.
NextFree(f) ==
  /\ fetches[f].phase = "free"
  /\ \A g \in Fetches : g < f => fetches[g].phase # "free"

\* The timer of two seconds begins a loop on the status there is.
scheduleMessagePolling(f) ==
  /\ NextFree(f)
  /\ Asking(0, runtime) # NoFetch
  /\ fetches' = [fetches EXCEPT ![f] = Asking(0, runtime)]
  /\ UNCHANGED <<server, view, runtime, polls, events, restarted, gone>>

-----------------------------------------------------------------------------
(* The status poller.  The interval waits for the poll it has begun; a     *)
(* poll that a toggle asks for does not.  A poll takes one step of the server and *)
(* one of the page; the status of the peers is awaited with it.            *)

poll(p) ==
  /\ polls[p].phase = "free"
  /\ IF p = Timer THEN UNCHANGED events ELSE Event
  /\ polls' = [polls EXCEPT ![p] =
       [phase |-> "answered",
        answer |-> normalizeStatus(
          [k \in Consumers |-> [running |-> up[k], message_sequence |-> count[k],
                                outcome |-> outcome[k]]])]]
  /\ UNCHANGED <<server, view, runtime, fetches, restarted, gone>>

pollFails(p) ==
  /\ polls[p].phase = "free"
  /\ Event
  /\ polls' = [polls EXCEPT ![p] = [phase |-> "answered",
                                    answer |-> EMPTY_RUNTIME_STATUS]]
  /\ UNCHANGED <<server, view, runtime, fetches, restarted, gone>>

\* A published status is the runtime of the page, and begins a fetch loop.
publish(p, f) ==
  /\ polls[p].phase = "answered"
  /\ NextFree(f)
  /\ runtime' = polls[p].answer
  /\ polls' = [polls EXCEPT ![p] = NoPoll]
  /\ fetches' = [fetches EXCEPT ![f] = Asking(0, polls[p].answer)]
  /\ UNCHANGED <<server, view, events, restarted, gone>>

-----------------------------------------------------------------------------
(* What the user does, and the page that is loaded or set up again.        *)

clearActiveConsumerHistory(k) ==
  /\ rows[k] # <<>>
  /\ Event
  /\ gone' = gone \cup Elements(rows[k])
  /\ rows' = [rows EXCEPT ![k] = <<>>]
  /\ stored' = rows'
  /\ UNCHANGED <<server, capture, lastSeen, finalPoll, runtime, polls, fetches,
                 restarted>>

atLeastOne(n) == IF n < 1 THEN 1 ELSE n

setConsumerMessageCaptureKeepLastAction(k, typed) ==
  LET n == atLeastOne(typed) IN
  /\ n # capture[k].keep_last
  /\ Event
  /\ capture' = [capture EXCEPT ![k].keep_last = n]
  /\ gone' = gone \cup Dropped(rows[k], n)
  /\ rows' = [rows EXCEPT ![k] = slice(@, n)]
  /\ stored' = rows'
  /\ UNCHANGED <<server, lastSeen, finalPoll, runtime, polls, fetches,
                 restarted>>

setConsumerMessageCaptureEnabledAction(k) ==
  /\ Event
  /\ capture' = [capture EXCEPT ![k].enabled = ~ @]
  /\ UNCHANGED <<server, rows, stored, lastSeen, finalPoll, runtime, polls,
                 fetches, restarted, gone>>

\* initConsumers, after a save of the workspace: the loops go on.
initConsumers ==
  /\ Event
  /\ rows' = stored
  /\ lastSeen' = [k \in Consumers |-> 0]
  /\ finalPoll' = [k \in Consumers |-> None]
  /\ UNCHANGED <<server, capture, stored, runtime, polls, fetches,
                 restarted, gone>>

Reload ==
  /\ Event
  /\ rows' = stored
  /\ lastSeen' = [k \in Consumers |-> 0]
  /\ finalPoll' = [k \in Consumers |-> None]
  /\ runtime' = EMPTY_RUNTIME_STATUS
  /\ gone' = gone \cup UNION {Elements(fetches[f].answer) : f \in Fetches}
  /\ polls' = [p \in Polls |-> NoPoll]
  /\ fetches' = [f \in Fetches |-> NoFetch]
  /\ UNCHANGED <<server, capture, stored, restarted>>

Next ==
  \/ \E k \in Consumers :
       \/ Start(k) \/ Capture(k)
       \/ \E how \in Outcomes : Stop(k, how)
       \/ clearActiveConsumerHistory(k)
       \/ \E n \in KeepLast \cup {0} : setConsumerMessageCaptureKeepLastAction(k, n)
       \/ setConsumerMessageCaptureEnabledAction(k)
  \/ ServerRestart
  \/ initConsumers
  \/ Reload
  \/ \E p \in Polls :
       \/ poll(p) \/ pollFails(p)
       \/ \E f \in Fetches : publish(p, f)
  \/ \E f \in Fetches :
       \/ Drain(f)
       \/ fetchNewMessagesForRunningConsumers(f)
       \/ fetchFails(f)
       \/ scheduleMessagePolling(f)

\* The interval of the poller fires for ever, and requests are answered.
Fairness ==
  /\ WF_vars(poll(Timer))
  /\ SF_vars(\E f \in Fetches : publish(Timer, f))
  /\ \A f \in Fetches : WF_vars(Drain(f) \/ fetchNewMessagesForRunningConsumers(f))

Spec == Init /\ [][Next]_vars /\ Fairness

-----------------------------------------------------------------------------
(* Where a message may be, and what is there.                              *)
Places == ({"buffer", "rows"} \X Consumers) \cup ({"answer"} \X Fetches)

At(p) == CASE p[1] = "buffer" -> buffer[p[2]]
           [] p[1] = "rows"   -> rows[p[2]]
           [] p[1] = "answer" -> fetches[p[2]].answer

(* Every captured message is in one place, once: in the server's buffer,   *)
(* in an answer on its way, in the rows of a consumer, or dropped for a    *)
(* reason (a limit, a clear, a failed request, a reload, a restart).  No   *)
(* interleaving of fetch loops, polls and the user loses or doubles one    *)
(* (fetchNewMessagesForRunningConsumers reads the rows after its await).   *)
EachMessageOnePlace ==
  /\ \A m \in 1 .. captured :
       Cardinality({p \in Places : m \in Elements(At(p))}) =
         IF m \in gone THEN 0 ELSE 1
  /\ \A p \in Places : \A i, j \in DOMAIN At(p) : At(p)[i] = At(p)[j] => i = j

(* A message captured while its consumer runs is collected, unless the     *)
(* consumer stops, its capture is switched off or the server restarts:     *)
(* whatever older status or answer comes late, a later poll makes up for   *)
(* it (the guard on the sequence, and the poller's interval).              *)
CapturedIsCollected ==
  \A k \in Consumers, m \in Messages :
    (m \in Elements(buffer[k])) ~>
      (\/ m \notin Elements(buffer[k]) \/ ~ up[k] \/ ~ capture[k].enabled
       \/ restarted)

(* "A route that just finished is no longer running but may still hold the *)
(* tail of its capture, so it gets one more poll" (consumers-view.ts:577). *)
FinishedTailIsFetched ==
  \A k \in Consumers :
    (outcome[k] # None /\ capture[k].enabled /\ buffer[k] # <<>>) ~>
      (\/ buffer[k] = <<>> \/ up[k] \/ ~ capture[k].enabled \/ restarted)

=============================================================================
