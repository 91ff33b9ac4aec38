---------------------------- MODULE RouteMetrics ----------------------------
(***************************************************************************)
(* RouteMetrics of crates/core/src/route_metrics.rs: message counters, the *)
(* sampler that derives rates from them, and the timing of each key.       *)
(*                                                                         *)
(* Three maps, each behind a lock of its own: counters, samples, starts.   *)
(* The lock of the counters is held across the updates of the others; the  *)
(* locks of the samples and of the starts are held for one access, except  *)
(* by the sampler.  A task is one call at a time; the sampler is one more  *)
(* process.  What is taken under a lock in one go is one step.             *)
(***************************************************************************)
EXTENDS Naturals, Sequences

CONSTANTS
  Keys,      \* routes, consumers and publishers
  Tasks,     \* concurrent callers
  MaxTime,   \* bound: the clock
  MaxCount,  \* bound: messages counted for one key
  None       \* no entry, no holder

ASSUME BoundsAreNaturals == MaxTime \in Nat /\ MaxCount \in Nat
ASSUME NoneIsNothing == None \notin Nat /\ None \notin Tasks

VARIABLES
  now,       \* the clock
  counters,  \* the count of each key that has a counter
  samples,   \* total_messages and last_change_at of each sampled key
  starts,    \* when the counter of each key was created
  pc,        \* where each task is
  key,       \* the key it is about
  writer,    \* the task that holds the counters lock for writing
  sampling,  \* where the sampler is
  holds,     \* the locks it holds
  tick       \* the instant of its tick

callVars == <<pc, key>>
samplerVars == <<sampling, holds, tick>>
vars == <<now, counters, samples, starts, pc, key, writer,
          sampling, holds, tick>>

SampleType == [total : 0 .. MaxCount, changed : 0 .. MaxTime]

TypeOK ==
  /\ now \in 0 .. MaxTime
  /\ counters \in [Keys -> 0 .. MaxCount \cup {None}]
  /\ samples \in [Keys -> SampleType \cup {None}]
  /\ starts \in [Keys -> 0 .. MaxTime \cup {None}]
  /\ pc \in [Tasks -> {"idle", "counter", "start", "forget", "samples", "starts"}]
  /\ key \in [Tasks -> Keys \cup {None}]
  /\ writer \in Tasks \cup {None}
  /\ sampling \in 0 .. 3
  /\ holds \subseteq {"counters", "samples"}
  /\ tick \in 0 .. MaxTime

Init ==
  /\ now = 0
  /\ counters = [k \in Keys |-> None]
  /\ samples = [k \in Keys |-> None]
  /\ starts = [k \in Keys |-> None]
  /\ pc = [t \in Tasks |-> "idle"]
  /\ key = [t \in Tasks |-> None]
  /\ writer = None
  /\ sampling = 0
  /\ holds = {}
  /\ tick = 0

-----------------------------------------------------------------------------
Goto(t, step) == pc' = [pc EXCEPT ![t] = step]

Begin(t, k, step) ==
  /\ pc[t] = "idle"
  /\ Goto(t, step)
  /\ key' = [key EXCEPT ![t] = k]
  /\ UNCHANGED <<now, counters, samples, starts, writer, samplerVars>>

Finish(t) == Goto(t, "idle") /\ key' = [key EXCEPT ![t] = None]

\* The counters lock can be taken for writing.
Unlocked == writer = None /\ "counters" \notin holds

\* counter_for: an existing counter is kept, under the lock.
CreateCounter(t) ==
  /\ pc[t] = "counter"
  /\ Unlocked
  /\ writer' = t
  /\ counters' = [counters EXCEPT ![key[t]] = IF @ = None THEN 0 ELSE @]
  /\ Goto(t, "start")
  /\ UNCHANGED <<now, samples, starts, key, samplerVars>>

\* Its start is entered before the counters lock is released.
CreateStart(t) ==
  /\ pc[t] = "start"
  /\ starts' = [starts EXCEPT ![key[t]] = IF @ = None THEN now ELSE @]
  /\ writer' = None
  /\ Finish(t)
  /\ UNCHANGED <<now, counters, samples, samplerVars>>

\* forget: counter, sample and start, with the counters lock held throughout.
ForgetCounter(t) ==
  /\ pc[t] = "forget"
  /\ Unlocked
  /\ writer' = t
  /\ counters' = [counters EXCEPT ![key[t]] = None]
  /\ Goto(t, "samples")
  /\ UNCHANGED <<now, samples, starts, key, samplerVars>>

\* A bug: a sample outlives its counter.
ForgetSampleKeeps(t) ==
  /\ pc[t] = "samples"
  /\ "samples" \notin holds
  /\ Goto(t, "starts")
  /\ UNCHANGED <<now, counters, samples, starts, key, writer, samplerVars>>

ForgetSample(t) ==
  /\ pc[t] = "samples"
  /\ "samples" \notin holds
  /\ samples' = [samples EXCEPT ![key[t]] = None]
  /\ Goto(t, "starts")
  /\ UNCHANGED <<now, counters, starts, key, writer, samplerVars>>

ForgetStart(t) ==
  /\ pc[t] = "starts"
  /\ starts' = [starts EXCEPT ![key[t]] = None]
  /\ writer' = None
  /\ Finish(t)
  /\ UNCHANGED <<now, counters, samples, samplerVars>>

-----------------------------------------------------------------------------
(* The sampler.                                                            *)

\* The interval ticks, and the clock is read before any lock is taken.
SamplerTick ==
  /\ sampling = 0
  /\ tick' = now
  /\ sampling' = 1
  /\ UNCHANGED <<now, counters, samples, starts, callVars, writer, holds>>

\* A bug: the sampler takes its locks in the other order than forget.
ReverseOrder == <<"samples", "counters">>

LockOrder == <<"counters", "samples">>

\* The locks are taken one after the other, and both are held from then on.
SamplerLock ==
  /\ sampling \in 1 .. 2
  /\ LockOrder[sampling] = "counters" => writer = None
  /\ holds' = holds \cup {LockOrder[sampling]}
  /\ sampling' = sampling + 1
  /\ UNCHANGED <<now, counters, samples, starts, callVars, writer, tick>>

\* next_route_metric_sample: last_change_at stays where the count did not grow.
NextSample(k) ==
  IF samples[k] # None /\ counters[k] <= samples[k].total
  THEN [samples[k] EXCEPT !.total = counters[k]]
  ELSE [total |-> counters[k], changed |-> tick]

Sample ==
  /\ sampling = 3
  /\ samples' = [k \in Keys |-> IF counters[k] = None THEN samples[k] ELSE NextSample(k)]
  /\ sampling' = 0
  /\ holds' = {}
  /\ UNCHANGED <<now, counters, starts, callVars, writer, tick>>

-----------------------------------------------------------------------------
\* A handler counts a message, without a lock.
Count(k) ==
  /\ counters[k] # None
  /\ counters[k] < MaxCount
  /\ counters' = [counters EXCEPT ![k] = @ + 1]
  /\ UNCHANGED <<now, samples, starts, callVars, writer, samplerVars>>

\* Past its bound the clock stands still.
Advance ==
  /\ now' = IF now < MaxTime THEN now + 1 ELSE now
  /\ UNCHANGED <<counters, samples, starts, callVars, writer, samplerVars>>

TaskStep(t) ==
  \/ CreateCounter(t) \/ CreateStart(t)
  \/ ForgetCounter(t) \/ ForgetSample(t) \/ ForgetStart(t)

SamplerStep == SamplerTick \/ SamplerLock \/ Sample

Next ==
  \/ \E t \in Tasks :
       \/ TaskStep(t)
       \/ \E k \in Keys, step \in {"counter", "forget"} : Begin(t, k, step)
  \/ SamplerStep
  \/ \E k \in Keys : Count(k)
  \/ Advance

Spec == Init /\ [][Next]_vars

\* The locks are fair: who waits for one gets it.
FairSpec ==
  Spec /\ (\A t \in Tasks : SF_vars(TaskStep(t))) /\ SF_vars(SamplerStep)

-----------------------------------------------------------------------------
(* Properties.                                                             *)

\* forget has removed the counter of k and not yet its sample and start.
Forgetting(k) ==
  \E t \in Tasks : key[t] = k /\ pc[t] \in {"samples", "starts"}

\* A forgotten key is not sampled again: no sampler pass, whenever it began,
\* writes back what forget has removed.  So a sample was taken of the counter the
\* key has now, not of the one of an earlier route of that name: it is never ahead
\* of the counter.
SamplesFollowCounters ==
  \A k \in Keys :
    /\ counters[k] = None /\ ~Forgetting(k) => samples[k] = None /\ starts[k] = None
    /\ samples[k] # None /\ counters[k] # None => samples[k].total <= counters[k]

\* No call waits for ever: the locks are taken in one order.
CallsReturn == \A t \in Tasks : pc[t] # "idle" ~> pc[t] = "idle"

=============================================================================
