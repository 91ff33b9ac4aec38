------------------------- MODULE RouteMetricsProofs -------------------------
(***************************************************************************)
(* The proofs about both halves of route_metrics.rs.                       *)
(*                                                                         *)
(* That the three maps of RouteMetrics agree, for any number of keys and   *)
(* callers: what keeps them together is that the lock of the counters      *)
(* covers the whole of counter_for, of forget and of a pass of the         *)
(* sampler.                                                                *)
(*                                                                         *)
(* That a captured message is at one place: in the hand of a pusher, in    *)
(* the channel, in what one drain has taken, or lost; and that messages    *)
(* keep their order on the way.                                            *)
(***************************************************************************)
EXTENDS RouteMetrics, MessageCapture, TLAPS

\* A call is about a key, and it has the lock while it is between two maps.
WriterIsInACall ==
  \A t \in Tasks :
    /\ pc[t] # "idle" => key[t] \in Keys
    /\ pc[t] \in {"start", "samples", "starts"} => writer = t

\* The sampler has taken the locks in its order, and the first one alone.
SamplerHasItsLocks ==
  /\ sampling = 0 => holds = {}
  /\ sampling = 1 => holds = {}
  /\ sampling = 2 => holds = {"counters"}
  /\ sampling = 3 => holds = {"counters", "samples"}
  /\ "counters" \in holds => writer = None

\* Where the call that has the lock is in its work.
CallsAreInOrder ==
  \A t \in Tasks :
    /\ pc[t] = "start" => counters[key[t]] # None
    /\ pc[t] \in {"samples", "starts"} => counters[key[t]] = None
    /\ pc[t] = "starts" => samples[key[t]] = None

IInv ==
  /\ TypeOK
  /\ WriterIsInACall
  /\ SamplerHasItsLocks
  /\ CallsAreInOrder
  /\ SamplesFollowCounters

-----------------------------------------------------------------------------
(* The initial state.                                                      *)

\* Nothing is counted and nobody has a lock.
LEMMA InitInvariant == Init => IInv
<1> SUFFICES ASSUME Init PROVE IInv
  OBVIOUS
<1>1. TypeOK
  BY BoundsAreNaturals DEF Init, TypeOK
<1>2. WriterIsInACall /\ SamplerHasItsLocks /\ CallsAreInOrder
  BY DEF Init, WriterIsInACall, SamplerHasItsLocks, CallsAreInOrder
<1>3. SamplesFollowCounters
  BY DEF Init, SamplesFollowCounters
<1> QED
  BY <1>1, <1>2, <1>3 DEF IInv

-----------------------------------------------------------------------------
(* The steps of a call.                                                    *)

\* A call begins.
LEMMA BeginKeeps ==
  ASSUME IInv, NEW t \in Tasks, NEW k \in Keys, NEW step \in {"counter", "forget"},
         Begin(t, k, step)
  PROVE  IInv'
<1> USE DEF Begin, Goto, samplerVars
<1>1. TypeOK'
  BY DEF IInv, TypeOK
<1>2. WriterIsInACall' /\ CallsAreInOrder'
  BY DEF IInv, TypeOK, WriterIsInACall, CallsAreInOrder
<1>3. SamplerHasItsLocks'
  BY DEF IInv, SamplerHasItsLocks
<1>4. SamplesFollowCounters'
  <2>1. \A j \in Keys : Forgetting(j) => Forgetting(j)'
    BY DEF IInv, TypeOK, Forgetting
  <2> QED
    BY <2>1 DEF IInv, SamplesFollowCounters
<1> QED
  BY <1>1, <1>2, <1>3, <1>4 DEF IInv

\* counter_for takes the lock and finds or makes the counter.
LEMMA CreateCounterKeeps ==
  ASSUME IInv, NEW t \in Tasks, CreateCounter(t)
  PROVE  IInv'
<1> USE DEF CreateCounter, Goto, Unlocked, samplerVars
<1>1. key[t] \in Keys /\ writer = None /\ None \notin Tasks /\ 0 \in 0 .. MaxCount
  BY NoneIsNothing, BoundsAreNaturals DEF IInv, WriterIsInACall
<1>2. \A s \in Tasks : pc[s] \notin {"start", "samples", "starts"}
  BY <1>1 DEF IInv, WriterIsInACall
<1>3. TypeOK'
  BY <1>1 DEF IInv, TypeOK
<1>4. WriterIsInACall' /\ SamplerHasItsLocks'
  BY <1>2 DEF IInv, TypeOK, WriterIsInACall, SamplerHasItsLocks
<1>5. CallsAreInOrder'
  BY <1>1, <1>2, NoneIsNothing DEF IInv, TypeOK, CallsAreInOrder
<1>6. SamplesFollowCounters'
  <2>1. \A j \in Keys : ~ Forgetting(j)
    BY <1>2 DEF Forgetting
  <2> QED
    BY <1>1, <2>1, NoneIsNothing DEF IInv, TypeOK, SamplesFollowCounters
<1> QED
  BY <1>3, <1>4, <1>5, <1>6 DEF IInv

\* counter_for enters the start and gives the lock back.
LEMMA CreateStartKeeps ==
  ASSUME IInv, NEW t \in Tasks, CreateStart(t)
  PROVE  IInv'
<1> USE DEF CreateStart, Finish, Goto, samplerVars
<1>1. key[t] \in Keys /\ writer = t /\ counters[key[t]] # None
  BY DEF IInv, WriterIsInACall, CallsAreInOrder
<1>2. \A s \in Tasks : s # t => pc[s] \notin {"start", "samples", "starts"}
  BY <1>1 DEF IInv, WriterIsInACall
<1>3. TypeOK'
  BY <1>1 DEF IInv, TypeOK
<1>4. WriterIsInACall' /\ SamplerHasItsLocks' /\ CallsAreInOrder'
  BY <1>2 DEF IInv, TypeOK, WriterIsInACall, SamplerHasItsLocks, CallsAreInOrder
<1>5. SamplesFollowCounters'
  <2>1. \A j \in Keys : ~ Forgetting(j)
    BY <1>2 DEF Forgetting
  <2> QED
    BY <1>1, <2>1 DEF IInv, TypeOK, SamplesFollowCounters
<1> QED
  BY <1>3, <1>4, <1>5 DEF IInv

\* forget takes the lock and removes the counter.
LEMMA ForgetCounterKeeps ==
  ASSUME IInv, NEW t \in Tasks, ForgetCounter(t)
  PROVE  IInv'
<1> USE DEF ForgetCounter, Goto, Unlocked, samplerVars
<1>1. key[t] \in Keys /\ writer = None
  BY DEF IInv, WriterIsInACall
<1>2. \A s \in Tasks : pc[s] \notin {"start", "samples", "starts"}
  BY <1>1, NoneIsNothing DEF IInv, WriterIsInACall
<1>3. TypeOK'
  BY <1>1 DEF IInv, TypeOK
<1>4. WriterIsInACall' /\ SamplerHasItsLocks'
  BY <1>2 DEF IInv, TypeOK, WriterIsInACall, SamplerHasItsLocks
<1>5. CallsAreInOrder'
  BY <1>1, <1>2 DEF IInv, TypeOK, CallsAreInOrder
<1>6. SamplesFollowCounters'
  <2>1. \A j \in Keys : ~ Forgetting(j)
    BY <1>2 DEF Forgetting
  <2>2. Forgetting(key[t])'
    BY <1>1 DEF IInv, TypeOK, Forgetting
  <2> QED
    BY <1>1, <2>1, <2>2 DEF IInv, TypeOK, SamplesFollowCounters
<1> QED
  BY <1>3, <1>4, <1>5, <1>6 DEF IInv

\* forget removes the sample.
LEMMA ForgetSampleKeepsInvariant ==
  ASSUME IInv, NEW t \in Tasks, ForgetSample(t)
  PROVE  IInv'
<1> USE DEF ForgetSample, Goto, samplerVars
<1>1. key[t] \in Keys /\ writer = t /\ counters[key[t]] = None
  BY DEF IInv, WriterIsInACall, CallsAreInOrder
<1>2. \A s \in Tasks : s # t => pc[s] \notin {"start", "samples", "starts"}
  BY <1>1 DEF IInv, WriterIsInACall
<1>3. TypeOK'
  BY <1>1 DEF IInv, TypeOK
<1>4. WriterIsInACall' /\ SamplerHasItsLocks'
  BY DEF IInv, TypeOK, WriterIsInACall, SamplerHasItsLocks
<1>5. CallsAreInOrder'
  BY <1>1, <1>2 DEF IInv, TypeOK, CallsAreInOrder
<1>6. SamplesFollowCounters'
  <2>1. \A j \in Keys : Forgetting(j) => Forgetting(j)'
    BY DEF IInv, TypeOK, Forgetting
  <2> QED
    BY <1>1, <2>1 DEF IInv, TypeOK, SamplesFollowCounters
<1> QED
  BY <1>3, <1>4, <1>5, <1>6 DEF IInv

\* forget removes the start and gives the lock back.
LEMMA ForgetStartKeeps ==
  ASSUME IInv, NEW t \in Tasks, ForgetStart(t)
  PROVE  IInv'
<1> USE DEF ForgetStart, Finish, Goto, samplerVars
<1>1. key[t] \in Keys /\ writer = t /\ counters[key[t]] = None /\ samples[key[t]] = None
  BY DEF IInv, WriterIsInACall, CallsAreInOrder
<1>2. \A s \in Tasks : s # t => pc[s] \notin {"start", "samples", "starts"}
  BY <1>1 DEF IInv, WriterIsInACall
<1>3. TypeOK'
  BY <1>1 DEF IInv, TypeOK
<1>4. WriterIsInACall' /\ SamplerHasItsLocks' /\ CallsAreInOrder'
  BY <1>2 DEF IInv, TypeOK, WriterIsInACall, SamplerHasItsLocks, CallsAreInOrder
<1>5. SamplesFollowCounters'
  <2>1. \A j \in Keys : j # key[t] => ~ Forgetting(j)
    BY <1>2 DEF Forgetting
  <2> QED
    BY <1>1, <2>1 DEF IInv, TypeOK, SamplesFollowCounters
<1> QED
  BY <1>3, <1>4, <1>5 DEF IInv

-----------------------------------------------------------------------------
(* The steps of the sampler, of the handlers and of the clock.             *)

\* The sampler ticks, and takes one lock after the other.
LEMMA SamplerLocksKeep ==
  ASSUME IInv, SamplerTick \/ SamplerLock
  PROVE  IInv'
<1>1. CASE SamplerTick
  BY <1>1 DEF SamplerTick, callVars, IInv, TypeOK, WriterIsInACall, SamplerHasItsLocks,
     CallsAreInOrder, SamplesFollowCounters, Forgetting
<1>2. CASE SamplerLock
  <2>1. TypeOK'
    <3>1. LockOrder[sampling] \in {"counters", "samples"} /\ sampling + 1 \in 0 .. 3
      BY <1>2 DEF SamplerLock, LockOrder
    <3> QED
      BY <1>2, <3>1 DEF SamplerLock, callVars, IInv, TypeOK
  <2>2. WriterIsInACall' /\ CallsAreInOrder' /\ SamplesFollowCounters'
    BY <1>2 DEF SamplerLock, callVars, IInv, WriterIsInACall, CallsAreInOrder,
       SamplesFollowCounters, Forgetting
  <2>3. SamplerHasItsLocks'
    <3>1. CASE sampling = 1
      BY <1>2, <3>1 DEF SamplerLock, LockOrder, IInv, SamplerHasItsLocks
    <3>2. CASE sampling = 2
      BY <1>2, <3>2 DEF SamplerLock, LockOrder, IInv, SamplerHasItsLocks
    <3> QED
      BY <1>2, <3>1, <3>2 DEF SamplerLock
  <2> QED
    BY <2>1, <2>2, <2>3 DEF IInv
<1> QED
  BY <1>1, <1>2

\* The sampler writes its samples, while no call has the lock of the counters.
LEMMA SampleKeeps ==
  ASSUME IInv, Sample
  PROVE  IInv'
<1> USE DEF Sample, callVars
<1>1. writer = None /\ "counters" \in holds
  BY DEF IInv, SamplerHasItsLocks
<1>2. \A t \in Tasks : pc[t] \notin {"start", "samples", "starts"}
  BY <1>1, NoneIsNothing DEF IInv, WriterIsInACall
<1>3. \A k \in Keys : counters[k] # None => NextSample(k) \in SampleType
                                          /\ NextSample(k).total = counters[k]
  <2> SUFFICES ASSUME NEW k \in Keys, counters[k] # None
               PROVE  NextSample(k) \in SampleType /\ NextSample(k).total = counters[k]
    OBVIOUS
  <2>1. counters[k] \in 0 .. MaxCount /\ tick \in 0 .. MaxTime
    BY DEF IInv, TypeOK
  <2>2. CASE samples[k] = None
    BY <2>1, <2>2 DEF NextSample, SampleType
  <2>3. CASE samples[k] # None
    <3>1. samples[k] \in SampleType
      BY <2>3 DEF IInv, TypeOK
    <3> QED
      BY <2>1, <3>1 DEF NextSample, SampleType
  <2> QED
    BY <2>2, <2>3
<1>4. TypeOK'
  BY <1>3 DEF IInv, TypeOK
<1>5. WriterIsInACall' /\ SamplerHasItsLocks' /\ CallsAreInOrder'
  BY <1>2 DEF IInv, WriterIsInACall, SamplerHasItsLocks, CallsAreInOrder
<1>6. SamplesFollowCounters'
  <2> SUFFICES ASSUME NEW k \in Keys
               PROVE  /\ counters[k] = None => samples'[k] = None /\ starts[k] = None
                      /\ samples'[k] # None /\ counters[k] # None
                           => samples'[k].total <= counters[k]
    BY DEF SamplesFollowCounters
  <2>1. counters[k] = None => samples[k] = None /\ starts[k] = None
    BY <1>2 DEF IInv, SamplesFollowCounters, Forgetting
  <2>2. samples'[k] = IF counters[k] = None THEN samples[k] ELSE NextSample(k)
    OBVIOUS
  <2>3. counters[k] # None => counters[k] <= counters[k]
    BY BoundsAreNaturals DEF IInv, TypeOK
  <2> QED
    BY <2>1, <2>2, <2>3, <1>3
<1> QED
  BY <1>4, <1>5, <1>6 DEF IInv

\* A message is counted.
LEMMA CountKeeps ==
  ASSUME IInv, NEW k \in Keys, Count(k)
  PROVE  IInv'
<1> USE DEF Count, callVars, samplerVars
<1>1. counters[k] \in 0 .. MaxCount /\ counters[k] + 1 \in 0 .. MaxCount
  BY BoundsAreNaturals DEF IInv, TypeOK
<1>2. TypeOK'
  BY <1>1 DEF IInv, TypeOK
<1>3. WriterIsInACall' /\ SamplerHasItsLocks'
  BY DEF IInv, WriterIsInACall, SamplerHasItsLocks
<1>4. \A j \in Keys : counters'[j] = None <=> counters[j] = None
  BY <1>1, NoneIsNothing DEF IInv, TypeOK
<1>5. CallsAreInOrder'
  BY <1>4 DEF IInv, WriterIsInACall, CallsAreInOrder
<1>6. SamplesFollowCounters'
  <2>1. \A j \in Keys : samples[j] # None => samples[j].total \in 0 .. MaxCount
    BY DEF IInv, TypeOK, SampleType
  <2>2. \A j \in Keys : Forgetting(j)' = Forgetting(j)
    BY DEF Forgetting
  <2> QED
    BY <1>1, <1>4, <2>1, <2>2 DEF IInv, TypeOK, SamplesFollowCounters
<1> QED
  BY <1>2, <1>3, <1>5, <1>6 DEF IInv

\* Time passes.
LEMMA AdvanceKeeps ==
  ASSUME IInv, Advance
  PROVE  IInv'
BY BoundsAreNaturals
DEF Advance, callVars, samplerVars, IInv, TypeOK, WriterIsInACall, SamplerHasItsLocks,
    CallsAreInOrder, SamplesFollowCounters, Forgetting

-----------------------------------------------------------------------------
(* The theorems.                                                           *)

\* Every step keeps the invariant.
LEMMA NextKeeps == IInv /\ [Next]_vars => IInv'
<1> SUFFICES ASSUME IInv, [Next]_vars PROVE IInv'
  OBVIOUS
<1>1. CASE UNCHANGED vars
  BY <1>1 DEF vars, callVars, samplerVars, IInv, TypeOK, WriterIsInACall, SamplerHasItsLocks,
     CallsAreInOrder, SamplesFollowCounters, Forgetting
<1>2. CASE \E t \in Tasks : TaskStep(t)
  <2> PICK t \in Tasks : TaskStep(t)
    BY <1>2
  <2> QED
    BY CreateCounterKeeps, CreateStartKeeps, ForgetCounterKeeps, ForgetSampleKeepsInvariant,
       ForgetStartKeeps DEF TaskStep
<1>3. CASE \E t \in Tasks, k \in Keys, step \in {"counter", "forget"} : Begin(t, k, step)
  BY <1>3, BeginKeeps
<1>4. CASE SamplerStep
  BY <1>4, SamplerLocksKeep, SampleKeeps DEF SamplerStep
<1>5. CASE \E k \in Keys : Count(k)
  BY <1>5, CountKeeps
<1>6. CASE Advance
  BY <1>6, AdvanceKeeps
<1> QED
  BY <1>1, <1>2, <1>3, <1>4, <1>5, <1>6 DEF Next

\* The inductive invariant of the metrics holds in every reachable state, for any
\* number of keys and callers and any bounds.
THEOREM Invariant == Spec => []IInv
<1> QED
  BY InitInvariant, NextKeeps, PTL DEF Spec

\* The three maps and the sampler keep their types.
THEOREM TypeCorrect == Spec => []TypeOK
<1>1. IInv => TypeOK
  BY DEF IInv
<1> QED
  BY <1>1, Invariant, PTL

\* No pass of the sampler brings a forgotten key back or leaves a sample that is
\* ahead of its counter, however many calls create and forget keys (counter_for,
\* forget, spawn_route_metrics_sampler).
THEOREM SamplesAgree == Spec => []SamplesFollowCounters
<1>1. IInv => SamplesFollowCounters
  BY DEF IInv
<1> QED
  BY <1>1, Invariant, PTL

-----------------------------------------------------------------------------
(* The captured messages.                                                  *)

\* What is somewhere was pushed, and what a pusher has is nobody else's.
HandsAreOwn ==
  /\ \A m \in Range(queue) \cup lost : m <= pushed
  /\ \A r \in Readers : \A m \in Range(got[r]) : m <= pushed
  /\ \A p \in Pushers :
       phase[p] # "idle" =>
         /\ msg[p] \in 1 .. pushed
         /\ \A r \in Readers : msg[p] \notin Range(got[r])
         /\ \A q \in Pushers \ {p} : phase[q] # "idle" => msg[q] # msg[p]

\* The types that the argument needs.
CaptureTyped ==
  /\ queue \in Seq(Nat)
  /\ pushed \in Nat
  /\ phase \in [Pushers -> {"idle", "evict", "resend"}]
  /\ msg \in [Pushers -> Nat]
  /\ got \in [Readers -> Seq(Nat)]
  /\ lost \subseteq Nat

CaptureIInv == CaptureTyped /\ HandsAreOwn /\ EachMessageOnce

-----------------------------------------------------------------------------
(* Sequences.                                                              *)

\* A new element at the end.
LEMMA AppendedOnce ==
  ASSUME NEW s \in Seq(Nat), NEW e \in Nat, IsInjective(s), e \notin Range(s)
  PROVE  /\ Append(s, e) \in Seq(Nat)
         /\ IsInjective(Append(s, e))
         /\ Range(Append(s, e)) = Range(s) \cup {e}
<1> DEFINE t == Append(s, e)
<1>1. /\ t \in Seq(Nat) /\ Len(t) = Len(s) + 1 /\ Len(s) \in Nat
      /\ DOMAIN t = 1 .. Len(s) + 1 /\ DOMAIN s = 1 .. Len(s)
      /\ \A i \in 1 .. Len(s) : t[i] = s[i]
      /\ t[Len(s) + 1] = e
  OBVIOUS
<1>2. \A i \in 1 .. Len(s) : s[i] # e
  BY <1>1 DEF Range
<1>3. ASSUME NEW i \in DOMAIN t, NEW j \in DOMAIN t, t[i] = t[j]
      PROVE  i = j
  <2>1. CASE i \in 1 .. Len(s) /\ j \in 1 .. Len(s)
    BY <2>1, <1>1, <1>3 DEF IsInjective
  <2>2. CASE i = Len(s) + 1 /\ j = Len(s) + 1
    BY <2>2
  <2>3. CASE i = Len(s) + 1 /\ j \in 1 .. Len(s)
    BY <2>3, <1>1, <1>2, <1>3
  <2>4. CASE j = Len(s) + 1 /\ i \in 1 .. Len(s)
    BY <2>4, <1>1, <1>2, <1>3
  <2> QED
    BY <1>1, <2>1, <2>2, <2>3, <2>4
<1>4. Range(t) = Range(s) \cup {e}
  <2>1. ASSUME NEW i \in DOMAIN t PROVE t[i] \in Range(s) \cup {e}
    BY <1>1 DEF Range
  <2>2. ASSUME NEW i \in DOMAIN s PROVE s[i] \in Range(t)
    BY <1>1 DEF Range
  <2>3. e \in Range(t)
    BY <1>1 DEF Range
  <2> QED
    BY <2>1, <2>2, <2>3 DEF Range
<1>5. IsInjective(t)
  BY <1>3 DEF IsInjective
<1> QED
  BY <1>1, <1>4, <1>5

\* The first element goes.
LEMMA TakenOnce ==
  ASSUME NEW s \in Seq(Nat), IsInjective(s), s # <<>>
  PROVE  /\ Tail(s) \in Seq(Nat)
         /\ Head(s) \in Nat
         /\ IsInjective(Tail(s))
         /\ Head(s) \in Range(s)
         /\ Range(Tail(s)) = Range(s) \ {Head(s)}
<1> DEFINE t == Tail(s)
<1>1. /\ t \in Seq(Nat) /\ Len(s) \in Nat \ {0} /\ Len(t) = Len(s) - 1
      /\ DOMAIN t = 1 .. Len(s) - 1 /\ DOMAIN s = 1 .. Len(s)
      /\ Head(s) = s[1] /\ s[1] \in Nat
      /\ \A i \in 1 .. Len(s) - 1 : t[i] = s[i + 1]
  OBVIOUS
<1>2. ASSUME NEW i \in DOMAIN t, NEW j \in DOMAIN t, t[i] = t[j]
      PROVE  i = j
  <2>1. i + 1 \in DOMAIN s /\ j + 1 \in DOMAIN s /\ s[i + 1] = s[j + 1]
    BY <1>1, <1>2
  <2>2. i + 1 = j + 1
    BY <2>1 DEF IsInjective
  <2> QED
    BY <1>1, <2>2
<1>3. IsInjective(t)
  BY <1>2 DEF IsInjective
<1>4. Range(t) = Range(s) \ {Head(s)}
  <2>1. ASSUME NEW i \in DOMAIN t PROVE t[i] \in Range(s) /\ t[i] # Head(s)
    <3>1. i + 1 \in DOMAIN s /\ t[i] = s[i + 1] /\ i + 1 # 1 /\ 1 \in DOMAIN s
      BY <1>1
    <3> QED
      BY <1>1, <3>1 DEF IsInjective, Range
  <2>2. ASSUME NEW i \in DOMAIN s, s[i] # Head(s) PROVE s[i] \in Range(t)
    <3>1. i # 1 /\ i - 1 \in DOMAIN t /\ t[i - 1] = s[i]
      BY <1>1, <2>2
    <3> QED
      BY <3>1 DEF Range
  <2> QED
    BY <2>1, <2>2 DEF Range
<1>5. Head(s) \in Range(s)
  BY <1>1 DEF Range
<1> QED
  BY <1>1, <1>3, <1>4, <1>5

\* Nothing is in the empty sequence.
LEMMA EmptyOnce == <<>> \in Seq(Nat) /\ IsInjective(<<>>) /\ Range(<<>>) = {}
BY DEF IsInjective, Range

-----------------------------------------------------------------------------
(* The initial state and the pushes.                                       *)

\* A message that was nowhere, and is in no hand afterwards, enters the channel.
LEMMA AddedOnce ==
  ASSUME EachMessageOnce, NEW m, IsInjective(queue'), Range(queue') = Range(queue) \cup {m},
         got' = got, lost' = lost, m \notin lost,
         \A r \in Readers : m \notin Range(got[r]),
         \A q \in Pushers : phase'[q] # "idle" =>
            phase[q] # "idle" /\ msg'[q] = msg[q] /\ msg[q] # m
  PROVE  EachMessageOnce'
<1>1. ASSUME NEW r \in Readers
      PROVE  /\ IsInjective(got'[r])
             /\ Range(got'[r]) \cap (Range(queue') \cup lost') = {}
             /\ \A q \in Readers \ {r} : Range(got'[r]) \cap Range(got'[q]) = {}
  BY <1>1 DEF EachMessageOnce
<1>2. Range(queue') \cap lost' = {}
  BY DEF EachMessageOnce
<1>3. ASSUME NEW q \in Pushers PROVE InHand(q)' \cap (Range(queue') \cup lost') = {}
  <2>1. CASE phase'[q] = "idle"
    BY <2>1 DEF InHand
  <2>2. CASE phase'[q] # "idle"
    <3>1. InHand(q)' = {msg[q]} /\ InHand(q) = {msg[q]} /\ msg[q] # m
      BY <2>2 DEF InHand
    <3> QED
      BY <3>1 DEF EachMessageOnce
  <2> QED
    BY <2>1, <2>2
<1> QED
  BY <1>1, <1>2, <1>3 DEF EachMessageOnce

\* Nothing is pushed.
LEMMA CaptureInitInvariant == CaptureInit => CaptureIInv
<1> SUFFICES ASSUME CaptureInit PROVE CaptureIInv
  OBVIOUS
<1> QED
  BY EmptyOnce DEF CaptureInit, CaptureIInv, CaptureTyped, HandsAreOwn, EachMessageOnce, InHand

\* A message is new when it is pushed: it goes into the channel, or stays in hand.
LEMMA SendKeeps ==
  ASSUME CaptureIInv, NEW p \in Pushers, PushSend(p)
  PROVE  CaptureIInv'
<1> DEFINE n == pushed + 1
<1>1. /\ n \in Nat /\ pushed' = n /\ n > pushed /\ phase[p] = "idle"
      /\ \A m \in 1 .. pushed : m # n /\ m \in 1 .. n
      /\ n \notin Range(queue) \cup lost
      /\ \A r \in Readers : n \notin Range(got[r])
      /\ \A q \in Pushers : phase[q] # "idle" => msg[q] # n
  BY DEF PushSend, CaptureIInv, CaptureTyped, HandsAreOwn
<1>2. /\ \A m \in Range(queue) \cup lost : m <= n
      /\ \A r \in Readers : \A m \in Range(got[r]) : m <= n
  <2>1. ASSUME NEW s \in Seq(Nat) PROVE Range(s) \subseteq Nat
    BY DEF Range
  <2>2. ASSUME NEW m \in Nat, m <= pushed PROVE m <= n
    BY <2>2, <1>1
  <2>3. /\ \A m \in Range(queue) \cup lost : m \in Nat /\ m <= pushed
        /\ \A r \in Readers : \A m \in Range(got[r]) : m \in Nat /\ m <= pushed
    BY <2>1 DEF CaptureIInv, CaptureTyped, HandsAreOwn
  <2> QED
    BY <2>2, <2>3
<1>3. CASE HasRoom
  <2>1. /\ queue' = Append(queue, n) /\ phase'[p] = "idle" /\ got' = got /\ lost' = lost
        /\ phase' = phase /\ msg' \in [Pushers -> Nat]
        /\ \A q \in Pushers \ {p} : msg'[q] = msg[q]
    BY <1>1, <1>3 DEF PushSend, CaptureIInv, CaptureTyped
  <2>2. /\ queue' \in Seq(Nat) /\ IsInjective(queue') /\ Range(queue') = Range(queue) \cup {n}
    BY <2>1, <1>1, AppendedOnce DEF CaptureIInv, CaptureTyped, EachMessageOnce
  <2>3. CaptureTyped'
    BY <2>1, <2>2, <1>1 DEF CaptureIInv, CaptureTyped
  <2>4. HandsAreOwn'
    <3>1. /\ \A m \in Range(queue') \cup lost' : m <= pushed'
          /\ \A r \in Readers : \A m \in Range(got'[r]) : m <= pushed'
      <4>1. n <= n
        BY <1>1
      <4> QED
        BY <4>1, <2>1, <2>2, <1>1, <1>2
    <3>2. ASSUME NEW q \in Pushers, phase'[q] # "idle"
          PROVE  /\ msg'[q] \in 1 .. pushed'
                 /\ \A r \in Readers : msg'[q] \notin Range(got'[r])
                 /\ \A t \in Pushers \ {q} : phase'[t] # "idle" => msg'[t] # msg'[q]
      BY <3>2, <2>1, <1>1 DEF CaptureIInv, HandsAreOwn
    <3> QED
      BY <3>1, <3>2 DEF HandsAreOwn
  <2>5. EachMessageOnce'
    <3>1. \A q \in Pushers : phase'[q] # "idle" => q # p /\ msg'[q] = msg[q] /\ phase[q] # "idle" /\ msg[q] # n
      BY <2>1, <1>1
    <3> QED
      BY <3>1, <2>1, <2>2, <1>1, AddedOnce DEF CaptureIInv
  <2> QED
    BY <2>3, <2>4, <2>5 DEF CaptureIInv
<1>4. CASE ~ HasRoom
  <2>1. /\ queue' = queue /\ got' = got /\ lost' = lost
        /\ phase' = [phase EXCEPT ![p] = "evict"] /\ msg' = [msg EXCEPT ![p] = n]
    BY <1>1, <1>4 DEF PushSend
  <2>2. /\ phase'[p] = "evict" /\ msg'[p] = n
        /\ \A q \in Pushers \ {p} : phase'[q] = phase[q] /\ msg'[q] = msg[q]
    BY <2>1 DEF CaptureIInv, CaptureTyped
  <2>3. CaptureTyped'
    BY <2>1, <1>1 DEF CaptureIInv, CaptureTyped
  <2>4. HandsAreOwn'
    <3>1. /\ \A m \in Range(queue') \cup lost' : m <= pushed'
          /\ \A r \in Readers : \A m \in Range(got'[r]) : m <= pushed'
      BY <2>1, <1>1, <1>2
    <3>2. ASSUME NEW q \in Pushers, phase'[q] # "idle"
          PROVE  /\ msg'[q] \in 1 .. pushed'
                 /\ \A r \in Readers : msg'[q] \notin Range(got'[r])
                 /\ \A t \in Pushers \ {q} : phase'[t] # "idle" => msg'[t] # msg'[q]
      <4>1. CASE q = p
        <5>1. n \in 1 .. n
          BY <1>1 DEF CaptureIInv, CaptureTyped
        <5>2. \A t \in Pushers \ {p} : phase'[t] # "idle" => msg'[t] # n
          BY <2>2, <1>1
        <5> QED
          BY <5>1, <5>2, <4>1, <2>1, <2>2, <1>1
      <4>2. CASE q # p
        BY <4>2, <3>2, <2>1, <2>2, <1>1 DEF CaptureIInv, HandsAreOwn
      <4> QED
        BY <4>1, <4>2
    <3> QED
      BY <3>1, <3>2 DEF HandsAreOwn
  <2>5. EachMessageOnce'
    BY <2>1, <2>2, <1>1 DEF CaptureIInv, EachMessageOnce, InHand
  <2> QED
    BY <2>3, <2>4, <2>5 DEF CaptureIInv
<1> QED
  BY <1>3, <1>4

\* The oldest message makes room, unless the channel was drained.
LEMMA EvictKeeps ==
  ASSUME CaptureIInv, NEW p \in Pushers, PushEvict(p)
  PROVE  CaptureIInv'
<1>1. /\ pushed' = pushed /\ msg' = msg /\ got' = got /\ phase[p] = "evict"
      /\ phase' = [phase EXCEPT ![p] = "resend"]
      /\ \A q \in Pushers : (phase'[q] = "idle") = (phase[q] = "idle")
  BY DEF PushEvict, CaptureIInv, CaptureTyped
<1>2. CASE queue = <<>>
  BY <1>1, <1>2 DEF PushEvict, CaptureIInv, CaptureTyped, HandsAreOwn, EachMessageOnce, InHand
<1>3. CASE queue # <<>>
  <2>1. /\ queue' = Tail(queue) /\ lost' = lost \cup {Head(queue)}
    BY <1>3 DEF PushEvict
  <2>2. /\ Tail(queue) \in Seq(Nat) /\ Head(queue) \in Nat /\ IsInjective(Tail(queue))
        /\ Head(queue) \in Range(queue)
        /\ Range(Tail(queue)) = Range(queue) \ {Head(queue)}
    BY <1>3, TakenOnce DEF CaptureIInv, CaptureTyped, EachMessageOnce
  <2>3. CaptureTyped'
    BY <1>1, <2>1, <2>2 DEF CaptureIInv, CaptureTyped
  <2>4. HandsAreOwn'
    BY <1>1, <2>1, <2>2 DEF CaptureIInv, HandsAreOwn
  <2>5. EachMessageOnce'
    BY <1>1, <2>1, <2>2 DEF CaptureIInv, EachMessageOnce, InHand
  <2> QED
    BY <2>3, <2>4, <2>5 DEF CaptureIInv
<1> QED
  BY <1>2, <1>3

\* The message in hand goes into the channel, or is lost.
LEMMA ResendKeeps ==
  ASSUME CaptureIInv, NEW p \in Pushers, PushResend(p)
  PROVE  CaptureIInv'
<1> DEFINE m == msg[p]
<1>1. /\ pushed' = pushed /\ got' = got /\ phase[p] # "idle" /\ m \in 1 .. pushed
      /\ m \in Nat /\ m <= pushed
      /\ phase'[p] = "idle" /\ \A q \in Pushers \ {p} : phase'[q] = phase[q] /\ msg'[q] = msg[q]
      /\ phase' \in [Pushers -> {"idle", "evict", "resend"}] /\ msg' \in [Pushers -> Nat]
      /\ m \notin Range(queue) \cup lost /\ \A r \in Readers : m \notin Range(got[r])
      /\ \A q \in Pushers \ {p} : phase[q] # "idle" => msg[q] # m
  BY DEF PushResend, CaptureIInv, CaptureTyped, HandsAreOwn, EachMessageOnce, InHand
<1>2. CASE HasRoom
  <2>1. queue' = Append(queue, m) /\ lost' = lost
    BY <1>2 DEF PushResend
  <2>2. /\ queue' \in Seq(Nat) /\ IsInjective(queue') /\ Range(queue') = Range(queue) \cup {m}
    BY <2>1, <1>1, AppendedOnce DEF CaptureIInv, CaptureTyped, EachMessageOnce
  <2>3. CaptureTyped'
    BY <1>1, <2>1, <2>2 DEF CaptureIInv, CaptureTyped
  <2>4. HandsAreOwn'
    BY <1>1, <2>1, <2>2 DEF CaptureIInv, HandsAreOwn
  <2>5. EachMessageOnce'
    BY <1>1, <2>1, <2>2, AddedOnce DEF CaptureIInv
  <2> QED
    BY <2>3, <2>4, <2>5 DEF CaptureIInv
<1>3. CASE ~ HasRoom
  <2>1. queue' = queue /\ lost' = lost \cup {m}
    BY <1>3 DEF PushResend
  <2>2. CaptureTyped'
    BY <1>1, <2>1 DEF CaptureIInv, CaptureTyped
  <2>3. HandsAreOwn'
    BY <1>1, <2>1 DEF CaptureIInv, HandsAreOwn
  <2>4. EachMessageOnce'
    BY <1>1, <2>1 DEF CaptureIInv, EachMessageOnce, InHand
  <2> QED
    BY <2>2, <2>3, <2>4 DEF CaptureIInv
<1> QED
  BY <1>2, <1>3

-----------------------------------------------------------------------------
(* The drains.                                                             *)

\* A drain begins with nothing, and ends with what it has.
LEMMA DrainBoundsKeep ==
  ASSUME CaptureIInv, NEW r \in Readers, DrainBegin(r) \/ DrainEnd(r)
  PROVE  CaptureIInv'
<1>1. /\ queue' = queue /\ pushed' = pushed /\ phase' = phase /\ msg' = msg /\ lost' = lost
      /\ got' = got \/ got' = [got EXCEPT ![r] = <<>>]
  BY DEF DrainBegin, DrainEnd
<1>2. \A q \in Readers : got'[q] = got[q] \/ got'[q] = <<>>
  BY <1>1 DEF CaptureIInv, CaptureTyped
<1>3. CaptureTyped'
  BY <1>1, EmptyOnce DEF CaptureIInv, CaptureTyped
<1>4. HandsAreOwn'
  BY <1>1, <1>2, EmptyOnce DEF CaptureIInv, HandsAreOwn
<1>5. EachMessageOnce'
  BY <1>1, <1>2, EmptyOnce DEF CaptureIInv, EachMessageOnce, InHand
<1> QED
  BY <1>3, <1>4, <1>5 DEF CaptureIInv

\* A drain takes the oldest message.
LEMMA TakeKeeps ==
  ASSUME CaptureIInv, NEW r \in Readers, DrainTake(r)
  PROVE  CaptureIInv'
<1> DEFINE m == Head(queue)
<1>1. /\ queue' = Tail(queue) /\ pushed' = pushed /\ phase' = phase /\ msg' = msg
      /\ lost' = lost /\ got' = [got EXCEPT ![r] = Append(@, m)]
  BY DEF DrainTake
<1>2. /\ Tail(queue) \in Seq(Nat) /\ m \in Nat /\ IsInjective(Tail(queue))
      /\ m \in Range(queue) /\ Range(Tail(queue)) = Range(queue) \ {m}
  BY TakenOnce DEF DrainTake, CaptureIInv, CaptureTyped, EachMessageOnce
<1>3. /\ m <= pushed /\ m \notin lost
      /\ \A q \in Readers : m \notin Range(got[q])
      /\ \A p \in Pushers : phase[p] # "idle" => msg[p] # m
  BY <1>2 DEF CaptureIInv, HandsAreOwn, EachMessageOnce, InHand
<1>4. /\ got'[r] = Append(got[r], m) /\ \A q \in Readers \ {r} : got'[q] = got[q]
      /\ got[r] \in Seq(Nat) /\ IsInjective(got[r])
  BY <1>1 DEF CaptureIInv, CaptureTyped, EachMessageOnce
<1>5. /\ got'[r] \in Seq(Nat) /\ IsInjective(got'[r])
      /\ Range(got'[r]) = Range(got[r]) \cup {m}
  BY <1>2, <1>3, <1>4, AppendedOnce
<1>6. CaptureTyped'
  BY <1>1, <1>2, <1>4, <1>5 DEF CaptureIInv, CaptureTyped
<1>7. HandsAreOwn'
  BY <1>1, <1>2, <1>3, <1>4, <1>5 DEF CaptureIInv, HandsAreOwn
<1>8. EachMessageOnce'
  <2>1. ASSUME NEW q \in Readers
        PROVE  IsInjective(got'[q]) /\ Range(got'[q]) \cap (Range(queue') \cup lost') = {}
    <3>1. CASE q = r
      BY <3>1, <1>1, <1>2, <1>3, <1>5 DEF CaptureIInv, EachMessageOnce
    <3>2. CASE q # r
      BY <3>2, <1>1, <1>2, <1>4 DEF CaptureIInv, EachMessageOnce
    <3> QED
      BY <3>1, <3>2
  <2>2. ASSUME NEW q \in Readers, NEW t \in Readers \ {q}
        PROVE  Range(got'[q]) \cap Range(got'[t]) = {}
    <3>1. Range(got[q]) \cap Range(got[t]) = {} /\ m \notin Range(got[q]) /\ m \notin Range(got[t])
      BY <1>3 DEF CaptureIInv, EachMessageOnce
    <3>2. /\ Range(got'[q]) \subseteq Range(got[q]) \cup (IF q = r THEN {m} ELSE {})
          /\ Range(got'[t]) \subseteq Range(got[t]) \cup (IF t = r THEN {m} ELSE {})
      BY <1>4, <1>5
    <3> QED
      BY <3>1, <3>2
  <2>3. /\ IsInjective(queue') /\ Range(queue') \cap lost' = {}
        /\ \A p \in Pushers : InHand(p)' \cap (Range(queue') \cup lost') = {}
    BY <1>1, <1>2 DEF CaptureIInv, EachMessageOnce, InHand
  <2> QED
    BY <2>1, <2>2, <2>3 DEF EachMessageOnce
<1> QED
  BY <1>6, <1>7, <1>8 DEF CaptureIInv

-----------------------------------------------------------------------------
(* The theorems.                                                           *)

\* Every step keeps the invariant.
LEMMA CaptureNextKeeps == CaptureIInv /\ [CaptureNext]_captureVars => CaptureIInv'
<1> SUFFICES ASSUME CaptureIInv, [CaptureNext]_captureVars PROVE CaptureIInv'
  OBVIOUS
<1>1. CASE UNCHANGED captureVars
  BY <1>1 DEF captureVars, CaptureIInv, CaptureTyped, HandsAreOwn, EachMessageOnce, InHand
<1>2. ASSUME NEW p \in Pushers, PushSend(p) \/ PushEvict(p) \/ PushResend(p) PROVE CaptureIInv'
  BY <1>2, SendKeeps, EvictKeeps, ResendKeeps
<1>3. ASSUME NEW r \in Readers, DrainBegin(r) \/ DrainTake(r) \/ DrainEnd(r) PROVE CaptureIInv'
  BY <1>3, DrainBoundsKeep, TakeKeeps
<1> QED
  BY <1>1, <1>2, <1>3 DEF CaptureNext

\* Each captured message is at one place: returned by one drain, once, and never
\* both returned and lost, for any number of handlers and drains and any capacity
\* (push, drain).
THEOREM EachIsReturnedOnce == CaptureSpec => []EachMessageOnce
<1>1. CaptureIInv => EachMessageOnce
  BY DEF CaptureIInv
<1> QED
  BY <1>1, CaptureInitInvariant, CaptureNextKeeps, PTL DEF CaptureSpec

-----------------------------------------------------------------------------
(* The order of the messages.                                              *)

\* Numbers in order, and numbers in order if one handler pushed both.
Less    == {x \in Nat \X Nat : x[1] < x[2]}
Follows == {x \in Nat \X Nat : owner[x[1]] = owner[x[2]] => x[1] < x[2]}

\* Each element of s is related to every later one.
Sorted(s, R) == \A i, j \in DOMAIN s : i < j => <<s[i], s[j]>> \in R

\* What is somewhere was pushed, and by a handler that is known.
Pushed ==
  /\ owner \in Seq(Pushers) /\ Len(owner) = pushed
  /\ Len(queue) <= Capacity
  /\ Range(queue) \cup lost \subseteq 1 .. pushed
  /\ \A r \in Readers : Range(got[r]) \subseteq 1 .. pushed

\* What a drain has taken comes before what is in the channel, and the message in
\* a hand is the last of its handler.
HandlersInOrder ==
  /\ Sorted(queue, Follows)
  /\ \A r \in Readers :
       /\ Sorted(got[r], Follows)
       /\ \A a \in Range(got[r]), b \in Range(queue) : <<a, b>> \in Follows
  /\ \A p \in Pushers :
       phase[p] # "idle" =>
         owner[msg[p]] = p /\ \A m \in 1 .. pushed : owner[m] = p => m <= msg[p]

\* As long as no two pushes overlapped, one handler at most is in a push: it has
\* the last message in hand, and finds room when it tries again.
LastAreKept ==
  ~overlapped =>
    /\ Sorted(queue, Less)
    /\ OldestIsDropped
    /\ \A p \in Pushers :
         phase[p] # "idle" =>
           msg[p] = pushed /\ \A q \in Pushers \ {p} : phase[q] = "idle"
    /\ \A p \in Pushers : phase[p] = "resend" => HasRoom

OInv == CaptureIInv /\ Pushed /\ HandlersInOrder /\ LastAreKept

\* An element at the end that comes after all others.
LEMMA AppendedSorted ==
  ASSUME NEW s \in Seq(Nat), NEW e \in Nat, NEW R, Sorted(s, R),
         \A a \in Range(s) : <<a, e>> \in R
  PROVE  Sorted(Append(s, e), R)
<1> DEFINE t == Append(s, e)
<1>1. /\ Len(s) \in Nat /\ DOMAIN t = 1 .. Len(s) + 1 /\ DOMAIN s = 1 .. Len(s)
      /\ \A i \in 1 .. Len(s) : t[i] = s[i]
      /\ t[Len(s) + 1] = e
  OBVIOUS
<1>2. ASSUME NEW i \in DOMAIN t, NEW j \in DOMAIN t, i < j
      PROVE  <<t[i], t[j]>> \in R
  <2>1. i \in DOMAIN s /\ t[i] = s[i]
    BY <1>1, <1>2
  <2>2. CASE j = Len(s) + 1
    <3>1. s[i] \in Range(s)
      BY <2>1 DEF Range
    <3> QED
      BY <3>1, <2>1, <2>2, <1>1
  <2>3. CASE j # Len(s) + 1
    <3>1. j \in DOMAIN s /\ t[j] = s[j]
      BY <1>1, <2>3
    <3> QED
      BY <3>1, <2>1, <1>2 DEF Sorted
  <2> QED
    BY <2>2, <2>3
<1> HIDE DEF t
<1> QED
  BY <1>2 DEF Sorted, t

\* The first element comes before all others.
LEMMA TakenSorted ==
  ASSUME NEW s \in Seq(Nat), s # <<>>, NEW R, Sorted(s, R)
  PROVE  /\ Sorted(Tail(s), R)
         /\ \A b \in Range(Tail(s)) : <<Head(s), b>> \in R
<1> DEFINE t == Tail(s)
<1>1. /\ Len(s) \in Nat \ {0} /\ DOMAIN t = 1 .. Len(s) - 1 /\ DOMAIN s = 1 .. Len(s)
      /\ Head(s) = s[1]
      /\ \A i \in 1 .. Len(s) - 1 : t[i] = s[i + 1]
  OBVIOUS
<1>2. ASSUME NEW i \in DOMAIN t
      PROVE  i + 1 \in DOMAIN s /\ t[i] = s[i + 1] /\ 1 < i + 1 /\ 1 \in DOMAIN s
  BY <1>1
<1>3. ASSUME NEW i \in DOMAIN t, NEW j \in DOMAIN t, i < j
      PROVE  <<t[i], t[j]>> \in R
  <2>1. i + 1 < j + 1
    BY <1>1, <1>3
  <2> QED
    BY <2>1, <1>2 DEF Sorted
<1>4. ASSUME NEW i \in DOMAIN t PROVE <<Head(s), t[i]>> \in R
  BY <1>1, <1>2 DEF Sorted
<1> HIDE DEF t
<1>5. \A b \in Range(t) : <<Head(s), b>> \in R
  BY <1>4 DEF Range
<1> QED
  BY <1>3, <1>5 DEF Sorted, t

\* A relation may change beside the elements.
LEMMA StillSorted ==
  ASSUME NEW s, NEW R, NEW R2, Sorted(s, R),
         \A a, b \in Range(s) : <<a, b>> \in R => <<a, b>> \in R2
  PROVE  Sorted(s, R2)
<1>1. ASSUME NEW i \in DOMAIN s, NEW j \in DOMAIN s, i < j
      PROVE  <<s[i], s[j]>> \in R2
  <2>1. s[i] \in Range(s) /\ s[j] \in Range(s)
    BY DEF Range
  <2> QED
    BY <2>1, <1>1 DEF Sorted
<1> QED
  BY <1>1 DEF Sorted

\* The empty sequence is sorted.
LEMMA EmptySorted == \A R : Sorted(<<>>, R)
BY DEF Sorted

\* The same of the elements: a message that had to go is older than what stayed.
LEMMA OldestOfRange ==
  OldestIsDropped <=> \A m \in lost : \A b \in Range(queue) : m < b
BY DEF OldestIsDropped, Range

\* Nothing is pushed.
LEMMA InitOrder == CaptureInit => OInv
<1> SUFFICES ASSUME CaptureInit PROVE OInv
  OBVIOUS
<1>1. CaptureIInv
  BY CaptureInitInvariant
<1>2. /\ queue = <<>> /\ pushed = 0 /\ lost = {} /\ owner = <<>>
      /\ \A r \in Readers : got[r] = <<>>
      /\ \A p \in Pushers : phase[p] = "idle"
  BY DEF CaptureInit
<1>3. owner \in Seq(Pushers) /\ Len(owner) = 0 /\ Len(queue) = 0
  BY <1>2
<1>4. Pushed
  BY <1>2, <1>3, EmptyOnce, CapacityIsPositive DEF Pushed
<1>5. HandlersInOrder
  BY <1>2, EmptySorted, EmptyOnce DEF HandlersInOrder
<1>6. LastAreKept
  BY <1>2, EmptySorted DEF LastAreKept, OldestIsDropped
<1> QED
  BY <1>1, <1>4, <1>5, <1>6 DEF OInv

\* A new message comes after all others, whoever pushed them.
LEMMA NewIsLast ==
  ASSUME OInv, NEW p \in Pushers, PushSend(p)
  PROVE  /\ pushed' = pushed + 1 /\ pushed \in Nat
         /\ owner' \in Seq(Pushers) /\ Len(owner') = pushed'
         /\ \A m \in 1 .. pushed : owner'[m] = owner[m] /\ m < pushed'
         /\ owner'[pushed'] = p
         /\ \A a, b \in 1 .. pushed : <<a, b>> \in Follows => <<a, b>> \in Follows'
         /\ \A a \in 1 .. pushed : <<a, pushed'>> \in Follows' /\ <<a, pushed'>> \in Less
<1>1. pushed' = pushed + 1 /\ pushed \in Nat /\ owner' = Append(owner, p)
  BY DEF PushSend, OInv, CaptureIInv, CaptureTyped
<1>2. owner \in Seq(Pushers) /\ Len(owner) = pushed
  BY DEF OInv, Pushed
<1>3. /\ owner' \in Seq(Pushers) /\ Len(owner') = pushed'
      /\ \A m \in 1 .. pushed : owner'[m] = owner[m]
      /\ owner'[pushed'] = p
  BY <1>1, <1>2
<1>4. \A m \in 1 .. pushed : m < pushed' /\ m \in Nat
  BY <1>1
<1>5. \A a, b \in 1 .. pushed : <<a, b>> \in Follows => <<a, b>> \in Follows'
  BY <1>3, <1>4 DEF Follows
<1>6. \A a \in 1 .. pushed : <<a, pushed'>> \in Follows' /\ <<a, pushed'>> \in Less
  <2>1. pushed' \in Nat
    BY <1>1
  <2> QED
    BY <2>1, <1>4 DEF Follows, Less
<1> QED
  BY <1>1, <1>3, <1>4, <1>5, <1>6

\* The message of a push is the last of all, and of its handler.
LEMMA SendOrder ==
  ASSUME OInv, NEW p \in Pushers, PushSend(p)
  PROVE  Pushed' /\ HandlersInOrder' /\ LastAreKept'
<1> DEFINE n == pushed'
<1>0. /\ n = pushed + 1 /\ pushed \in Nat
      /\ owner' \in Seq(Pushers) /\ Len(owner') = n
      /\ \A m \in 1 .. pushed : owner'[m] = owner[m] /\ m < n
      /\ owner'[n] = p
      /\ \A a, b \in 1 .. pushed : <<a, b>> \in Follows => <<a, b>> \in Follows'
      /\ \A a \in 1 .. pushed : <<a, n>> \in Follows' /\ <<a, n>> \in Less
  BY NewIsLast
<1>1. /\ phase[p] = "idle" /\ got' = got /\ lost' = lost
      /\ overlapped' = (overlapped \/ \E q \in Pushers : phase[q] # "idle")
      /\ \A q \in Pushers \ {p} : phase'[q] = phase[q] /\ msg'[q] = msg[q]
      /\ HasRoom => queue' = Append(queue, n) /\ phase'[p] = "idle"
      /\ ~HasRoom => queue' = queue /\ phase'[p] = "evict" /\ msg'[p] = n
  BY DEF PushSend, OInv, CaptureIInv, CaptureTyped
<1>2. /\ queue \in Seq(Nat) /\ Range(queue) \cup lost \subseteq 1 .. pushed
      /\ \A r \in Readers : Range(got[r]) \subseteq 1 .. pushed
      /\ Len(queue) <= Capacity /\ Capacity \in Nat /\ IsInjective(queue)
      /\ n \notin Range(queue) /\ n \in Nat
  BY <1>0, CapacityIsPositive DEF OInv, Pushed, CaptureIInv, CaptureTyped, EachMessageOnce
<1>3. /\ queue' \in Seq(Nat) /\ Len(queue') <= Capacity
      /\ Range(queue') \subseteq Range(queue) \cup {n}
  <2>1. CASE HasRoom
    <3>1. Append(queue, n) \in Seq(Nat) /\ Len(Append(queue, n)) = Len(queue) + 1
      BY <1>2
    <3>2. Range(Append(queue, n)) = Range(queue) \cup {n}
      BY <1>2, AppendedOnce
    <3>3. Len(queue) < Capacity /\ Len(queue) \in Nat
      BY <2>1, <1>2 DEF HasRoom
    <3>4. Len(queue) + 1 <= Capacity
      BY <3>3, <1>2
    <3>5. queue' = Append(queue, n)
      BY <2>1, <1>1
    <3> QED
      BY <3>1, <3>2, <3>4, <3>5
  <2>2. CASE ~HasRoom
    BY <2>2, <1>1, <1>2
  <2> QED
    BY <2>1, <2>2
<1>4. Pushed'
  <2>1. 1 .. pushed \subseteq 1 .. n /\ n \in 1 .. n
    BY <1>0
  <2> QED
    BY <2>1, <1>0, <1>1, <1>2, <1>3 DEF Pushed
<1>5. Sorted(queue', Follows')
  <2>1. Sorted(queue, Follows')
    <3>1. Sorted(queue, Follows)
      BY DEF OInv, HandlersInOrder
    <3> QED
      BY <3>1, <1>0, <1>2, StillSorted
  <2>2. Sorted(Append(queue, n), Follows')
    <3>1. \A a \in Range(queue) : <<a, n>> \in Follows'
      BY <1>0, <1>2
    <3> QED
      BY <2>1, <3>1, <1>2, AppendedSorted
  <2> QED
    BY <2>1, <2>2, <1>1
<1>6. HandlersInOrder'
  <2>1. ASSUME NEW r \in Readers
        PROVE  /\ Sorted(got'[r], Follows')
               /\ \A a \in Range(got'[r]), b \in Range(queue') : <<a, b>> \in Follows'
    <3>1. /\ Sorted(got[r], Follows)
          /\ \A a \in Range(got[r]), b \in Range(queue) : <<a, b>> \in Follows
      BY DEF OInv, HandlersInOrder
    <3>2. Sorted(got[r], Follows')
      BY <3>1, <1>0, <1>2, StillSorted
    <3>3. ASSUME NEW a \in Range(got[r]), NEW b \in Range(queue')
          PROVE  <<a, b>> \in Follows'
      BY <3>1, <1>0, <1>2, <1>3
    <3> QED
      BY <3>2, <3>3, <1>1
  <2>2. ASSUME NEW q \in Pushers, phase'[q] # "idle"
        PROVE  owner'[msg'[q]] = q /\ \A m \in 1 .. n : owner'[m] = q => m <= msg'[q]
    <3>1. CASE q = p
      <4>1. msg'[q] = n
        BY <3>1, <2>2, <1>1
      <4> QED
        BY <4>1, <3>1, <1>0
    <3>2. CASE q # p
      <4>1. phase[q] # "idle" /\ msg'[q] = msg[q] /\ msg[q] \in 1 .. pushed
        BY <3>2, <2>2, <1>1 DEF OInv, CaptureIInv, HandsAreOwn
      <4>2. owner[msg[q]] = q /\ \A m \in 1 .. pushed : owner[m] = q => m <= msg[q]
        BY <4>1 DEF OInv, HandlersInOrder
      <4>3. \A m \in 1 .. n : m \in 1 .. pushed \/ m = n
        BY <1>0
      <4> QED
        BY <4>1, <4>2, <4>3, <3>2, <1>0
    <3> QED
      BY <3>1, <3>2
  <2> QED
    BY <1>5, <2>1, <2>2 DEF HandlersInOrder
<1>7. LastAreKept'
  <2> SUFFICES ASSUME ~overlapped'
               PROVE  /\ Sorted(queue', Less)
                      /\ OldestIsDropped'
                      /\ \A q \in Pushers :
                           phase'[q] # "idle" =>
                             msg'[q] = n /\ \A t \in Pushers \ {q} : phase'[t] = "idle"
                      /\ \A q \in Pushers : phase'[q] = "resend" => HasRoom'
    BY DEF LastAreKept
  <2>1. ~overlapped /\ \A q \in Pushers : phase[q] = "idle"
    BY <1>1
  <2>2. Sorted(queue, Less) /\ \A m \in lost : \A b \in Range(queue) : m < b
    BY <2>1, OldestOfRange DEF OInv, LastAreKept
  <2>3. Sorted(queue', Less)
    <3>1. \A a \in Range(queue) : <<a, n>> \in Less
      BY <1>0, <1>2
    <3>2. Sorted(Append(queue, n), Less)
      BY <2>2, <3>1, <1>2, AppendedSorted
    <3> QED
      BY <3>2, <2>2, <1>1
  <2>4. OldestIsDropped'
    <3>1. ASSUME NEW m \in lost, NEW b \in Range(queue') PROVE m < b
      <4>1. m \in 1 .. pushed
        BY <1>2
      <4>2. b \in Range(queue) \/ b = n
        BY <1>3
      <4> QED
        BY <4>1, <4>2, <2>2, <1>0
    <3>2. ASSUME NEW m \in lost', NEW i \in DOMAIN queue' PROVE m < queue'[i]
      BY <3>1, <1>1 DEF Range
    <3> QED
      BY <3>2 DEF OldestIsDropped
  <2>5. \A q \in Pushers \ {p} : phase'[q] = "idle"
    BY <2>1, <1>1
  <2>6. phase'[p] # "resend" /\ (phase'[p] # "idle" => msg'[p] = n)
    BY <1>1
  <2> QED
    BY <2>3, <2>4, <2>5, <2>6
<1> QED
  BY <1>4, <1>6, <1>7

\* The oldest message makes room.
LEMMA EvictOrder ==
  ASSUME OInv, NEW p \in Pushers, PushEvict(p)
  PROVE  Pushed' /\ HandlersInOrder' /\ LastAreKept'
<1>1. /\ phase[p] = "evict" /\ got' = got /\ msg' = msg /\ pushed' = pushed
      /\ owner' = owner /\ overlapped' = overlapped /\ phase'[p] = "resend"
      /\ \A q \in Pushers \ {p} : phase'[q] = phase[q]
  BY DEF PushEvict, history, OInv, CaptureIInv, CaptureTyped
<1>2. queue \in Seq(Nat) /\ Len(queue) <= Capacity /\ Capacity \in Nat \ {0}
      /\ Len(queue) \in Nat
  BY CapacityIsPositive DEF OInv, Pushed, CaptureIInv, CaptureTyped
<1>3. Follows' = Follows
  BY <1>1 DEF Follows
<1>4. /\ queue' \in Seq(Nat) /\ Range(queue') \subseteq Range(queue)
      /\ lost' \subseteq lost \cup Range(queue)
      /\ Len(queue') <= Capacity /\ HasRoom'
      /\ \A R : Sorted(queue, R) => Sorted(queue', R)
      /\ Sorted(queue, Less) =>
           \A m \in lost' : m \in lost \/ \A b \in Range(queue') : m < b
  <2>1. CASE queue = <<>>
    <3>1. queue' = queue /\ lost' = lost /\ Len(queue) = 0
      BY <2>1 DEF PushEvict
    <3>2. HasRoom'
      BY <3>1, <1>2 DEF HasRoom
    <3> QED
      BY <3>1, <3>2, <1>2
  <2>2. CASE queue # <<>>
    <3>1. queue' = Tail(queue) /\ lost' = lost \cup {Head(queue)}
      BY <2>2 DEF PushEvict
    <3>2. /\ Tail(queue) \in Seq(Nat) /\ Head(queue) \in Range(queue)
          /\ Range(Tail(queue)) = Range(queue) \ {Head(queue)}
      BY <2>2, TakenOnce DEF OInv, CaptureIInv, CaptureTyped, EachMessageOnce
    <3>3. Len(Tail(queue)) = Len(queue) - 1
      BY <2>2, <1>2
    <3>4. Len(queue') < Capacity /\ Len(queue') <= Capacity
      BY <3>1, <3>3, <1>2
    <3>5. \A R : Sorted(queue, R) => Sorted(Tail(queue), R)
      BY <2>2, <1>2, TakenSorted
    <3>6. Sorted(queue, Less) => \A b \in Range(Tail(queue)) : <<Head(queue), b>> \in Less
      BY <2>2, <1>2, TakenSorted
    <3>7. Sorted(queue, Less) => \A b \in Range(Tail(queue)) : Head(queue) < b
      BY <3>6 DEF Less
    <3> QED
      BY <3>1, <3>2, <3>4, <3>5, <3>7 DEF HasRoom
  <2> QED
    BY <2>1, <2>2
<1>5. Pushed'
  BY <1>1, <1>4 DEF OInv, Pushed
<1>6. HandlersInOrder'
  <2>1. Sorted(queue', Follows')
    BY <1>3, <1>4 DEF OInv, HandlersInOrder
  <2>2. ASSUME NEW r \in Readers
        PROVE  /\ Sorted(got'[r], Follows')
               /\ \A a \in Range(got'[r]), b \in Range(queue') : <<a, b>> \in Follows'
    BY <1>1, <1>3, <1>4 DEF OInv, HandlersInOrder
  <2>3. ASSUME NEW q \in Pushers, phase'[q] # "idle"
        PROVE  owner'[msg'[q]] = q /\ \A m \in 1 .. pushed' : owner'[m] = q => m <= msg'[q]
    <3>1. phase[q] # "idle"
      BY <2>3, <1>1
    <3> QED
      BY <3>1, <1>1 DEF OInv, HandlersInOrder
  <2> QED
    BY <2>1, <2>2, <2>3 DEF HandlersInOrder
<1>7. LastAreKept'
  <2> SUFFICES ASSUME ~overlapped'
               PROVE  /\ Sorted(queue', Less)
                      /\ OldestIsDropped'
                      /\ \A q \in Pushers :
                           phase'[q] # "idle" =>
                             msg'[q] = pushed' /\ \A t \in Pushers \ {q} : phase'[t] = "idle"
                      /\ \A q \in Pushers : phase'[q] = "resend" => HasRoom'
    BY DEF LastAreKept
  <2>1. /\ Sorted(queue, Less) /\ \A m \in lost : \A b \in Range(queue) : m < b
        /\ msg[p] = pushed /\ \A t \in Pushers \ {p} : phase[t] = "idle"
    BY <1>1, OldestOfRange DEF OInv, LastAreKept
  <2>2. ASSUME NEW m \in lost', NEW i \in DOMAIN queue' PROVE m < queue'[i]
    <3>1. queue'[i] \in Range(queue') /\ queue'[i] \in Range(queue)
      BY <1>4 DEF Range
    <3> QED
      BY <3>1, <2>1, <1>4
  <2>3. OldestIsDropped'
    BY <2>2 DEF OldestIsDropped
  <2>4. \A q \in Pushers :
          phase'[q] # "idle" =>
            msg'[q] = pushed' /\ \A t \in Pushers \ {q} : phase'[t] = "idle"
    BY <2>1, <1>1
  <2> QED
    BY <2>1, <2>3, <2>4, <1>4
<1> QED
  BY <1>5, <1>6, <1>7

\* The message in hand comes after all others of its handler, and if pushes do not
\* overlap after all others, and finds room.
LEMMA ResendOrder ==
  ASSUME OInv, NEW p \in Pushers, PushResend(p)
  PROVE  Pushed' /\ HandlersInOrder' /\ LastAreKept'
<1> DEFINE m == msg[p]
<1>1. /\ phase[p] = "resend" /\ phase[p] # "idle" /\ got' = got /\ pushed' = pushed
      /\ owner' = owner /\ overlapped' = overlapped /\ phase'[p] = "idle"
      /\ \A q \in Pushers \ {p} : phase'[q] = phase[q] /\ msg'[q] = msg[q]
      /\ HasRoom => queue' = Append(queue, m) /\ lost' = lost
      /\ ~HasRoom => queue' = queue /\ lost' = lost \cup {m}
  BY DEF PushResend, history, OInv, CaptureIInv, CaptureTyped
<1>2. /\ queue \in Seq(Nat) /\ Len(queue) <= Capacity /\ Capacity \in Nat
      /\ IsInjective(queue) /\ Len(queue) \in Nat
      /\ Range(queue) \cup lost \subseteq 1 .. pushed /\ pushed \in Nat
      /\ \A r \in Readers : Range(got[r]) \subseteq 1 .. pushed
  BY CapacityIsPositive DEF OInv, Pushed, CaptureIInv, CaptureTyped, EachMessageOnce
<1>3. /\ m \in 1 .. pushed /\ m \in Nat /\ m \notin Range(queue) \cup lost
      /\ \A r \in Readers : m \notin Range(got[r])
  BY <1>1, <1>2 DEF OInv, CaptureIInv, HandsAreOwn, EachMessageOnce, InHand
<1>4. Follows' = Follows
  BY <1>1 DEF Follows
<1>5. \A a \in 1 .. pushed : a # m => <<a, m>> \in Follows
  <2>1. owner[m] = p /\ \A a \in 1 .. pushed : owner[a] = p => a <= m
    BY <1>1 DEF OInv, HandlersInOrder
  <2>2. ASSUME NEW a \in 1 .. pushed, a # m PROVE <<a, m>> \in Follows
    <3>1. a \in Nat /\ (owner[a] = owner[m] => a < m)
      BY <2>1, <2>2, <1>2, <1>3
    <3> QED
      BY <3>1, <1>3 DEF Follows
  <2> QED
    BY <2>2
<1>6. /\ queue' \in Seq(Nat) /\ Len(queue') <= Capacity
      /\ Range(queue') \subseteq Range(queue) \cup {m}
  <2>1. CASE HasRoom
    <3>1. /\ Append(queue, m) \in Seq(Nat) /\ Len(Append(queue, m)) = Len(queue) + 1
      BY <1>2, <1>3
    <3>2. Range(Append(queue, m)) = Range(queue) \cup {m}
      BY <1>2, <1>3, AppendedOnce
    <3>3. Len(queue) + 1 <= Capacity
      BY <2>1, <1>2 DEF HasRoom
    <3>4. queue' = Append(queue, m)
      BY <2>1, <1>1
    <3> QED
      BY <3>1, <3>2, <3>3, <3>4
  <2>2. CASE ~HasRoom
    BY <2>2, <1>1, <1>2
  <2> QED
    BY <2>1, <2>2
<1> HIDE DEF m
<1>7. Pushed'
  <2>1. lost' \subseteq 1 .. pushed /\ Range(queue') \subseteq 1 .. pushed
    BY <1>1, <1>2, <1>3, <1>6
  <2> QED
    BY <2>1, <1>1, <1>2, <1>6 DEF OInv, Pushed
<1>8. HandlersInOrder'
  <2>1. Sorted(queue', Follows)
    <3>1. Sorted(queue, Follows)
      BY DEF OInv, HandlersInOrder
    <3>2. \A a \in Range(queue) : <<a, m>> \in Follows
      BY <1>2, <1>3, <1>5
    <3>3. Sorted(Append(queue, m), Follows)
      BY <3>1, <3>2, <1>2, <1>3, AppendedSorted
    <3> QED
      BY <3>1, <3>3, <1>1
  <2>2. ASSUME NEW r \in Readers
        PROVE  /\ Sorted(got[r], Follows)
               /\ \A a \in Range(got[r]), b \in Range(queue') : <<a, b>> \in Follows
    <3>1. /\ Sorted(got[r], Follows)
          /\ \A a \in Range(got[r]), b \in Range(queue) : <<a, b>> \in Follows
      BY DEF OInv, HandlersInOrder
    <3>2. \A a \in Range(got[r]) : <<a, m>> \in Follows
      BY <1>2, <1>3, <1>5
    <3> QED
      BY <3>1, <3>2, <1>6
  <2>3. ASSUME NEW q \in Pushers, phase'[q] # "idle"
        PROVE  owner'[msg'[q]] = q /\ \A a \in 1 .. pushed' : owner'[a] = q => a <= msg'[q]
    <3>1. q # p /\ phase[q] # "idle" /\ msg'[q] = msg[q]
      BY <2>3, <1>1
    <3> QED
      BY <3>1, <1>1 DEF OInv, HandlersInOrder
  <2> QED
    BY <2>1, <2>2, <2>3, <1>1, <1>4 DEF HandlersInOrder
<1>9. LastAreKept'
  <2> SUFFICES ASSUME ~overlapped'
               PROVE  /\ Sorted(queue', Less)
                      /\ OldestIsDropped'
                      /\ \A q \in Pushers : phase'[q] = "idle"
    BY DEF LastAreKept
  <2>1. /\ Sorted(queue, Less) /\ \A a \in lost : \A b \in Range(queue) : a < b
        /\ m = pushed /\ \A t \in Pushers \ {p} : phase[t] = "idle"
        /\ HasRoom
    BY <1>1, OldestOfRange DEF OInv, LastAreKept, m
  <2>2. \A a \in Range(queue) \cup lost : a \in Nat /\ a < m
    BY <2>1, <1>2, <1>3
  <2>3. Sorted(queue', Less)
    <3>1. \A a \in Range(queue) : <<a, m>> \in Less
      BY <2>2, <1>3 DEF Less
    <3>2. Sorted(Append(queue, m), Less)
      BY <2>1, <3>1, <1>2, <1>3, AppendedSorted
    <3> QED
      BY <3>2, <2>1, <1>1
  <2>4. ASSUME NEW a \in lost', NEW i \in DOMAIN queue' PROVE a < queue'[i]
    <3>1. queue'[i] \in Range(queue') /\ lost' = lost
      BY <2>1, <1>1 DEF Range
    <3>2. queue'[i] \in Range(queue) \/ queue'[i] = m
      BY <3>1, <1>6
    <3> QED
      BY <3>1, <3>2, <2>1, <2>2
  <2>5. OldestIsDropped'
    BY <2>4 DEF OldestIsDropped
  <2>6. \A q \in Pushers : phase'[q] = "idle"
    BY <2>1, <1>1
  <2> QED
    BY <2>3, <2>5, <2>6
<1> QED
  BY <1>7, <1>8, <1>9

\* A drain begins with nothing, and ends with what it has.
LEMMA DrainBoundsOrder ==
  ASSUME OInv, NEW r \in Readers, DrainBegin(r) \/ DrainEnd(r)
  PROVE  Pushed' /\ HandlersInOrder' /\ LastAreKept'
<1>1. /\ queue' = queue /\ pushed' = pushed /\ phase' = phase /\ msg' = msg /\ lost' = lost
      /\ owner' = owner /\ overlapped' = overlapped
      /\ got' = got \/ got' = [got EXCEPT ![r] = <<>>]
  BY DEF DrainBegin, DrainEnd, history
<1>2. \A q \in Readers : got'[q] = got[q] \/ got'[q] = <<>>
  BY <1>1 DEF OInv, CaptureIInv, CaptureTyped
<1>3. Follows' = Follows
  BY <1>1 DEF Follows
<1>4. Pushed'
  BY <1>1, <1>2, EmptyOnce DEF OInv, Pushed
<1>5. HandlersInOrder'
  <2>1. ASSUME NEW q \in Readers
        PROVE  /\ Sorted(got'[q], Follows)
               /\ \A a \in Range(got'[q]), b \in Range(queue) : <<a, b>> \in Follows
    <3>1. CASE got'[q] = got[q]
      BY <3>1 DEF OInv, HandlersInOrder
    <3>2. CASE got'[q] = <<>>
      BY <3>2, EmptySorted, EmptyOnce
    <3> QED
      BY <3>1, <3>2, <1>2
  <2> QED
    BY <2>1, <1>1, <1>3 DEF OInv, HandlersInOrder
<1>6. LastAreKept'
  BY <1>1 DEF OInv, LastAreKept, OldestIsDropped, HasRoom
<1> QED
  BY <1>4, <1>5, <1>6

\* What a drain takes came after all it has, and comes before all that stays.
LEMMA TakeOrder ==
  ASSUME OInv, NEW r \in Readers, DrainTake(r)
  PROVE  Pushed' /\ HandlersInOrder' /\ LastAreKept'
<1> DEFINE m == Head(queue)
<1>1. /\ queue # <<>> /\ queue' = Tail(queue) /\ pushed' = pushed /\ phase' = phase
      /\ msg' = msg /\ lost' = lost /\ owner' = owner /\ overlapped' = overlapped
      /\ got' = [got EXCEPT ![r] = Append(@, m)]
  BY DEF DrainTake, history
<1>2. /\ Tail(queue) \in Seq(Nat) /\ m \in Nat /\ m \in Range(queue)
      /\ Range(Tail(queue)) = Range(queue) \ {m}
  BY <1>1, TakenOnce DEF OInv, CaptureIInv, CaptureTyped, EachMessageOnce
<1>3. queue \in Seq(Nat) /\ Len(queue) \in Nat /\ Len(queue) <= Capacity /\ Capacity \in Nat
  BY CapacityIsPositive DEF OInv, Pushed, CaptureIInv, CaptureTyped
<1>4. Len(Tail(queue)) = Len(queue) - 1
  BY <1>1, <1>3
<1>5. /\ got'[r] = Append(got[r], m) /\ \A q \in Readers \ {r} : got'[q] = got[q]
      /\ got[r] \in Seq(Nat) /\ IsInjective(got[r]) /\ m \notin Range(got[r])
  BY <1>1, <1>2 DEF OInv, CaptureIInv, CaptureTyped, EachMessageOnce
<1>6. Range(got'[r]) = Range(got[r]) \cup {m}
  BY <1>2, <1>5, AppendedOnce
<1>7. Follows' = Follows
  BY <1>1 DEF Follows
<1>8. \A R : Sorted(queue, R) =>
        Sorted(Tail(queue), R) /\ \A b \in Range(Tail(queue)) : <<m, b>> \in R
  BY <1>1, <1>3, TakenSorted
<1> HIDE DEF m
<1>9. Len(queue') <= Capacity /\ (HasRoom => HasRoom')
  BY <1>1, <1>3, <1>4 DEF HasRoom
<1>10. Pushed'
  <2>1. Range(queue') \cup lost' \subseteq 1 .. pushed'
    BY <1>1, <1>2 DEF OInv, Pushed
  <2>2. ASSUME NEW q \in Readers PROVE Range(got'[q]) \subseteq 1 .. pushed'
    <3>1. Range(got[q]) \subseteq 1 .. pushed /\ m \in 1 .. pushed
      BY <1>2 DEF OInv, Pushed
    <3> QED
      BY <3>1, <1>1, <1>5, <1>6
  <2> QED
    BY <2>1, <2>2, <1>1, <1>9 DEF OInv, Pushed
<1>11. HandlersInOrder'
  <2>1. /\ Sorted(Tail(queue), Follows)
        /\ \A b \in Range(Tail(queue)) : <<m, b>> \in Follows
    BY <1>8 DEF OInv, HandlersInOrder
  <2>2. ASSUME NEW q \in Readers
        PROVE  /\ Sorted(got'[q], Follows)
               /\ \A a \in Range(got'[q]), b \in Range(Tail(queue)) : <<a, b>> \in Follows
    <3>1. /\ Sorted(got[q], Follows)
          /\ \A a \in Range(got[q]), b \in Range(queue) : <<a, b>> \in Follows
      BY DEF OInv, HandlersInOrder
    <3>2. CASE q = r
      <4>1. \A a \in Range(got[r]) : <<a, m>> \in Follows
        BY <3>1, <3>2, <1>2
      <4>2. Sorted(Append(got[r], m), Follows)
        BY <4>1, <3>1, <3>2, <1>2, <1>5, AppendedSorted
      <4> QED
        BY <4>2, <3>1, <3>2, <2>1, <1>2, <1>5, <1>6
    <3>3. CASE q # r
      BY <3>1, <3>3, <1>2, <1>5
    <3> QED
      BY <3>2, <3>3
  <2> QED
    BY <2>1, <2>2, <1>1, <1>7 DEF OInv, HandlersInOrder
<1>12. LastAreKept'
  <2> SUFFICES ASSUME ~overlapped
               PROVE  /\ Sorted(Tail(queue), Less)
                      /\ OldestIsDropped'
                      /\ \A p \in Pushers : phase[p] = "resend" => HasRoom'
    BY <1>1 DEF OInv, LastAreKept
  <2>1. /\ Sorted(queue, Less) /\ \A a \in lost : \A b \in Range(queue) : a < b
        /\ \A p \in Pushers : phase[p] = "resend" => HasRoom
    BY OldestOfRange DEF OInv, LastAreKept
  <2>2. ASSUME NEW a \in lost', NEW i \in DOMAIN queue' PROVE a < queue'[i]
    <3>1. queue'[i] \in Range(queue')
      BY DEF Range
    <3> QED
      BY <3>1, <2>1, <1>1, <1>2
  <2>3. OldestIsDropped'
    BY <2>2 DEF OldestIsDropped
  <2> QED
    BY <2>1, <2>3, <1>8, <1>9
<1> QED
  BY <1>10, <1>11, <1>12

\* Every step keeps the order.
LEMMA NextOrder == OInv /\ [CaptureNext]_captureVars => OInv'
<1> SUFFICES ASSUME OInv, [CaptureNext]_captureVars PROVE OInv'
  OBVIOUS
<1>1. CaptureIInv'
  BY CaptureNextKeeps DEF OInv
<1>2. CASE UNCHANGED captureVars
  BY <1>1, <1>2 DEF captureVars, OInv, Pushed, HandlersInOrder, LastAreKept, Follows,
     OldestIsDropped, HasRoom
<1>3. ASSUME NEW p \in Pushers, PushSend(p) \/ PushEvict(p) \/ PushResend(p)
      PROVE  Pushed' /\ HandlersInOrder' /\ LastAreKept'
  BY <1>3, SendOrder, EvictOrder, ResendOrder
<1>4. ASSUME NEW r \in Readers, DrainBegin(r) \/ DrainTake(r) \/ DrainEnd(r)
      PROVE  Pushed' /\ HandlersInOrder' /\ LastAreKept'
  BY <1>4, DrainBoundsOrder, TakeOrder
<1> QED
  BY <1>1, <1>2, <1>3, <1>4 DEF CaptureNext, OInv

\* Pushes that never overlap keep the last messages, whatever the drains take
\* between the channel calls of one push; and each handler's messages stay in its
\* order in the channel and in what a drain returns, for any number of handlers
\* and drains and any capacity (push, drain).
THEOREM LastAreKeptInOrder == CaptureSpec => []PushesKeepTheLast
<1>1. ASSUME OInv PROVE PushesKeepTheLast
  <2>1. ~overlapped => OldestIsDropped
    BY <1>1 DEF OInv, LastAreKept
  <2>2. ASSUME NEW s \in {queue} \cup Range(got) PROVE Sorted(s, Follows)
    <3>1. s = queue \/ \E r \in Readers : s = got[r]
      BY <1>1 DEF Range, OInv, CaptureIInv, CaptureTyped
    <3> QED
      BY <3>1, <1>1 DEF OInv, HandlersInOrder
  <2>3. ASSUME NEW s \in {queue} \cup Range(got), NEW i \in DOMAIN s, NEW j \in DOMAIN s,
               i < j, owner[s[i]] = owner[s[j]]
        PROVE  s[i] < s[j]
    BY <2>2, <2>3 DEF Sorted, Follows
  <2> QED
    BY <2>1, <2>3 DEF PushesKeepTheLast
<1>2. OInv => PushesKeepTheLast
  BY <1>1
<1> QED
  BY <1>2, InitOrder, NextOrder, PTL DEF CaptureSpec

\* What the type has beside.
CaptureBounded ==
  /\ pushed <= MaxPushed
  /\ \A p \in Pushers : msg[p] <= MaxPushed
  /\ draining \in [Readers -> BOOLEAN]
  /\ overlapped \in BOOLEAN

\* No step passes the bound of the model.
LEMMA NextBounded == OInv /\ CaptureBounded /\ [CaptureNext]_captureVars => CaptureBounded'
<1> SUFFICES ASSUME OInv, CaptureBounded, [CaptureNext]_captureVars PROVE CaptureBounded'
  OBVIOUS
<1>0. /\ pushed \in Nat /\ msg \in [Pushers -> Nat] /\ MaxPushed \in Nat
      /\ \A p \in Pushers : msg[p] <= MaxPushed
      /\ pushed <= MaxPushed
  BY BoundIsNatural DEF OInv, CaptureIInv, CaptureTyped, CaptureBounded
<1>1. CASE UNCHANGED captureVars
  BY <1>1 DEF captureVars, CaptureBounded
<1>2. ASSUME NEW p \in Pushers, PushSend(p) PROVE CaptureBounded'
  <2>1. /\ pushed' <= MaxPushed /\ pushed' \in Nat
        /\ msg' = [msg EXCEPT ![p] = IF HasRoom THEN 0 ELSE pushed']
    BY <1>0, <1>2 DEF PushSend
  <2>2. \A q \in Pushers : msg'[q] <= MaxPushed
    BY <2>1, <1>0
  <2>3. draining' = draining /\ overlapped' \in BOOLEAN
    BY <1>2 DEF PushSend, CaptureBounded
  <2> QED
    BY <2>1, <2>2, <2>3 DEF CaptureBounded
<1>3. ASSUME NEW p \in Pushers, PushEvict(p) \/ PushResend(p) PROVE CaptureBounded'
  <2>1. /\ pushed' = pushed /\ draining' = draining /\ overlapped' = overlapped
        /\ msg' = msg \/ msg' = [msg EXCEPT ![p] = 0]
    BY <1>3 DEF PushEvict, PushResend, history
  <2>2. \A q \in Pushers : msg'[q] <= MaxPushed
    BY <2>1, <1>0
  <2> QED
    BY <2>1, <2>2 DEF CaptureBounded
<1>4. ASSUME NEW r \in Readers, DrainBegin(r) \/ DrainTake(r) \/ DrainEnd(r) PROVE CaptureBounded'
  <2>1. /\ pushed' = pushed /\ msg' = msg /\ overlapped' = overlapped
        /\ draining' \in [Readers -> BOOLEAN]
    BY <1>4 DEF DrainBegin, DrainTake, DrainEnd, history, CaptureBounded
  <2> QED
    BY <2>1 DEF CaptureBounded
<1> QED
  BY <1>1, <1>2, <1>3, <1>4 DEF CaptureNext

\* The state keeps its type: in particular the channel never holds more messages
\* than it was opened for (try_send).
THEOREM CaptureTypeCorrect == CaptureSpec => []CaptureTypeOK
<1>1. ASSUME CaptureInit PROVE CaptureBounded
  <2>1. pushed <= MaxPushed /\ \A p \in Pushers : msg[p] <= MaxPushed
    BY <1>1, BoundIsNatural DEF CaptureInit
  <2>2. draining \in [Readers -> BOOLEAN] /\ overlapped \in BOOLEAN
    BY <1>1 DEF CaptureInit
  <2> QED
    BY <2>1, <2>2 DEF CaptureBounded
<1>2. ASSUME NEW s \in Seq(Nat), Range(s) \subseteq 1 .. pushed, pushed \in Nat,
             pushed <= MaxPushed
      PROVE  s \in Seq(Messages)
  <2>1. Range(s) \subseteq Messages
    BY <1>2, BoundIsNatural DEF Messages
  <2>2. \A i \in 1 .. Len(s) : s[i] \in Messages
    BY <2>1 DEF Range
  <2> QED
    BY <2>2
<1>3. ASSUME OInv, CaptureBounded PROVE CaptureTypeOK
  <2>1. /\ queue \in Seq(Nat) /\ Range(queue) \cup lost \subseteq 1 .. pushed
        /\ pushed \in Nat /\ pushed <= MaxPushed /\ MaxPushed \in Nat
        /\ msg \in [Pushers -> Nat] /\ \A p \in Pushers : msg[p] <= MaxPushed
        /\ got \in [Readers -> Seq(Nat)]
        /\ \A r \in Readers : Range(got[r]) \subseteq 1 .. pushed
    BY <1>3, BoundIsNatural DEF OInv, CaptureIInv, CaptureTyped, Pushed, CaptureBounded
  <2>2. queue \in Seq(Messages) /\ got \in [Readers -> Seq(Messages)]
    BY <1>2, <2>1
  <2>3. pushed \in 0 .. MaxPushed /\ lost \subseteq Messages
    BY <2>1 DEF Messages
  <2>4. msg \in [Pushers -> 0 .. MaxPushed]
    BY <2>1
  <2> QED
    BY <1>3, <2>2, <2>3, <2>4 DEF CaptureTypeOK, OInv, CaptureIInv, CaptureTyped, Pushed, CaptureBounded
<1>4. (CaptureInit => CaptureBounded) /\ (OInv /\ CaptureBounded => CaptureTypeOK)
  BY <1>1, <1>3
<1> QED
  BY <1>4, InitOrder, NextOrder, NextBounded, PTL DEF CaptureSpec
=============================================================================
