------------------------- MODULE UiConsumersProofs -------------------------
(***************************************************************************)
(* What UiConsumers guarantees for every number of calls, consumers and    *)
(* settings: no task is lost, the table of consumers is one slot for each, *)
(* and what runs, what is stored and what is in memory agree as long as no *)
(* update runs beside another or beside a start.                           *)
(*                                                                         *)
(* The argument rests on the queue of the table's lock: whoever has a task *)
(* in hand is first in it, as a writer, so that nobody else changes the    *)
(* table meanwhile.                                                        *)
(***************************************************************************)
EXTENDS UiConsumers, SequenceTheorems, FiniteSetTheorems, TLAPS

Modes == {"read", "write"}

\* The phases in which a call waits for the table or has it locked, and those
\* in which it has.
TablePhases == {"start_handles", "run", "stop_handles", "stop_task",
                "update_handles", "update_task", "status_handles"}
Holding     == {"run", "stop_task", "update_task"}

\* A call is once at most in a queue.
Once(lock) ==
  \A i, j \in DOMAIN lock : lock[i][1] = lock[j][1] => i = j

\* Who is in the queue of the table asks for it, and only a status for reading.
TableQueue ==
  /\ Once(handlesLock)
  /\ \A i \in DOMAIN handlesLock :
       /\ pc[handlesLock[i][1]] \in TablePhases
       /\ handlesLock[i][2] = "read" <=> pc[handlesLock[i][1]] = "status_handles"

\* The table is locked by whoever works with a task.
TableIsHeld ==
  \A c \in Clients :
    pc[c] \in Holding => handlesLock # <<>> /\ handlesLock[1] = <<c, "write">>

\* A task in hand is that of a call that has the table locked, and of a consumer
\* whose task is not in the table.
HandsAreHeld ==
  \A c \in Clients :
    /\ hand[c] # None => pc[c] \in Holding /\ ~IsLive(handles[hand[c]])
    /\ pc[c] = "run" => hand[c] \in keys[c]

\* A call has read what it works from.
CallsHaveConfigs ==
  \A c \in Clients :
    /\ pc[c] \in {"start_handles", "run"} =>
         copy[c] \in Configs /\ \A k \in keys[c] : copy[c][k] # None
    /\ pc[c] \in UpdatePhases => new[c] \in Configs
    /\ pc[c] \in UpdatePhases \ {"update_config"} => copy[c] \in Configs

\* One task runs for a consumer whose task is in the table or in a hand.
TasksAreOne ==
  \A k \in Consumers :
    tasks[k] = IF IsLive(handles[k]) \/ \E c \in Clients : hand[c] = k THEN 1 ELSE 0

\* As long as nothing overlapped, an update is alone with stops and statuses.
UpdatesAreAlone ==
  ~overlapped =>
    \A c, d \in Clients :
      pc[c] \in UpdatePhases /\ d # c => pc[d] \notin StartPhases \cup UpdatePhases

\* Then what a call has read is still the configuration,
CopiesAreCurrent ==
  ~overlapped =>
    \A c \in Clients :
      pc[c] \in {"start_handles", "run"} \cup (UpdatePhases \ {"update_config"}) =>
        copy[c] = config

\* what runs when an update begins to save is in the new configuration too,
StoppedBeforeSave ==
  ~overlapped =>
    \A c \in Clients :
      pc[c] \in {"save", "secure", "swap"} =>
        \A k \in Consumers : IsLive(handles[k]) => handles[k].settings = new[c][k]

\* and the file comes first, the security second and the memory last.
SavedInOrder ==
  ~overlapped =>
    /\ \A c \in Clients : pc[c] \in {"secure", "swap"} => file = new[c]
    /\ \A c \in Clients : pc[c] = "swap" => security = new[c]
    /\ ~Busy({"secure", "swap"}) => file \in {config, Torn}
    /\ ~Busy({"swap"}) => security = config

IInv ==
  /\ TypeOK
  /\ TableQueue
  /\ TableIsHeld
  /\ HandsAreHeld
  /\ CallsHaveConfigs
  /\ TasksAreOne
  /\ UpdatesAreAlone
  /\ CopiesAreCurrent
  /\ RunningFollowsConfig
  /\ StoppedBeforeSave
  /\ SavedInOrder

-----------------------------------------------------------------------------
(* Queues.                                                                 *)

Queues == Seq(Clients \X Modes)

\* A queue without its entry at place n: the others keep their order.
LEMMA WithoutOne ==
  ASSUME NEW s \in Queues, NEW n \in 1 .. Len(s)
  PROVE  /\ RemoveAt(s, n) \in Queues
         /\ Len(RemoveAt(s, n)) = Len(s) - 1
         /\ \A i \in 1 .. Len(s) - 1 :
              RemoveAt(s, n)[i] = IF i < n THEN s[i] ELSE s[i + 1]
<1> DEFINE a == SubSeq(s, 1, n - 1)
           b == SubSeq(s, n + 1, Len(s))
<1>1. /\ Len(s) \in Nat /\ n \in Nat /\ 1 <= n /\ n <= Len(s)
      /\ \A i \in 1 .. Len(s) : s[i] \in Clients \X Modes
  BY DEF Queues
<1>2. /\ a \in Seq(Clients \X Modes) /\ Len(a) = n - 1
      /\ \A i \in 1 .. n - 1 : a[i] = s[i]
  BY <1>1, SubSeqProperties
<1>3. /\ b \in Seq(Clients \X Modes) /\ Len(b) = Len(s) - n
      /\ \A i \in 1 .. Len(s) - n : b[i] = s[n + i]
  <2>1. /\ b \in Seq(Clients \X Modes)
        /\ Len(b) = IF n + 1 <= Len(s) THEN Len(s) - (n + 1) + 1 ELSE 0
        /\ \A i \in 1 .. Len(s) - (n + 1) + 1 : b[i] = s[(n + 1) + i - 1]
    BY <1>1, SubSeqProperties
  <2> QED
    BY <1>1, <2>1
<1> HIDE DEF a, b
<1>4. /\ a \o b \in Seq(Clients \X Modes) /\ Len(a \o b) = Len(a) + Len(b)
      /\ \A i \in 1 .. Len(a) + Len(b) :
           (a \o b)[i] = IF i <= Len(a) THEN a[i] ELSE b[i - Len(a)]
  BY <1>2, <1>3, ConcatProperties
<1>5. ASSUME NEW i \in 1 .. Len(s) - 1
      PROVE  (a \o b)[i] = IF i < n THEN s[i] ELSE s[i + 1]
  <2>1. CASE i < n
    BY <1>1, <1>2, <1>3, <1>4, <2>1
  <2>2. CASE ~(i < n)
    <3>1. (a \o b)[i] = b[i - (n - 1)] /\ i - (n - 1) \in 1 .. Len(s) - n
      BY <1>1, <1>2, <1>3, <1>4, <2>2
    <3>2. b[i - (n - 1)] = s[n + (i - (n - 1))]
      BY <1>3, <3>1
    <3>3. n + (i - (n - 1)) = i + 1
      BY <1>1
    <3> QED
      BY <2>2, <3>1, <3>2, <3>3
  <2> QED
    BY <2>1, <2>2
<1>6. RemoveAt(s, n) = a \o b
  BY DEF RemoveAt, a, b
<1>7. Len(a) + Len(b) = Len(s) - 1
  BY <1>1, <1>2, <1>3
<1> QED
  BY <1>4, <1>5, <1>6, <1>7 DEF Queues

\* Whoever leaves a queue leaves the others in it, once each, and the first one
\* stays the first.
LEMMA LeftQueue ==
  ASSUME NEW s \in Queues, NEW c \in Clients
  PROVE  /\ Left(s, c) \in Queues
         /\ Once(s) =>
              /\ Once(Left(s, c))
              /\ \A i \in DOMAIN Left(s, c) :
                   /\ Left(s, c)[i][1] # c
                   /\ \E j \in DOMAIN s : Left(s, c)[i] = s[j]
         /\ s # <<>> /\ s[1][1] # c => Left(s, c) # <<>> /\ Left(s, c)[1] = s[1]
<1>1. CASE Places(s, c) = {}
  BY <1>1 DEF Left, Places, Queues
<1>2. CASE Places(s, c) # {}
  <2> DEFINE n == CHOOSE i \in Places(s, c) : TRUE
             t == RemoveAt(s, n)
  <2>1. n \in 1 .. Len(s) /\ s[n][1] = c /\ Left(s, c) = t
    BY <1>2 DEF Left, Places, Queues
  <2> HIDE DEF n
  <2>2. /\ t \in Queues /\ Len(t) = Len(s) - 1
        /\ \A i \in 1 .. Len(s) - 1 : t[i] = IF i < n THEN s[i] ELSE s[i + 1]
    <3>1. n \in 1 .. Len(s)
      BY <2>1
    <3> QED
      BY <3>1, WithoutOne, Zenon
  <2>3. DOMAIN s = 1 .. Len(s) /\ DOMAIN t = 1 .. Len(s) - 1 /\ Len(s) \in Nat
    BY <2>2 DEF Queues
  <2> HIDE DEF t
  <2>4. ASSUME Once(s)
        PROVE  /\ Once(t)
               /\ \A i \in DOMAIN t : t[i][1] # c /\ \E j \in DOMAIN s : t[i] = s[j]
    <3>1. ASSUME NEW i \in DOMAIN t
          PROVE  \E j \in DOMAIN s : j # n /\ t[i] = s[j] /\ j = IF i < n THEN i ELSE i + 1
      BY <2>1, <2>2, <2>3
    <3>2. \A i \in DOMAIN t : t[i][1] # c
      BY <2>1, <2>3, <2>4, <3>1 DEF Once
    <3>3. ASSUME NEW i \in DOMAIN t, NEW h \in DOMAIN t, t[i][1] = t[h][1]
          PROVE  i = h
      <4>1. PICK j \in DOMAIN s : t[i] = s[j] /\ j = IF i < n THEN i ELSE i + 1
        BY <3>1
      <4>2. PICK l \in DOMAIN s : t[h] = s[l] /\ l = IF h < n THEN h ELSE h + 1
        BY <3>1
      <4>3. j = l
        BY <2>4, <3>3, <4>1, <4>2 DEF Once
      <4> QED
        BY <2>1, <2>3, <4>1, <4>2, <4>3
    <3> QED
      BY <3>1, <3>2, <3>3 DEF Once
  <2>5. s # <<>> /\ s[1][1] # c => t # <<>> /\ t[1] = s[1]
    <3> HAVE s # <<>> /\ s[1][1] # c
    <3>1. n # 1 /\ 1 < n /\ Len(s) - 1 >= 1
      BY <2>1, <2>2
    <3> QED
      BY <2>1, <2>2, <2>3, <3>1 DEF Queues
  <2> QED
    BY <2>1, <2>2, <2>4, <2>5
<1> QED
  BY <1>1, <1>2

\* Whoever joins a queue is its last.
LEMMA AskedQueue ==
  ASSUME NEW s \in Queues, NEW c \in Clients, NEW m \in Modes
  PROVE  /\ Ask(s, c, m) \in Queues
         /\ Once(s) /\ (\A i \in DOMAIN s : s[i][1] # c) => Once(Ask(s, c, m))
         /\ \A i \in DOMAIN Ask(s, c, m) :
              \/ Ask(s, c, m)[i] = <<c, m>>
              \/ i \in DOMAIN s /\ Ask(s, c, m)[i] = s[i]
         /\ s # <<>> => Ask(s, c, m) # <<>> /\ Ask(s, c, m)[1] = s[1]
<1> DEFINE t == Ask(s, c, m)
<1>1. <<c, m>> \in Clients \X Modes
  OBVIOUS
<1>2. /\ t \in Queues /\ Len(t) = Len(s) + 1 /\ Len(s) \in Nat
      /\ \A i \in 1 .. Len(s) : t[i] = s[i]
      /\ t[Len(s) + 1] = <<c, m>>
  BY <1>1 DEF Ask, Queues
<1>3. DOMAIN s = 1 .. Len(s) /\ DOMAIN t = 1 .. Len(s) + 1
  BY <1>2 DEF Queues
<1> HIDE DEF t
<1>4. ASSUME Once(s), \A i \in DOMAIN s : s[i][1] # c
      PROVE  Once(t)
  BY <1>2, <1>3, <1>4 DEF Once
<1>5. s # <<>> => t # <<>> /\ t[1] = s[1]
  BY <1>2, <1>3 DEF Queues
<1>6. \A i \in DOMAIN t : t[i] = <<c, m>> \/ (i \in DOMAIN s /\ t[i] = s[i])
  <2> TAKE i \in DOMAIN t
  <2>1. i \in 1 .. Len(s) \/ i = Len(s) + 1
    BY <1>2, <1>3
  <2> QED
    BY <1>2, <1>3, <2>1
<1> QED
  BY <1>2, <1>4, <1>5, <1>6, Zenon DEF t

\* Every step of a call leaves its queues queues.
LEMMA QueuesStay ==
  ASSUME TypeOK, NEW c \in Clients
  PROVE  /\ configLock \in Queues /\ handlesLock \in Queues
         /\ Left(configLock, c) \in Queues /\ Left(handlesLock, c) \in Queues
         /\ \A m \in Modes : /\ Ask(configLock, c, m) \in Queues
                             /\ Ask(handlesLock, c, m) \in Queues
                             /\ Ask(Left(handlesLock, c), c, m) \in Queues
<1>1. configLock \in Queues /\ handlesLock \in Queues
  BY DEF TypeOK, Queues, Modes
<1>2. Left(configLock, c) \in Queues /\ Left(handlesLock, c) \in Queues
  BY <1>1, LeftQueue
<1> QED
  BY <1>1, <1>2, AskedQueue

\* A writer that is served is the first in the queue.
LEMMA ServedIsFirst ==
  ASSUME IInv, NEW c \in Clients, Granted(handlesLock, c),
         pc[c] \in {"start_handles", "stop_handles", "update_handles"}
  PROVE  handlesLock # <<>> /\ handlesLock[1] = <<c, "write">>
<1>1. handlesLock \in Queues
  BY QueuesStay DEF IInv
<1>2. PICK i \in DOMAIN handlesLock :
        /\ handlesLock[i][1] = c
        /\ i = 1 \/ \A j \in 1 .. i : handlesLock[j][2] = "read"
  BY DEF Granted
<1>3. handlesLock[i][2] # "read"
  BY <1>2 DEF IInv, TableQueue
<1>4. i \in Nat /\ 1 <= i /\ handlesLock[i] \in Clients \X Modes
  BY <1>1, <1>2 DEF Queues
<1>5. i = 1
  BY <1>2, <1>3, <1>4
<1>6. handlesLock[1] = <<c, "write">>
  BY <1>2, <1>3, <1>4, <1>5 DEF Modes
<1> QED
  BY <1>1, <1>2, <1>6 DEF Queues

\* Nobody else has a task in hand or works with one.
LEMMA OneHolder ==
  ASSUME IInv, NEW c \in Clients, NEW d \in Clients, d # c,
         \/ pc[c] \in Holding
         \/ /\ Granted(handlesLock, c)
            /\ pc[c] \in {"start_handles", "stop_handles", "update_handles"}
  PROVE  pc[d] \notin Holding /\ hand[d] = None
<1>1. handlesLock[1] = <<c, "write">>
  BY ServedIsFirst DEF IInv, TableIsHeld
<1>2. pc[d] \notin Holding
  BY <1>1 DEF IInv, TableIsHeld
<1> QED
  BY <1>2 DEF IInv, HandsAreHeld

-----------------------------------------------------------------------------
(* The queue of the table.                                                 *)

\* What a step of a call makes of its place in the queue of the table: it is in
\* none before and after, leaves it, joins it, joins it anew, or stays in it and
\* goes on if it has been served.
Queueing(c) ==
  \/ /\ {pc[c], pc'[c]} \cap TablePhases = {}
     /\ handlesLock' = handlesLock
  \/ /\ pc'[c] \notin TablePhases
     /\ handlesLock' = Left(handlesLock, c)
  \/ /\ pc[c] \notin TablePhases /\ pc'[c] \in TablePhases \ Holding
     /\ handlesLock' =
            Ask(handlesLock, c, IF pc'[c] = "status_handles" THEN "read" ELSE "write")
  \/ /\ pc'[c] = "start_handles"
     /\ handlesLock' = Ask(Left(handlesLock, c), c, "write")
  \/ /\ {pc[c], pc'[c]} \subseteq TablePhases \ {"status_handles"}
     /\ pc[c] \in Holding \/ Granted(handlesLock, c)
     /\ handlesLock' = handlesLock

\* Such a step keeps the queue in order, and its first place with its holder.
LEMMA QueueingKeeps ==
  ASSUME IInv, NEW c \in Clients, \A d \in Clients \ {c} : pc'[d] = pc[d],
         Queueing(c)
  PROVE  TableQueue' /\ TableIsHeld'
<1> DEFINE q == handlesLock
<1>1. q \in Queues /\ Once(q) /\ DOMAIN q = 1 .. Len(q)
  BY QueuesStay DEF IInv, TableQueue, Queues
<1>2. \A i \in DOMAIN q : q[i][1] \in Clients /\ q[i][2] \in Modes
  BY <1>1 DEF Queues
<1>3. \A i \in DOMAIN q :
        /\ pc[q[i][1]] \in TablePhases
        /\ q[i][2] = "read" <=> pc[q[i][1]] = "status_handles"
  BY DEF IInv, TableQueue
<1>4. \A d \in Clients : pc[d] \in Holding => q # <<>> /\ q[1] = <<d, "write">>
  BY DEF IInv, TableIsHeld
<1>5. Holding \subseteq TablePhases \ {"status_handles"}
  BY DEF Holding, TablePhases
<1>6. CASE {pc[c], pc'[c]} \cap TablePhases = {} /\ q' = q
  <2>1. \A i \in DOMAIN q : q[i][1] # c
    BY <1>3, <1>6
  <2>2. TableQueue'
    BY <1>1, <1>2, <1>3, <1>6, <2>1 DEF TableQueue, Once
  <2>3. TableIsHeld'
    BY <1>4, <1>5, <1>6 DEF TableIsHeld
  <2> QED
    BY <2>2, <2>3
<1>7. CASE pc'[c] \notin TablePhases /\ q' = Left(q, c)
  <2>1. /\ Once(q') /\ \A i \in DOMAIN q' : q'[i][1] # c /\ \E j \in DOMAIN q : q'[i] = q[j]
        /\ q # <<>> /\ q[1][1] # c => q' # <<>> /\ q'[1] = q[1]
    BY <1>1, <1>7, LeftQueue
  <2>2. TableQueue'
    BY <1>2, <1>3, <2>1 DEF TableQueue
  <2>3. TableIsHeld'
    BY <1>4, <1>5, <1>7, <2>1 DEF TableIsHeld
  <2> QED
    BY <2>2, <2>3
<1>8. CASE /\ pc[c] \notin TablePhases /\ pc'[c] \in TablePhases \ Holding
           /\ q' = Ask(q, c, IF pc'[c] = "status_handles" THEN "read" ELSE "write")
  <2> DEFINE m == IF pc'[c] = "status_handles" THEN "read" ELSE "write"
  <2>1. \A i \in DOMAIN q : q[i][1] # c
    BY <1>3, <1>8
  <2>2. m \in Modes /\ q' = Ask(q, c, m)
    BY <1>8 DEF Modes
  <2> HIDE DEF m
  <2>3. /\ Once(q')
        /\ \A i \in DOMAIN q' : q'[i] = <<c, m>> \/ (i \in DOMAIN q /\ q'[i] = q[i])
        /\ q # <<>> => q' # <<>> /\ q'[1] = q[1]
    BY <1>1, <2>1, <2>2, AskedQueue
  <2>4. TableQueue'
    <3>1. ASSUME NEW i \in DOMAIN q'
          PROVE  /\ pc'[q'[i][1]] \in TablePhases
                 /\ q'[i][2] = "read" <=> pc'[q'[i][1]] = "status_handles"
      <4>1. CASE q'[i] = <<c, m>>
        BY <4>1, <1>8 DEF m
      <4>2. CASE i \in DOMAIN q /\ q'[i] = q[i]
        BY <4>2, <1>2, <1>3, <2>1
      <4> QED
        BY <2>3, <4>1, <4>2
    <3> QED
      BY <2>3, <3>1 DEF TableQueue
  <2>5. TableIsHeld'
    BY <1>4, <1>8, <2>3 DEF TableIsHeld
  <2> QED
    BY <2>4, <2>5
<1>9. CASE pc'[c] = "start_handles" /\ q' = Ask(Left(q, c), c, "write")
  <2> DEFINE l == Left(q, c)
  <2>1. /\ l \in Queues /\ Once(l)
        /\ \A i \in DOMAIN l : l[i][1] # c /\ \E j \in DOMAIN q : l[i] = q[j]
        /\ q # <<>> /\ q[1][1] # c => l # <<>> /\ l[1] = q[1]
    BY <1>1, LeftQueue
  <2> HIDE DEF l
  <2>2. "write" \in Modes /\ q' = Ask(l, c, "write")
    BY <1>9 DEF Modes, l
  <2>3. /\ Once(q')
        /\ \A i \in DOMAIN q' : q'[i] = <<c, "write">> \/ (i \in DOMAIN l /\ q'[i] = l[i])
        /\ l # <<>> => q' # <<>> /\ q'[1] = l[1]
    BY <2>1, <2>2, AskedQueue
  <2>4. TableQueue'
    <3>1. ASSUME NEW i \in DOMAIN q'
          PROVE  /\ pc'[q'[i][1]] \in TablePhases
                 /\ q'[i][2] = "read" <=> pc'[q'[i][1]] = "status_handles"
      <4>1. CASE q'[i] = <<c, "write">>
        BY <4>1, <1>9 DEF TablePhases
      <4>2. CASE i \in DOMAIN l /\ q'[i] = l[i]
        <5>1. PICK j \in DOMAIN q : l[i] = q[j] /\ q[j][1] # c
          BY <4>2, <2>1
        <5> QED
          BY <4>2, <5>1, <1>2, <1>3
      <4> QED
        BY <2>3, <4>1, <4>2
    <3> QED
      BY <2>3, <3>1 DEF TableQueue
  <2>5. TableIsHeld'
    <3> SUFFICES ASSUME NEW d \in Clients, pc'[d] \in Holding
                 PROVE  q' # <<>> /\ q'[1] = <<d, "write">>
      BY DEF TableIsHeld
    <3>1. d # c
      BY <1>9 DEF Holding
    <3>2. q # <<>> /\ q[1] = <<d, "write">>
      BY <3>1, <1>4
    <3> QED
      BY <3>1, <3>2, <2>1, <2>3
  <2> QED
    BY <2>4, <2>5
<1>10. CASE /\ {pc[c], pc'[c]} \subseteq TablePhases \ {"status_handles"}
            /\ pc[c] \in Holding \/ Granted(q, c)
            /\ q' = q
  <2>1. q # <<>> /\ q[1] = <<c, "write">>
    <3>1. pc[c] \in Holding \/ pc[c] \in {"start_handles", "stop_handles", "update_handles"}
      BY <1>10 DEF TablePhases, Holding
    <3> QED
      BY <3>1, <1>4, <1>10, ServedIsFirst
  <2>2. TableQueue'
    BY <1>1, <1>2, <1>3, <1>10 DEF TableQueue, Once
  <2>3. TableIsHeld'
    BY <1>4, <1>10, <2>1 DEF TableIsHeld
  <2> QED
    BY <2>2, <2>3
<1> QED
  BY <1>6, <1>7, <1>8, <1>9, <1>10 DEF Queueing

\* Every step of a call is such a step.
LEMMA QueueStep == IInv /\ Next => TableQueue' /\ TableIsHeld'
<1> SUFFICES ASSUME IInv, Next PROVE TableQueue' /\ TableIsHeld'
  OBVIOUS
<1>a. pc \in [Clients -> Phases]
  BY DEF IInv, TypeOK
<1>1. ASSUME NEW c \in Clients, NEW k \in Consumers, StartBegin(c, k)
      PROVE  Queueing(c) /\ \A d \in Clients \ {c} : pc'[d] = pc[d]
  BY <1>a, <1>1 DEF Queueing, TablePhases, Holding, StatusPhases, Goto, locks,
      StartBegin, Begin
<1>2. ASSUME NEW c \in Clients, BootBegin(c)
      PROVE  Queueing(c) /\ \A d \in Clients \ {c} : pc'[d] = pc[d]
  BY <1>a, <1>2 DEF Queueing, TablePhases, Holding, StatusPhases, Goto, locks,
      BootBegin, Begin
<1>3. ASSUME NEW c \in Clients, NEW k \in Consumers, StopBegin(c, k)
      PROVE  Queueing(c) /\ \A d \in Clients \ {c} : pc'[d] = pc[d]
  BY <1>a, <1>3 DEF Queueing, TablePhases, Holding, StatusPhases, Goto, locks,
      StopBegin, Begin
<1>4. ASSUME NEW c \in Clients, NEW cfg \in Submitted, UpdateBegin(c, cfg)
      PROVE  Queueing(c) /\ \A d \in Clients \ {c} : pc'[d] = pc[d]
  BY <1>a, <1>4 DEF Queueing, TablePhases, Holding, StatusPhases, Goto, locks,
      UpdateBegin, Begin
<1>5. ASSUME NEW c \in Clients, StatusBegin(c)
      PROVE  Queueing(c) /\ \A d \in Clients \ {c} : pc'[d] = pc[d]
  BY <1>a, <1>5 DEF Queueing, TablePhases, Holding, StatusPhases, Goto, locks,
      StatusBegin, Begin
<1>6. ASSUME NEW c \in Clients, StartRead(c)
      PROVE  Queueing(c) /\ \A d \in Clients \ {c} : pc'[d] = pc[d]
  BY <1>a, <1>6 DEF Queueing, TablePhases, Holding, StatusPhases, Goto, locks,
      StartRead, ThenHandles, ToStart
<1>7. ASSUME NEW c \in Clients, StartNothing(c)
      PROVE  Queueing(c) /\ \A d \in Clients \ {c} : pc'[d] = pc[d]
  BY <1>a, <1>7 DEF Queueing, TablePhases, Holding, StatusPhases, Goto, locks,
      StartNothing, Return
<1>8. ASSUME NEW c \in Clients, NEW k \in Consumers, StartRun(c, k)
      PROVE  Queueing(c) /\ \A d \in Clients \ {c} : pc'[d] = pc[d]
  BY <1>a, <1>8 DEF Queueing, TablePhases, Holding, StatusPhases, Goto, locks,
      StartRun
<1>9. ASSUME NEW c \in Clients, NEW k \in Consumers, StartSkip(c, k)
      PROVE  Queueing(c) /\ \A d \in Clients \ {c} : pc'[d] = pc[d]
  BY <1>a, <1>9 DEF Queueing, TablePhases, Holding, StatusPhases, Goto, locks,
      StartSkip, StartNext, Return
<1>10. ASSUME NEW c \in Clients, StartInsert(c)
      PROVE  Queueing(c) /\ \A d \in Clients \ {c} : pc'[d] = pc[d]
  BY <1>a, <1>10 DEF Queueing, TablePhases, Holding, StatusPhases, Goto, locks,
      StartInsert, StartNext, Return
<1>11. ASSUME NEW c \in Clients, StartFailed(c)
      PROVE  Queueing(c) /\ \A d \in Clients \ {c} : pc'[d] = pc[d]
  BY <1>a, <1>11 DEF Queueing, TablePhases, Holding, StatusPhases, Goto, locks,
      StartFailed, EndTask, StartNext, Return
<1>12. ASSUME NEW c \in Clients, StopRead(c)
      PROVE  Queueing(c) /\ \A d \in Clients \ {c} : pc'[d] = pc[d]
  BY <1>a, <1>12 DEF Queueing, TablePhases, Holding, StatusPhases, Goto, locks,
      StopRead, ThenHandles
<1>13. ASSUME NEW c \in Clients, StopRemove(c)
      PROVE  Queueing(c) /\ \A d \in Clients \ {c} : pc'[d] = pc[d]
  BY <1>a, <1>13 DEF Queueing, TablePhases, Holding, StatusPhases, Goto, locks,
      StopRemove, TakeOut
<1>14. ASSUME NEW c \in Clients, StopNothing(c)
      PROVE  Queueing(c) /\ \A d \in Clients \ {c} : pc'[d] = pc[d]
  BY <1>a, <1>14 DEF Queueing, TablePhases, Holding, StatusPhases, Goto, locks,
      StopNothing, Return
<1>15. ASSUME NEW c \in Clients, StopTask(c)
      PROVE  Queueing(c) /\ \A d \in Clients \ {c} : pc'[d] = pc[d]
  BY <1>a, <1>15 DEF Queueing, TablePhases, Holding, StatusPhases, Goto, locks,
      StopTask, EndTask, Return
<1>16. ASSUME NEW c \in Clients, UpdateRead(c)
      PROVE  Queueing(c) /\ \A d \in Clients \ {c} : pc'[d] = pc[d]
  BY <1>a, <1>16 DEF Queueing, TablePhases, Holding, StatusPhases, Goto, locks,
      UpdateRead, ThenHandles
<1>17. ASSUME NEW c \in Clients, NEW k \in Consumers, UpdateStop(c, k)
      PROVE  Queueing(c) /\ \A d \in Clients \ {c} : pc'[d] = pc[d]
  BY <1>a, <1>17 DEF Queueing, TablePhases, Holding, StatusPhases, Goto, locks,
      UpdateStop, TakeOut
<1>18. ASSUME NEW c \in Clients, UpdateTask(c)
      PROVE  Queueing(c) /\ \A d \in Clients \ {c} : pc'[d] = pc[d]
  BY <1>a, <1>18 DEF Queueing, TablePhases, Holding, StatusPhases, Goto, locks,
      UpdateTask, EndTask
<1>19. ASSUME NEW c \in Clients, UpdateUnlock(c)
      PROVE  Queueing(c) /\ \A d \in Clients \ {c} : pc'[d] = pc[d]
  BY <1>a, <1>19 DEF Queueing, TablePhases, Holding, StatusPhases, Goto, locks,
      UpdateUnlock
<1>20. ASSUME NEW c \in Clients, UpdateFails(c)
      PROVE  Queueing(c) /\ \A d \in Clients \ {c} : pc'[d] = pc[d]
  BY <1>a, <1>20 DEF Queueing, TablePhases, Holding, StatusPhases, Goto, locks,
      UpdateFails, Return
<1>21. ASSUME NEW c \in Clients, UpdateSave(c)
      PROVE  Queueing(c) /\ \A d \in Clients \ {c} : pc'[d] = pc[d]
  BY <1>a, <1>21 DEF Queueing, TablePhases, Holding, StatusPhases, Goto, locks,
      UpdateSave
<1>22. ASSUME NEW c \in Clients, UpdateSecure(c)
      PROVE  Queueing(c) /\ \A d \in Clients \ {c} : pc'[d] = pc[d]
  BY <1>a, <1>22 DEF Queueing, TablePhases, Holding, StatusPhases, Goto, locks,
      UpdateSecure
<1>23. ASSUME NEW c \in Clients, UpdateSwap(c)
      PROVE  Queueing(c) /\ \A d \in Clients \ {c} : pc'[d] = pc[d]
  BY <1>a, <1>23 DEF Queueing, TablePhases, Holding, StatusPhases, Goto, locks,
      UpdateSwap, Return
<1>24. ASSUME NEW c \in Clients, StatusRead(c)
      PROVE  Queueing(c) /\ \A d \in Clients \ {c} : pc'[d] = pc[d]
  BY <1>a, <1>24 DEF Queueing, TablePhases, Holding, StatusPhases, Goto, locks,
      StatusRead
<1>25. ASSUME NEW c \in Clients, StatusHandles(c)
      PROVE  Queueing(c) /\ \A d \in Clients \ {c} : pc'[d] = pc[d]
  BY <1>a, <1>25 DEF Queueing, TablePhases, Holding, StatusPhases, Goto, locks,
      StatusHandles
<1>26. ASSUME NEW c \in Clients, NEW k \in Consumers, StatusProbe(c, k)
      PROVE  Queueing(c) /\ \A d \in Clients \ {c} : pc'[d] = pc[d]
  BY <1>a, <1>26 DEF Queueing, TablePhases, Holding, StatusPhases, Goto, locks,
      StatusProbe
<1>27. ASSUME NEW c \in Clients, StatusEnd(c)
      PROVE  Queueing(c) /\ \A d \in Clients \ {c} : pc'[d] = pc[d]
  BY <1>a, <1>27 DEF Queueing, TablePhases, Holding, StatusPhases, Goto, locks,
      StatusEnd, Return
<1>28. ASSUME NEW c \in Clients, StatusTimeout(c)
      PROVE  Queueing(c) /\ \A d \in Clients \ {c} : pc'[d] = pc[d]
  BY <1>a, <1>28 DEF Queueing, TablePhases, Holding, StatusPhases, Goto, locks,
      StatusTimeout, Return
<1>29. ASSUME NEW k \in Consumers, TaskEnds(k)
      PROVE  TableQueue' /\ TableIsHeld'
  BY <1>29 DEF TaskEnds, locks, callVars, IInv, TableQueue, TableIsHeld, Once
<1>30. ASSUME NEW c \in Clients, CallBegins(c) \/ CallStep(c) \/ StatusTimeout(c)
      PROVE  Queueing(c) /\ \A d \in Clients \ {c} : pc'[d] = pc[d]
  BY <1>1, <1>2, <1>3, <1>4, <1>5, <1>6, <1>7, <1>8, <1>9, <1>10, <1>11, <1>12,
     <1>13, <1>14, <1>15, <1>16, <1>17, <1>18, <1>19, <1>20, <1>21, <1>22, <1>23,
     <1>24, <1>25, <1>26, <1>27, <1>28, <1>29, <1>30
  DEF CallBegins, CallStep
<1> QED
  BY <1>29, <1>30, QueueingKeeps DEF Next

\* What a call puts into the table is a handle.
LEMMA InsertedHandle ==
  ASSUME IInv, NEW c \in Clients, pc[c] = "run"
  PROVE  /\ hand[c] \in Consumers
         /\ [settings |-> copy[c][hand[c]], live |-> TRUE] \in Handles
<1>1. hand[c] \in keys[c] /\ keys[c] \subseteq Consumers
  BY DEF IInv, TypeOK, HandsAreHeld
<1>2. copy[c] \in Configs /\ copy[c][hand[c]] # None
  BY <1>1 DEF IInv, CallsHaveConfigs
<1> QED
  BY <1>1, <1>2 DEF Configs, Handles

-----------------------------------------------------------------------------
(* Tasks and hands.                                                        *)

\* Every step keeps one task for each consumer that has one, and starts no second.
LEMMA TasksStep == IInv /\ Next => tasks' \in [Consumers -> 0 .. 1] /\ TasksAreOne'
<1> SUFFICES ASSUME IInv, Next PROVE tasks' \in [Consumers -> 0 .. 1] /\ TasksAreOne'
  OBVIOUS
<1>a. /\ pc \in [Clients -> Phases] /\ hand \in [Clients -> Consumers \cup {None}]
      /\ handles \in [Consumers -> Handles \cup {None}] /\ None \notin Consumers
      /\ None \notin Handles /\ tasks \in [Consumers -> 0 .. 1]
  BY NoneIsNothing DEF IInv, TypeOK
<1>b. TasksAreOne
  BY DEF IInv
<1>c. \A c \in Clients :
        /\ hand[c] # None =>
             pc[c] \in {"run", "stop_task", "update_task"} /\ ~IsLive(handles[hand[c]])
        /\ pc[c] = "run" => hand[c] \in keys[c]
  BY DEF IInv, HandsAreHeld, Holding
<1>1. ASSUME NEW c \in Clients, NEW k \in Consumers, StartBegin(c, k)
      PROVE  tasks' \in [Consumers -> 0 .. 1] /\ TasksAreOne'
  BY <1>1, <1>a, <1>b, <1>c DEF StartBegin, Begin, TasksAreOne
<1>2. ASSUME NEW c \in Clients, BootBegin(c)
      PROVE  tasks' \in [Consumers -> 0 .. 1] /\ TasksAreOne'
  BY <1>2, <1>a, <1>b, <1>c DEF BootBegin, Begin, TasksAreOne
<1>3. ASSUME NEW c \in Clients, NEW k \in Consumers, StopBegin(c, k)
      PROVE  tasks' \in [Consumers -> 0 .. 1] /\ TasksAreOne'
  BY <1>3, <1>a, <1>b, <1>c DEF StopBegin, Begin, TasksAreOne
<1>4. ASSUME NEW c \in Clients, NEW cfg \in Submitted, UpdateBegin(c, cfg)
      PROVE  tasks' \in [Consumers -> 0 .. 1] /\ TasksAreOne'
  BY <1>4, <1>a, <1>b, <1>c DEF UpdateBegin, Begin, TasksAreOne
<1>5. ASSUME NEW c \in Clients, StatusBegin(c)
      PROVE  tasks' \in [Consumers -> 0 .. 1] /\ TasksAreOne'
  BY <1>5, <1>a, <1>b, <1>c DEF StatusBegin, Begin, TasksAreOne
<1>6. ASSUME NEW c \in Clients, StartRead(c)
      PROVE  tasks' \in [Consumers -> 0 .. 1] /\ TasksAreOne'
  BY <1>6, <1>a, <1>b, <1>c DEF StartRead, ThenHandles, ToStart, TasksAreOne
<1>7. ASSUME NEW c \in Clients, StartNothing(c)
      PROVE  tasks' \in [Consumers -> 0 .. 1] /\ TasksAreOne'
  BY <1>7, <1>a, <1>b, <1>c DEF StartNothing, Return, TasksAreOne
<1>8. ASSUME NEW c \in Clients, NEW k \in Consumers, StartRun(c, k)
      PROVE  tasks' \in [Consumers -> 0 .. 1] /\ TasksAreOne'
  <2>1. \A d \in Clients : d # c => hand[d] = None
    BY <1>8, OneHolder DEF StartRun, Holding
  <2> QED
    BY <1>a, <1>b, <1>c, <1>8, <2>1 DEF StartRun, TasksAreOne, IsLive, Handles
<1>9. ASSUME NEW c \in Clients, NEW k \in Consumers, StartSkip(c, k)
      PROVE  tasks' \in [Consumers -> 0 .. 1] /\ TasksAreOne'
  BY <1>9, <1>a, <1>b, <1>c DEF StartSkip, StartNext, Return, TasksAreOne
<1>10. ASSUME NEW c \in Clients, StartInsert(c)
      PROVE  tasks' \in [Consumers -> 0 .. 1] /\ TasksAreOne'
  <2>1. \A d \in Clients : d # c => hand[d] = None
    BY <1>10, OneHolder DEF StartInsert, Holding
  <2>2. hand[c] \in Consumers /\ tasks[hand[c]] = 1
    BY <1>a, <1>b, <1>10, InsertedHandle DEF StartInsert, TasksAreOne
  <2>3. handles'[hand[c]] \in Handles /\ IsLive(handles'[hand[c]])
    BY <1>a, <1>c, <1>10, <2>2, InsertedHandle DEF StartInsert, IsLive
  <2>4. \A d \in Clients : hand'[d] = None
    BY <1>a, <1>10, <2>1 DEF StartInsert, StartNext, Return
  <2>5. \A k \in Consumers : k # hand[c] =>
          handles'[k] = handles[k] /\ \A d \in Clients : hand[d] # k
    BY <1>a, <1>10, <2>1, <2>2 DEF StartInsert
  <2> QED
    BY <1>a, <1>b, <1>10, <2>2, <2>3, <2>4, <2>5 DEF StartInsert, TasksAreOne
<1>11. ASSUME NEW c \in Clients, StartFailed(c)
      PROVE  tasks' \in [Consumers -> 0 .. 1] /\ TasksAreOne'
  <2>1. \A d \in Clients : d # c => hand[d] = None
    BY <1>11, OneHolder DEF StartFailed, Holding
  <2> QED
    BY <1>a, <1>b, <1>c, <1>11, <2>1
       DEF StartFailed, TasksAreOne, IsLive, Handles, EndTask, StartNext, Return
<1>12. ASSUME NEW c \in Clients, StopRead(c)
      PROVE  tasks' \in [Consumers -> 0 .. 1] /\ TasksAreOne'
  BY <1>12, <1>a, <1>b, <1>c DEF StopRead, ThenHandles, TasksAreOne
<1>13. ASSUME NEW c \in Clients, StopRemove(c)
      PROVE  tasks' \in [Consumers -> 0 .. 1] /\ TasksAreOne'
  <2>1. \A d \in Clients : d # c => hand[d] = None
    BY <1>13, OneHolder DEF StopRemove, Holding
  <2> QED
    BY <1>a, <1>b, <1>c, <1>13, <2>1 DEF StopRemove, TasksAreOne, IsLive, Handles, TakeOut
<1>14. ASSUME NEW c \in Clients, StopNothing(c)
      PROVE  tasks' \in [Consumers -> 0 .. 1] /\ TasksAreOne'
  BY <1>14, <1>a, <1>b, <1>c DEF StopNothing, Return, TasksAreOne
<1>15. ASSUME NEW c \in Clients, StopTask(c)
      PROVE  tasks' \in [Consumers -> 0 .. 1] /\ TasksAreOne'
  <2>1. \A d \in Clients : d # c => hand[d] = None
    BY <1>15, OneHolder DEF StopTask, Holding
  <2> QED
    BY <1>a, <1>b, <1>c, <1>15, <2>1
       DEF StopTask, TasksAreOne, IsLive, Handles, EndTask, Return
<1>16. ASSUME NEW c \in Clients, UpdateRead(c)
      PROVE  tasks' \in [Consumers -> 0 .. 1] /\ TasksAreOne'
  BY <1>16, <1>a, <1>b, <1>c DEF UpdateRead, ThenHandles, TasksAreOne
<1>17. ASSUME NEW c \in Clients, NEW k \in Consumers, UpdateStop(c, k)
      PROVE  tasks' \in [Consumers -> 0 .. 1] /\ TasksAreOne'
  <2>1. \A d \in Clients : d # c => hand[d] = None
    BY <1>17, OneHolder DEF UpdateStop, Holding
  <2> QED
    BY <1>a, <1>b, <1>c, <1>17, <2>1 DEF UpdateStop, TasksAreOne, IsLive, Handles, TakeOut
<1>18. ASSUME NEW c \in Clients, UpdateTask(c)
      PROVE  tasks' \in [Consumers -> 0 .. 1] /\ TasksAreOne'
  <2>1. \A d \in Clients : d # c => hand[d] = None
    BY <1>18, OneHolder DEF UpdateTask, Holding
  <2> QED
    BY <1>a, <1>b, <1>c, <1>18, <2>1 DEF UpdateTask, TasksAreOne, IsLive, Handles, EndTask
<1>19. ASSUME NEW c \in Clients, UpdateUnlock(c)
      PROVE  tasks' \in [Consumers -> 0 .. 1] /\ TasksAreOne'
  BY <1>19, <1>a, <1>b, <1>c DEF UpdateUnlock, TasksAreOne
<1>20. ASSUME NEW c \in Clients, UpdateFails(c)
      PROVE  tasks' \in [Consumers -> 0 .. 1] /\ TasksAreOne'
  BY <1>20, <1>a, <1>b, <1>c DEF UpdateFails, Return, TasksAreOne
<1>21. ASSUME NEW c \in Clients, UpdateSave(c)
      PROVE  tasks' \in [Consumers -> 0 .. 1] /\ TasksAreOne'
  BY <1>21, <1>a, <1>b, <1>c DEF UpdateSave, TasksAreOne
<1>22. ASSUME NEW c \in Clients, UpdateSecure(c)
      PROVE  tasks' \in [Consumers -> 0 .. 1] /\ TasksAreOne'
  BY <1>22, <1>a, <1>b, <1>c DEF UpdateSecure, TasksAreOne
<1>23. ASSUME NEW c \in Clients, UpdateSwap(c)
      PROVE  tasks' \in [Consumers -> 0 .. 1] /\ TasksAreOne'
  BY <1>23, <1>a, <1>b, <1>c DEF UpdateSwap, Return, TasksAreOne
<1>24. ASSUME NEW c \in Clients, StatusRead(c)
      PROVE  tasks' \in [Consumers -> 0 .. 1] /\ TasksAreOne'
  BY <1>24, <1>a, <1>b, <1>c DEF StatusRead, TasksAreOne
<1>25. ASSUME NEW c \in Clients, StatusHandles(c)
      PROVE  tasks' \in [Consumers -> 0 .. 1] /\ TasksAreOne'
  BY <1>25, <1>a, <1>b, <1>c DEF StatusHandles, TasksAreOne
<1>26. ASSUME NEW c \in Clients, NEW k \in Consumers, StatusProbe(c, k)
      PROVE  tasks' \in [Consumers -> 0 .. 1] /\ TasksAreOne'
  BY <1>26, <1>a, <1>b, <1>c DEF StatusProbe, TasksAreOne
<1>27. ASSUME NEW c \in Clients, StatusEnd(c)
      PROVE  tasks' \in [Consumers -> 0 .. 1] /\ TasksAreOne'
  BY <1>27, <1>a, <1>b, <1>c DEF StatusEnd, Return, TasksAreOne
<1>28. ASSUME NEW c \in Clients, StatusTimeout(c)
      PROVE  tasks' \in [Consumers -> 0 .. 1] /\ TasksAreOne'
  BY <1>28, <1>a, <1>b, <1>c DEF StatusTimeout, Return, StatusPhases, TasksAreOne
<1>29. ASSUME NEW k \in Consumers, TaskEnds(k)
      PROVE  tasks' \in [Consumers -> 0 .. 1] /\ TasksAreOne'
  BY <1>a, <1>b, <1>c, <1>29 DEF TaskEnds, TasksAreOne, IsLive, Handles, callVars
<1> QED
  BY <1>1, <1>2, <1>3, <1>4, <1>5, <1>6, <1>7, <1>8, <1>9, <1>10, <1>11, <1>12,
     <1>13, <1>14, <1>15, <1>16, <1>17, <1>18, <1>19, <1>20, <1>21, <1>22, <1>23,
     <1>24, <1>25, <1>26, <1>27, <1>28, <1>29
  DEF Next, CallBegins, CallStep

\* Every step keeps a task in hand with a call that has the table locked.
LEMMA HandsStep == IInv /\ Next => HandsAreHeld'
<1> SUFFICES ASSUME IInv, Next PROVE HandsAreHeld'
  OBVIOUS
<1>a. /\ pc \in [Clients -> Phases] /\ hand \in [Clients -> Consumers \cup {None}]
      /\ handles \in [Consumers -> Handles \cup {None}] /\ None \notin Consumers
      /\ None \notin Handles /\ keys \in [Clients -> SUBSET Consumers]
  BY NoneIsNothing DEF IInv, TypeOK
<1>b. \A c \in Clients :
        /\ hand[c] # None =>
             pc[c] \in {"run", "stop_task", "update_task"} /\ ~IsLive(handles[hand[c]])
        /\ pc[c] = "run" => hand[c] \in keys[c]
  BY DEF IInv, HandsAreHeld, Holding
<1>1. ASSUME NEW c \in Clients, NEW k \in Consumers, StartBegin(c, k)
      PROVE  HandsAreHeld'
  BY <1>1, <1>a, <1>b DEF StartBegin, Begin, HandsAreHeld, Holding, Goto
<1>2. ASSUME NEW c \in Clients, BootBegin(c)
      PROVE  HandsAreHeld'
  BY <1>2, <1>a, <1>b DEF BootBegin, Begin, HandsAreHeld, Holding, Goto
<1>3. ASSUME NEW c \in Clients, NEW k \in Consumers, StopBegin(c, k)
      PROVE  HandsAreHeld'
  BY <1>3, <1>a, <1>b DEF StopBegin, Begin, HandsAreHeld, Holding, Goto
<1>4. ASSUME NEW c \in Clients, NEW cfg \in Submitted, UpdateBegin(c, cfg)
      PROVE  HandsAreHeld'
  BY <1>4, <1>a, <1>b DEF UpdateBegin, Begin, HandsAreHeld, Holding, Goto
<1>5. ASSUME NEW c \in Clients, StatusBegin(c)
      PROVE  HandsAreHeld'
  BY <1>5, <1>a, <1>b DEF StatusBegin, Begin, HandsAreHeld, Holding, Goto
<1>6. ASSUME NEW c \in Clients, StartRead(c)
      PROVE  HandsAreHeld'
  BY <1>6, <1>a, <1>b DEF StartRead, ThenHandles, ToStart, HandsAreHeld, Holding,
      Goto
<1>7. ASSUME NEW c \in Clients, StartNothing(c)
      PROVE  HandsAreHeld'
  BY <1>7, <1>a, <1>b DEF StartNothing, Return, HandsAreHeld, Holding, Goto
<1>8. ASSUME NEW c \in Clients, NEW k \in Consumers, StartRun(c, k)
      PROVE  HandsAreHeld'
  <2>1. \A d \in Clients : d # c => hand[d] = None
    BY <1>8, OneHolder DEF StartRun, Holding
  <2> QED
    BY <1>a, <1>b, <1>8, <2>1 DEF StartRun, HandsAreHeld, Holding, Goto, IsLive
<1>9. ASSUME NEW c \in Clients, NEW k \in Consumers, StartSkip(c, k)
      PROVE  HandsAreHeld'
  BY <1>9, <1>a, <1>b DEF StartSkip, StartNext, Return, HandsAreHeld, Holding, Goto
<1>10. ASSUME NEW c \in Clients, StartInsert(c)
      PROVE  HandsAreHeld'
  <2>1. \A d \in Clients : d # c => hand[d] = None
    BY <1>10, OneHolder DEF StartInsert, Holding
  <2> QED
    BY <1>a, <1>b, <1>10, <2>1
       DEF StartInsert, HandsAreHeld, Holding, Goto, IsLive, StartNext, Return
<1>11. ASSUME NEW c \in Clients, StartFailed(c)
      PROVE  HandsAreHeld'
  <2>1. \A d \in Clients : d # c => hand[d] = None
    BY <1>11, OneHolder DEF StartFailed, Holding
  <2> QED
    BY <1>a, <1>b, <1>11, <2>1
       DEF StartFailed, HandsAreHeld, Holding, Goto, IsLive, EndTask, StartNext, Return
<1>12. ASSUME NEW c \in Clients, StopRead(c)
      PROVE  HandsAreHeld'
  BY <1>12, <1>a, <1>b DEF StopRead, ThenHandles, HandsAreHeld, Holding, Goto
<1>13. ASSUME NEW c \in Clients, StopRemove(c)
      PROVE  HandsAreHeld'
  <2>1. \A d \in Clients : d # c => hand[d] = None
    BY <1>13, OneHolder DEF StopRemove, Holding
  <2> QED
    BY <1>a, <1>b, <1>13, <2>1
       DEF StopRemove, HandsAreHeld, Holding, Goto, IsLive, TakeOut
<1>14. ASSUME NEW c \in Clients, StopNothing(c)
      PROVE  HandsAreHeld'
  BY <1>14, <1>a, <1>b DEF StopNothing, Return, HandsAreHeld, Holding, Goto
<1>15. ASSUME NEW c \in Clients, StopTask(c)
      PROVE  HandsAreHeld'
  <2>1. \A d \in Clients : d # c => hand[d] = None
    BY <1>15, OneHolder DEF StopTask, Holding
  <2> QED
    BY <1>a, <1>b, <1>15, <2>1
       DEF StopTask, HandsAreHeld, Holding, Goto, IsLive, EndTask, Return
<1>16. ASSUME NEW c \in Clients, UpdateRead(c)
      PROVE  HandsAreHeld'
  BY <1>16, <1>a, <1>b DEF UpdateRead, ThenHandles, HandsAreHeld, Holding, Goto
<1>17. ASSUME NEW c \in Clients, NEW k \in Consumers, UpdateStop(c, k)
      PROVE  HandsAreHeld'
  <2>1. \A d \in Clients : d # c => hand[d] = None
    BY <1>17, OneHolder DEF UpdateStop, Holding
  <2> QED
    BY <1>a, <1>b, <1>17, <2>1
       DEF UpdateStop, HandsAreHeld, Holding, Goto, IsLive, TakeOut
<1>18. ASSUME NEW c \in Clients, UpdateTask(c)
      PROVE  HandsAreHeld'
  <2>1. \A d \in Clients : d # c => hand[d] = None
    BY <1>18, OneHolder DEF UpdateTask, Holding
  <2> QED
    BY <1>a, <1>b, <1>18, <2>1
       DEF UpdateTask, HandsAreHeld, Holding, Goto, IsLive, EndTask
<1>19. ASSUME NEW c \in Clients, UpdateUnlock(c)
      PROVE  HandsAreHeld'
  BY <1>19, <1>a, <1>b DEF UpdateUnlock, HandsAreHeld, Holding, Goto
<1>20. ASSUME NEW c \in Clients, UpdateFails(c)
      PROVE  HandsAreHeld'
  BY <1>20, <1>a, <1>b DEF UpdateFails, Return, HandsAreHeld, Holding, Goto
<1>21. ASSUME NEW c \in Clients, UpdateSave(c)
      PROVE  HandsAreHeld'
  BY <1>21, <1>a, <1>b DEF UpdateSave, HandsAreHeld, Holding, Goto
<1>22. ASSUME NEW c \in Clients, UpdateSecure(c)
      PROVE  HandsAreHeld'
  BY <1>22, <1>a, <1>b DEF UpdateSecure, HandsAreHeld, Holding, Goto
<1>23. ASSUME NEW c \in Clients, UpdateSwap(c)
      PROVE  HandsAreHeld'
  BY <1>23, <1>a, <1>b DEF UpdateSwap, Return, HandsAreHeld, Holding, Goto
<1>24. ASSUME NEW c \in Clients, StatusRead(c)
      PROVE  HandsAreHeld'
  BY <1>24, <1>a, <1>b DEF StatusRead, HandsAreHeld, Holding, Goto
<1>25. ASSUME NEW c \in Clients, StatusHandles(c)
      PROVE  HandsAreHeld'
  BY <1>25, <1>a, <1>b DEF StatusHandles, HandsAreHeld, Holding, Goto
<1>26. ASSUME NEW c \in Clients, NEW k \in Consumers, StatusProbe(c, k)
      PROVE  HandsAreHeld'
  BY <1>26, <1>a, <1>b DEF StatusProbe, HandsAreHeld, Holding, Goto
<1>27. ASSUME NEW c \in Clients, StatusEnd(c)
      PROVE  HandsAreHeld'
  BY <1>27, <1>a, <1>b DEF StatusEnd, Return, HandsAreHeld, Holding, Goto
<1>28. ASSUME NEW c \in Clients, StatusTimeout(c)
      PROVE  HandsAreHeld'
  BY <1>28, <1>a, <1>b DEF StatusTimeout, Return, HandsAreHeld, Holding, Goto,
      StatusPhases
<1>29. ASSUME NEW k \in Consumers, TaskEnds(k)
      PROVE  HandsAreHeld'
  BY <1>a, <1>b, <1>29 DEF TaskEnds, HandsAreHeld, Holding, IsLive, Handles, callVars
<1> QED
  BY <1>1, <1>2, <1>3, <1>4, <1>5, <1>6, <1>7, <1>8, <1>9, <1>10, <1>11, <1>12,
     <1>13, <1>14, <1>15, <1>16, <1>17, <1>18, <1>19, <1>20, <1>21, <1>22, <1>23,
     <1>24, <1>25, <1>26, <1>27, <1>28, <1>29
  DEF Next, CallBegins, CallStep

\* Every step works from configurations.
LEMMA CopiesStep == IInv /\ Next => CallsHaveConfigs'
<1> SUFFICES ASSUME IInv, Next PROVE CallsHaveConfigs'
  OBVIOUS
<1>a. /\ pc \in [Clients -> Phases] /\ copy \in [Clients -> Configs \cup {None}]
      /\ config \in Configs /\ keys \in [Clients -> SUBSET Consumers]
      /\ new \in [Clients -> Configs \cup {None}]
  BY DEF IInv, TypeOK
<1>b. \A c \in Clients :
        /\ pc[c] \in {"start_handles", "run"} =>
             copy[c] \in Configs /\ \A k \in keys[c] : copy[c][k] # None
        /\ pc[c] \in UpdatePhases => new[c] \in Configs
        /\ pc[c] \in UpdatePhases \ {"update_config"} => copy[c] \in Configs
  BY DEF IInv, CallsHaveConfigs
<1>1. ASSUME NEW c \in Clients, NEW k \in Consumers, StartBegin(c, k)
      PROVE  CallsHaveConfigs'
  BY <1>1, <1>a, <1>b DEF StartBegin, Begin, CallsHaveConfigs, UpdatePhases, Goto
<1>2. ASSUME NEW c \in Clients, BootBegin(c)
      PROVE  CallsHaveConfigs'
  BY <1>2, <1>a, <1>b DEF BootBegin, Begin, CallsHaveConfigs, UpdatePhases, Goto
<1>3. ASSUME NEW c \in Clients, NEW k \in Consumers, StopBegin(c, k)
      PROVE  CallsHaveConfigs'
  BY <1>3, <1>a, <1>b DEF StopBegin, Begin, CallsHaveConfigs, UpdatePhases, Goto
<1>4. ASSUME NEW c \in Clients, NEW cfg \in Submitted, UpdateBegin(c, cfg)
      PROVE  CallsHaveConfigs'
  BY <1>4, <1>a, <1>b, SubmittedAreConfigs DEF UpdateBegin, Begin,
      CallsHaveConfigs, UpdatePhases, Goto
<1>5. ASSUME NEW c \in Clients, StatusBegin(c)
      PROVE  CallsHaveConfigs'
  BY <1>5, <1>a, <1>b DEF StatusBegin, Begin, CallsHaveConfigs, UpdatePhases, Goto
<1>6. ASSUME NEW c \in Clients, StartRead(c)
      PROVE  CallsHaveConfigs'
  BY <1>6, <1>a, <1>b DEF StartRead, ThenHandles, ToStart, CallsHaveConfigs,
      UpdatePhases, Goto
<1>7. ASSUME NEW c \in Clients, StartNothing(c)
      PROVE  CallsHaveConfigs'
  BY <1>7, <1>a, <1>b DEF StartNothing, Return, CallsHaveConfigs, UpdatePhases,
      Goto
<1>8. ASSUME NEW c \in Clients, NEW k \in Consumers, StartRun(c, k)
      PROVE  CallsHaveConfigs'
  BY <1>8, <1>a, <1>b DEF StartRun, CallsHaveConfigs, UpdatePhases, Goto
<1>9. ASSUME NEW c \in Clients, NEW k \in Consumers, StartSkip(c, k)
      PROVE  CallsHaveConfigs'
  BY <1>9, <1>a, <1>b DEF StartSkip, StartNext, Return, CallsHaveConfigs,
      UpdatePhases, Goto
<1>10. ASSUME NEW c \in Clients, StartInsert(c)
      PROVE  CallsHaveConfigs'
  BY <1>10, <1>a, <1>b DEF StartInsert, StartNext, Return, CallsHaveConfigs,
      UpdatePhases, Goto
<1>11. ASSUME NEW c \in Clients, StartFailed(c)
      PROVE  CallsHaveConfigs'
  BY <1>11, <1>a, <1>b DEF StartFailed, EndTask, StartNext, Return,
      CallsHaveConfigs, UpdatePhases, Goto
<1>12. ASSUME NEW c \in Clients, StopRead(c)
      PROVE  CallsHaveConfigs'
  BY <1>12, <1>a, <1>b DEF StopRead, ThenHandles, CallsHaveConfigs, UpdatePhases,
      Goto
<1>13. ASSUME NEW c \in Clients, StopRemove(c)
      PROVE  CallsHaveConfigs'
  BY <1>13, <1>a, <1>b DEF StopRemove, TakeOut, CallsHaveConfigs, UpdatePhases,
      Goto
<1>14. ASSUME NEW c \in Clients, StopNothing(c)
      PROVE  CallsHaveConfigs'
  BY <1>14, <1>a, <1>b DEF StopNothing, Return, CallsHaveConfigs, UpdatePhases,
      Goto
<1>15. ASSUME NEW c \in Clients, StopTask(c)
      PROVE  CallsHaveConfigs'
  BY <1>15, <1>a, <1>b DEF StopTask, EndTask, Return, CallsHaveConfigs,
      UpdatePhases, Goto
<1>16. ASSUME NEW c \in Clients, UpdateRead(c)
      PROVE  CallsHaveConfigs'
  BY <1>16, <1>a, <1>b DEF UpdateRead, ThenHandles, CallsHaveConfigs, UpdatePhases,
      Goto
<1>17. ASSUME NEW c \in Clients, NEW k \in Consumers, UpdateStop(c, k)
      PROVE  CallsHaveConfigs'
  BY <1>17, <1>a, <1>b DEF UpdateStop, TakeOut, CallsHaveConfigs, UpdatePhases,
      Goto
<1>18. ASSUME NEW c \in Clients, UpdateTask(c)
      PROVE  CallsHaveConfigs'
  BY <1>18, <1>a, <1>b DEF UpdateTask, EndTask, CallsHaveConfigs, UpdatePhases,
      Goto
<1>19. ASSUME NEW c \in Clients, UpdateUnlock(c)
      PROVE  CallsHaveConfigs'
  BY <1>19, <1>a, <1>b DEF UpdateUnlock, CallsHaveConfigs, UpdatePhases, Goto
<1>20. ASSUME NEW c \in Clients, UpdateFails(c)
      PROVE  CallsHaveConfigs'
  BY <1>20, <1>a, <1>b DEF UpdateFails, Return, CallsHaveConfigs, UpdatePhases,
      Goto
<1>21. ASSUME NEW c \in Clients, UpdateSave(c)
      PROVE  CallsHaveConfigs'
  BY <1>21, <1>a, <1>b DEF UpdateSave, CallsHaveConfigs, UpdatePhases, Goto
<1>22. ASSUME NEW c \in Clients, UpdateSecure(c)
      PROVE  CallsHaveConfigs'
  BY <1>22, <1>a, <1>b DEF UpdateSecure, CallsHaveConfigs, UpdatePhases, Goto
<1>23. ASSUME NEW c \in Clients, UpdateSwap(c)
      PROVE  CallsHaveConfigs'
  BY <1>23, <1>a, <1>b DEF UpdateSwap, Return, CallsHaveConfigs, UpdatePhases, Goto
<1>24. ASSUME NEW c \in Clients, StatusRead(c)
      PROVE  CallsHaveConfigs'
  BY <1>24, <1>a, <1>b DEF StatusRead, CallsHaveConfigs, UpdatePhases, Goto
<1>25. ASSUME NEW c \in Clients, StatusHandles(c)
      PROVE  CallsHaveConfigs'
  BY <1>25, <1>a, <1>b DEF StatusHandles, CallsHaveConfigs, UpdatePhases, Goto
<1>26. ASSUME NEW c \in Clients, NEW k \in Consumers, StatusProbe(c, k)
      PROVE  CallsHaveConfigs'
  BY <1>26, <1>a, <1>b DEF StatusProbe, CallsHaveConfigs, UpdatePhases, Goto
<1>27. ASSUME NEW c \in Clients, StatusEnd(c)
      PROVE  CallsHaveConfigs'
  BY <1>27, <1>a, <1>b DEF StatusEnd, Return, CallsHaveConfigs, UpdatePhases, Goto
<1>28. ASSUME NEW c \in Clients, StatusTimeout(c)
      PROVE  CallsHaveConfigs'
  BY <1>28, <1>a, <1>b DEF StatusTimeout, Return, CallsHaveConfigs, UpdatePhases,
      Goto
<1>29. ASSUME NEW k \in Consumers, TaskEnds(k)
      PROVE  CallsHaveConfigs'
  BY <1>b, <1>29 DEF TaskEnds, CallsHaveConfigs, callVars
<1> QED
  BY <1>1, <1>2, <1>3, <1>4, <1>5, <1>6, <1>7, <1>8, <1>9, <1>10, <1>11, <1>12,
     <1>13, <1>14, <1>15, <1>16, <1>17, <1>18, <1>19, <1>20, <1>21, <1>22, <1>23,
     <1>24, <1>25, <1>26, <1>27, <1>28, <1>29
  DEF Next, CallBegins, CallStep

-----------------------------------------------------------------------------
(* Types.                                                                  *)

\* Every step leaves queues.
LEMMA LocksStep == IInv /\ Next => {configLock', handlesLock'} \subseteq Queues
<1> SUFFICES ASSUME IInv, Next PROVE {configLock', handlesLock'} \subseteq Queues
  OBVIOUS
<1>a. \A c \in Clients :
        /\ configLock \in Queues /\ handlesLock \in Queues
        /\ Left(configLock, c) \in Queues /\ Left(handlesLock, c) \in Queues
        /\ \A m \in {"read", "write"} :
             /\ Ask(configLock, c, m) \in Queues
             /\ Ask(handlesLock, c, m) \in Queues
             /\ Ask(Left(handlesLock, c), c, m) \in Queues
  BY QueuesStay DEF IInv, Modes
<1>b. configLock \in Queues /\ handlesLock \in Queues
  BY DEF IInv, TypeOK, Queues, Modes
<1>1. ASSUME NEW c \in Clients, NEW k \in Consumers, StartBegin(c, k)
      PROVE  {configLock', handlesLock'} \subseteq Queues
  BY <1>1, <1>a DEF StartBegin, Begin, locks
<1>2. ASSUME NEW c \in Clients, BootBegin(c)
      PROVE  {configLock', handlesLock'} \subseteq Queues
  BY <1>2, <1>a DEF BootBegin, Begin, locks
<1>3. ASSUME NEW c \in Clients, NEW k \in Consumers, StopBegin(c, k)
      PROVE  {configLock', handlesLock'} \subseteq Queues
  BY <1>3, <1>a DEF StopBegin, Begin, locks
<1>4. ASSUME NEW c \in Clients, NEW cfg \in Submitted, UpdateBegin(c, cfg)
      PROVE  {configLock', handlesLock'} \subseteq Queues
  BY <1>4, <1>a DEF UpdateBegin, Begin, locks
<1>5. ASSUME NEW c \in Clients, StatusBegin(c)
      PROVE  {configLock', handlesLock'} \subseteq Queues
  BY <1>5, <1>a DEF StatusBegin, Begin, locks
<1>6. ASSUME NEW c \in Clients, StartRead(c)
      PROVE  {configLock', handlesLock'} \subseteq Queues
  BY <1>6, <1>a DEF StartRead, ThenHandles, ToStart, locks
<1>7. ASSUME NEW c \in Clients, StartNothing(c)
      PROVE  {configLock', handlesLock'} \subseteq Queues
  BY <1>7, <1>a DEF StartNothing, Return, locks
<1>8. ASSUME NEW c \in Clients, NEW k \in Consumers, StartRun(c, k)
      PROVE  {configLock', handlesLock'} \subseteq Queues
  BY <1>8, <1>a DEF StartRun, locks
<1>9. ASSUME NEW c \in Clients, NEW k \in Consumers, StartSkip(c, k)
      PROVE  {configLock', handlesLock'} \subseteq Queues
  BY <1>9, <1>a DEF StartSkip, StartNext, Return, locks
<1>10. ASSUME NEW c \in Clients, StartInsert(c)
      PROVE  {configLock', handlesLock'} \subseteq Queues
  BY <1>10, <1>a DEF StartInsert, StartNext, Return, locks
<1>11. ASSUME NEW c \in Clients, StartFailed(c)
      PROVE  {configLock', handlesLock'} \subseteq Queues
  BY <1>11, <1>a DEF StartFailed, EndTask, StartNext, Return, locks
<1>12. ASSUME NEW c \in Clients, StopRead(c)
      PROVE  {configLock', handlesLock'} \subseteq Queues
  BY <1>12, <1>a DEF StopRead, ThenHandles, locks
<1>13. ASSUME NEW c \in Clients, StopRemove(c)
      PROVE  {configLock', handlesLock'} \subseteq Queues
  BY <1>13, <1>a DEF StopRemove, TakeOut, locks
<1>14. ASSUME NEW c \in Clients, StopNothing(c)
      PROVE  {configLock', handlesLock'} \subseteq Queues
  BY <1>14, <1>a DEF StopNothing, Return, locks
<1>15. ASSUME NEW c \in Clients, StopTask(c)
      PROVE  {configLock', handlesLock'} \subseteq Queues
  BY <1>15, <1>a DEF StopTask, EndTask, Return, locks
<1>16. ASSUME NEW c \in Clients, UpdateRead(c)
      PROVE  {configLock', handlesLock'} \subseteq Queues
  BY <1>16, <1>a DEF UpdateRead, ThenHandles, locks
<1>17. ASSUME NEW c \in Clients, NEW k \in Consumers, UpdateStop(c, k)
      PROVE  {configLock', handlesLock'} \subseteq Queues
  BY <1>17, <1>a DEF UpdateStop, TakeOut, locks
<1>18. ASSUME NEW c \in Clients, UpdateTask(c)
      PROVE  {configLock', handlesLock'} \subseteq Queues
  BY <1>18, <1>a DEF UpdateTask, EndTask, locks
<1>19. ASSUME NEW c \in Clients, UpdateUnlock(c)
      PROVE  {configLock', handlesLock'} \subseteq Queues
  BY <1>19, <1>a DEF UpdateUnlock, locks
<1>20. ASSUME NEW c \in Clients, UpdateFails(c)
      PROVE  {configLock', handlesLock'} \subseteq Queues
  BY <1>20, <1>a DEF UpdateFails, Return, locks
<1>21. ASSUME NEW c \in Clients, UpdateSave(c)
      PROVE  {configLock', handlesLock'} \subseteq Queues
  BY <1>21, <1>a DEF UpdateSave, locks
<1>22. ASSUME NEW c \in Clients, UpdateSecure(c)
      PROVE  {configLock', handlesLock'} \subseteq Queues
  BY <1>22, <1>a DEF UpdateSecure, locks
<1>23. ASSUME NEW c \in Clients, UpdateSwap(c)
      PROVE  {configLock', handlesLock'} \subseteq Queues
  BY <1>23, <1>a DEF UpdateSwap, Return, locks
<1>24. ASSUME NEW c \in Clients, StatusRead(c)
      PROVE  {configLock', handlesLock'} \subseteq Queues
  BY <1>24, <1>a DEF StatusRead, locks
<1>25. ASSUME NEW c \in Clients, StatusHandles(c)
      PROVE  {configLock', handlesLock'} \subseteq Queues
  BY <1>25, <1>a DEF StatusHandles, locks
<1>26. ASSUME NEW c \in Clients, NEW k \in Consumers, StatusProbe(c, k)
      PROVE  {configLock', handlesLock'} \subseteq Queues
  BY <1>26, <1>a DEF StatusProbe, locks
<1>27. ASSUME NEW c \in Clients, StatusEnd(c)
      PROVE  {configLock', handlesLock'} \subseteq Queues
  BY <1>27, <1>a DEF StatusEnd, Return, locks
<1>28. ASSUME NEW c \in Clients, StatusTimeout(c)
      PROVE  {configLock', handlesLock'} \subseteq Queues
  BY <1>28, <1>a DEF StatusTimeout, Return, locks
<1>29. ASSUME NEW k \in Consumers, TaskEnds(k)
      PROVE  {configLock', handlesLock'} \subseteq Queues
  BY <1>b, <1>29 DEF TaskEnds, locks
<1> QED
  BY <1>1, <1>2, <1>3, <1>4, <1>5, <1>6, <1>7, <1>8, <1>9, <1>10, <1>11, <1>12,
     <1>13, <1>14, <1>15, <1>16, <1>17, <1>18, <1>19, <1>20, <1>21, <1>22, <1>23,
     <1>24, <1>25, <1>26, <1>27, <1>28, <1>29
  DEF Next, CallBegins, CallStep

\* Every step keeps the types.
LEMMA TypeStep == IInv /\ Next => TypeOK'
<1> SUFFICES ASSUME IInv, Next PROVE TypeOK'
  OBVIOUS
<1>a. {configLock', handlesLock'} \subseteq Seq(Clients \X {"read", "write"})
  BY LocksStep DEF Queues, Modes
<1>b. tasks' \in [Consumers -> 0 .. 1]
  BY TasksStep
<1>c. TypeOK
  BY DEF IInv
<1>d. Phases = {"idle", "start_config", "boot_config", "start_handles", "run",
                "stop_config", "stop_handles", "stop_task", "update_config",
                "update_handles", "update_task", "save", "secure", "swap",
                "status_config", "status_handles", "status_probe"}
  BY DEF Phases, StartPhases, StopPhases, UpdatePhases, StatusPhases
<1>e. /\ pc \in [Clients -> Phases] /\ keys \in [Clients -> SUBSET Consumers]
      /\ copy \in [Clients -> Configs \cup {None}]
      /\ new \in [Clients -> Configs \cup {None}]
      /\ hand \in [Clients -> Consumers \cup {None}]
  BY DEF IInv, TypeOK
<1>1. ASSUME NEW c \in Clients, NEW k \in Consumers, StartBegin(c, k)
      PROVE  TypeOK'
  BY <1>1, <1>a, <1>b, <1>c, <1>d DEF StartBegin, Begin, TypeOK, Goto, stores
<1>2. ASSUME NEW c \in Clients, BootBegin(c)
      PROVE  TypeOK'
  BY <1>2, <1>a, <1>b, <1>c, <1>d DEF BootBegin, Begin, TypeOK, Goto, stores
<1>3. ASSUME NEW c \in Clients, NEW k \in Consumers, StopBegin(c, k)
      PROVE  TypeOK'
  BY <1>3, <1>a, <1>b, <1>c, <1>d DEF StopBegin, Begin, TypeOK, Goto, stores
<1>4. ASSUME NEW c \in Clients, NEW cfg \in Submitted, UpdateBegin(c, cfg)
      PROVE  TypeOK'
  BY <1>4, <1>a, <1>b, <1>c, <1>d, SubmittedAreConfigs DEF UpdateBegin, Begin,
      TypeOK, Goto, stores
<1>5. ASSUME NEW c \in Clients, StatusBegin(c)
      PROVE  TypeOK'
  BY <1>5, <1>a, <1>b, <1>c, <1>d DEF StatusBegin, Begin, TypeOK, Goto, stores
<1>6. ASSUME NEW c \in Clients, StartRead(c)
      PROVE  TypeOK'
  BY <1>6, <1>a, <1>b, <1>c, <1>d DEF StartRead, ThenHandles, ToStart, TypeOK,
      Goto, stores
<1>7. ASSUME NEW c \in Clients, StartNothing(c)
      PROVE  TypeOK'
  BY <1>7, <1>a, <1>b, <1>c, <1>d DEF StartNothing, Return, TypeOK, Goto, stores
<1>8. ASSUME NEW c \in Clients, NEW k \in Consumers, StartRun(c, k)
      PROVE  TypeOK'
  BY <1>8, <1>a, <1>b, <1>c, <1>d DEF StartRun, TypeOK, Goto, stores
<1>9. ASSUME NEW c \in Clients, NEW k \in Consumers, StartSkip(c, k)
      PROVE  TypeOK'
  <2>1. StartNext(c, k)
    BY <1>9 DEF StartSkip
  <2>2. /\ pc' \in [Clients -> Phases] /\ keys' \in [Clients -> SUBSET Consumers]
        /\ copy' \in [Clients -> Configs \cup {None}]
        /\ new' \in [Clients -> Configs \cup {None}]
        /\ hand' \in [Clients -> Consumers \cup {None}]
    <3>1. CASE Return(c)
      BY <1>d, <1>e, <3>1 DEF Return, Goto
    <3>2. CASE ~Return(c)
      <4>1. /\ keys' = [keys EXCEPT ![c] = keys[c] \ {k}]
            /\ hand' = [hand EXCEPT ![c] = None]
            /\ pc' = [pc EXCEPT ![c] = "start_handles"]
            /\ UNCHANGED <<copy, new>>
        BY <2>1, <3>2 DEF StartNext, Goto
      <4> QED
        BY <1>d, <1>e, <4>1
    <3> QED
      BY <3>1, <3>2
  <2>3. handles' \in [Consumers -> Handles \cup {None}]
    BY <1>c, <1>9 DEF StartSkip, TypeOK
  <2> QED
    BY <1>a, <1>b, <1>c, <1>9, <2>2, <2>3 DEF StartSkip, TypeOK, stores
<1>10. ASSUME NEW c \in Clients, StartInsert(c)
      PROVE  TypeOK'
  <2>1. StartNext(c, hand[c])
    BY <1>10 DEF StartInsert
  <2>2. /\ pc' \in [Clients -> Phases] /\ keys' \in [Clients -> SUBSET Consumers]
        /\ copy' \in [Clients -> Configs \cup {None}]
        /\ new' \in [Clients -> Configs \cup {None}]
        /\ hand' \in [Clients -> Consumers \cup {None}]
    <3>1. CASE Return(c)
      BY <1>d, <1>e, <3>1 DEF Return, Goto
    <3>2. CASE ~Return(c)
      <4>1. /\ keys' = [keys EXCEPT ![c] = keys[c] \ {hand[c]}]
            /\ hand' = [hand EXCEPT ![c] = None]
            /\ pc' = [pc EXCEPT ![c] = "start_handles"]
            /\ UNCHANGED <<copy, new>>
        BY <2>1, <3>2 DEF StartNext, Goto
      <4> QED
        BY <1>d, <1>e, <4>1
    <3> QED
      BY <3>1, <3>2
  <2>3. handles' \in [Consumers -> Handles \cup {None}]
    BY <1>c, <1>10, InsertedHandle DEF StartInsert, TypeOK
  <2> QED
    BY <1>a, <1>b, <1>c, <1>10, <2>2, <2>3 DEF StartInsert, TypeOK, stores
<1>11. ASSUME NEW c \in Clients, StartFailed(c)
      PROVE  TypeOK'
  <2>1. StartNext(c, hand[c])
    BY <1>11 DEF StartFailed
  <2>2. /\ pc' \in [Clients -> Phases] /\ keys' \in [Clients -> SUBSET Consumers]
        /\ copy' \in [Clients -> Configs \cup {None}]
        /\ new' \in [Clients -> Configs \cup {None}]
        /\ hand' \in [Clients -> Consumers \cup {None}]
    <3>1. CASE Return(c)
      BY <1>d, <1>e, <3>1 DEF Return, Goto
    <3>2. CASE ~Return(c)
      <4>1. /\ keys' = [keys EXCEPT ![c] = keys[c] \ {hand[c]}]
            /\ hand' = [hand EXCEPT ![c] = None]
            /\ pc' = [pc EXCEPT ![c] = "start_handles"]
            /\ UNCHANGED <<copy, new>>
        BY <2>1, <3>2 DEF StartNext, Goto
      <4> QED
        BY <1>d, <1>e, <4>1
    <3> QED
      BY <3>1, <3>2
  <2>3. handles' \in [Consumers -> Handles \cup {None}]
    BY <1>c, <1>11 DEF StartFailed, TypeOK
  <2> QED
    BY <1>a, <1>b, <1>c, <1>11, <2>2, <2>3 DEF StartFailed, TypeOK, stores
<1>12. ASSUME NEW c \in Clients, StopRead(c)
      PROVE  TypeOK'
  BY <1>12, <1>a, <1>b, <1>c, <1>d DEF StopRead, ThenHandles, TypeOK, Goto, stores
<1>13. ASSUME NEW c \in Clients, StopRemove(c)
      PROVE  TypeOK'
  BY <1>13, <1>a, <1>b, <1>c, <1>d DEF StopRemove, TakeOut, TypeOK, Goto, stores
<1>14. ASSUME NEW c \in Clients, StopNothing(c)
      PROVE  TypeOK'
  BY <1>14, <1>a, <1>b, <1>c, <1>d DEF StopNothing, Return, TypeOK, Goto, stores
<1>15. ASSUME NEW c \in Clients, StopTask(c)
      PROVE  TypeOK'
  BY <1>15, <1>a, <1>b, <1>c, <1>d DEF StopTask, EndTask, Return, TypeOK, Goto,
      stores
<1>16. ASSUME NEW c \in Clients, UpdateRead(c)
      PROVE  TypeOK'
  BY <1>16, <1>a, <1>b, <1>c, <1>d DEF UpdateRead, ThenHandles, TypeOK, Goto,
      stores
<1>17. ASSUME NEW c \in Clients, NEW k \in Consumers, UpdateStop(c, k)
      PROVE  TypeOK'
  BY <1>17, <1>a, <1>b, <1>c, <1>d DEF UpdateStop, TakeOut, TypeOK, Goto, stores
<1>18. ASSUME NEW c \in Clients, UpdateTask(c)
      PROVE  TypeOK'
  BY <1>18, <1>a, <1>b, <1>c, <1>d DEF UpdateTask, EndTask, TypeOK, Goto, stores
<1>19. ASSUME NEW c \in Clients, UpdateUnlock(c)
      PROVE  TypeOK'
  BY <1>19, <1>a, <1>b, <1>c, <1>d DEF UpdateUnlock, TypeOK, Goto, stores
<1>20. ASSUME NEW c \in Clients, UpdateFails(c)
      PROVE  TypeOK'
  BY <1>20, <1>a, <1>b, <1>c, <1>d DEF UpdateFails, Return, TypeOK, Goto, stores
<1>21. ASSUME NEW c \in Clients, UpdateSave(c)
      PROVE  TypeOK'
  <2>1. new[c] \in Configs
    BY <1>21 DEF UpdateSave, IInv, CallsHaveConfigs, UpdatePhases
  <2> QED
    BY <1>a, <1>b, <1>c, <1>d, <1>21, <2>1 DEF UpdateSave, TypeOK, Goto, stores
<1>22. ASSUME NEW c \in Clients, UpdateSecure(c)
      PROVE  TypeOK'
  <2>1. new[c] \in Configs
    BY <1>22 DEF UpdateSecure, IInv, CallsHaveConfigs, UpdatePhases
  <2> QED
    BY <1>a, <1>b, <1>c, <1>d, <1>22, <2>1 DEF UpdateSecure, TypeOK, Goto, stores
<1>23. ASSUME NEW c \in Clients, UpdateSwap(c)
      PROVE  TypeOK'
  <2>1. new[c] \in Configs
    BY <1>23 DEF UpdateSwap, IInv, CallsHaveConfigs, UpdatePhases
  <2> QED
    BY <1>a, <1>b, <1>c, <1>d, <1>23, <2>1 DEF UpdateSwap, TypeOK, Goto, stores, Return
<1>24. ASSUME NEW c \in Clients, StatusRead(c)
      PROVE  TypeOK'
  BY <1>24, <1>a, <1>b, <1>c, <1>d DEF StatusRead, TypeOK, Goto, stores
<1>25. ASSUME NEW c \in Clients, StatusHandles(c)
      PROVE  TypeOK'
  BY <1>25, <1>a, <1>b, <1>c, <1>d DEF StatusHandles, TypeOK, Goto, stores
<1>26. ASSUME NEW c \in Clients, NEW k \in Consumers, StatusProbe(c, k)
      PROVE  TypeOK'
  BY <1>26, <1>a, <1>b, <1>c, <1>d DEF StatusProbe, TypeOK, Goto, stores
<1>27. ASSUME NEW c \in Clients, StatusEnd(c)
      PROVE  TypeOK'
  BY <1>27, <1>a, <1>b, <1>c, <1>d DEF StatusEnd, Return, TypeOK, Goto, stores
<1>28. ASSUME NEW c \in Clients, StatusTimeout(c)
      PROVE  TypeOK'
  BY <1>28, <1>a, <1>b, <1>c, <1>d DEF StatusTimeout, Return, TypeOK, Goto, stores
<1>29. ASSUME NEW k \in Consumers, TaskEnds(k)
      PROVE  TypeOK'
  <2>1. [handles[k] EXCEPT !.live = FALSE] \in Handles
    BY <1>c, <1>29 DEF TaskEnds, TypeOK, IsLive, Handles
  <2> QED
    BY <1>a, <1>b, <1>c, <1>29, <2>1 DEF TaskEnds, TypeOK, stores, callVars
<1> QED
  BY <1>1, <1>2, <1>3, <1>4, <1>5, <1>6, <1>7, <1>8, <1>9, <1>10, <1>11, <1>12,
     <1>13, <1>14, <1>15, <1>16, <1>17, <1>18, <1>19, <1>20, <1>21, <1>22, <1>23,
     <1>24, <1>25, <1>26, <1>27, <1>28, <1>29
  DEF Next, CallBegins, CallStep

-----------------------------------------------------------------------------
(* What runs, what is stored and what is in memory.                       *)

\* Every step that puts an update beside another or beside a start is remembered.
LEMMA AloneStep == IInv /\ Next => UpdatesAreAlone'
<1> SUFFICES ASSUME IInv, Next PROVE UpdatesAreAlone'
  OBVIOUS
<1>a. /\ pc \in [Clients -> Phases] /\ copy \in [Clients -> Configs \cup {None}]
      /\ new \in [Clients -> Configs \cup {None}] /\ config \in Configs
      /\ handles \in [Consumers -> Handles \cup {None}] /\ None \notin Handles
      /\ hand \in [Clients -> Consumers \cup {None}]
  BY NoneIsNothing DEF IInv, TypeOK
<1>b. UpdatesAreAlone
  BY DEF IInv
<1>1. ASSUME NEW c \in Clients, NEW k \in Consumers, StartBegin(c, k)
      PROVE  UpdatesAreAlone'
  BY <1>1, <1>a, <1>b DEF StartBegin, Begin, UpdatesAreAlone, Goto, StartPhases,
      UpdatePhases, StatusPhases, Busy
<1>2. ASSUME NEW c \in Clients, BootBegin(c)
      PROVE  UpdatesAreAlone'
  BY <1>2, <1>a, <1>b DEF BootBegin, Begin, UpdatesAreAlone, Goto, StartPhases,
      UpdatePhases, StatusPhases, Busy
<1>3. ASSUME NEW c \in Clients, NEW k \in Consumers, StopBegin(c, k)
      PROVE  UpdatesAreAlone'
  BY <1>3, <1>a, <1>b DEF StopBegin, Begin, UpdatesAreAlone, Goto, StartPhases,
      UpdatePhases, StatusPhases, Busy
<1>4. ASSUME NEW c \in Clients, NEW cfg \in Submitted, UpdateBegin(c, cfg)
      PROVE  UpdatesAreAlone'
  BY <1>4, <1>a, <1>b DEF UpdateBegin, Begin, UpdatesAreAlone, Goto, StartPhases,
      UpdatePhases, StatusPhases, Busy
<1>5. ASSUME NEW c \in Clients, StatusBegin(c)
      PROVE  UpdatesAreAlone'
  BY <1>5, <1>a, <1>b DEF StatusBegin, Begin, UpdatesAreAlone, Goto, StartPhases,
      UpdatePhases, StatusPhases, Busy
<1>6. ASSUME NEW c \in Clients, StartRead(c)
      PROVE  UpdatesAreAlone'
  BY <1>6, <1>a, <1>b DEF StartRead, ThenHandles, ToStart, UpdatesAreAlone, Goto,
      StartPhases, UpdatePhases, StatusPhases
<1>7. ASSUME NEW c \in Clients, StartNothing(c)
      PROVE  UpdatesAreAlone'
  BY <1>7, <1>a, <1>b DEF StartNothing, Return, UpdatesAreAlone, Goto, StartPhases,
      UpdatePhases, StatusPhases
<1>8. ASSUME NEW c \in Clients, NEW k \in Consumers, StartRun(c, k)
      PROVE  UpdatesAreAlone'
  BY <1>8, <1>a, <1>b DEF StartRun, UpdatesAreAlone, Goto, StartPhases,
      UpdatePhases, StatusPhases
<1>9. ASSUME NEW c \in Clients, NEW k \in Consumers, StartSkip(c, k)
      PROVE  UpdatesAreAlone'
  BY <1>9, <1>a, <1>b DEF StartSkip, StartNext, Return, UpdatesAreAlone, Goto,
      StartPhases, UpdatePhases, StatusPhases
<1>10. ASSUME NEW c \in Clients, StartInsert(c)
      PROVE  UpdatesAreAlone'
  BY <1>10, <1>a, <1>b DEF StartInsert, StartNext, Return, UpdatesAreAlone, Goto,
      StartPhases, UpdatePhases, StatusPhases
<1>11. ASSUME NEW c \in Clients, StartFailed(c)
      PROVE  UpdatesAreAlone'
  BY <1>11, <1>a, <1>b DEF StartFailed, EndTask, StartNext, Return,
      UpdatesAreAlone, Goto, StartPhases, UpdatePhases, StatusPhases
<1>12. ASSUME NEW c \in Clients, StopRead(c)
      PROVE  UpdatesAreAlone'
  BY <1>12, <1>a, <1>b DEF StopRead, ThenHandles, UpdatesAreAlone, Goto,
      StartPhases, UpdatePhases, StatusPhases
<1>13. ASSUME NEW c \in Clients, StopRemove(c)
      PROVE  UpdatesAreAlone'
  BY <1>13, <1>a, <1>b DEF StopRemove, TakeOut, UpdatesAreAlone, Goto, StartPhases,
      UpdatePhases, StatusPhases
<1>14. ASSUME NEW c \in Clients, StopNothing(c)
      PROVE  UpdatesAreAlone'
  BY <1>14, <1>a, <1>b DEF StopNothing, Return, UpdatesAreAlone, Goto, StartPhases,
      UpdatePhases, StatusPhases
<1>15. ASSUME NEW c \in Clients, StopTask(c)
      PROVE  UpdatesAreAlone'
  BY <1>15, <1>a, <1>b DEF StopTask, EndTask, Return, UpdatesAreAlone, Goto,
      StartPhases, UpdatePhases, StatusPhases
<1>16. ASSUME NEW c \in Clients, UpdateRead(c)
      PROVE  UpdatesAreAlone'
  BY <1>16, <1>a, <1>b DEF UpdateRead, ThenHandles, UpdatesAreAlone, Goto,
      StartPhases, UpdatePhases, StatusPhases
<1>17. ASSUME NEW c \in Clients, NEW k \in Consumers, UpdateStop(c, k)
      PROVE  UpdatesAreAlone'
  BY <1>17, <1>a, <1>b DEF UpdateStop, TakeOut, UpdatesAreAlone, Goto, StartPhases,
      UpdatePhases, StatusPhases
<1>18. ASSUME NEW c \in Clients, UpdateTask(c)
      PROVE  UpdatesAreAlone'
  BY <1>18, <1>a, <1>b DEF UpdateTask, EndTask, UpdatesAreAlone, Goto, StartPhases,
      UpdatePhases, StatusPhases
<1>19. ASSUME NEW c \in Clients, UpdateUnlock(c)
      PROVE  UpdatesAreAlone'
  BY <1>19, <1>a, <1>b DEF UpdateUnlock, UpdatesAreAlone, Goto, StartPhases,
      UpdatePhases, StatusPhases
<1>20. ASSUME NEW c \in Clients, UpdateFails(c)
      PROVE  UpdatesAreAlone'
  BY <1>20, <1>a, <1>b DEF UpdateFails, Return, UpdatesAreAlone, Goto, StartPhases,
      UpdatePhases, StatusPhases
<1>21. ASSUME NEW c \in Clients, UpdateSave(c)
      PROVE  UpdatesAreAlone'
  BY <1>21, <1>a, <1>b DEF UpdateSave, UpdatesAreAlone, Goto, StartPhases,
      UpdatePhases, StatusPhases
<1>22. ASSUME NEW c \in Clients, UpdateSecure(c)
      PROVE  UpdatesAreAlone'
  BY <1>22, <1>a, <1>b DEF UpdateSecure, UpdatesAreAlone, Goto, StartPhases,
      UpdatePhases, StatusPhases
<1>23. ASSUME NEW c \in Clients, UpdateSwap(c)
      PROVE  UpdatesAreAlone'
  BY <1>23, <1>a, <1>b DEF UpdateSwap, Return, UpdatesAreAlone, Goto, StartPhases,
      UpdatePhases, StatusPhases
<1>24. ASSUME NEW c \in Clients, StatusRead(c)
      PROVE  UpdatesAreAlone'
  BY <1>24, <1>a, <1>b DEF StatusRead, UpdatesAreAlone, Goto, StartPhases,
      UpdatePhases, StatusPhases
<1>25. ASSUME NEW c \in Clients, StatusHandles(c)
      PROVE  UpdatesAreAlone'
  BY <1>25, <1>a, <1>b DEF StatusHandles, UpdatesAreAlone, Goto, StartPhases,
      UpdatePhases, StatusPhases
<1>26. ASSUME NEW c \in Clients, NEW k \in Consumers, StatusProbe(c, k)
      PROVE  UpdatesAreAlone'
  BY <1>26, <1>a, <1>b DEF StatusProbe, UpdatesAreAlone, Goto, StartPhases,
      UpdatePhases, StatusPhases
<1>27. ASSUME NEW c \in Clients, StatusEnd(c)
      PROVE  UpdatesAreAlone'
  BY <1>27, <1>a, <1>b DEF StatusEnd, Return, UpdatesAreAlone, Goto, StartPhases,
      UpdatePhases, StatusPhases
<1>28. ASSUME NEW c \in Clients, StatusTimeout(c)
      PROVE  UpdatesAreAlone'
  BY <1>28, <1>a, <1>b DEF StatusTimeout, Return, UpdatesAreAlone, Goto,
      StartPhases, UpdatePhases, StatusPhases
<1>29. ASSUME NEW k \in Consumers, TaskEnds(k)
      PROVE  UpdatesAreAlone'
  BY <1>b, <1>29 DEF TaskEnds, UpdatesAreAlone, callVars
<1> QED
  BY <1>1, <1>2, <1>3, <1>4, <1>5, <1>6, <1>7, <1>8, <1>9, <1>10, <1>11, <1>12,
     <1>13, <1>14, <1>15, <1>16, <1>17, <1>18, <1>19, <1>20, <1>21, <1>22, <1>23,
     <1>24, <1>25, <1>26, <1>27, <1>28, <1>29
  DEF Next, CallBegins, CallStep

\* Every step keeps what has been read current.
LEMMA CurrentStep == IInv /\ Next => CopiesAreCurrent'
<1> SUFFICES ASSUME IInv, Next PROVE CopiesAreCurrent'
  OBVIOUS
<1>a. /\ pc \in [Clients -> Phases] /\ copy \in [Clients -> Configs \cup {None}]
      /\ new \in [Clients -> Configs \cup {None}] /\ config \in Configs
      /\ handles \in [Consumers -> Handles \cup {None}] /\ None \notin Handles
      /\ hand \in [Clients -> Consumers \cup {None}]
  BY NoneIsNothing DEF IInv, TypeOK
<1>b. CopiesAreCurrent /\ UpdatesAreAlone
  BY DEF IInv
<1>1. ASSUME NEW c \in Clients, NEW k \in Consumers, StartBegin(c, k)
      PROVE  CopiesAreCurrent'
  BY <1>1, <1>a, <1>b DEF StartBegin, Begin, CopiesAreCurrent, Goto, stores,
      StartPhases, UpdatePhases, StatusPhases
<1>2. ASSUME NEW c \in Clients, BootBegin(c)
      PROVE  CopiesAreCurrent'
  BY <1>2, <1>a, <1>b DEF BootBegin, Begin, CopiesAreCurrent, Goto, stores,
      StartPhases, UpdatePhases, StatusPhases
<1>3. ASSUME NEW c \in Clients, NEW k \in Consumers, StopBegin(c, k)
      PROVE  CopiesAreCurrent'
  BY <1>3, <1>a, <1>b DEF StopBegin, Begin, CopiesAreCurrent, Goto, stores,
      StartPhases, UpdatePhases, StatusPhases
<1>4. ASSUME NEW c \in Clients, NEW cfg \in Submitted, UpdateBegin(c, cfg)
      PROVE  CopiesAreCurrent'
  BY <1>4, <1>a, <1>b DEF UpdateBegin, Begin, CopiesAreCurrent, Goto, stores,
      StartPhases, UpdatePhases, StatusPhases
<1>5. ASSUME NEW c \in Clients, StatusBegin(c)
      PROVE  CopiesAreCurrent'
  BY <1>5, <1>a, <1>b DEF StatusBegin, Begin, CopiesAreCurrent, Goto, stores,
      StartPhases, UpdatePhases, StatusPhases
<1>6. ASSUME NEW c \in Clients, StartRead(c)
      PROVE  CopiesAreCurrent'
  BY <1>6, <1>a, <1>b DEF StartRead, ThenHandles, ToStart, CopiesAreCurrent, Goto,
      stores, StartPhases, UpdatePhases, StatusPhases
<1>7. ASSUME NEW c \in Clients, StartNothing(c)
      PROVE  CopiesAreCurrent'
  BY <1>7, <1>a, <1>b DEF StartNothing, Return, CopiesAreCurrent, Goto, stores,
      StartPhases, UpdatePhases, StatusPhases
<1>8. ASSUME NEW c \in Clients, NEW k \in Consumers, StartRun(c, k)
      PROVE  CopiesAreCurrent'
  BY <1>8, <1>a, <1>b DEF StartRun, CopiesAreCurrent, Goto, stores, StartPhases,
      UpdatePhases, StatusPhases
<1>9. ASSUME NEW c \in Clients, NEW k \in Consumers, StartSkip(c, k)
      PROVE  CopiesAreCurrent'
  BY <1>9, <1>a, <1>b DEF StartSkip, StartNext, Return, CopiesAreCurrent, Goto,
      stores, StartPhases, UpdatePhases, StatusPhases
<1>10. ASSUME NEW c \in Clients, StartInsert(c)
      PROVE  CopiesAreCurrent'
  BY <1>10, <1>a, <1>b DEF StartInsert, StartNext, Return, CopiesAreCurrent, Goto,
      stores, StartPhases, UpdatePhases, StatusPhases
<1>11. ASSUME NEW c \in Clients, StartFailed(c)
      PROVE  CopiesAreCurrent'
  BY <1>11, <1>a, <1>b DEF StartFailed, EndTask, StartNext, Return,
      CopiesAreCurrent, Goto, stores, StartPhases, UpdatePhases, StatusPhases
<1>12. ASSUME NEW c \in Clients, StopRead(c)
      PROVE  CopiesAreCurrent'
  BY <1>12, <1>a, <1>b DEF StopRead, ThenHandles, CopiesAreCurrent, Goto, stores,
      StartPhases, UpdatePhases, StatusPhases
<1>13. ASSUME NEW c \in Clients, StopRemove(c)
      PROVE  CopiesAreCurrent'
  BY <1>13, <1>a, <1>b DEF StopRemove, TakeOut, CopiesAreCurrent, Goto, stores,
      StartPhases, UpdatePhases, StatusPhases
<1>14. ASSUME NEW c \in Clients, StopNothing(c)
      PROVE  CopiesAreCurrent'
  BY <1>14, <1>a, <1>b DEF StopNothing, Return, CopiesAreCurrent, Goto, stores,
      StartPhases, UpdatePhases, StatusPhases
<1>15. ASSUME NEW c \in Clients, StopTask(c)
      PROVE  CopiesAreCurrent'
  BY <1>15, <1>a, <1>b DEF StopTask, EndTask, Return, CopiesAreCurrent, Goto,
      stores, StartPhases, UpdatePhases, StatusPhases
<1>16. ASSUME NEW c \in Clients, UpdateRead(c)
      PROVE  CopiesAreCurrent'
  BY <1>16, <1>a, <1>b DEF UpdateRead, ThenHandles, CopiesAreCurrent, Goto, stores,
      StartPhases, UpdatePhases, StatusPhases
<1>17. ASSUME NEW c \in Clients, NEW k \in Consumers, UpdateStop(c, k)
      PROVE  CopiesAreCurrent'
  BY <1>17, <1>a, <1>b DEF UpdateStop, TakeOut, CopiesAreCurrent, Goto, stores,
      StartPhases, UpdatePhases, StatusPhases
<1>18. ASSUME NEW c \in Clients, UpdateTask(c)
      PROVE  CopiesAreCurrent'
  BY <1>18, <1>a, <1>b DEF UpdateTask, EndTask, CopiesAreCurrent, Goto, stores,
      StartPhases, UpdatePhases, StatusPhases
<1>19. ASSUME NEW c \in Clients, UpdateUnlock(c)
      PROVE  CopiesAreCurrent'
  BY <1>19, <1>a, <1>b DEF UpdateUnlock, CopiesAreCurrent, Goto, stores,
      StartPhases, UpdatePhases, StatusPhases
<1>20. ASSUME NEW c \in Clients, UpdateFails(c)
      PROVE  CopiesAreCurrent'
  BY <1>20, <1>a, <1>b DEF UpdateFails, Return, CopiesAreCurrent, Goto, stores,
      StartPhases, UpdatePhases, StatusPhases
<1>21. ASSUME NEW c \in Clients, UpdateSave(c)
      PROVE  CopiesAreCurrent'
  BY <1>21, <1>a, <1>b DEF UpdateSave, CopiesAreCurrent, Goto, stores, StartPhases,
      UpdatePhases, StatusPhases
<1>22. ASSUME NEW c \in Clients, UpdateSecure(c)
      PROVE  CopiesAreCurrent'
  BY <1>22, <1>a, <1>b DEF UpdateSecure, CopiesAreCurrent, Goto, stores,
      StartPhases, UpdatePhases, StatusPhases
<1>23. ASSUME NEW c \in Clients, UpdateSwap(c)
      PROVE  CopiesAreCurrent'
  BY <1>23, <1>a, <1>b DEF UpdateSwap, Return, CopiesAreCurrent, UpdatesAreAlone,
      Goto, StartPhases, UpdatePhases, StatusPhases
<1>24. ASSUME NEW c \in Clients, StatusRead(c)
      PROVE  CopiesAreCurrent'
  BY <1>24, <1>a, <1>b DEF StatusRead, CopiesAreCurrent, Goto, stores, StartPhases,
      UpdatePhases, StatusPhases
<1>25. ASSUME NEW c \in Clients, StatusHandles(c)
      PROVE  CopiesAreCurrent'
  BY <1>25, <1>a, <1>b DEF StatusHandles, CopiesAreCurrent, Goto, stores,
      StartPhases, UpdatePhases, StatusPhases
<1>26. ASSUME NEW c \in Clients, NEW k \in Consumers, StatusProbe(c, k)
      PROVE  CopiesAreCurrent'
  BY <1>26, <1>a, <1>b DEF StatusProbe, CopiesAreCurrent, Goto, stores,
      StartPhases, UpdatePhases, StatusPhases
<1>27. ASSUME NEW c \in Clients, StatusEnd(c)
      PROVE  CopiesAreCurrent'
  BY <1>27, <1>a, <1>b DEF StatusEnd, Return, CopiesAreCurrent, Goto, stores,
      StartPhases, UpdatePhases, StatusPhases
<1>28. ASSUME NEW c \in Clients, StatusTimeout(c)
      PROVE  CopiesAreCurrent'
  BY <1>28, <1>a, <1>b DEF StatusTimeout, Return, CopiesAreCurrent, Goto, stores,
      StartPhases, UpdatePhases, StatusPhases
<1>29. ASSUME NEW k \in Consumers, TaskEnds(k)
      PROVE  CopiesAreCurrent'
  BY <1>b, <1>29 DEF TaskEnds, CopiesAreCurrent, callVars, stores
<1> QED
  BY <1>1, <1>2, <1>3, <1>4, <1>5, <1>6, <1>7, <1>8, <1>9, <1>10, <1>11, <1>12,
     <1>13, <1>14, <1>15, <1>16, <1>17, <1>18, <1>19, <1>20, <1>21, <1>22, <1>23,
     <1>24, <1>25, <1>26, <1>27, <1>28, <1>29
  DEF Next, CallBegins, CallStep

\* Every step keeps what runs configured.
LEMMA RunningStep == IInv /\ Next => RunningFollowsConfig'
<1> SUFFICES ASSUME IInv, Next PROVE RunningFollowsConfig'
  OBVIOUS
<1>a. /\ pc \in [Clients -> Phases] /\ copy \in [Clients -> Configs \cup {None}]
      /\ new \in [Clients -> Configs \cup {None}] /\ config \in Configs
      /\ handles \in [Consumers -> Handles \cup {None}] /\ None \notin Handles
      /\ hand \in [Clients -> Consumers \cup {None}]
  BY NoneIsNothing DEF IInv, TypeOK
<1>b. RunningFollowsConfig /\ StoppedBeforeSave /\ CopiesAreCurrent
  BY DEF IInv
<1>1. ASSUME NEW c \in Clients, NEW k \in Consumers, StartBegin(c, k)
      PROVE  RunningFollowsConfig'
  BY <1>1, <1>a, <1>b DEF StartBegin, Begin, RunningFollowsConfig, stores
<1>2. ASSUME NEW c \in Clients, BootBegin(c)
      PROVE  RunningFollowsConfig'
  BY <1>2, <1>a, <1>b DEF BootBegin, Begin, RunningFollowsConfig, stores
<1>3. ASSUME NEW c \in Clients, NEW k \in Consumers, StopBegin(c, k)
      PROVE  RunningFollowsConfig'
  BY <1>3, <1>a, <1>b DEF StopBegin, Begin, RunningFollowsConfig, stores
<1>4. ASSUME NEW c \in Clients, NEW cfg \in Submitted, UpdateBegin(c, cfg)
      PROVE  RunningFollowsConfig'
  BY <1>4, <1>a, <1>b DEF UpdateBegin, Begin, RunningFollowsConfig, stores
<1>5. ASSUME NEW c \in Clients, StatusBegin(c)
      PROVE  RunningFollowsConfig'
  BY <1>5, <1>a, <1>b DEF StatusBegin, Begin, RunningFollowsConfig, stores
<1>6. ASSUME NEW c \in Clients, StartRead(c)
      PROVE  RunningFollowsConfig'
  BY <1>6, <1>a, <1>b DEF StartRead, ThenHandles, ToStart, RunningFollowsConfig,
      stores
<1>7. ASSUME NEW c \in Clients, StartNothing(c)
      PROVE  RunningFollowsConfig'
  BY <1>7, <1>a, <1>b DEF StartNothing, Return, RunningFollowsConfig, stores
<1>8. ASSUME NEW c \in Clients, NEW k \in Consumers, StartRun(c, k)
      PROVE  RunningFollowsConfig'
  BY <1>8, <1>a, <1>b DEF StartRun, RunningFollowsConfig, stores
<1>9. ASSUME NEW c \in Clients, NEW k \in Consumers, StartSkip(c, k)
      PROVE  RunningFollowsConfig'
  BY <1>9, <1>a, <1>b DEF StartSkip, StartNext, Return, RunningFollowsConfig,
      stores
<1>10. ASSUME NEW c \in Clients, StartInsert(c)
      PROVE  RunningFollowsConfig'
  BY <1>10, <1>a, <1>b, InsertedHandle DEF StartInsert, StartNext, Return,
      RunningFollowsConfig, stores, CopiesAreCurrent, IsLive
<1>11. ASSUME NEW c \in Clients, StartFailed(c)
      PROVE  RunningFollowsConfig'
  BY <1>11, <1>a, <1>b DEF StartFailed, EndTask, StartNext, Return,
      RunningFollowsConfig, stores
<1>12. ASSUME NEW c \in Clients, StopRead(c)
      PROVE  RunningFollowsConfig'
  BY <1>12, <1>a, <1>b DEF StopRead, ThenHandles, RunningFollowsConfig, stores
<1>13. ASSUME NEW c \in Clients, StopRemove(c)
      PROVE  RunningFollowsConfig'
  BY <1>13, <1>a, <1>b DEF StopRemove, TakeOut, RunningFollowsConfig, stores,
      IsLive
<1>14. ASSUME NEW c \in Clients, StopNothing(c)
      PROVE  RunningFollowsConfig'
  BY <1>14, <1>a, <1>b DEF StopNothing, Return, RunningFollowsConfig, stores
<1>15. ASSUME NEW c \in Clients, StopTask(c)
      PROVE  RunningFollowsConfig'
  BY <1>15, <1>a, <1>b DEF StopTask, EndTask, Return, RunningFollowsConfig, stores
<1>16. ASSUME NEW c \in Clients, UpdateRead(c)
      PROVE  RunningFollowsConfig'
  BY <1>16, <1>a, <1>b DEF UpdateRead, ThenHandles, RunningFollowsConfig, stores
<1>17. ASSUME NEW c \in Clients, NEW k \in Consumers, UpdateStop(c, k)
      PROVE  RunningFollowsConfig'
  BY <1>17, <1>a, <1>b DEF UpdateStop, TakeOut, RunningFollowsConfig, stores,
      IsLive
<1>18. ASSUME NEW c \in Clients, UpdateTask(c)
      PROVE  RunningFollowsConfig'
  BY <1>18, <1>a, <1>b DEF UpdateTask, EndTask, RunningFollowsConfig, stores
<1>19. ASSUME NEW c \in Clients, UpdateUnlock(c)
      PROVE  RunningFollowsConfig'
  BY <1>19, <1>a, <1>b DEF UpdateUnlock, RunningFollowsConfig, stores
<1>20. ASSUME NEW c \in Clients, UpdateFails(c)
      PROVE  RunningFollowsConfig'
  BY <1>20, <1>a, <1>b DEF UpdateFails, Return, RunningFollowsConfig, stores
<1>21. ASSUME NEW c \in Clients, UpdateSave(c)
      PROVE  RunningFollowsConfig'
  BY <1>21, <1>a, <1>b DEF UpdateSave, RunningFollowsConfig, stores
<1>22. ASSUME NEW c \in Clients, UpdateSecure(c)
      PROVE  RunningFollowsConfig'
  BY <1>22, <1>a, <1>b DEF UpdateSecure, RunningFollowsConfig, stores
<1>23. ASSUME NEW c \in Clients, UpdateSwap(c)
      PROVE  RunningFollowsConfig'
  BY <1>23, <1>a, <1>b DEF UpdateSwap, Return, RunningFollowsConfig, stores,
      StoppedBeforeSave
<1>24. ASSUME NEW c \in Clients, StatusRead(c)
      PROVE  RunningFollowsConfig'
  BY <1>24, <1>a, <1>b DEF StatusRead, RunningFollowsConfig, stores
<1>25. ASSUME NEW c \in Clients, StatusHandles(c)
      PROVE  RunningFollowsConfig'
  BY <1>25, <1>a, <1>b DEF StatusHandles, RunningFollowsConfig, stores
<1>26. ASSUME NEW c \in Clients, NEW k \in Consumers, StatusProbe(c, k)
      PROVE  RunningFollowsConfig'
  BY <1>26, <1>a, <1>b DEF StatusProbe, RunningFollowsConfig, stores
<1>27. ASSUME NEW c \in Clients, StatusEnd(c)
      PROVE  RunningFollowsConfig'
  BY <1>27, <1>a, <1>b DEF StatusEnd, Return, RunningFollowsConfig, stores
<1>28. ASSUME NEW c \in Clients, StatusTimeout(c)
      PROVE  RunningFollowsConfig'
  BY <1>28, <1>a, <1>b DEF StatusTimeout, Return, RunningFollowsConfig, stores
<1>29. ASSUME NEW k \in Consumers, TaskEnds(k)
      PROVE  RunningFollowsConfig'
  BY <1>a, <1>b, <1>29 DEF TaskEnds, RunningFollowsConfig, IsLive, Handles, stores
<1> QED
  BY <1>1, <1>2, <1>3, <1>4, <1>5, <1>6, <1>7, <1>8, <1>9, <1>10, <1>11, <1>12,
     <1>13, <1>14, <1>15, <1>16, <1>17, <1>18, <1>19, <1>20, <1>21, <1>22, <1>23,
     <1>24, <1>25, <1>26, <1>27, <1>28, <1>29
  DEF Next, CallBegins, CallStep

\* Every step keeps what the new configuration changes stopped while it is saved.
LEMMA StoppedStep == IInv /\ Next => StoppedBeforeSave'
<1> SUFFICES ASSUME IInv, Next PROVE StoppedBeforeSave'
  OBVIOUS
<1>a. /\ pc \in [Clients -> Phases] /\ copy \in [Clients -> Configs \cup {None}]
      /\ new \in [Clients -> Configs \cup {None}] /\ config \in Configs
      /\ handles \in [Consumers -> Handles \cup {None}] /\ None \notin Handles
      /\ hand \in [Clients -> Consumers \cup {None}]
  BY NoneIsNothing DEF IInv, TypeOK
<1>b. RunningFollowsConfig /\ StoppedBeforeSave /\ CopiesAreCurrent /\ UpdatesAreAlone
  BY DEF IInv
<1>1. ASSUME NEW c \in Clients, NEW k \in Consumers, StartBegin(c, k)
      PROVE  StoppedBeforeSave'
  BY <1>1, <1>a, <1>b DEF StartBegin, Begin, StoppedBeforeSave, Goto
<1>2. ASSUME NEW c \in Clients, BootBegin(c)
      PROVE  StoppedBeforeSave'
  BY <1>2, <1>a, <1>b DEF BootBegin, Begin, StoppedBeforeSave, Goto
<1>3. ASSUME NEW c \in Clients, NEW k \in Consumers, StopBegin(c, k)
      PROVE  StoppedBeforeSave'
  BY <1>3, <1>a, <1>b DEF StopBegin, Begin, StoppedBeforeSave, Goto
<1>4. ASSUME NEW c \in Clients, NEW cfg \in Submitted, UpdateBegin(c, cfg)
      PROVE  StoppedBeforeSave'
  BY <1>4, <1>a, <1>b DEF UpdateBegin, Begin, StoppedBeforeSave, Goto
<1>5. ASSUME NEW c \in Clients, StatusBegin(c)
      PROVE  StoppedBeforeSave'
  BY <1>5, <1>a, <1>b DEF StatusBegin, Begin, StoppedBeforeSave, Goto
<1>6. ASSUME NEW c \in Clients, StartRead(c)
      PROVE  StoppedBeforeSave'
  BY <1>6, <1>a, <1>b DEF StartRead, ThenHandles, ToStart, StoppedBeforeSave, Goto
<1>7. ASSUME NEW c \in Clients, StartNothing(c)
      PROVE  StoppedBeforeSave'
  BY <1>7, <1>a, <1>b DEF StartNothing, Return, StoppedBeforeSave, Goto
<1>8. ASSUME NEW c \in Clients, NEW k \in Consumers, StartRun(c, k)
      PROVE  StoppedBeforeSave'
  BY <1>8, <1>a, <1>b DEF StartRun, StoppedBeforeSave, Goto
<1>9. ASSUME NEW c \in Clients, NEW k \in Consumers, StartSkip(c, k)
      PROVE  StoppedBeforeSave'
  BY <1>9, <1>a, <1>b DEF StartSkip, StartNext, Return, StoppedBeforeSave, Goto
<1>10. ASSUME NEW c \in Clients, StartInsert(c)
      PROVE  StoppedBeforeSave'
  BY <1>10, <1>a, <1>b, InsertedHandle DEF StartInsert, StartNext, Return,
      StoppedBeforeSave, Goto, UpdatesAreAlone, StartPhases, UpdatePhases
<1>11. ASSUME NEW c \in Clients, StartFailed(c)
      PROVE  StoppedBeforeSave'
  BY <1>11, <1>a, <1>b DEF StartFailed, EndTask, StartNext, Return,
      StoppedBeforeSave, Goto
<1>12. ASSUME NEW c \in Clients, StopRead(c)
      PROVE  StoppedBeforeSave'
  BY <1>12, <1>a, <1>b DEF StopRead, ThenHandles, StoppedBeforeSave, Goto
<1>13. ASSUME NEW c \in Clients, StopRemove(c)
      PROVE  StoppedBeforeSave'
  BY <1>13, <1>a, <1>b DEF StopRemove, TakeOut, StoppedBeforeSave, Goto, IsLive
<1>14. ASSUME NEW c \in Clients, StopNothing(c)
      PROVE  StoppedBeforeSave'
  BY <1>14, <1>a, <1>b DEF StopNothing, Return, StoppedBeforeSave, Goto
<1>15. ASSUME NEW c \in Clients, StopTask(c)
      PROVE  StoppedBeforeSave'
  BY <1>15, <1>a, <1>b DEF StopTask, EndTask, Return, StoppedBeforeSave, Goto
<1>16. ASSUME NEW c \in Clients, UpdateRead(c)
      PROVE  StoppedBeforeSave'
  BY <1>16, <1>a, <1>b DEF UpdateRead, ThenHandles, StoppedBeforeSave, Goto
<1>17. ASSUME NEW c \in Clients, NEW k \in Consumers, UpdateStop(c, k)
      PROVE  StoppedBeforeSave'
  BY <1>17, <1>a, <1>b DEF UpdateStop, TakeOut, StoppedBeforeSave, Goto, IsLive
<1>18. ASSUME NEW c \in Clients, UpdateTask(c)
      PROVE  StoppedBeforeSave'
  BY <1>18, <1>a, <1>b DEF UpdateTask, EndTask, StoppedBeforeSave, Goto
<1>19. ASSUME NEW c \in Clients, UpdateUnlock(c)
      PROVE  StoppedBeforeSave'
  BY <1>19, <1>a, <1>b DEF UpdateUnlock, StoppedBeforeSave, Goto,
      RunningFollowsConfig, CopiesAreCurrent, ShouldStop, IsLive, UpdatePhases
<1>20. ASSUME NEW c \in Clients, UpdateFails(c)
      PROVE  StoppedBeforeSave'
  BY <1>20, <1>a, <1>b DEF UpdateFails, Return, StoppedBeforeSave, Goto
<1>21. ASSUME NEW c \in Clients, UpdateSave(c)
      PROVE  StoppedBeforeSave'
  BY <1>21, <1>a, <1>b DEF UpdateSave, StoppedBeforeSave, Goto
<1>22. ASSUME NEW c \in Clients, UpdateSecure(c)
      PROVE  StoppedBeforeSave'
  BY <1>22, <1>a, <1>b DEF UpdateSecure, StoppedBeforeSave, Goto
<1>23. ASSUME NEW c \in Clients, UpdateSwap(c)
      PROVE  StoppedBeforeSave'
  BY <1>23, <1>a, <1>b DEF UpdateSwap, Return, StoppedBeforeSave, Goto
<1>24. ASSUME NEW c \in Clients, StatusRead(c)
      PROVE  StoppedBeforeSave'
  BY <1>24, <1>a, <1>b DEF StatusRead, StoppedBeforeSave, Goto
<1>25. ASSUME NEW c \in Clients, StatusHandles(c)
      PROVE  StoppedBeforeSave'
  BY <1>25, <1>a, <1>b DEF StatusHandles, StoppedBeforeSave, Goto
<1>26. ASSUME NEW c \in Clients, NEW k \in Consumers, StatusProbe(c, k)
      PROVE  StoppedBeforeSave'
  BY <1>26, <1>a, <1>b DEF StatusProbe, StoppedBeforeSave, Goto
<1>27. ASSUME NEW c \in Clients, StatusEnd(c)
      PROVE  StoppedBeforeSave'
  BY <1>27, <1>a, <1>b DEF StatusEnd, Return, StoppedBeforeSave, Goto
<1>28. ASSUME NEW c \in Clients, StatusTimeout(c)
      PROVE  StoppedBeforeSave'
  BY <1>28, <1>a, <1>b DEF StatusTimeout, Return, StoppedBeforeSave, Goto,
      StatusPhases
<1>29. ASSUME NEW k \in Consumers, TaskEnds(k)
      PROVE  StoppedBeforeSave'
  BY <1>a, <1>b, <1>29 DEF TaskEnds, StoppedBeforeSave, IsLive, Handles, callVars
<1> QED
  BY <1>1, <1>2, <1>3, <1>4, <1>5, <1>6, <1>7, <1>8, <1>9, <1>10, <1>11, <1>12,
     <1>13, <1>14, <1>15, <1>16, <1>17, <1>18, <1>19, <1>20, <1>21, <1>22, <1>23,
     <1>24, <1>25, <1>26, <1>27, <1>28, <1>29
  DEF Next, CallBegins, CallStep

\* Every step keeps the order of file, security and memory.
LEMMA SavedStep == IInv /\ Next => SavedInOrder'
<1> SUFFICES ASSUME IInv, Next PROVE SavedInOrder'
  OBVIOUS
<1>a. /\ pc \in [Clients -> Phases] /\ copy \in [Clients -> Configs \cup {None}]
      /\ new \in [Clients -> Configs \cup {None}] /\ config \in Configs
      /\ handles \in [Consumers -> Handles \cup {None}] /\ None \notin Handles
      /\ hand \in [Clients -> Consumers \cup {None}]
  BY NoneIsNothing DEF IInv, TypeOK
<1>b. SavedInOrder /\ UpdatesAreAlone
  BY DEF IInv
<1>1. ASSUME NEW c \in Clients, NEW k \in Consumers, StartBegin(c, k)
      PROVE  SavedInOrder'
  BY <1>1, <1>a, <1>b DEF StartBegin, Begin, SavedInOrder, Busy, Goto, stores
<1>2. ASSUME NEW c \in Clients, BootBegin(c)
      PROVE  SavedInOrder'
  BY <1>2, <1>a, <1>b DEF BootBegin, Begin, SavedInOrder, Busy, Goto, stores
<1>3. ASSUME NEW c \in Clients, NEW k \in Consumers, StopBegin(c, k)
      PROVE  SavedInOrder'
  BY <1>3, <1>a, <1>b DEF StopBegin, Begin, SavedInOrder, Busy, Goto, stores
<1>4. ASSUME NEW c \in Clients, NEW cfg \in Submitted, UpdateBegin(c, cfg)
      PROVE  SavedInOrder'
  BY <1>4, <1>a, <1>b DEF UpdateBegin, Begin, SavedInOrder, Busy, Goto, stores
<1>5. ASSUME NEW c \in Clients, StatusBegin(c)
      PROVE  SavedInOrder'
  BY <1>5, <1>a, <1>b DEF StatusBegin, Begin, SavedInOrder, Busy, Goto, stores
<1>6. ASSUME NEW c \in Clients, StartRead(c)
      PROVE  SavedInOrder'
  BY <1>6, <1>a, <1>b DEF StartRead, ThenHandles, ToStart, SavedInOrder, Busy,
      Goto, stores
<1>7. ASSUME NEW c \in Clients, StartNothing(c)
      PROVE  SavedInOrder'
  BY <1>7, <1>a, <1>b DEF StartNothing, Return, SavedInOrder, Busy, Goto, stores
<1>8. ASSUME NEW c \in Clients, NEW k \in Consumers, StartRun(c, k)
      PROVE  SavedInOrder'
  BY <1>8, <1>a, <1>b DEF StartRun, SavedInOrder, Busy, Goto, stores
<1>9. ASSUME NEW c \in Clients, NEW k \in Consumers, StartSkip(c, k)
      PROVE  SavedInOrder'
  BY <1>9, <1>a, <1>b DEF StartSkip, StartNext, Return, SavedInOrder, Busy, Goto,
      stores
<1>10. ASSUME NEW c \in Clients, StartInsert(c)
      PROVE  SavedInOrder'
  BY <1>10, <1>a, <1>b DEF StartInsert, StartNext, Return, SavedInOrder, Busy,
      Goto, stores
<1>11. ASSUME NEW c \in Clients, StartFailed(c)
      PROVE  SavedInOrder'
  BY <1>11, <1>a, <1>b DEF StartFailed, EndTask, StartNext, Return, SavedInOrder,
      Busy, Goto, stores
<1>12. ASSUME NEW c \in Clients, StopRead(c)
      PROVE  SavedInOrder'
  BY <1>12, <1>a, <1>b DEF StopRead, ThenHandles, SavedInOrder, Busy, Goto, stores
<1>13. ASSUME NEW c \in Clients, StopRemove(c)
      PROVE  SavedInOrder'
  BY <1>13, <1>a, <1>b DEF StopRemove, TakeOut, SavedInOrder, Busy, Goto, stores
<1>14. ASSUME NEW c \in Clients, StopNothing(c)
      PROVE  SavedInOrder'
  BY <1>14, <1>a, <1>b DEF StopNothing, Return, SavedInOrder, Busy, Goto, stores
<1>15. ASSUME NEW c \in Clients, StopTask(c)
      PROVE  SavedInOrder'
  BY <1>15, <1>a, <1>b DEF StopTask, EndTask, Return, SavedInOrder, Busy, Goto,
      stores
<1>16. ASSUME NEW c \in Clients, UpdateRead(c)
      PROVE  SavedInOrder'
  BY <1>16, <1>a, <1>b DEF UpdateRead, ThenHandles, SavedInOrder, Busy, Goto,
      stores
<1>17. ASSUME NEW c \in Clients, NEW k \in Consumers, UpdateStop(c, k)
      PROVE  SavedInOrder'
  BY <1>17, <1>a, <1>b DEF UpdateStop, TakeOut, SavedInOrder, Busy, Goto, stores
<1>18. ASSUME NEW c \in Clients, UpdateTask(c)
      PROVE  SavedInOrder'
  BY <1>18, <1>a, <1>b DEF UpdateTask, EndTask, SavedInOrder, Busy, Goto, stores
<1>19. ASSUME NEW c \in Clients, UpdateUnlock(c)
      PROVE  SavedInOrder'
  BY <1>19, <1>a, <1>b DEF UpdateUnlock, SavedInOrder, Busy, Goto, stores
<1>20. ASSUME NEW c \in Clients, UpdateFails(c)
      PROVE  SavedInOrder'
  BY <1>20, <1>a, <1>b DEF UpdateFails, Return, SavedInOrder, Busy, Goto, stores,
      UpdatesAreAlone, UpdatePhases
<1>21. ASSUME NEW c \in Clients, UpdateSave(c)
      PROVE  SavedInOrder'
  BY <1>21, <1>a, <1>b DEF UpdateSave, SavedInOrder, Busy, Goto, stores,
      UpdatesAreAlone, UpdatePhases
<1>22. ASSUME NEW c \in Clients, UpdateSecure(c)
      PROVE  SavedInOrder'
  BY <1>22, <1>a, <1>b DEF UpdateSecure, SavedInOrder, Busy, Goto, stores,
      UpdatesAreAlone, UpdatePhases
<1>23. ASSUME NEW c \in Clients, UpdateSwap(c)
      PROVE  SavedInOrder'
  BY <1>23, <1>a, <1>b DEF UpdateSwap, Return, SavedInOrder, Busy, Goto, stores,
      UpdatesAreAlone, UpdatePhases
<1>24. ASSUME NEW c \in Clients, StatusRead(c)
      PROVE  SavedInOrder'
  BY <1>24, <1>a, <1>b DEF StatusRead, SavedInOrder, Busy, Goto, stores
<1>25. ASSUME NEW c \in Clients, StatusHandles(c)
      PROVE  SavedInOrder'
  BY <1>25, <1>a, <1>b DEF StatusHandles, SavedInOrder, Busy, Goto, stores
<1>26. ASSUME NEW c \in Clients, NEW k \in Consumers, StatusProbe(c, k)
      PROVE  SavedInOrder'
  BY <1>26, <1>a, <1>b DEF StatusProbe, SavedInOrder, Busy, Goto, stores
<1>27. ASSUME NEW c \in Clients, StatusEnd(c)
      PROVE  SavedInOrder'
  BY <1>27, <1>a, <1>b DEF StatusEnd, Return, SavedInOrder, Busy, Goto, stores
<1>28. ASSUME NEW c \in Clients, StatusTimeout(c)
      PROVE  SavedInOrder'
  BY <1>28, <1>a, <1>b DEF StatusTimeout, Return, SavedInOrder, Busy, Goto, stores,
      StatusPhases
<1>29. ASSUME NEW k \in Consumers, TaskEnds(k)
      PROVE  SavedInOrder'
  BY <1>b, <1>29 DEF TaskEnds, SavedInOrder, Busy, stores, callVars
<1> QED
  BY <1>1, <1>2, <1>3, <1>4, <1>5, <1>6, <1>7, <1>8, <1>9, <1>10, <1>11, <1>12,
     <1>13, <1>14, <1>15, <1>16, <1>17, <1>18, <1>19, <1>20, <1>21, <1>22, <1>23,
     <1>24, <1>25, <1>26, <1>27, <1>28, <1>29
  DEF Next, CallBegins, CallStep

-----------------------------------------------------------------------------
(* The invariant and what follows from it.                                 *)

LEMMA InitIInv == Init => IInv
<1> SUFFICES ASSUME Init PROVE IInv
  OBVIOUS
<1>1. /\ config \in Configs /\ file = config /\ security = config
      /\ \A k \in Consumers : handles[k] = None /\ tasks[k] = 0
      /\ \A c \in Clients : pc[c] = "idle" /\ hand[c] = None
  BY SubmittedAreConfigs DEF Init
<1>2. TypeOK
  <2>1. {configLock, handlesLock} \subseteq Seq(Clients \X {"read", "write"})
    BY DEF Init
  <2>2. tasks \in [Consumers -> 0 .. 1] /\ pc \in [Clients -> Phases]
    BY DEF Init, Phases
  <2> QED
    BY <1>1, <2>1, <2>2 DEF Init, TypeOK
<1>3. TableQueue /\ TableIsHeld
  BY <1>1 DEF Init, TableQueue, TableIsHeld, Once, Holding
<1>4. HandsAreHeld /\ CallsHaveConfigs
  BY <1>1 DEF HandsAreHeld, CallsHaveConfigs, UpdatePhases
<1>5. TasksAreOne
  BY <1>1, NoneIsNothing DEF TasksAreOne, IsLive
<1>6. UpdatesAreAlone /\ CopiesAreCurrent
  BY <1>1 DEF UpdatesAreAlone, CopiesAreCurrent, UpdatePhases
<1>7. RunningFollowsConfig /\ StoppedBeforeSave /\ SavedInOrder
  BY <1>1 DEF RunningFollowsConfig, StoppedBeforeSave, SavedInOrder, IsLive
<1> QED
  BY <1>2, <1>3, <1>4, <1>5, <1>6, <1>7 DEF IInv

LEMMA NextIInv == IInv /\ [Next]_vars => IInv'
<1>1. CASE Next
  BY <1>1, TypeStep, QueueStep, HandsStep, CopiesStep, TasksStep, AloneStep,
     CurrentStep, RunningStep, StoppedStep, SavedStep DEF IInv
<1>2. CASE UNCHANGED vars
  <2> SUFFICES ASSUME IInv PROVE IInv'
    BY <1>2
  <2>1. TypeOK' /\ TableQueue' /\ TableIsHeld' /\ HandsAreHeld' /\ CallsHaveConfigs'
    BY <1>2 DEF IInv, vars, TypeOK, TableQueue, Once, TableIsHeld, HandsAreHeld,
       CallsHaveConfigs
  <2>2. TasksAreOne' /\ UpdatesAreAlone' /\ CopiesAreCurrent' /\ RunningFollowsConfig'
    BY <1>2 DEF IInv, vars, TasksAreOne, UpdatesAreAlone, CopiesAreCurrent,
       RunningFollowsConfig
  <2>3. StoppedBeforeSave' /\ SavedInOrder'
    BY <1>2 DEF IInv, vars, StoppedBeforeSave, SavedInOrder, Busy
  <2> QED
    BY <2>1, <2>2, <2>3 DEF IInv
<1> QED
  BY <1>1, <1>2

THEOREM Invariant == Spec => []IInv
  BY InitIInv, NextIInv, PTL DEF Spec

\* Every variable keeps its type; in particular a consumer never has two tasks,
\* whatever calls start, stop and update it at the same time.
THEOREM TypeCorrect == Spec => []TypeOK
<1>1. IInv => TypeOK
  BY DEF IInv
<1> QED
  BY <1>1, Invariant, PTL

\* No two calls have the task of a consumer in hand.
LEMMA OneHand ==
  ASSUME IInv, NEW k \in Consumers
  PROVE  \/ {c \in Clients : hand[c] = k} = {}
         \/ \E d \in Clients : {c \in Clients : hand[c] = k} = {d}
<1>1. SUFFICES ASSUME NEW d \in Clients, hand[d] = k
               PROVE  {c \in Clients : hand[c] = k} = {d}
  OBVIOUS
<1>2. k # None
  BY NoneIsNothing
<1>3. pc[d] \in Holding
  BY <1>1, <1>2 DEF IInv, HandsAreHeld
<1>4. \A c \in Clients : c # d => hand[c] = None
  BY <1>3, OneHolder
<1> QED
  BY <1>1, <1>2, <1>4

\* A task is in the table or in the hands of exactly one call: stopping, updating
\* and starting lose none, and end none twice.
THEOREM TasksAreTracked == Spec => []EveryTaskIsTracked
<1>1. ASSUME IInv PROVE EveryTaskIsTracked
  <2> SUFFICES ASSUME NEW k \in Consumers
               PROVE  tasks[k] = Cardinality({c \in Clients : hand[c] = k})
                                   + (IF IsLive(handles[k]) THEN 1 ELSE 0)
    BY DEF EveryTaskIsTracked
  <2> DEFINE H == {c \in Clients : hand[c] = k}
  <2>1. tasks[k] = IF IsLive(handles[k]) \/ H # {} THEN 1 ELSE 0
    BY <1>1 DEF IInv, TasksAreOne
  <2>2. CASE H = {}
    <3>1. Cardinality(H) = 0
      BY <2>2, FS_EmptySet
    <3> QED
      BY <2>1, <2>2, <3>1
  <2>3. CASE \E d \in Clients : H = {d}
    <3>1. PICK d \in Clients : H = {d}
      BY <2>3
    <3>2. Cardinality(H) = 1
      BY <3>1, FS_Singleton
    <3>3. ~IsLive(handles[k])
      BY <1>1, <3>1, NoneIsNothing DEF IInv, HandsAreHeld
    <3> QED
      BY <2>1, <3>1, <3>2, <3>3
  <2> QED
    BY <1>1, <2>2, <2>3, OneHand
<1> QED
  BY <1>1, Invariant, PTL

\* As long as no update runs beside another or beside a start, what runs is what
\* is configured, between the steps of an update and after one that failed too.
THEOREM RunningIsConfigured == Spec => []RunningFollowsConfig
<1>1. IInv => RunningFollowsConfig
  BY DEF IInv
<1> QED
  BY <1>1, Invariant, PTL

\* Then the file, the memory and the storage security agree again after every
\* update, unless its write failed and left a file that cannot be read.
THEOREM ConfigurationsAgree == Spec => []CopiesAgree
<1>1. IInv => CopiesAgree
  BY DEF IInv, CopiesAgree, SavedInOrder, Busy, UpdatePhases
<1> QED
  BY <1>1, Invariant, PTL

-----------------------------------------------------------------------------
(* One slot for each consumer.                                             *)

\* The consumer is coming up.
Coming(k) == \E c \in Clients : pc[c] = "run" /\ hand[c] = k

\* The slots of the other consumers are as they were.
Elsewhere(k) ==
  \A j \in Consumers \ {k} : handles'[j] = handles[j] /\ Coming(j)' = Coming(j)

\* The table, locked while a consumer comes up, implements one slot for each.
THEOREM ImplementsSlots == Spec => SlotSpec
<1> DEFINE S == [k \in Consumers |-> IF Coming(k) THEN "reserved"
                                     ELSE IF IsLive(handles[k]) THEN "running" ELSE "free"]
           R == [k \in Consumers |-> IF IsLive(handles[k]) THEN handles[k].settings ELSE None]
<1>1. Init => Slots!SlotInit
  BY NoneIsNothing DEF Init, Slots!SlotInit, IsLive
<1>2. IInv /\ [Next]_vars => [Slots!SlotNext]_(Slots!slotVars)
  <2> SUFFICES ASSUME IInv, [Next]_vars
               PROVE  Slots!SlotNext \/ (S' = S /\ R' = R)
    BY DEF Slots!slotVars, Coming
  <2>a. /\ pc \in [Clients -> Phases] /\ hand \in [Clients -> Consumers \cup {None}]
        /\ handles \in [Consumers -> Handles \cup {None}] /\ None \notin Handles
        /\ keys \in [Clients -> SUBSET Consumers] /\ None \notin Consumers
    BY NoneIsNothing DEF IInv, TypeOK
  <2>b. \A c \in Clients :
          /\ hand[c] # None => pc[c] \in Holding /\ ~IsLive(handles[hand[c]])
          /\ pc[c] = "run" => hand[c] \in keys[c]
    BY DEF IInv, HandsAreHeld
  <2>c. /\ S = [j \in Consumers |-> S[j]] /\ S' = [j \in Consumers |-> S'[j]]
        /\ R = [j \in Consumers |-> R[j]] /\ R' = [j \in Consumers |-> R'[j]]
    OBVIOUS
  <2>d. \A j \in Consumers :
          /\ S[j] = IF Coming(j) THEN "reserved"
                    ELSE IF IsLive(handles[j]) THEN "running" ELSE "free"
          /\ S'[j] = IF Coming(j)' THEN "reserved"
                     ELSE IF IsLive(handles'[j]) THEN "running" ELSE "free"
          /\ R[j] = IF IsLive(handles[j]) THEN handles[j].settings ELSE None
          /\ R'[j] = IF IsLive(handles'[j]) THEN handles'[j].settings ELSE None
    BY DEF IsLive
  <2>1. ASSUME NEW c \in Clients, NEW k \in Consumers, StartRun(c, k)
        PROVE  Slots!Reserve(k)
    <3>1. \A d \in Clients : d # c => hand[d] = None
      BY <2>1, OneHolder DEF StartRun
    <3>2. ~Coming(k) /\ Coming(k)' /\ Elsewhere(k) /\ handles' = handles
      BY <2>a, <2>b, <2>1, <3>1 DEF StartRun, Goto, Coming, Elsewhere, Holding
    <3>3. ~IsLive(handles[k])
      BY <2>1 DEF StartRun
    <3>4. S[k] = "free" /\ S' = [S EXCEPT ![k] = "reserved"] /\ R' = R
      <4> HIDE DEF S, R
      <4> QED
        BY <2>c, <2>d, <3>2, <3>3 DEF Elsewhere
    <3> QED
      BY <3>4 DEF Slots!Reserve, Coming
  <2>2. ASSUME NEW c \in Clients, StartInsert(c), NEW k, k = hand[c],
               NEW r, r = copy[c][k]
        PROVE  k \in Consumers /\ r \in Settings /\ Slots!Commit(k, r)
    <3>1. \A d \in Clients : d # c => hand[d] = None
      BY <2>2, OneHolder DEF StartInsert, Holding
    <3>2. k \in Consumers /\ [settings |-> r, live |-> TRUE] \in Handles /\ r \in Settings
      BY <2>2, InsertedHandle DEF StartInsert, Handles
    <3>3. /\ handles'[k] = [settings |-> r, live |-> TRUE] /\ IsLive(handles'[k])
          /\ \A j \in Consumers \ {k} : handles'[j] = handles[j]
      BY <2>a, <2>2, <3>2 DEF StartInsert, IsLive
    <3>4. /\ pc[c] = "run" /\ pc'[c] # "run"
          /\ \A d \in Clients \ {c} : pc'[d] = pc[d] /\ hand'[d] = hand[d]
      BY <2>a, <2>2 DEF StartInsert, StartNext, Return, Goto
    <3>5. Coming(k) /\ ~Coming(k)' /\ Elsewhere(k)
      BY <3>1, <3>2, <3>3, <3>4, <2>a, <2>2 DEF Coming, Elsewhere
    <3>6. /\ S[k] = "reserved" /\ S' = [S EXCEPT ![k] = "running"]
          /\ R' = [R EXCEPT ![k] = r]
      <4> HIDE DEF S, R
      <4> QED
        BY <2>c, <2>d, <3>2, <3>3, <3>5 DEF Elsewhere
    <3>7. Slots!Commit(k, r)
      BY <3>6 DEF Slots!Commit, Coming
    <3> QED
      BY <3>2, <3>7
  <2>3. ASSUME NEW c \in Clients, StartFailed(c), NEW k, k = hand[c]
        PROVE  k \in Consumers /\ Slots!Abort(k)
    <3>1. \A d \in Clients : d # c => hand[d] = None
      BY <2>3, OneHolder DEF StartFailed, Holding
    <3>2. k \in Consumers /\ ~IsLive(handles[k]) /\ handles' = handles
      BY <2>a, <2>b, <2>3 DEF StartFailed
    <3>4. /\ pc[c] = "run" /\ pc'[c] # "run"
          /\ \A d \in Clients \ {c} : pc'[d] = pc[d] /\ hand'[d] = hand[d]
      BY <2>a, <2>3 DEF StartFailed, StartNext, Return, Goto
    <3>5. Coming(k) /\ ~Coming(k)' /\ Elsewhere(k)
      BY <3>1, <3>2, <3>4, <2>a, <2>3 DEF Coming, Elsewhere
    <3>6. S[k] = "reserved" /\ S' = [S EXCEPT ![k] = "free"] /\ R' = R
      <4> HIDE DEF S, R
      <4> QED
        BY <2>c, <2>d, <3>2, <3>5 DEF Elsewhere
    <3>7. Slots!Abort(k)
      BY <3>6 DEF Slots!Abort, Coming
    <3> QED
      BY <3>2, <3>7
  <2>4. ASSUME NEW c \in Clients, NEW k \in Consumers,
               NEW phase \in {"stop_task", "update_task"},
               TakeOut(c, k, phase), pc[c] \in {"stop_handles", "update_handles"},
               Granted(handlesLock, c)
        PROVE  Slots!Release(k) \/ (S' = S /\ R' = R)
    <3>1. \A d \in Clients : d # c => hand[d] = None /\ hand'[d] = None
      BY <2>a, <2>4, OneHolder DEF TakeOut
    <3>2. \A j \in Consumers : ~Coming(j) /\ ~Coming(j)'
      BY <2>a, <2>b, <2>4, <3>1 DEF TakeOut, Goto, Coming
    <3>3. ~IsLive(handles'[k]) /\ \A j \in Consumers \ {k} : handles'[j] = handles[j]
      BY <2>a, <2>4 DEF TakeOut, IsLive
    <3>4. CASE IsLive(handles[k])
      <4>1. /\ S[k] = "running" /\ S' = [S EXCEPT ![k] = "free"]
            /\ R' = [R EXCEPT ![k] = None]
        <5> HIDE DEF S, R
        <5> QED
          BY <2>c, <2>d, <3>2, <3>3, <3>4
      <4> QED
        BY <4>1 DEF Slots!Release, Coming
    <3>5. CASE ~IsLive(handles[k])
      BY <3>2, <3>3, <3>5 DEF IsLive
    <3> QED
      BY <3>4, <3>5
  <2>5. ASSUME NEW k \in Consumers, TaskEnds(k)
        PROVE  Slots!Release(k)
    <3>1. /\ ~Coming(k) /\ \A j \in Consumers : Coming(j)' = Coming(j)
      BY <2>a, <2>b, <2>5 DEF TaskEnds, callVars, Coming
    <3>2. /\ IsLive(handles[k]) /\ ~IsLive(handles'[k])
          /\ \A j \in Consumers \ {k} : handles'[j] = handles[j]
      BY <2>a, <2>5 DEF TaskEnds, IsLive, Handles
    <3>3. /\ S[k] = "running" /\ S' = [S EXCEPT ![k] = "free"]
          /\ R' = [R EXCEPT ![k] = None]
      <4> HIDE DEF S, R
      <4> QED
        BY <2>c, <2>d, <3>1, <3>2
    <3> QED
      BY <3>3 DEF Slots!Release, Coming
  <2>6. ASSUME NEW c \in Clients, CallBegins(c) \/ CallStep(c) \/ StatusTimeout(c),
               \A k \in Consumers : ~StartRun(c, k) /\ ~UpdateStop(c, k),
               ~StartInsert(c), ~StartFailed(c), ~StopRemove(c)
        PROVE  /\ handles' = handles /\ pc[c] # "run" /\ pc'[c] # "run"
               /\ \A d \in Clients \ {c} : pc'[d] = pc[d] /\ hand'[d] = hand[d]
    BY <2>a, <2>6 DEF CallBegins, CallStep, Goto, StatusPhases, StartBegin, Begin,
       BootBegin, StopBegin, UpdateBegin, StatusBegin, StartRead, ThenHandles,
       ToStart, StartNothing, Return, StartSkip, StartNext, StopRead, StopNothing,
       StopTask, EndTask, UpdateRead, UpdateTask, UpdateUnlock, UpdateFails,
       UpdateSave, UpdateSecure, UpdateSwap, StatusRead, StatusHandles,
       StatusProbe, StatusEnd, StatusTimeout
  <2>7. ASSUME NEW c \in Clients, handles' = handles, pc[c] # "run", pc'[c] # "run",
               \A d \in Clients \ {c} : pc'[d] = pc[d] /\ hand'[d] = hand[d]
        PROVE  S' = S /\ R' = R
    BY <2>7 DEF Coming
  <2>8. CASE UNCHANGED vars
    BY <2>8 DEF vars, Coming
  <2>9. ASSUME NEW c \in Clients, CallBegins(c) \/ CallStep(c) \/ StatusTimeout(c)
        PROVE  Slots!SlotNext \/ (S' = S /\ R' = R)
    <3>1. CASE StartInsert(c)
      BY <2>2, <3>1 DEF Slots!SlotNext
    <3>2. CASE StartFailed(c)
      BY <2>3, <3>2 DEF Slots!SlotNext
    <3>3. CASE StopRemove(c)
      <4>1. PICK k \in keys[c] : TakeOut(c, k, "stop_task")
        BY <3>3 DEF StopRemove
      <4>2. Slots!Release(k) \/ (S' = S /\ R' = R)
        BY <2>a, <2>4, <3>3, <4>1 DEF StopRemove
      <4> QED
        BY <2>a, <4>1, <4>2 DEF Slots!SlotNext
    <3>4. ASSUME NEW k \in Consumers, StartRun(c, k) PROVE Slots!SlotNext
      BY <2>1, <3>4 DEF Slots!SlotNext
    <3>5. ASSUME NEW k \in Consumers, UpdateStop(c, k)
          PROVE  Slots!SlotNext \/ (S' = S /\ R' = R)
      <4>1. Slots!Release(k) \/ (S' = S /\ R' = R)
        BY <2>4, <3>5 DEF UpdateStop
      <4> QED
        BY <4>1 DEF Slots!SlotNext
    <3> QED
      BY <2>6, <2>7, <2>9, <3>1, <3>2, <3>3, <3>4, <3>5
  <2>10. ASSUME NEW k \in Consumers, TaskEnds(k) PROVE Slots!SlotNext
    BY <2>5, <2>10 DEF Slots!SlotNext
  <2> QED
    BY <2>8, <2>9, <2>10 DEF Next
<1> QED
  BY <1>1, <1>2, Invariant, PTL DEF Spec, SlotSpec, Slots!SlotSpec

=============================================================================
