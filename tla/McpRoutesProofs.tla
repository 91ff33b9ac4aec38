-------------------------- MODULE McpRoutesProofs --------------------------
(***************************************************************************)
(* What McpRoutes guarantees for every number of concurrent calls, names,  *)
(* routes and capacities.  The three invariants of the concurrent run are  *)
(* consequences of one inductive invariant, IInv; those of the sequential  *)
(* run, of a second one on top of it that one caller keeps.                *)
(***************************************************************************)
EXTENDS McpRoutes, TLAPS

\* A call knows its name, and a start or stop works on a run of that name.
CallsAreBound ==
  \A c \in Clients :
    /\ pc[c] # "idle" => name[c] \in Names
    /\ pc[c] \in StartPhases \cup StopPhases =>
         /\ run[c] \in Runs
         /\ nameOf[run[c]] = name[c]
         /\ life[run[c]] # "unborn"

\* A run that has begun has a name, the table holds it under that name, and a
\* reserved name has no route.
TableIsKeyedByName ==
  /\ \A r \in Runs : life[r] # "unborn" => nameOf[r] \in Names
  /\ \A n \in Names :
       routes[n] # None => nameOf[routes[n]] = n /\ life[routes[n]] # "unborn"
  /\ \A n \in starting : routes[n] = None

\* A live route that captures has a channel to push into.
CaptureIsOpen ==
  \A r \in Runs : life[r] = "live" /\ keep[r] > 0 => capacity[nameOf[r]] > 0

\* Call c has yet to forget the counter of name n.
WillForget(c, n) ==
  /\ name[c] = n
  /\ pc[c] \in {"run", "await", "insert", "fail_forget",
                "stop_handle", "stop_read", "stop_forget"}

\* A registered counter has a route, or a call that has yet to forget it.
CountersAreOwned ==
  \A n \in Names :
    counters[n] # None /\ routes[n] = None => \E c \in Clients : WillForget(c, n)

\* Call c has yet to drain the capture buffer of name n.
WillDrain(c, n) ==
  /\ name[c] = n
  /\ \/ pc[c] \in StopPhases
     \/ /\ pc[c] \in {"await", "insert", "fail_forget", "fail_drain"}
        /\ keep[run[c]] > 0

\* Captured messages have a route, or a call that has yet to drain them.
BuffersAreOwned ==
  \A n \in Names :
    buffer[n] # <<>> /\ routes[n] = None => \E c \in Clients : WillDrain(c, n)

IInv ==
  /\ TypeOK
  /\ CallsAreBound
  /\ TableIsKeyedByName
  /\ ReservationIsExclusive
  /\ NoOrphanRoute
  /\ CaptureIsOpen
  /\ CountersAreOwned
  /\ BuffersAreOwned

-----------------------------------------------------------------------------
\* Pushing into an open channel keeps a sequence of runs.
LEMMA PushedType ==
  ASSUME TypeOK, NEW n \in Names, NEW r \in Runs, capacity[n] > 0
  PROVE  Pushed(n, r) \in Seq(Runs)
<1>1. buffer[n] \in Seq(Runs) /\ capacity[n] \in Nat
  BY DEF TypeOK
<1>2. Len(buffer[n]) >= capacity[n] => buffer[n] # <<>>
  BY <1>1
<1>3. QED
  BY <1>1, <1>2 DEF Pushed

\* capture_last is a number of messages.
LEMMA KeepIsNat ==
  ASSUME TypeOK, NEW r \in Runs
  PROVE  keep[r] \in Nat
<1>1. \A k \in KeepLast \cup {0} : k \in Nat
  BY CapacitiesAreNaturals
<1>2. QED
  BY <1>1 DEF TypeOK

\* Opening a channel never closes one, and leaves its own open.
LEMMA OpenCaptureOpens ==
  ASSUME TypeOK, NEW n \in Names, NEW k \in Nat \ {0}, OpenCapture(n, k)
  PROVE  /\ capacity' \in [Names -> Nat]
         /\ capacity'[n] > 0
         /\ \A m \in Names : capacity[m] > 0 => capacity'[m] > 0
BY DEF TypeOK, OpenCapture

\* Draining leaves an open channel with nothing in it.
LEMMA DrainCaptureEmpties ==
  ASSUME TypeOK, NEW n \in Names, DrainCapture(n)
  PROVE  /\ buffer' \in [Names -> Seq(Runs)]
         /\ buffer'[n] = <<>>
         /\ capacity' \in [Names -> Nat]
         /\ \A m \in Names : capacity[m] > 0 => capacity'[m] > 0
<1>1. <<>> \in Seq(Runs)
  OBVIOUS
<1>2. buffer' \in [Names -> Seq(Runs)] /\ buffer'[n] = <<>>
  BY <1>1 DEF TypeOK, DrainCapture
<1>3. QED
  BY <1>2, OpenCaptureOpens, CapacitiesAreNaturals DEF DrainCapture

\* Only counter_for registers a counter.
LEMMA CountersAppear ==
  ASSUME TypeOK, Next, NEW n \in Names, counters[n] = None, counters'[n] # None
  PROVE  \E c \in Clients : StartCounter(c) /\ name[c] = n
<1> USE DEF TypeOK, metricVars
<1>1. ASSUME NEW c \in Clients, CallStep(c), ~StartCounter(c)
      PROVE  counters'[n] = None
  BY <1>1 DEF CallStep, Forget, StartRun, StartUp, StartFailed, StartInsert,
     FailForget, FailDrain, FailRelease, StopHandle, StopRead, StopForget,
     StopDrain, MessagesDrain, WaitFinished, WaitGivesUp, WaitRead
<1>2. ASSUME NEW c \in Clients, CallBegins(c)
      PROVE  counters'[n] = None
  BY <1>2 DEF CallBegins, StartClaim, StopRemove, MessagesCheck, WaitBegin
<1>3. ASSUME NEW r \in Runs, HandleMessage(r) \/ HandleRedelivery(r) \/ TaskEnds(r)
      PROVE  counters'[n] = None
  BY <1>3 DEF HandleMessage, HandleRedelivery, TaskEnds
<1>4. ASSUME NEW c \in Clients, StartCounter(c), name[c] # n
      PROVE  counters'[n] = None
  BY <1>4 DEF StartCounter, CounterFor
<1>5. QED
  BY <1>1, <1>2, <1>3, <1>4 DEF Next

\* Only the handler of a live route that captures fills a buffer.
LEMMA MessagesAppear ==
  ASSUME TypeOK, Next, NEW n \in Names, buffer[n] = <<>>, buffer'[n] # <<>>
  PROVE  \E r \in Runs : /\ HandleMessage(r) \/ HandleRedelivery(r)
                         /\ nameOf[r] = n /\ keep[r] > 0 /\ life[r] = "live"
<1> USE DEF TypeOK, captureVars
<1>1. ASSUME NEW c \in Clients, CallStep(c)
      PROVE  buffer'[n] = <<>>
  BY <1>1 DEF CallStep, DrainCapture, StartCounter, StartRun, StartUp,
     StartFailed, StartInsert, FailForget, FailDrain, FailRelease, StopHandle,
     StopRead, StopForget, StopDrain, MessagesDrain, WaitFinished, WaitGivesUp,
     WaitRead
<1>2. ASSUME NEW c \in Clients, CallBegins(c)
      PROVE  buffer'[n] = <<>>
  BY <1>2 DEF CallBegins, StartClaim, StopRemove, MessagesCheck, WaitBegin
<1>3. ASSUME NEW r \in Runs, TaskEnds(r)
      PROVE  buffer'[n] = <<>>
  BY <1>3 DEF TaskEnds
<1>4. ASSUME NEW r \in Runs, HandleMessage(r) \/ HandleRedelivery(r)
      PROVE  nameOf[r] = n /\ keep[r] > 0 /\ life[r] = "live"
  <2>1. life[r] = "live" /\ Capture(r)
    BY <1>4 DEF HandleMessage, HandleRedelivery
  <2>2. QED
    BY <2>1 DEF Capture
<1>5. QED
  BY <1>1, <1>2, <1>3, <1>4 DEF Next

\* Only stop_route takes a route out of the table.
LEMMA RoutesLeave ==
  ASSUME TypeOK, Next, NEW n \in Names, routes[n] # None, routes'[n] = None,
         CallsAreBound
  PROVE  \E c \in Clients : StopRemove(c, n)
<1> USE DEF TypeOK, routeVars
<1>1. ASSUME NEW c \in Clients, CallStep(c), ~StartInsert(c)
      PROVE  routes'[n] # None
  BY <1>1 DEF CallStep, StartCounter, StartRun, StartUp, StartFailed,
     FailForget, FailDrain, FailRelease, StopHandle, StopRead, StopForget,
     StopDrain, MessagesDrain, WaitFinished, WaitGivesUp, WaitRead
<1>2. ASSUME NEW c \in Clients, StartInsert(c)
      PROVE  routes'[n] # None
  <2>1. run[c] \in Runs
    BY <1>2 DEF StartInsert, CallsAreBound, StartPhases
  <2>2. QED
    BY <1>2, <2>1, NoneIsNotARun DEF StartInsert
<1>3. ASSUME NEW c \in Clients, NEW m \in Names, StopRemove(c, m), m # n
      PROVE  routes'[n] # None
  BY <1>3 DEF StopRemove
<1>4. ASSUME NEW c \in Clients, CallBegins(c), ~\E m \in Names : StopRemove(c, m)
      PROVE  routes'[n] # None
  BY <1>4 DEF CallBegins, StartClaim, MessagesCheck, WaitBegin
<1>5. ASSUME NEW r \in Runs, HandleMessage(r) \/ HandleRedelivery(r) \/ TaskEnds(r)
      PROVE  routes'[n] # None
  BY <1>5 DEF HandleMessage, HandleRedelivery, TaskEnds
<1>6. QED
  BY <1>1, <1>2, <1>3, <1>4, <1>5 DEF Next


\* Types.
LEMMA TypeOKStep == IInv /\ Next => TypeOK'
<1> SUFFICES ASSUME IInv, Next PROVE TypeOK'
  OBVIOUS
<1> USE NoneIsNotARun, CapacitiesAreNaturals
    DEF IInv, TypeOK, CallsAreBound, CaptureIsOpen,
        StartPhases, StopPhases, ReadPhases, Phases,
        routeVars, engineVars, metricVars, captureVars, Goto
<1>1. ASSUME NEW c \in Clients, StartCounter(c)
       PROVE  TypeOK'
  BY <1>1 DEF StartCounter, CounterFor
<1>2. ASSUME NEW c \in Clients, StartUp(c)
       PROVE  TypeOK'
  BY <1>2 DEF StartUp
<1>3. ASSUME NEW c \in Clients, FailForget(c)
       PROVE  TypeOK'
  BY <1>3 DEF FailForget, Forget
<1>4. ASSUME NEW c \in Clients, FailDrain(c)
       PROVE  TypeOK'
  <2>1. name[c] \in Names
    BY <1>4 DEF FailDrain
  <2>2. capacity' \in [Names -> Nat] /\ buffer' \in [Names -> Seq(Runs)]
    BY <1>4, <2>1, DrainCaptureEmpties DEF FailDrain
  <2>3. QED
    BY <1>4, <2>2 DEF FailDrain
<1>5. ASSUME NEW c \in Clients, StopRead(c)
       PROVE  TypeOK'
  BY <1>5 DEF StopRead, Sequence
<1>6. ASSUME NEW c \in Clients, StopForget(c)
       PROVE  TypeOK'
  BY <1>6 DEF StopForget, Forget
<1>7. ASSUME NEW c \in Clients, FailRelease(c)
       PROVE  TypeOK'
  BY <1>7 DEF FailRelease, Return
<1>8. ASSUME NEW c \in Clients, StopDrain(c)
       PROVE  TypeOK'
  BY <1>8 DEF StopDrain, DrainCapture, OpenCapture, Return
<1>9. ASSUME NEW c \in Clients, MessagesDrain(c)
       PROVE  TypeOK'
  BY <1>9 DEF MessagesDrain, DrainCapture, OpenCapture, Return
<1>10. ASSUME NEW c \in Clients, WaitGivesUp(c)
       PROVE  TypeOK'
  BY <1>10 DEF WaitGivesUp, Return, NoReply
<1>11. ASSUME NEW c \in Clients, WaitRead(c)
       PROVE  TypeOK'
  BY <1>11 DEF WaitRead, Return, Sequence
<1>12. ASSUME NEW c \in Clients, StartRun(c)
       PROVE  TypeOK'
  <2>1. name[c] \in Names /\ run[c] \in Runs
    BY <1>12 DEF StartRun
  <2>2. capacity' \in [Names -> Nat]
    BY <1>12, <2>1, KeepIsNat, OpenCaptureOpens DEF StartRun
  <2>3. QED
    BY <1>12, <2>1, <2>2 DEF StartRun
<1>13. ASSUME NEW c \in Clients, StartFailed(c)
       PROVE  TypeOK'
  BY <1>13 DEF StartFailed
<1>14. ASSUME NEW c \in Clients, StopHandle(c)
       PROVE  TypeOK'
  BY <1>14 DEF StopHandle
<1>15. ASSUME NEW c \in Clients, StartInsert(c)
       PROVE  TypeOK'
  BY <1>15 DEF StartInsert, Return
<1>16. ASSUME NEW c \in Clients, WaitFinished(c)
       PROVE  TypeOK'
  BY <1>16 DEF WaitFinished, Finished
<1>17. ASSUME NEW c \in Clients, NEW n \in Names, NEW r \in Runs,
             NEW k \in KeepLast, StartClaim(c, n, r, k)
       PROVE  TypeOK'
  BY <1>17 DEF StartClaim
<1>18. ASSUME NEW c \in Clients, NEW n \in Names, StopRemove(c, n)
       PROVE  TypeOK'
  BY <1>18 DEF StopRemove
<1>19. ASSUME NEW c \in Clients, NEW n \in Names, MessagesCheck(c, n)
       PROVE  TypeOK'
  BY <1>19 DEF MessagesCheck
<1>20. ASSUME NEW c \in Clients, NEW n \in Names, WaitBegin(c, n)
       PROVE  TypeOK'
  BY <1>20 DEF WaitBegin
<1>21. ASSUME NEW r \in Runs, HandleMessage(r)
       PROVE  TypeOK'
  <2>1. nameOf[r] \in Names /\ capacity[nameOf[r]] > 0 => Pushed(nameOf[r], r) \in Seq(Runs)
    BY PushedType
  <2>2. buffer' \in [Names -> Seq(Runs)]
    BY <1>21, <2>1 DEF HandleMessage, Capture
  <2>3. QED
    BY <1>21, <2>2 DEF HandleMessage
<1>22. ASSUME NEW r \in Runs, HandleRedelivery(r)
       PROVE  TypeOK'
  <2>1. nameOf[r] \in Names /\ capacity[nameOf[r]] > 0 => Pushed(nameOf[r], r) \in Seq(Runs)
    BY PushedType
  <2>2. buffer' \in [Names -> Seq(Runs)]
    BY <1>22, <2>1 DEF HandleRedelivery, Capture
  <2>3. QED
    BY <1>22, <2>2 DEF HandleRedelivery
<1>23. ASSUME NEW r \in Runs, TaskEnds(r)
       PROVE  TypeOK'
  BY <1>23 DEF TaskEnds
<1>24. QED
  BY <1>1, <1>2, <1>3, <1>4, <1>5, <1>6, <1>7, <1>8, <1>9, <1>10,
     <1>11, <1>12, <1>13, <1>14, <1>15, <1>16, <1>17, <1>18, <1>19, <1>20,
     <1>21, <1>22, <1>23
  DEF Next, CallStep, CallBegins

\* The calls keep track of their names and runs.
LEMMA CallsAreBoundStep == IInv /\ Next => CallsAreBound'
<1> SUFFICES ASSUME IInv, Next PROVE CallsAreBound'
  OBVIOUS
<1> USE NoneIsNotARun, CapacitiesAreNaturals
    DEF IInv, CallsAreBound, TypeOK, TableIsKeyedByName,
        StartPhases, StopPhases, ReadPhases, Phases,
        routeVars, engineVars, metricVars, captureVars, Goto
<1>1. ASSUME NEW c \in Clients, StartCounter(c)
       PROVE  CallsAreBound'
  BY <1>1 DEF StartCounter, CounterFor
<1>2. ASSUME NEW c \in Clients, StartUp(c)
       PROVE  CallsAreBound'
  BY <1>2 DEF StartUp
<1>3. ASSUME NEW c \in Clients, FailForget(c)
       PROVE  CallsAreBound'
  BY <1>3 DEF FailForget, Forget
<1>4. ASSUME NEW c \in Clients, FailDrain(c)
       PROVE  CallsAreBound'
  BY <1>4 DEF FailDrain, DrainCapture, OpenCapture
<1>5. ASSUME NEW c \in Clients, StopRead(c)
       PROVE  CallsAreBound'
  BY <1>5 DEF StopRead, Sequence
<1>6. ASSUME NEW c \in Clients, StopForget(c)
       PROVE  CallsAreBound'
  BY <1>6 DEF StopForget, Forget
<1>7. ASSUME NEW c \in Clients, FailRelease(c)
       PROVE  CallsAreBound'
  BY <1>7 DEF FailRelease, Return
<1>8. ASSUME NEW c \in Clients, StopDrain(c)
       PROVE  CallsAreBound'
  BY <1>8 DEF StopDrain, DrainCapture, OpenCapture, Return
<1>9. ASSUME NEW c \in Clients, MessagesDrain(c)
       PROVE  CallsAreBound'
  BY <1>9 DEF MessagesDrain, DrainCapture, OpenCapture, Return
<1>10. ASSUME NEW c \in Clients, WaitGivesUp(c)
       PROVE  CallsAreBound'
  BY <1>10 DEF WaitGivesUp, Return, NoReply
<1>11. ASSUME NEW c \in Clients, WaitRead(c)
       PROVE  CallsAreBound'
  BY <1>11 DEF WaitRead, Return, Sequence
<1>12. ASSUME NEW c \in Clients, StartRun(c)
       PROVE  CallsAreBound'
  BY <1>12 DEF StartRun, OpenCapture
<1>13. ASSUME NEW c \in Clients, StartFailed(c)
       PROVE  CallsAreBound'
  BY <1>13 DEF StartFailed
<1>14. ASSUME NEW c \in Clients, StopHandle(c)
       PROVE  CallsAreBound'
  BY <1>14 DEF StopHandle
<1>15. ASSUME NEW c \in Clients, StartInsert(c)
       PROVE  CallsAreBound'
  BY <1>15 DEF StartInsert, Return
<1>16. ASSUME NEW c \in Clients, WaitFinished(c)
       PROVE  CallsAreBound'
  BY <1>16 DEF WaitFinished, Finished
<1>17. ASSUME NEW c \in Clients, NEW n \in Names, NEW r \in Runs,
             NEW k \in KeepLast, StartClaim(c, n, r, k)
       PROVE  CallsAreBound'
  BY <1>17 DEF StartClaim
<1>18. ASSUME NEW c \in Clients, NEW n \in Names, StopRemove(c, n)
       PROVE  CallsAreBound'
  BY <1>18 DEF StopRemove
<1>19. ASSUME NEW c \in Clients, NEW n \in Names, MessagesCheck(c, n)
       PROVE  CallsAreBound'
  BY <1>19 DEF MessagesCheck
<1>20. ASSUME NEW c \in Clients, NEW n \in Names, WaitBegin(c, n)
       PROVE  CallsAreBound'
  BY <1>20 DEF WaitBegin
<1>21. ASSUME NEW r \in Runs, HandleMessage(r)
       PROVE  CallsAreBound'
  BY <1>21 DEF HandleMessage, Capture
<1>22. ASSUME NEW r \in Runs, HandleRedelivery(r)
       PROVE  CallsAreBound'
  BY <1>22 DEF HandleRedelivery, Capture
<1>23. ASSUME NEW r \in Runs, TaskEnds(r)
       PROVE  CallsAreBound'
  BY <1>23 DEF TaskEnds
<1>24. QED
  BY <1>1, <1>2, <1>3, <1>4, <1>5, <1>6, <1>7, <1>8, <1>9, <1>10,
     <1>11, <1>12, <1>13, <1>14, <1>15, <1>16, <1>17, <1>18, <1>19, <1>20,
     <1>21, <1>22, <1>23
  DEF Next, CallStep, CallBegins

\* The table stays keyed by name.
LEMMA TableIsKeyedByNameStep == IInv /\ Next => TableIsKeyedByName'
<1> SUFFICES ASSUME IInv, Next PROVE TableIsKeyedByName'
  OBVIOUS
<1> USE NoneIsNotARun, CapacitiesAreNaturals
    DEF IInv, TableIsKeyedByName, TypeOK, CallsAreBound,
        StartPhases, StopPhases, ReadPhases, Phases,
        routeVars, engineVars, metricVars, captureVars, Goto
<1>1. ASSUME NEW c \in Clients, StartCounter(c)
       PROVE  TableIsKeyedByName'
  BY <1>1 DEF StartCounter, CounterFor
<1>2. ASSUME NEW c \in Clients, StartUp(c)
       PROVE  TableIsKeyedByName'
  BY <1>2 DEF StartUp
<1>3. ASSUME NEW c \in Clients, FailForget(c)
       PROVE  TableIsKeyedByName'
  BY <1>3 DEF FailForget, Forget
<1>4. ASSUME NEW c \in Clients, FailDrain(c)
       PROVE  TableIsKeyedByName'
  BY <1>4 DEF FailDrain, DrainCapture, OpenCapture
<1>5. ASSUME NEW c \in Clients, StopRead(c)
       PROVE  TableIsKeyedByName'
  BY <1>5 DEF StopRead, Sequence
<1>6. ASSUME NEW c \in Clients, StopForget(c)
       PROVE  TableIsKeyedByName'
  BY <1>6 DEF StopForget, Forget
<1>7. ASSUME NEW c \in Clients, FailRelease(c)
       PROVE  TableIsKeyedByName'
  BY <1>7 DEF FailRelease, Return
<1>8. ASSUME NEW c \in Clients, StopDrain(c)
       PROVE  TableIsKeyedByName'
  BY <1>8 DEF StopDrain, DrainCapture, OpenCapture, Return
<1>9. ASSUME NEW c \in Clients, MessagesDrain(c)
       PROVE  TableIsKeyedByName'
  BY <1>9 DEF MessagesDrain, DrainCapture, OpenCapture, Return
<1>10. ASSUME NEW c \in Clients, WaitGivesUp(c)
       PROVE  TableIsKeyedByName'
  BY <1>10 DEF WaitGivesUp, Return, NoReply
<1>11. ASSUME NEW c \in Clients, WaitRead(c)
       PROVE  TableIsKeyedByName'
  BY <1>11 DEF WaitRead, Return, Sequence
<1>12. ASSUME NEW c \in Clients, StartRun(c)
       PROVE  TableIsKeyedByName'
  BY <1>12 DEF StartRun, OpenCapture
<1>13. ASSUME NEW c \in Clients, StartFailed(c)
       PROVE  TableIsKeyedByName'
  BY <1>13 DEF StartFailed
<1>14. ASSUME NEW c \in Clients, StopHandle(c)
       PROVE  TableIsKeyedByName'
  BY <1>14 DEF StopHandle
<1>15. ASSUME NEW c \in Clients, StartInsert(c)
       PROVE  TableIsKeyedByName'
  BY <1>15 DEF StartInsert, Return
<1>16. ASSUME NEW c \in Clients, WaitFinished(c)
       PROVE  TableIsKeyedByName'
  BY <1>16 DEF WaitFinished, Finished
<1>17. ASSUME NEW c \in Clients, NEW n \in Names, NEW r \in Runs,
             NEW k \in KeepLast, StartClaim(c, n, r, k)
       PROVE  TableIsKeyedByName'
  BY <1>17 DEF StartClaim
<1>18. ASSUME NEW c \in Clients, NEW n \in Names, StopRemove(c, n)
       PROVE  TableIsKeyedByName'
  BY <1>18 DEF StopRemove
<1>19. ASSUME NEW c \in Clients, NEW n \in Names, MessagesCheck(c, n)
       PROVE  TableIsKeyedByName'
  BY <1>19 DEF MessagesCheck
<1>20. ASSUME NEW c \in Clients, NEW n \in Names, WaitBegin(c, n)
       PROVE  TableIsKeyedByName'
  BY <1>20 DEF WaitBegin
<1>21. ASSUME NEW r \in Runs, HandleMessage(r)
       PROVE  TableIsKeyedByName'
  BY <1>21 DEF HandleMessage, Capture
<1>22. ASSUME NEW r \in Runs, HandleRedelivery(r)
       PROVE  TableIsKeyedByName'
  BY <1>22 DEF HandleRedelivery, Capture
<1>23. ASSUME NEW r \in Runs, TaskEnds(r)
       PROVE  TableIsKeyedByName'
  BY <1>23 DEF TaskEnds
<1>24. QED
  BY <1>1, <1>2, <1>3, <1>4, <1>5, <1>6, <1>7, <1>8, <1>9, <1>10,
     <1>11, <1>12, <1>13, <1>14, <1>15, <1>16, <1>17, <1>18, <1>19, <1>20,
     <1>21, <1>22, <1>23
  DEF Next, CallStep, CallBegins

\* A name is claimed only when no other start holds it.
LEMMA ReservationIsExclusiveStep == IInv /\ Next => ReservationIsExclusive'
<1> SUFFICES ASSUME IInv, Next PROVE ReservationIsExclusive'
  OBVIOUS
<1> USE NoneIsNotARun, CapacitiesAreNaturals
    DEF IInv, ReservationIsExclusive, TypeOK, CallsAreBound,
        StartPhases, StopPhases, ReadPhases, Phases,
        routeVars, engineVars, metricVars, captureVars, Goto
<1>1. ASSUME NEW c \in Clients, StartCounter(c)
       PROVE  ReservationIsExclusive'
  BY <1>1 DEF StartCounter, CounterFor
<1>2. ASSUME NEW c \in Clients, StartUp(c)
       PROVE  ReservationIsExclusive'
  BY <1>2 DEF StartUp
<1>3. ASSUME NEW c \in Clients, FailForget(c)
       PROVE  ReservationIsExclusive'
  BY <1>3 DEF FailForget, Forget
<1>4. ASSUME NEW c \in Clients, FailDrain(c)
       PROVE  ReservationIsExclusive'
  BY <1>4 DEF FailDrain, DrainCapture, OpenCapture
<1>5. ASSUME NEW c \in Clients, StopRead(c)
       PROVE  ReservationIsExclusive'
  BY <1>5 DEF StopRead, Sequence
<1>6. ASSUME NEW c \in Clients, StopForget(c)
       PROVE  ReservationIsExclusive'
  BY <1>6 DEF StopForget, Forget
<1>7. ASSUME NEW c \in Clients, FailRelease(c)
       PROVE  ReservationIsExclusive'
  BY <1>7 DEF FailRelease, Return
<1>8. ASSUME NEW c \in Clients, StopDrain(c)
       PROVE  ReservationIsExclusive'
  BY <1>8 DEF StopDrain, DrainCapture, OpenCapture, Return
<1>9. ASSUME NEW c \in Clients, MessagesDrain(c)
       PROVE  ReservationIsExclusive'
  BY <1>9 DEF MessagesDrain, DrainCapture, OpenCapture, Return
<1>10. ASSUME NEW c \in Clients, WaitGivesUp(c)
       PROVE  ReservationIsExclusive'
  BY <1>10 DEF WaitGivesUp, Return, NoReply
<1>11. ASSUME NEW c \in Clients, WaitRead(c)
       PROVE  ReservationIsExclusive'
  BY <1>11 DEF WaitRead, Return, Sequence
<1>12. ASSUME NEW c \in Clients, StartRun(c)
       PROVE  ReservationIsExclusive'
  BY <1>12 DEF StartRun, OpenCapture
<1>13. ASSUME NEW c \in Clients, StartFailed(c)
       PROVE  ReservationIsExclusive'
  BY <1>13 DEF StartFailed
<1>14. ASSUME NEW c \in Clients, StopHandle(c)
       PROVE  ReservationIsExclusive'
  BY <1>14 DEF StopHandle
<1>15. ASSUME NEW c \in Clients, StartInsert(c)
       PROVE  ReservationIsExclusive'
  BY <1>15 DEF StartInsert, Return
<1>16. ASSUME NEW c \in Clients, WaitFinished(c)
       PROVE  ReservationIsExclusive'
  BY <1>16 DEF WaitFinished, Finished
<1>17. ASSUME NEW c \in Clients, NEW n \in Names, NEW r \in Runs,
             NEW k \in KeepLast, StartClaim(c, n, r, k)
       PROVE  ReservationIsExclusive'
  BY <1>17 DEF StartClaim
<1>18. ASSUME NEW c \in Clients, NEW n \in Names, StopRemove(c, n)
       PROVE  ReservationIsExclusive'
  BY <1>18 DEF StopRemove
<1>19. ASSUME NEW c \in Clients, NEW n \in Names, MessagesCheck(c, n)
       PROVE  ReservationIsExclusive'
  BY <1>19 DEF MessagesCheck
<1>20. ASSUME NEW c \in Clients, NEW n \in Names, WaitBegin(c, n)
       PROVE  ReservationIsExclusive'
  BY <1>20 DEF WaitBegin
<1>21. ASSUME NEW r \in Runs, HandleMessage(r)
       PROVE  ReservationIsExclusive'
  BY <1>21 DEF HandleMessage, Capture
<1>22. ASSUME NEW r \in Runs, HandleRedelivery(r)
       PROVE  ReservationIsExclusive'
  BY <1>22 DEF HandleRedelivery, Capture
<1>23. ASSUME NEW r \in Runs, TaskEnds(r)
       PROVE  ReservationIsExclusive'
  BY <1>23 DEF TaskEnds
<1>24. QED
  BY <1>1, <1>2, <1>3, <1>4, <1>5, <1>6, <1>7, <1>8, <1>9, <1>10,
     <1>11, <1>12, <1>13, <1>14, <1>15, <1>16, <1>17, <1>18, <1>19, <1>20,
     <1>21, <1>22, <1>23
  DEF Next, CallStep, CallBegins

\* A live route changes hands, and is never let go of.
LEMMA NoOrphanRouteStep == IInv /\ Next => NoOrphanRoute'
<1> SUFFICES ASSUME IInv, Next PROVE NoOrphanRoute'
  OBVIOUS
<1> USE NoneIsNotARun, CapacitiesAreNaturals
    DEF IInv, NoOrphanRoute, TypeOK, CallsAreBound, ReservationIsExclusive, TableIsKeyedByName,
        StartPhases, StopPhases, ReadPhases, Phases,
        routeVars, engineVars, metricVars, captureVars, Goto
<1>1. ASSUME NEW c \in Clients, StartCounter(c)
       PROVE  NoOrphanRoute'
  BY <1>1 DEF StartCounter, CounterFor
<1>2. ASSUME NEW c \in Clients, StartUp(c)
       PROVE  NoOrphanRoute'
  BY <1>2 DEF StartUp
<1>3. ASSUME NEW c \in Clients, FailForget(c)
       PROVE  NoOrphanRoute'
  BY <1>3 DEF FailForget, Forget
<1>4. ASSUME NEW c \in Clients, FailDrain(c)
       PROVE  NoOrphanRoute'
  BY <1>4 DEF FailDrain, DrainCapture, OpenCapture
<1>5. ASSUME NEW c \in Clients, StopRead(c)
       PROVE  NoOrphanRoute'
  BY <1>5 DEF StopRead, Sequence
<1>6. ASSUME NEW c \in Clients, StopForget(c)
       PROVE  NoOrphanRoute'
  BY <1>6 DEF StopForget, Forget
<1>7. ASSUME NEW c \in Clients, FailRelease(c)
       PROVE  NoOrphanRoute'
  BY <1>7 DEF FailRelease, Return
<1>8. ASSUME NEW c \in Clients, StopDrain(c)
       PROVE  NoOrphanRoute'
  BY <1>8 DEF StopDrain, DrainCapture, OpenCapture, Return
<1>9. ASSUME NEW c \in Clients, MessagesDrain(c)
       PROVE  NoOrphanRoute'
  BY <1>9 DEF MessagesDrain, DrainCapture, OpenCapture, Return
<1>10. ASSUME NEW c \in Clients, WaitGivesUp(c)
       PROVE  NoOrphanRoute'
  BY <1>10 DEF WaitGivesUp, Return, NoReply
<1>11. ASSUME NEW c \in Clients, WaitRead(c)
       PROVE  NoOrphanRoute'
  BY <1>11 DEF WaitRead, Return, Sequence
<1>12. ASSUME NEW c \in Clients, StartRun(c)
       PROVE  NoOrphanRoute'
  BY <1>12 DEF StartRun, OpenCapture
<1>13. ASSUME NEW c \in Clients, StartFailed(c)
       PROVE  NoOrphanRoute'
  BY <1>13 DEF StartFailed
<1>14. ASSUME NEW c \in Clients, StopHandle(c)
       PROVE  NoOrphanRoute'
  BY <1>14 DEF StopHandle
<1>15. ASSUME NEW c \in Clients, StartInsert(c)
       PROVE  NoOrphanRoute'
  BY <1>15 DEF StartInsert, Return
<1>16. ASSUME NEW c \in Clients, WaitFinished(c)
       PROVE  NoOrphanRoute'
  BY <1>16 DEF WaitFinished, Finished
<1>17. ASSUME NEW c \in Clients, NEW n \in Names, NEW r \in Runs,
             NEW k \in KeepLast, StartClaim(c, n, r, k)
       PROVE  NoOrphanRoute'
  <2> SUFFICES ASSUME NEW q \in Runs, life'[q] = "live"
               PROVE  \/ routes'[nameOf'[q]] = q
                      \/ \E d \in Clients :
                           /\ pc'[d] \in {"await", "insert", "stop_handle"}
                           /\ run'[d] = q
    OBVIOUS
  <2>1. q # r /\ life[q] = "live" /\ nameOf'[q] = nameOf[q] /\ routes' = routes
    BY <1>17 DEF StartClaim
  <2>2. \A d \in Clients : pc[d] \in {"await", "insert", "stop_handle"} =>
                            pc'[d] = pc[d] /\ run'[d] = run[d]
    BY <1>17 DEF StartClaim
  <2>3. CASE routes[nameOf[q]] = q
    BY <2>1, <2>3
  <2>4. CASE routes[nameOf[q]] # q
    <3>1. PICK d \in Clients : pc[d] \in {"await", "insert", "stop_handle"} /\ run[d] = q
      BY <2>1, <2>4
    <3>2. QED
      BY <2>2, <3>1
  <2>5. QED
    BY <2>3, <2>4
<1>18. ASSUME NEW c \in Clients, NEW n \in Names, StopRemove(c, n)
       PROVE  NoOrphanRoute'
  <2> SUFFICES ASSUME NEW r \in Runs, life[r] = "live"
               PROVE  \/ routes'[nameOf[r]] = r
                      \/ \E d \in Clients :
                           /\ pc'[d] \in {"await", "insert", "stop_handle"}
                           /\ run'[d] = r
    BY <1>18 DEF StopRemove
  <2>1. CASE routes[nameOf[r]] = r /\ nameOf[r] = n
    <3>1. pc'[c] = "stop_handle" /\ run'[c] = r
      BY <1>18, <2>1 DEF StopRemove
    <3>2. QED
      BY <3>1
  <2>2. CASE routes[nameOf[r]] = r /\ nameOf[r] # n
    BY <1>18, <2>2 DEF StopRemove
  <2>3. CASE routes[nameOf[r]] # r
    <3>1. PICK d \in Clients : pc[d] \in {"await", "insert", "stop_handle"} /\ run[d] = r
      BY <2>3
    <3>2. pc'[d] = pc[d] /\ run'[d] = run[d]
      BY <1>18, <3>1 DEF StopRemove
    <3>3. QED
      BY <3>1, <3>2
  <2>4. QED
    BY <2>1, <2>2, <2>3
<1>19. ASSUME NEW c \in Clients, NEW n \in Names, MessagesCheck(c, n)
       PROVE  NoOrphanRoute'
  BY <1>19 DEF MessagesCheck
<1>20. ASSUME NEW c \in Clients, NEW n \in Names, WaitBegin(c, n)
       PROVE  NoOrphanRoute'
  BY <1>20 DEF WaitBegin
<1>21. ASSUME NEW r \in Runs, HandleMessage(r)
       PROVE  NoOrphanRoute'
  BY <1>21 DEF HandleMessage, Capture
<1>22. ASSUME NEW r \in Runs, HandleRedelivery(r)
       PROVE  NoOrphanRoute'
  BY <1>22 DEF HandleRedelivery, Capture
<1>23. ASSUME NEW r \in Runs, TaskEnds(r)
       PROVE  NoOrphanRoute'
  BY <1>23 DEF TaskEnds
<1>24. QED
  BY <1>1, <1>2, <1>3, <1>4, <1>5, <1>6, <1>7, <1>8, <1>9, <1>10,
     <1>11, <1>12, <1>13, <1>14, <1>15, <1>16, <1>17, <1>18, <1>19, <1>20,
     <1>21, <1>22, <1>23
  DEF Next, CallStep, CallBegins

\* The channel of a capturing route is opened before it runs.
LEMMA CaptureIsOpenStep == IInv /\ Next => CaptureIsOpen'
<1> SUFFICES ASSUME IInv, Next PROVE CaptureIsOpen'
  OBVIOUS
<1> USE NoneIsNotARun, CapacitiesAreNaturals
    DEF IInv, CaptureIsOpen, TypeOK, CallsAreBound, TableIsKeyedByName,
        StartPhases, StopPhases, ReadPhases, Phases,
        routeVars, engineVars, metricVars, captureVars, Goto
<1>1. ASSUME NEW c \in Clients, StartCounter(c)
       PROVE  CaptureIsOpen'
  BY <1>1 DEF StartCounter, CounterFor
<1>2. ASSUME NEW c \in Clients, StartUp(c)
       PROVE  CaptureIsOpen'
  BY <1>2 DEF StartUp
<1>3. ASSUME NEW c \in Clients, FailForget(c)
       PROVE  CaptureIsOpen'
  BY <1>3 DEF FailForget, Forget
<1>4. ASSUME NEW c \in Clients, FailDrain(c)
       PROVE  CaptureIsOpen'
  <2>1. name[c] \in Names
    BY <1>4 DEF FailDrain
  <2>2. \A m \in Names : capacity[m] > 0 => capacity'[m] > 0
    <3>1. CASE keep[run[c]] > 0
      <4>1. DrainCapture(name[c])
        BY <1>4, <3>1 DEF FailDrain
      <4>2. QED
        BY <2>1, <4>1, DrainCaptureEmpties
    <3>2. CASE ~(keep[run[c]] > 0)
      BY <1>4, <3>2 DEF FailDrain
    <3>3. QED
      BY <3>1, <3>2
  <2>3. UNCHANGED <<life, nameOf, keep>>
    BY <1>4 DEF FailDrain
  <2>4. \A r \in Runs : life[r] = "live" => nameOf[r] \in Names
    BY DEF TableIsKeyedByName
  <2>5. QED
    BY <2>2, <2>3, <2>4
<1>5. ASSUME NEW c \in Clients, StopRead(c)
       PROVE  CaptureIsOpen'
  BY <1>5 DEF StopRead, Sequence
<1>6. ASSUME NEW c \in Clients, StopForget(c)
       PROVE  CaptureIsOpen'
  BY <1>6 DEF StopForget, Forget
<1>7. ASSUME NEW c \in Clients, FailRelease(c)
       PROVE  CaptureIsOpen'
  BY <1>7 DEF FailRelease, Return
<1>8. ASSUME NEW c \in Clients, StopDrain(c)
       PROVE  CaptureIsOpen'
  BY <1>8 DEF StopDrain, DrainCapture, OpenCapture, Return
<1>9. ASSUME NEW c \in Clients, MessagesDrain(c)
       PROVE  CaptureIsOpen'
  BY <1>9 DEF MessagesDrain, DrainCapture, OpenCapture, Return
<1>10. ASSUME NEW c \in Clients, WaitGivesUp(c)
       PROVE  CaptureIsOpen'
  BY <1>10 DEF WaitGivesUp, Return, NoReply
<1>11. ASSUME NEW c \in Clients, WaitRead(c)
       PROVE  CaptureIsOpen'
  BY <1>11 DEF WaitRead, Return, Sequence
<1>12. ASSUME NEW c \in Clients, StartRun(c)
       PROVE  CaptureIsOpen'
  <2>1. name[c] \in Names /\ run[c] \in Runs /\ nameOf[run[c]] = name[c]
    BY <1>12 DEF StartRun
  <2>2. \A m \in Names : capacity[m] > 0 => capacity'[m] > 0
    <3>1. CASE keep[run[c]] > 0
      <4>1. keep[run[c]] \in Nat \ {0} /\ OpenCapture(name[c], keep[run[c]])
        BY <1>12, <2>1, <3>1, KeepIsNat DEF StartRun
      <4>2. QED
        BY <2>1, <4>1, OpenCaptureOpens
    <3>2. CASE ~(keep[run[c]] > 0)
      BY <1>12, <3>2 DEF StartRun
    <3>3. QED
      BY <3>1, <3>2
  <2>3. keep[run[c]] > 0 => capacity'[name[c]] > 0
    BY <1>12, <2>1, KeepIsNat, OpenCaptureOpens DEF StartRun
  <2>4. life' = [life EXCEPT ![run[c]] = "live"] /\ UNCHANGED <<nameOf, keep>>
    BY <1>12 DEF StartRun
  <2>5. \A r \in Runs : life[r] = "live" => nameOf[r] \in Names
    BY DEF TableIsKeyedByName
  <2>6. QED
    BY <2>1, <2>2, <2>3, <2>4, <2>5
<1>13. ASSUME NEW c \in Clients, StartFailed(c)
       PROVE  CaptureIsOpen'
  BY <1>13 DEF StartFailed
<1>14. ASSUME NEW c \in Clients, StopHandle(c)
       PROVE  CaptureIsOpen'
  BY <1>14 DEF StopHandle
<1>15. ASSUME NEW c \in Clients, StartInsert(c)
       PROVE  CaptureIsOpen'
  BY <1>15 DEF StartInsert, Return
<1>16. ASSUME NEW c \in Clients, WaitFinished(c)
       PROVE  CaptureIsOpen'
  BY <1>16 DEF WaitFinished, Finished
<1>17. ASSUME NEW c \in Clients, NEW n \in Names, NEW r \in Runs,
             NEW k \in KeepLast, StartClaim(c, n, r, k)
       PROVE  CaptureIsOpen'
  BY <1>17 DEF StartClaim
<1>18. ASSUME NEW c \in Clients, NEW n \in Names, StopRemove(c, n)
       PROVE  CaptureIsOpen'
  BY <1>18 DEF StopRemove
<1>19. ASSUME NEW c \in Clients, NEW n \in Names, MessagesCheck(c, n)
       PROVE  CaptureIsOpen'
  BY <1>19 DEF MessagesCheck
<1>20. ASSUME NEW c \in Clients, NEW n \in Names, WaitBegin(c, n)
       PROVE  CaptureIsOpen'
  BY <1>20 DEF WaitBegin
<1>21. ASSUME NEW r \in Runs, HandleMessage(r)
       PROVE  CaptureIsOpen'
  BY <1>21 DEF HandleMessage, Capture
<1>22. ASSUME NEW r \in Runs, HandleRedelivery(r)
       PROVE  CaptureIsOpen'
  BY <1>22 DEF HandleRedelivery, Capture
<1>23. ASSUME NEW r \in Runs, TaskEnds(r)
       PROVE  CaptureIsOpen'
  BY <1>23 DEF TaskEnds
<1>24. QED
  BY <1>1, <1>2, <1>3, <1>4, <1>5, <1>6, <1>7, <1>8, <1>9, <1>10,
     <1>11, <1>12, <1>13, <1>14, <1>15, <1>16, <1>17, <1>18, <1>19, <1>20,
     <1>21, <1>22, <1>23
  DEF Next, CallStep, CallBegins

\* Each counter is registered by a call that forgets it, or hands it to a route.
LEMMA CountersAreOwnedStep == IInv /\ Next => CountersAreOwned'
<1> SUFFICES ASSUME IInv, Next, NEW n \in Names,
                    counters'[n] # None, routes'[n] = None
             PROVE  \E c \in Clients : WillForget(c, n)'
  BY DEF CountersAreOwned
<1> USE NoneIsNotARun, CapacitiesAreNaturals
    DEF IInv, TypeOK, CallsAreBound, WillForget,
        StartPhases, StopPhases, ReadPhases, Phases,
        routeVars, engineVars, metricVars, captureVars, Goto
<1>1. CASE counters[n] # None /\ routes[n] = None
  <2>1. PICK d \in Clients : WillForget(d, n)
    BY <1>1 DEF CountersAreOwned
  <2>2. ASSUME NEW c \in Clients, 
               StartCounter(c) \/ StartUp(c) \/ FailForget(c) \/
               FailDrain(c) \/ StopRead(c) \/ StopForget(c)
        PROVE  WillForget(d, n)'
    BY <1>1, <2>1, <2>2 DEF StartCounter, CounterFor, StartUp, FailForget, Forget,
     FailDrain, DrainCapture, OpenCapture, StopRead, Sequence,
     StopForget
  <2>3. ASSUME NEW c \in Clients, 
               FailRelease(c) \/ StopDrain(c) \/ MessagesDrain(c) \/
               WaitGivesUp(c) \/ WaitRead(c)
        PROVE  WillForget(d, n)'
    BY <1>1, <2>1, <2>3 DEF FailRelease, Return, StopDrain, DrainCapture, OpenCapture,
     MessagesDrain, WaitGivesUp, NoReply, WaitRead, Sequence
  <2>4. ASSUME NEW c \in Clients, 
               StartRun(c) \/ StartFailed(c) \/ StopHandle(c)
        PROVE  WillForget(d, n)'
    BY <1>1, <2>1, <2>4 DEF StartRun, OpenCapture, StartFailed, StopHandle
  <2>5. ASSUME NEW c \in Clients, StartInsert(c)
        PROVE  WillForget(d, n)'
    BY <1>1, <2>1, <2>5 DEF StartInsert, Return
  <2>6. ASSUME NEW c \in Clients, WaitFinished(c)
        PROVE  WillForget(d, n)'
    BY <1>1, <2>1, <2>6 DEF WaitFinished, Finished
  <2>7. ASSUME NEW c \in Clients, NEW m \in Names, NEW r \in Runs,
             NEW k \in KeepLast, StartClaim(c, m, r, k)
        PROVE  WillForget(d, n)'
    BY <1>1, <2>1, <2>7 DEF StartClaim
  <2>8. ASSUME NEW c \in Clients, NEW m \in Names, StopRemove(c, m)
        PROVE  WillForget(d, n)'
    BY <1>1, <2>1, <2>8 DEF StopRemove
  <2>9. ASSUME NEW c \in Clients, NEW m \in Names, 
               MessagesCheck(c, m) \/ WaitBegin(c, m)
        PROVE  WillForget(d, n)'
    BY <1>1, <2>1, <2>9 DEF MessagesCheck, WaitBegin
  <2>10. ASSUME NEW r \in Runs, 
               HandleMessage(r) \/ HandleRedelivery(r)
        PROVE  WillForget(d, n)'
    BY <1>1, <2>1, <2>10 DEF HandleMessage, Capture, HandleRedelivery
  <2>11. ASSUME NEW r \in Runs, TaskEnds(r)
        PROVE  WillForget(d, n)'
    BY <1>1, <2>1, <2>11 DEF TaskEnds
  <2>12. QED
    BY <2>2, <2>3, <2>4, <2>5, <2>6, <2>7, <2>8, <2>9, <2>10, <2>11
    DEF Next, CallStep, CallBegins
<1>2. CASE counters[n] = None
  <2>1. ASSUME NEW c \in Clients, StartCounter(c), name[c] = n
        PROVE  WillForget(c, n)'
    BY <2>1 DEF StartCounter
  <2>2. \E c \in Clients : StartCounter(c) /\ name[c] = n
    BY <1>2, CountersAppear
  <2>3. QED
    BY <2>1, <2>2
<1>3. CASE routes[n] # None
  <2>1. ASSUME NEW c \in Clients, StopRemove(c, n)
        PROVE  WillForget(c, n)'
    BY <2>1 DEF StopRemove
  <2>2. \E c \in Clients : StopRemove(c, n)
    BY <1>3, RoutesLeave
  <2>3. QED
    BY <2>1, <2>2
<1>4. QED
  BY <1>1, <1>2, <1>3

\* Each captured message comes from a run some call or the table holds.
LEMMA BuffersAreOwnedStep == IInv /\ Next => BuffersAreOwned'
<1> SUFFICES ASSUME IInv, Next, NEW n \in Names,
                    buffer'[n] # <<>>, routes'[n] = None
             PROVE  \E c \in Clients : WillDrain(c, n)'
  BY DEF BuffersAreOwned
<1> USE NoneIsNotARun, CapacitiesAreNaturals
    DEF IInv, TypeOK, CallsAreBound, WillDrain,
        StartPhases, StopPhases, ReadPhases, Phases,
        routeVars, engineVars, metricVars, captureVars, Goto
<1>1. CASE buffer[n] # <<>> /\ routes[n] = None
  <2>1. PICK d \in Clients : WillDrain(d, n)
    BY <1>1 DEF BuffersAreOwned
  <2>2. ASSUME NEW c \in Clients, 
               StartCounter(c) \/ StartUp(c) \/ FailForget(c) \/
               FailDrain(c) \/ StopRead(c) \/ StopForget(c)
        PROVE  WillDrain(d, n)'
    BY <1>1, <2>1, <2>2 DEF StartCounter, CounterFor, StartUp, FailForget, Forget,
     FailDrain, DrainCapture, OpenCapture, StopRead, Sequence,
     StopForget
  <2>3. ASSUME NEW c \in Clients, 
               FailRelease(c) \/ StopDrain(c) \/ MessagesDrain(c) \/
               WaitGivesUp(c) \/ WaitRead(c)
        PROVE  WillDrain(d, n)'
    BY <1>1, <2>1, <2>3 DEF FailRelease, Return, StopDrain, DrainCapture, OpenCapture,
     MessagesDrain, WaitGivesUp, NoReply, WaitRead, Sequence
  <2>4. ASSUME NEW c \in Clients, 
               StartRun(c) \/ StartFailed(c) \/ StopHandle(c)
        PROVE  WillDrain(d, n)'
    BY <1>1, <2>1, <2>4 DEF StartRun, OpenCapture, StartFailed, StopHandle
  <2>5. ASSUME NEW c \in Clients, StartInsert(c)
        PROVE  WillDrain(d, n)'
    BY <1>1, <2>1, <2>5 DEF StartInsert, Return
  <2>6. ASSUME NEW c \in Clients, WaitFinished(c)
        PROVE  WillDrain(d, n)'
    BY <1>1, <2>1, <2>6 DEF WaitFinished, Finished
  <2>7. ASSUME NEW c \in Clients, NEW m \in Names, NEW r \in Runs,
             NEW k \in KeepLast, StartClaim(c, m, r, k)
        PROVE  WillDrain(d, n)'
    BY <1>1, <2>1, <2>7 DEF StartClaim
  <2>8. ASSUME NEW c \in Clients, NEW m \in Names, StopRemove(c, m)
        PROVE  WillDrain(d, n)'
    BY <1>1, <2>1, <2>8 DEF StopRemove
  <2>9. ASSUME NEW c \in Clients, NEW m \in Names, 
               MessagesCheck(c, m) \/ WaitBegin(c, m)
        PROVE  WillDrain(d, n)'
    BY <1>1, <2>1, <2>9 DEF MessagesCheck, WaitBegin
  <2>10. ASSUME NEW r \in Runs, 
               HandleMessage(r) \/ HandleRedelivery(r)
        PROVE  WillDrain(d, n)'
    BY <1>1, <2>1, <2>10 DEF HandleMessage, Capture, HandleRedelivery
  <2>11. ASSUME NEW r \in Runs, TaskEnds(r)
        PROVE  WillDrain(d, n)'
    BY <1>1, <2>1, <2>11 DEF TaskEnds
  <2>12. QED
    BY <2>2, <2>3, <2>4, <2>5, <2>6, <2>7, <2>8, <2>9, <2>10, <2>11
    DEF Next, CallStep, CallBegins
<1>2. CASE buffer[n] = <<>> /\ routes[n] = None
  <2>1. ASSUME NEW r \in Runs, nameOf[r] = n, keep[r] > 0, life[r] = "live",
               UNCHANGED <<pc, name, run, keep, routes>>
        PROVE  \E c \in Clients : WillDrain(c, n)'
    <3>1. routes[nameOf[r]] # r
      BY <1>2, <2>1
    <3>2. PICK c \in Clients : /\ pc[c] \in {"await", "insert", "stop_handle"}
                               /\ run[c] = r
      BY <2>1, <3>1 DEF NoOrphanRoute
    <3>3. WillDrain(c, n)'
      BY <2>1, <3>2
    <3>4. QED
      BY <3>3
  <2>2. \E r \in Runs : /\ HandleMessage(r) \/ HandleRedelivery(r)
                        /\ nameOf[r] = n /\ keep[r] > 0 /\ life[r] = "live"
    BY <1>2, MessagesAppear
  <2>3. QED
    BY <2>1, <2>2 DEF HandleMessage, HandleRedelivery
<1>3. CASE routes[n] # None
  <2>1. ASSUME NEW c \in Clients, StopRemove(c, n)
        PROVE  WillDrain(c, n)'
    BY <2>1 DEF StopRemove
  <2>2. \E c \in Clients : StopRemove(c, n)
    BY <1>3, RoutesLeave
  <2>3. QED
    BY <2>1, <2>2
<1>4. QED
  BY <1>1, <1>2, <1>3

-----------------------------------------------------------------------------
\* The server begins with no route, no reservation and no call.
LEMMA InitIInv == Init => IInv
<1> SUFFICES ASSUME Init PROVE IInv
  OBVIOUS
<1> USE DEF Init
<1>1. TypeOK
  <2>1. NoReply \in [run : Runs \cup {None}, total : Nat]
    BY DEF NoReply
  <2>2. <<>> \in Seq(Runs)
    OBVIOUS
  <2>3. QED
    BY <2>1, <2>2 DEF TypeOK, Phases
<1>2. CallsAreBound /\ ReservationIsExclusive
  BY DEF CallsAreBound, ReservationIsExclusive, StartPhases, StopPhases
<1>3. TableIsKeyedByName /\ NoOrphanRoute /\ CaptureIsOpen
  BY DEF TableIsKeyedByName, NoOrphanRoute, CaptureIsOpen
<1>4. CountersAreOwned /\ BuffersAreOwned
  BY DEF CountersAreOwned, BuffersAreOwned
<1>5. QED
  BY <1>1, <1>2, <1>3, <1>4 DEF IInv

\* Every step of every tool call and of every route keeps the invariant.
LEMMA NextIInv == IInv /\ [Next]_vars => IInv'
<1>1. IInv /\ Next => IInv'
  BY TypeOKStep, CallsAreBoundStep, TableIsKeyedByNameStep,
     ReservationIsExclusiveStep, NoOrphanRouteStep, CaptureIsOpenStep,
     CountersAreOwnedStep, BuffersAreOwnedStep
  DEF IInv
<1>2. IInv /\ UNCHANGED vars => IInv'
  BY DEF vars, IInv, TypeOK, CallsAreBound, TableIsKeyedByName,
     ReservationIsExclusive, NoOrphanRoute, CaptureIsOpen, CountersAreOwned,
     BuffersAreOwned, WillForget, WillDrain
<1>3. QED
  BY <1>1, <1>2

\* Every reachable state satisfies the inductive invariant.
THEOREM Invariant == Spec => []IInv
<1>1. QED
  BY InitIInv, NextIInv, PTL DEF Spec

\* The variables keep their types, whatever the number of calls and names.
THEOREM TypeCorrect == Spec => []TypeOK
<1>1. IInv => TypeOK
  BY DEF IInv
<1>2. QED
  BY <1>1, Invariant, PTL

\* start_route and stop_route never lose the handle of a live route, so every
\* route can be listed and stopped, however the calls interleave.
THEOREM EveryLiveRouteHasAHolder == Spec => []NoOrphanRoute
<1>1. IInv => NoOrphanRoute
  BY DEF IInv
<1>2. QED
  BY <1>1, Invariant, PTL

\* Two starts of one name can never both bring up a route.
THEOREM StartsExcludeEachOther == Spec => []ReservationIsExclusive
<1>1. IInv => ReservationIsExclusive
  BY DEF IInv
<1>2. QED
  BY <1>1, Invariant, PTL

\* A name nobody holds or works on has no owner of a counter or of messages.
LEMMA CleanNames == IInv => QuiescentNameIsClean
<1> SUFFICES ASSUME IInv, NEW n \in Names, routes[n] = None,
                    \A c \in Clients : ~WorksOn(c, n)
             PROVE  counters[n] = None /\ buffer[n] = <<>>
  BY DEF QuiescentNameIsClean
<1>1. \A c \in Clients : ~WillForget(c, n) /\ ~WillDrain(c, n)
  BY DEF WorksOn, WillForget, WillDrain, StartPhases, StopPhases
<1>2. QED
  BY <1>1 DEF IInv, CountersAreOwned, BuffersAreOwned

\* When the last call on a name has returned and no route holds it, neither its
\* counter nor its captured messages are left for the next route of that name.
THEOREM FreeNamesAreClean == Spec => []QuiescentNameIsClean
<1>1. QED
  BY CleanNames, Invariant, PTL

-----------------------------------------------------------------------------
\* The table and the set of reservations implement one slot per name.
THEOREM ImplementsSlots == Spec => SlotSpec
<1> DEFINE S == [n \in Names |-> IF n \in starting THEN "reserved"
                                 ELSE IF routes[n] # None THEN "running" ELSE "free"]
<1>1. Init => Slots!SlotInit
  BY DEF Init, Slots!SlotInit
<1>2. IInv /\ IInv' /\ [Next]_vars => [Slots!SlotNext]_(Slots!slotVars)
  <2> SUFFICES ASSUME IInv, IInv', [Next]_vars
               PROVE  Slots!SlotNext \/ (S' = S /\ routes' = routes)
    BY DEF Slots!slotVars
  <2> USE DEF IInv, TypeOK
  <2>1. ASSUME NEW c \in Clients, NEW n \in Names, NEW r \in Runs,
               NEW k \in KeepLast, StartClaim(c, n, r, k)
        PROVE  Slots!Reserve(n)
    BY <2>1 DEF StartClaim, Slots!Reserve
  <2>2. ASSUME NEW c \in Clients, StartInsert(c)
        PROVE  Slots!Commit(name[c], run[c]) /\ name[c] \in Names /\ run[c] \in Runs
    <3>1. /\ name[c] \in Names /\ run[c] \in Runs
          /\ name[c] \in starting /\ routes[name[c]] = None
      BY <2>2 DEF StartInsert, CallsAreBound, ReservationIsExclusive, StartPhases
    <3>2. QED
      BY <2>2, <3>1, NoneIsNotARun DEF StartInsert, Slots!Commit
  <2>3. ASSUME NEW c \in Clients, FailRelease(c)
        PROVE  Slots!Abort(name[c]) /\ name[c] \in Names
    <3>1. /\ name[c] \in Names
          /\ name[c] \in starting /\ routes[name[c]] = None
      BY <2>3 DEF FailRelease, CallsAreBound, ReservationIsExclusive, StartPhases
    <3>2. QED
      BY <2>3, <3>1 DEF FailRelease, Slots!Abort
  <2>4. ASSUME NEW c \in Clients, NEW n \in Names, StopRemove(c, n)
        PROVE  Slots!Release(n)
    <3>1. n \notin starting
      BY <2>4 DEF TableIsKeyedByName, StopRemove
    <3>2. S[n] = "running" /\ S'[n] = "free"
      BY <2>4, <3>1 DEF StopRemove
    <3>3. \A m \in Names \ {n} : S'[m] = S[m]
      BY <2>4 DEF StopRemove
    <3>4. S' = [S EXCEPT ![n] = "free"]
      BY <3>2, <3>3
    <3>5. QED
      BY <2>4, <3>2, <3>4 DEF StopRemove, Slots!Release
  <2>5. ASSUME NEW c \in Clients, CallStep(c), ~StartInsert(c), ~FailRelease(c)
        PROVE  UNCHANGED <<routes, starting>>
    BY <2>5 DEF CallStep, routeVars, StartCounter, StartRun, StartUp,
       StartFailed, FailForget, FailDrain, StopHandle, StopRead, StopForget,
       StopDrain, MessagesDrain, WaitFinished, WaitGivesUp, WaitRead
  <2>6. ASSUME NEW c \in Clients, NEW n \in Names,
               MessagesCheck(c, n) \/ WaitBegin(c, n)
        PROVE  UNCHANGED <<routes, starting>>
    BY <2>6 DEF routeVars, MessagesCheck, WaitBegin
  <2>7. ASSUME NEW r \in Runs, HandleMessage(r) \/ HandleRedelivery(r) \/ TaskEnds(r)
        PROVE  UNCHANGED <<routes, starting>>
    BY <2>7 DEF routeVars, HandleMessage, HandleRedelivery, TaskEnds
  <2>8. CASE UNCHANGED vars
    BY <2>8 DEF vars
  <2>9. UNCHANGED <<routes, starting>> => S' = S /\ routes' = routes
    OBVIOUS
  <2>10. ASSUME NEW c \in Clients, NEW n \in Names, 
                \/ \E r \in Runs, k \in KeepLast : StartClaim(c, n, r, k)
                \/ StopRemove(c, n)
         PROVE  Slots!SlotNext
    BY <2>1, <2>4, <2>10 DEF Slots!SlotNext
  <2>11. ASSUME NEW c \in Clients, StartInsert(c) \/ FailRelease(c)
         PROVE  Slots!SlotNext
    <3>1. CASE StartInsert(c)
      <4>1. Slots!Commit(name[c], run[c]) /\ name[c] \in Names /\ run[c] \in Runs
        BY <2>2, <3>1
      <4>2. \E n \in Names : \E r \in Runs : Slots!Commit(n, r)
        BY <4>1 DEF Slots!Commit
      <4>3. QED
        BY <4>2 DEF Slots!SlotNext
    <3>2. CASE FailRelease(c)
      <4>1. \E n \in Names : Slots!Abort(n)
        BY <2>3, <3>2 DEF Slots!Abort
      <4>2. QED
        BY <4>1 DEF Slots!SlotNext
    <3>3. QED
      BY <2>11, <3>1, <3>2
  <2>12. ASSUME NEW c \in Clients, CallBegins(c)
         PROVE  Slots!SlotNext \/ UNCHANGED <<routes, starting>>
    BY <2>6, <2>10, <2>12 DEF CallBegins
  <2>13. ASSUME Next
         PROVE  Slots!SlotNext \/ UNCHANGED <<routes, starting>>
    BY <2>5, <2>7, <2>11, <2>12, <2>13 DEF Next
  <2>14. QED
    BY <2>8, <2>9, <2>13
<1>3. QED
  BY <1>1, <1>2, Invariant, PTL DEF Spec, SlotSpec, Slots!SlotSpec

-----------------------------------------------------------------------------
(* One caller.                                                             *)

\* There is one caller, who waits for each answer before the next call.
OneCaller == \A c, d \in Clients : c = d

\* Then every handler feeds the counter of its own run,
CountersAreOwn == \A r \in Runs : feeds[r] = r /\ count[r] = moved[r]

\* a route in the table has its counter, and nothing of another in its buffer,
RoutesHaveTheirOwn ==
  \A n \in Names :
    routes[n] # None =>
      /\ counters[n] = routes[n]
      /\ \A i \in DOMAIN buffer[n] : buffer[n][i] = routes[n]

\* a start and a stop find under the name what belongs to their run,
CallsFindTheirOwn ==
  \A c \in Clients :
    /\ pc[c] \in {"counter", "run"} => life[run[c]] = "claimed"
    /\ pc[c] \in {"run", "await", "insert", "stop_handle", "stop_read"} =>
         counters[name[c]] = run[c]
    /\ pc[c] \in StartPhases =>
         \A i \in DOMAIN buffer[name[c]] : buffer[name[c]][i] = run[c]
    /\ pc[c] \in StopPhases => routes[name[c]] = None
    /\ pc[c] = "stop_read" => life[run[c]] = "ended"
    /\ pc[c] = "wait_read" =>
         /\ run[c] \in Runs /\ routes[name[c]] = run[c]
         /\ life[run[c]] = "ended"

\* and what has been reported is of a route that moves nothing more.
RepliesAreFinal ==
  \A c \in Clients :
    reply[c].run # None =>
      life[reply[c].run] = "ended" /\ reply[c].total = moved[reply[c].run]

SInv == CountersAreOwn /\ RoutesHaveTheirOwn /\ CallsFindTheirOwn /\ RepliesAreFinal

\* What a full or an open channel holds after a push is the message pushed, or
\* was there before.
LEMMA PushedEntries ==
  ASSUME NEW n \in Names, NEW r \in Runs, buffer[n] \in Seq(Runs), capacity[n] \in Nat,
         capacity[n] > 0, NEW i \in DOMAIN Pushed(n, r)
  PROVE  \/ Pushed(n, r)[i] = r
         \/ \E j \in DOMAIN buffer[n] : Pushed(n, r)[i] = buffer[n][j]
<1> DEFINE b == buffer[n]
<1>1. b \in Seq(Runs) /\ Len(b) \in Nat /\ DOMAIN b = 1 .. Len(b)
  OBVIOUS
<1>2. CASE Len(b) < capacity[n]
  <2>1. Pushed(n, r) = Append(b, r)
    BY <1>2 DEF Pushed
  <2>2. i \in 1 .. Len(b) + 1
    BY <1>1, <2>1
  <2> QED
    BY <1>1, <2>1, <2>2
<1>3. CASE ~(Len(b) < capacity[n])
  <2>1. Pushed(n, r) = Append(Tail(b), r)
    BY <1>3 DEF Pushed
  <2>2. b # <<>> /\ Len(b) >= 1
    BY <1>1, <1>3
  <2> DEFINE t == Tail(b)
  <2>3. /\ t \in Seq(Runs) /\ Len(t) = Len(b) - 1
        /\ \A j \in 1 .. Len(b) - 1 : t[j] = b[j + 1]
    BY <1>1, <2>2
  <2> HIDE DEF t
  <2>4. i \in 1 .. Len(b)
    BY <1>1, <2>1, <2>3 DEF t
  <2>5. CASE i = Len(b)
    BY <1>1, <2>1, <2>3, <2>5 DEF t
  <2>6. CASE i < Len(b)
    <3>1. Pushed(n, r)[i] = t[i] /\ i \in 1 .. Len(b) - 1
      BY <1>1, <2>1, <2>3, <2>4, <2>6 DEF t
    <3>2. t[i] = b[i + 1] /\ i + 1 \in DOMAIN b
      BY <1>1, <2>3, <2>4, <2>6
    <3> QED
      BY <3>1, <3>2
  <2> QED
    BY <1>1, <2>4, <2>5, <2>6
<1> QED
  BY <1>2, <1>3

\* An entry of a buffer was there before, or is the message of run r.
Entry(n, i, r) ==
  \/ n = nameOf[r] /\ buffer'[n][i] = r
  \/ \E j \in DOMAIN buffer[n] : buffer'[n][i] = buffer[n][j]

\* A handler captures into the buffer of its own name only.
LEMMA CapturedEntries ==
  ASSUME IInv, NEW r \in Runs, life[r] = "live", Capture(r)
  PROVE  \A n \in Names : \A i \in DOMAIN buffer'[n] : Entry(n, i, r)
<1>1. nameOf[r] \in Names /\ DOMAIN buffer = Names
  BY DEF IInv, TableIsKeyedByName, TypeOK
<1>2. CASE keep[r] > 0
  <2>1. capacity[nameOf[r]] > 0
    BY <1>2 DEF IInv, CaptureIsOpen
  <2>2. buffer[nameOf[r]] \in Seq(Runs) /\ capacity[nameOf[r]] \in Nat
    BY <1>1 DEF IInv, TypeOK
  <2> DEFINE p == Pushed(nameOf[r], r)
  <2>3. \A i \in DOMAIN p :
          p[i] = r \/ \E j \in DOMAIN buffer[nameOf[r]] : p[i] = buffer[nameOf[r]][j]
    BY <1>1, <2>1, <2>2, PushedEntries
  <2>4. buffer' = [buffer EXCEPT ![nameOf[r]] = p]
    BY <1>2 DEF Capture
  <2> HIDE DEF p
  <2> QED
    BY <1>1, <2>3, <2>4 DEF Entry
<1>3. CASE ~(keep[r] > 0)
  BY <1>3 DEF Capture, Entry
<1> QED
  BY <1>2, <1>3

\* Every step of the one caller and of the routes keeps what is each one's own.
LEMMA OneCallerStep == OneCaller /\ IInv /\ SInv /\ Next => SInv'
<1> SUFFICES ASSUME OneCaller, IInv, SInv, Next PROVE SInv'
  OBVIOUS
<1>a. /\ routes \in [Names -> Runs \cup {None}]
      /\ life \in [Runs -> {"unborn", "claimed", "live", "ended"}]
      /\ nameOf \in [Runs -> Names \cup {None}]
      /\ counters \in [Names -> Runs \cup {None}]
      /\ count \in [Runs -> Nat] /\ moved \in [Runs -> Nat] /\ feeds \in [Runs -> Runs]
      /\ DOMAIN buffer = Names /\ pc \in [Clients -> Phases]
      /\ name \in [Clients -> Names \cup {None}] /\ run \in [Clients -> Runs \cup {None}]
      /\ reply \in [Clients -> [run : Runs \cup {None}, total : Nat]] /\ None \notin Runs
  BY NoneIsNotARun DEF IInv, TypeOK
<1>b. CallsAreBound /\ TableIsKeyedByName /\ ReservationIsExclusive
  BY DEF IInv
<1>c. /\ CountersAreOwn /\ RoutesHaveTheirOwn /\ CallsFindTheirOwn /\ RepliesAreFinal
      /\ \A c, d \in Clients : c = d
  BY DEF SInv, OneCaller
<1>d. ASSUME NEW n \in Names, routes[n] = None, \A c \in Clients : ~WorksOn(c, n)
      PROVE  counters[n] = None /\ buffer[n] = <<>>
  BY <1>d, CleanNames DEF QuiescentNameIsClean
<1>e. ASSUME NEW c \in Clients, pc[c] = "counter"
      PROVE  counters[name[c]] = None
  <2>1. name[c] \in Names /\ routes[name[c]] = None
    BY <1>b, <1>e DEF CallsAreBound, ReservationIsExclusive, StartPhases
  <2>2. \A d \in Clients : ~WillForget(d, name[c])
    BY <1>c, <1>e DEF WillForget
  <2> QED
    BY <2>1, <2>2 DEF IInv, CountersAreOwned
<1>f. ASSUME NEW r \in Runs, life[r] = "live"
      PROVE  /\ nameOf[r] \in Names
             /\ \/ routes[nameOf[r]] = r
                \/ \E c \in Clients : /\ pc[c] \in {"await", "insert", "stop_handle"}
                                      /\ run[c] = r /\ name[c] = nameOf[r]
  BY <1>b, <1>f DEF IInv, NoOrphanRoute, TableIsKeyedByName, CallsAreBound, StartPhases,
     StopPhases
<1>1. ASSUME NEW c \in Clients, NEW n \in Names, NEW r \in Runs,
             NEW k \in KeepLast, StartClaim(c, n, r, k)
      PROVE  SInv'
  <2>1. pc[c] = "idle" /\ routes[n] = None /\ \A d \in Clients : d = c
    BY <1>c, <1>1 DEF StartClaim
  <2>2. counters[n] = None /\ buffer[n] = <<>>
    BY <1>d, <2>1 DEF WorksOn, StartPhases, StopPhases
  <2>3. DOMAIN <<>> = {}
    OBVIOUS
  <2> QED
    BY <1>a, <1>b, <1>c, <1>1, <2>1, <2>2, <2>3
    DEF SInv, CountersAreOwn, RoutesHaveTheirOwn, CallsFindTheirOwn,
       RepliesAreFinal,
       CallsAreBound, TableIsKeyedByName, StartPhases, StopPhases, metricVars,
       captureVars, Goto, StartClaim
<1>2. ASSUME NEW c \in Clients, NEW n \in Names, StopRemove(c, n)
      PROVE  SInv'
  BY <1>a, <1>b, <1>c, <1>2 DEF SInv, CountersAreOwn, RoutesHaveTheirOwn,
     CallsFindTheirOwn, RepliesAreFinal, CallsAreBound, ReservationIsExclusive,
     TableIsKeyedByName, StartPhases, StopPhases, routeVars, engineVars,
     metricVars, captureVars, Goto, StopRemove
<1>3. ASSUME NEW c \in Clients, NEW n \in Names, MessagesCheck(c, n)
      PROVE  SInv'
  BY <1>a, <1>b, <1>c, <1>3 DEF SInv, CountersAreOwn, RoutesHaveTheirOwn,
     CallsFindTheirOwn, RepliesAreFinal, CallsAreBound, ReservationIsExclusive,
     TableIsKeyedByName, StartPhases, StopPhases, routeVars, engineVars,
     metricVars, captureVars, Goto, MessagesCheck
<1>4. ASSUME NEW c \in Clients, NEW n \in Names, WaitBegin(c, n)
      PROVE  SInv'
  BY <1>a, <1>b, <1>c, <1>4 DEF SInv, CountersAreOwn, RoutesHaveTheirOwn,
     CallsFindTheirOwn, RepliesAreFinal, CallsAreBound, ReservationIsExclusive,
     TableIsKeyedByName, StartPhases, StopPhases, routeVars, engineVars,
     metricVars, captureVars, Goto, WaitBegin
<1>5. ASSUME NEW c \in Clients, StartCounter(c)
      PROVE  SInv'
  BY <1>a, <1>b, <1>c, <1>5, <1>e DEF SInv, CountersAreOwn, RoutesHaveTheirOwn,
     CallsFindTheirOwn, RepliesAreFinal, CallsAreBound, ReservationIsExclusive,
     TableIsKeyedByName, StartPhases, StopPhases, routeVars, engineVars,
     metricVars, captureVars, Goto, StartCounter, CounterFor
<1>6. ASSUME NEW c \in Clients, StartRun(c)
      PROVE  SInv'
  BY <1>a, <1>b, <1>c, <1>6 DEF SInv, CountersAreOwn, RoutesHaveTheirOwn,
     CallsFindTheirOwn, RepliesAreFinal, CallsAreBound, ReservationIsExclusive,
     TableIsKeyedByName, StartPhases, StopPhases, routeVars, engineVars,
     metricVars, captureVars, Goto, StartRun
<1>7. ASSUME NEW c \in Clients, StartUp(c)
      PROVE  SInv'
  BY <1>a, <1>b, <1>c, <1>7 DEF SInv, CountersAreOwn, RoutesHaveTheirOwn,
     CallsFindTheirOwn, RepliesAreFinal, CallsAreBound, ReservationIsExclusive,
     TableIsKeyedByName, StartPhases, StopPhases, routeVars, engineVars,
     metricVars, captureVars, Goto, StartUp
<1>8. ASSUME NEW c \in Clients, StartFailed(c)
      PROVE  SInv'
  BY <1>a, <1>b, <1>c, <1>8 DEF SInv, CountersAreOwn, RoutesHaveTheirOwn,
     CallsFindTheirOwn, RepliesAreFinal, CallsAreBound, ReservationIsExclusive,
     TableIsKeyedByName, StartPhases, StopPhases, routeVars, engineVars,
     metricVars, captureVars, Goto, StartFailed
<1>9. ASSUME NEW c \in Clients, StartInsert(c)
      PROVE  SInv'
  BY <1>a, <1>b, <1>c, <1>9 DEF SInv, CountersAreOwn, RoutesHaveTheirOwn,
     CallsFindTheirOwn, RepliesAreFinal, CallsAreBound, ReservationIsExclusive,
     TableIsKeyedByName, StartPhases, StopPhases, routeVars, engineVars,
     metricVars, captureVars, Goto, StartInsert, Return
<1>10. ASSUME NEW c \in Clients, FailForget(c)
      PROVE  SInv'
  BY <1>a, <1>b, <1>c, <1>10 DEF SInv, CountersAreOwn, RoutesHaveTheirOwn,
     CallsFindTheirOwn, RepliesAreFinal, CallsAreBound, ReservationIsExclusive,
     TableIsKeyedByName, StartPhases, StopPhases, routeVars, engineVars,
     metricVars, captureVars, Goto, FailForget, Forget
<1>11. ASSUME NEW c \in Clients, FailDrain(c)
      PROVE  SInv'
  <2>1. /\ \/ buffer' = buffer
           \/ buffer' = [buffer EXCEPT ![name[c]] = <<>>]
        /\ pc[c] = "fail_drain" /\ pc' = [pc EXCEPT ![c] = "fail_release"]
        /\ UNCHANGED <<routes, life, counters, count, feeds, name, run, reply, moved>>
    BY <1>11 DEF FailDrain, DrainCapture, Goto, captureVars, routeVars, engineVars,
       metricVars
  <2>2. DOMAIN <<>> = {}
    OBVIOUS
  <2>3. \A n \in Names : \A i \in DOMAIN buffer'[n] :
          i \in DOMAIN buffer[n] /\ buffer'[n][i] = buffer[n][i]
    BY <1>a, <2>1, <2>2
  <2>4. CountersAreOwn' /\ RepliesAreFinal' /\ RoutesHaveTheirOwn'
    BY <1>c, <2>1, <2>3 DEF CountersAreOwn, RepliesAreFinal, RoutesHaveTheirOwn
  <2>5. name[c] \in Names
    BY <1>b, <2>1 DEF CallsAreBound
  <2>6. CallsFindTheirOwn'
    BY <1>a, <1>c, <2>1, <2>3, <2>5 DEF CallsFindTheirOwn, StartPhases, StopPhases
  <2> QED
    BY <2>4, <2>6 DEF SInv
<1>12. ASSUME NEW c \in Clients, FailRelease(c)
      PROVE  SInv'
  BY <1>a, <1>b, <1>c, <1>12 DEF SInv, CountersAreOwn, RoutesHaveTheirOwn,
     CallsFindTheirOwn, RepliesAreFinal, CallsAreBound, ReservationIsExclusive,
     TableIsKeyedByName, StartPhases, StopPhases, routeVars, engineVars,
     metricVars, captureVars, Goto, FailRelease, Return
<1>13. ASSUME NEW c \in Clients, StopHandle(c)
      PROVE  SInv'
  BY <1>a, <1>b, <1>c, <1>13 DEF SInv, CountersAreOwn, RoutesHaveTheirOwn,
     CallsFindTheirOwn, RepliesAreFinal, CallsAreBound, ReservationIsExclusive,
     TableIsKeyedByName, StartPhases, StopPhases, routeVars, engineVars,
     metricVars, captureVars, Goto, StopHandle
<1>14. ASSUME NEW c \in Clients, StopRead(c)
      PROVE  SInv'
  BY <1>a, <1>b, <1>c, <1>14 DEF SInv, CountersAreOwn, RoutesHaveTheirOwn,
     CallsFindTheirOwn, RepliesAreFinal, CallsAreBound, ReservationIsExclusive,
     TableIsKeyedByName, StartPhases, StopPhases, routeVars, engineVars,
     metricVars, captureVars, Goto, StopRead, Sequence
<1>15. ASSUME NEW c \in Clients, StopForget(c)
      PROVE  SInv'
  BY <1>a, <1>b, <1>c, <1>15 DEF SInv, CountersAreOwn, RoutesHaveTheirOwn,
     CallsFindTheirOwn, RepliesAreFinal, CallsAreBound, ReservationIsExclusive,
     TableIsKeyedByName, StartPhases, StopPhases, routeVars, engineVars,
     metricVars, captureVars, Goto, StopForget, Forget
<1>16. ASSUME NEW c \in Clients, StopDrain(c)
      PROVE  SInv'
  BY <1>a, <1>b, <1>c, <1>16 DEF SInv, CountersAreOwn, RoutesHaveTheirOwn,
     CallsFindTheirOwn, RepliesAreFinal, CallsAreBound, ReservationIsExclusive,
     TableIsKeyedByName, StartPhases, StopPhases, routeVars, engineVars,
     metricVars, captureVars, Goto, StopDrain, DrainCapture, Return
<1>17. ASSUME NEW c \in Clients, MessagesDrain(c)
      PROVE  SInv'
  BY <1>a, <1>b, <1>c, <1>17 DEF SInv, CountersAreOwn, RoutesHaveTheirOwn,
     CallsFindTheirOwn, RepliesAreFinal, CallsAreBound, ReservationIsExclusive,
     TableIsKeyedByName, StartPhases, StopPhases, routeVars, engineVars,
     metricVars, captureVars, Goto, MessagesDrain, DrainCapture, Return
<1>18. ASSUME NEW c \in Clients, WaitFinished(c)
      PROVE  SInv'
  BY <1>a, <1>b, <1>c, <1>18 DEF SInv, CountersAreOwn, RoutesHaveTheirOwn,
     CallsFindTheirOwn, RepliesAreFinal, CallsAreBound, ReservationIsExclusive,
     TableIsKeyedByName, StartPhases, StopPhases, routeVars, engineVars,
     metricVars, captureVars, Goto, WaitFinished, Finished
<1>19. ASSUME NEW c \in Clients, WaitGivesUp(c)
      PROVE  SInv'
  BY <1>a, <1>b, <1>c, <1>19 DEF SInv, CountersAreOwn, RoutesHaveTheirOwn,
     CallsFindTheirOwn, RepliesAreFinal, CallsAreBound, ReservationIsExclusive,
     TableIsKeyedByName, StartPhases, StopPhases, routeVars, engineVars,
     metricVars, captureVars, Goto, WaitGivesUp, NoReply, Return
<1>20. ASSUME NEW c \in Clients, WaitRead(c)
      PROVE  SInv'
  BY <1>a, <1>b, <1>c, <1>20 DEF SInv, CountersAreOwn, RoutesHaveTheirOwn,
     CallsFindTheirOwn, RepliesAreFinal, CallsAreBound, ReservationIsExclusive,
     TableIsKeyedByName, StartPhases, StopPhases, routeVars, engineVars,
     metricVars, captureVars, Goto, WaitRead, Sequence, Return
<1>21. ASSUME NEW r \in Runs, HandleMessage(r)
       PROVE  SInv'
  <2>1. \A n \in Names : \A i \in DOMAIN buffer'[n] : Entry(n, i, r)
    BY <1>21, CapturedEntries DEF HandleMessage
  <2>2. CountersAreOwn' /\ RepliesAreFinal'
    BY <1>a, <1>c, <1>21 DEF CountersAreOwn, RepliesAreFinal, HandleMessage, engineVars
  <2>3. RoutesHaveTheirOwn'
    BY <1>a, <1>b, <1>c, <1>21, <1>f, <2>1 DEF RoutesHaveTheirOwn, HandleMessage, Entry,
       routeVars, CallsFindTheirOwn, StartPhases, StopPhases, ReservationIsExclusive
  <2>4. CallsFindTheirOwn'
    BY <1>a, <1>b, <1>c, <1>21, <1>f, <2>1 DEF CallsFindTheirOwn, HandleMessage, Entry,
       routeVars, engineVars, StartPhases, StopPhases, ReservationIsExclusive, CallsAreBound
  <2> QED
    BY <2>2, <2>3, <2>4 DEF SInv
<1>22. ASSUME NEW r \in Runs, HandleRedelivery(r)
       PROVE  SInv'
  <2>1. \A n \in Names : \A i \in DOMAIN buffer'[n] : Entry(n, i, r)
    BY <1>22, CapturedEntries DEF HandleRedelivery
  <2>2. CountersAreOwn' /\ RepliesAreFinal'
    BY <1>a, <1>c, <1>22 DEF CountersAreOwn, RepliesAreFinal, HandleRedelivery, engineVars,
       metricVars
  <2>3. RoutesHaveTheirOwn'
    BY <1>a, <1>b, <1>c, <1>22, <1>f, <2>1 DEF RoutesHaveTheirOwn, HandleRedelivery, Entry,
       routeVars, metricVars, CallsFindTheirOwn, StartPhases, StopPhases,
       ReservationIsExclusive
  <2>4. CallsFindTheirOwn'
    BY <1>a, <1>b, <1>c, <1>22, <1>f, <2>1 DEF CallsFindTheirOwn, HandleRedelivery, Entry,
       routeVars, engineVars, metricVars, StartPhases, StopPhases, ReservationIsExclusive,
       CallsAreBound
  <2> QED
    BY <2>2, <2>3, <2>4 DEF SInv
<1>23. ASSUME NEW r \in Runs, TaskEnds(r)
       PROVE  SInv'
  BY <1>a, <1>c, <1>23 DEF SInv, CountersAreOwn, RoutesHaveTheirOwn, CallsFindTheirOwn,
     RepliesAreFinal, TaskEnds, routeVars, metricVars, captureVars
<1> QED
  BY <1>1, <1>2, <1>3, <1>4, <1>5, <1>6, <1>7, <1>8, <1>9, <1>10, <1>11, <1>12,
     <1>13, <1>14, <1>15, <1>16, <1>17, <1>18, <1>19, <1>20, <1>21, <1>22, <1>23
  DEF Next, CallBegins, CallStep

\* Every state the server reaches with one caller.
LEMMA OneCallerInvariant ==
  ASSUME OneCaller
  PROVE  Spec => [](IInv /\ SInv)
<1>1. Init => SInv
  <2> SUFFICES ASSUME Init PROVE SInv
    OBVIOUS
  <2> QED
    BY DEF Init, NoReply, SInv, CountersAreOwn, RoutesHaveTheirOwn, CallsFindTheirOwn,
       RepliesAreFinal, StartPhases, StopPhases
<1>2. IInv /\ SInv /\ [Next]_vars => SInv'
  <2>1. CASE Next
    BY <2>1, OneCallerStep
  <2>2. CASE UNCHANGED vars
    BY <2>2 DEF vars, SInv, CountersAreOwn, RoutesHaveTheirOwn, CallsFindTheirOwn,
       RepliesAreFinal
  <2> QED
    BY <2>1, <2>2
<1> QED
  BY <1>1, <1>2, InitIInv, NextIInv, PTL DEF Spec

\* A caller that waits for each answer before the next call is told what its
\* routes have really moved: while they run, and in the replies of stop_route
\* and wait_route.  Concurrent callers are not: stop_route frees the name before
\* it clears the counter kept under it.
THEOREM TotalsAreTrueOfOneCaller ==
  ASSUME OneCaller
  PROVE  Spec => []TotalsAreTrue
<1>1. IInv /\ SInv => TotalsAreTrue
  <2> SUFFICES ASSUME IInv, SInv PROVE TotalsAreTrue
    OBVIOUS
  <2>1. \A n \in Names : routes[n] # None => routes[n] \in Runs
    BY DEF IInv, TypeOK
  <2> QED
    BY <2>1, NoneIsNotARun DEF SInv, CountersAreOwn, RoutesHaveTheirOwn, RepliesAreFinal,
       TotalsAreTrue, Sequence
<1> QED
  BY <1>1, OneCallerInvariant, PTL

\* Such a caller gets from route_messages messages of the route that holds the
\* name only, and none that an earlier route of that name has left behind.
THEOREM CapturedAreOwnOfOneCaller ==
  ASSUME OneCaller
  PROVE  Spec => []CapturedAreOwn
<1>1. SInv => CapturedAreOwn
  BY DEF SInv, RoutesHaveTheirOwn, CapturedAreOwn
<1> QED
  BY <1>1, OneCallerInvariant, PTL

=============================================================================
