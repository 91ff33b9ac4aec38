----------------------- MODULE StatusRegistryProofs -----------------------
(***************************************************************************)
(* What the presence registry guarantees for every number of processes,    *)
(* every TTL, either platform, and whatever file operations fail: a        *)
(* released lease never comes back, and a dead process leaves every        *)
(* listing once its TTL has passed.  One reader that finds leases replaced *)
(* by a rename alone misses no peer either.                                *)
(***************************************************************************)
EXTENDS StatusRegistry, TLAPS

\* A publish inside the mutex and a removal inside it exclude each other, and
\* the flag that release sets keeps every later publish out.
ReleaseExcludesPublish ==
  \A i \in Instances :
    job[i] \in {"create", "clear", "rename"} =>
      release[i] # "removing" /\ ~released[i]

\* A dead process runs nothing, and a live one has not begun to be gone.
DeadIsQuiet ==
  \A i \in Instances :
    /\ proc[i] = "dead" => task[i] = "gone" /\ job[i] = "none"
    /\ proc[i] # "dead" => gone[i] = 0
    /\ proc[i] = "new" => task[i] = "none"

\* The last record of a dead process is at least as old as its death.
DeadLeasesAge ==
  \A i \in Instances :
    proc[i] = "dead" /\ lease[i] # Absent => gone[i] <= lease[i]

\* A reader that is not listing has found nothing and has nothing to do.
RowsBelongToListings ==
  \A r \in Readers : ~listing[r] => rows[r] = {} /\ todo[r] = {}

\* The inductive invariant.
IInv ==
  /\ TypeOK
  /\ ReleaseExcludesPublish
  /\ ReleasedStaysGone
  /\ DeadIsQuiet
  /\ DeadLeasesAge
  /\ RowsBelongToListings
  /\ CrashedRowsExpire

-----------------------------------------------------------------------------
\* Ages are natural numbers, and the cap is one of them.
LEMMA AgesAreNaturals ==
  /\ Ages \subseteq Nat
  /\ 0 \in Ages
  /\ Absent \notin Ages
  /\ Ttl + MaxListing \in Nat
  /\ \A age \in Ages : age <= Ttl + MaxListing + 1
BY TimesAreNaturals, AbsentIsNothing DEF Ages, AgeCap

\* An age grows by at most one tick, stays an age and stays below the cap.
LEMMA OlderAges ==
  ASSUME NEW age \in Ages \cup {Absent}
  PROVE  /\ Older(age) \in Ages \cup {Absent}
         /\ Older(age) = Absent <=> age = Absent
         /\ age \in Ages => Older(age) \in Ages /\ age <= Older(age) /\ Older(age) <= age + 1
BY TimesAreNaturals, AbsentIsNothing DEF Older, Ages, AgeCap

\* Time passes for two ages alike.
LEMMA OlderIsMonotonic ==
  ASSUME NEW a \in Ages, NEW b \in Ages, a <= b
  PROVE  Older(a) <= Older(b)
BY TimesAreNaturals, AbsentIsNothing DEF Older, Ages, AgeCap


\* Types.
LEMMA TypeOKStep == IInv /\ Next => TypeOK'
<1> SUFFICES ASSUME IInv, Next PROVE TypeOK'
  OBVIOUS
<1> USE AgesAreNaturals, TimesAreNaturals
    DEF IInv, TypeOK,
        ownerVars, fileVars, readerVars
<1>1. ASSUME NEW i \in Instances, Spawn(i)
      PROVE  TypeOK'
  BY <1>1 DEF Spawn
<1>2. ASSUME NEW i \in Instances, Wake(i)
      PROVE  TypeOK'
  BY <1>2 DEF Wake
<1>3. ASSUME NEW i \in Instances, Heartbeat(i)
      PROVE  TypeOK'
  BY <1>3 DEF Heartbeat
<1>4. ASSUME NEW i \in Instances, Resume(i)
      PROVE  TypeOK'
  BY <1>4 DEF Resume
<1>5. ASSUME NEW i \in Instances, Cancelled(i)
      PROVE  TypeOK'
  BY <1>5 DEF Cancelled
<1>6. ASSUME NEW i \in Instances, JobStart(i)
      PROVE  TypeOK'
  BY <1>6 DEF JobStart, LockFree
<1>7. ASSUME NEW i \in Instances, JobCreate(i)
      PROVE  TypeOK'
  BY <1>7 DEF JobCreate
<1>8. ASSUME NEW i \in Instances, JobRefused(i)
      PROVE  TypeOK'
  BY <1>8 DEF JobRefused
<1>9. ASSUME NEW i \in Instances, JobWriteFails(i)
      PROVE  TypeOK'
  BY <1>9 DEF JobWriteFails
<1>10. ASSUME NEW i \in Instances, JobClear(i)
      PROVE  TypeOK'
  BY <1>10 DEF JobClear
<1>11. ASSUME NEW i \in Instances, JobRename(i)
      PROVE  TypeOK'
  BY <1>11 DEF JobRename
<1>12. ASSUME NEW i \in Instances, JobRenameFails(i)
      PROVE  TypeOK'
  BY <1>12 DEF JobRenameFails
<1>13. ASSUME NEW i \in Instances, ReleaseBegin(i)
      PROVE  TypeOK'
  BY <1>13 DEF ReleaseBegin
<1>14. ASSUME NEW i \in Instances, ReleaseLock(i)
      PROVE  TypeOK'
  BY <1>14 DEF ReleaseLock, LockFree
<1>15. ASSUME NEW i \in Instances, ReleaseRemove(i)
      PROVE  TypeOK'
  BY <1>15 DEF ReleaseRemove
<1>16. ASSUME NEW i \in Instances, Exit(i)
      PROVE  TypeOK'
  BY <1>16 DEF Exit
<1>17. ASSUME NEW r \in Readers, ListBegin(r)
      PROVE  TypeOK'
  BY <1>17 DEF ListBegin, IsFresh
<1>18. ASSUME NEW r \in Readers, RemoveStale(r)
      PROVE  TypeOK'
  BY <1>18 DEF RemoveStale
<1>19. ASSUME NEW r \in Readers, ListEnd(r)
      PROVE  TypeOK'
  BY <1>19 DEF ListEnd
<1>20. ASSUME NEW r \in Readers, NEW i \in Instances, ExamineLease(r, i)
      PROVE  TypeOK'
  BY <1>20 DEF ExamineLease, Verdict, IsFresh
<1>21. ASSUME NEW r \in Readers, NEW i \in Instances, ExamineTemp(r, i)
      PROVE  TypeOK'
  BY <1>21 DEF ExamineTemp, IsAbandoned
<1>22. ASSUME NEW r \in Readers, NEW i \in Instances, ExamineLitter(r, i)
      PROVE  TypeOK'
  BY <1>22 DEF ExamineLitter, IsAbandoned
<1>23. ASSUME Tick
      PROVE  TypeOK'
  <2>1. lease' \in [Instances -> Ages \cup {Absent}] /\ temp' \in [Instances -> Ages \cup {Absent}]
    BY <1>23, OlderAges DEF Tick
  <2>2. litter' \in [Instances -> Ages \cup {Absent}] /\ stamp' \in [Instances -> Ages]
    BY <1>23, OlderAges DEF Tick
  <2>3. gone' \in [Instances -> Ages]
    BY <1>23, OlderAges DEF Tick
  <2>4. elapsed' \in [Readers -> 0 .. MaxListing]
    BY <1>23, TimesAreNaturals DEF Tick
  <2>5. owed' \in [Readers -> SUBSET Instances]
    BY <1>23 DEF Tick
  <2>6. QED
    BY <1>23, <2>1, <2>2, <2>3, <2>4, <2>5 DEF Tick
<1>24. QED
  BY <1>1, <1>2, <1>3, <1>4, <1>5, <1>6, <1>7, <1>8, <1>9, <1>10,
     <1>11, <1>12, <1>13, <1>14, <1>15, <1>16, <1>17, <1>18, <1>19, <1>20,
     <1>21, <1>22, <1>23
  DEF Next, OwnerStep, JobError, ReleaseStep, ReaderStep

\* The mutex keeps a publish and a release apart.
LEMMA ReleaseExcludesPublishStep == IInv /\ Next => ReleaseExcludesPublish'
<1> SUFFICES ASSUME IInv, Next PROVE ReleaseExcludesPublish'
  OBVIOUS
<1> USE DEF IInv, TypeOK, ReleaseExcludesPublish,
        ownerVars, fileVars, readerVars
<1>1. ASSUME NEW i \in Instances, Spawn(i)
      PROVE  ReleaseExcludesPublish'
  BY <1>1 DEF Spawn
<1>2. ASSUME NEW i \in Instances, Wake(i)
      PROVE  ReleaseExcludesPublish'
  BY <1>2 DEF Wake
<1>3. ASSUME NEW i \in Instances, Heartbeat(i)
      PROVE  ReleaseExcludesPublish'
  BY <1>3 DEF Heartbeat
<1>4. ASSUME NEW i \in Instances, Resume(i)
      PROVE  ReleaseExcludesPublish'
  BY <1>4 DEF Resume
<1>5. ASSUME NEW i \in Instances, Cancelled(i)
      PROVE  ReleaseExcludesPublish'
  BY <1>5 DEF Cancelled
<1>6. ASSUME NEW i \in Instances, JobStart(i)
      PROVE  ReleaseExcludesPublish'
  BY <1>6 DEF JobStart, LockFree
<1>7. ASSUME NEW i \in Instances, JobCreate(i)
      PROVE  ReleaseExcludesPublish'
  BY <1>7 DEF JobCreate
<1>8. ASSUME NEW i \in Instances, JobRefused(i)
      PROVE  ReleaseExcludesPublish'
  BY <1>8 DEF JobRefused
<1>9. ASSUME NEW i \in Instances, JobWriteFails(i)
      PROVE  ReleaseExcludesPublish'
  BY <1>9 DEF JobWriteFails
<1>10. ASSUME NEW i \in Instances, JobClear(i)
      PROVE  ReleaseExcludesPublish'
  BY <1>10 DEF JobClear
<1>11. ASSUME NEW i \in Instances, JobRename(i)
      PROVE  ReleaseExcludesPublish'
  BY <1>11 DEF JobRename
<1>12. ASSUME NEW i \in Instances, JobRenameFails(i)
      PROVE  ReleaseExcludesPublish'
  BY <1>12 DEF JobRenameFails
<1>13. ASSUME NEW i \in Instances, ReleaseBegin(i)
      PROVE  ReleaseExcludesPublish'
  BY <1>13 DEF ReleaseBegin
<1>14. ASSUME NEW i \in Instances, ReleaseLock(i)
      PROVE  ReleaseExcludesPublish'
  BY <1>14 DEF ReleaseLock, LockFree
<1>15. ASSUME NEW i \in Instances, ReleaseRemove(i)
      PROVE  ReleaseExcludesPublish'
  BY <1>15 DEF ReleaseRemove
<1>16. ASSUME NEW i \in Instances, Exit(i)
      PROVE  ReleaseExcludesPublish'
  BY <1>16 DEF Exit
<1>17. ASSUME NEW r \in Readers, ListBegin(r)
      PROVE  ReleaseExcludesPublish'
  BY <1>17 DEF ListBegin, IsFresh
<1>18. ASSUME NEW r \in Readers, RemoveStale(r)
      PROVE  ReleaseExcludesPublish'
  BY <1>18 DEF RemoveStale
<1>19. ASSUME NEW r \in Readers, ListEnd(r)
      PROVE  ReleaseExcludesPublish'
  BY <1>19 DEF ListEnd
<1>20. ASSUME NEW r \in Readers, NEW i \in Instances, ExamineLease(r, i)
      PROVE  ReleaseExcludesPublish'
  BY <1>20 DEF ExamineLease, Verdict, IsFresh
<1>21. ASSUME NEW r \in Readers, NEW i \in Instances, ExamineTemp(r, i)
      PROVE  ReleaseExcludesPublish'
  BY <1>21 DEF ExamineTemp, IsAbandoned
<1>22. ASSUME NEW r \in Readers, NEW i \in Instances, ExamineLitter(r, i)
      PROVE  ReleaseExcludesPublish'
  BY <1>22 DEF ExamineLitter, IsAbandoned
<1>23. ASSUME Tick
      PROVE  ReleaseExcludesPublish'
  BY <1>23 DEF Tick, Older
<1>24. QED
  BY <1>1, <1>2, <1>3, <1>4, <1>5, <1>6, <1>7, <1>8, <1>9, <1>10,
     <1>11, <1>12, <1>13, <1>14, <1>15, <1>16, <1>17, <1>18, <1>19, <1>20,
     <1>21, <1>22, <1>23
  DEF Next, OwnerStep, JobError, ReleaseStep, ReaderStep

\* The lease is written under the mutex, and only while the flag is unset.
LEMMA ReleasedStaysGoneStep == IInv /\ Next => ReleasedStaysGone'
<1> SUFFICES ASSUME IInv, Next PROVE ReleasedStaysGone'
  OBVIOUS
<1> USE AgesAreNaturals
    DEF IInv, TypeOK, ReleasedStaysGone, ReleaseExcludesPublish,
        ownerVars, fileVars, readerVars
<1>1. ASSUME NEW i \in Instances, Spawn(i)
      PROVE  ReleasedStaysGone'
  BY <1>1 DEF Spawn
<1>2. ASSUME NEW i \in Instances, Wake(i)
      PROVE  ReleasedStaysGone'
  BY <1>2 DEF Wake
<1>3. ASSUME NEW i \in Instances, Heartbeat(i)
      PROVE  ReleasedStaysGone'
  BY <1>3 DEF Heartbeat
<1>4. ASSUME NEW i \in Instances, Resume(i)
      PROVE  ReleasedStaysGone'
  BY <1>4 DEF Resume
<1>5. ASSUME NEW i \in Instances, Cancelled(i)
      PROVE  ReleasedStaysGone'
  BY <1>5 DEF Cancelled
<1>6. ASSUME NEW i \in Instances, JobStart(i)
      PROVE  ReleasedStaysGone'
  BY <1>6 DEF JobStart, LockFree
<1>7. ASSUME NEW i \in Instances, JobCreate(i)
      PROVE  ReleasedStaysGone'
  BY <1>7 DEF JobCreate
<1>8. ASSUME NEW i \in Instances, JobRefused(i)
      PROVE  ReleasedStaysGone'
  BY <1>8 DEF JobRefused
<1>9. ASSUME NEW i \in Instances, JobWriteFails(i)
      PROVE  ReleasedStaysGone'
  BY <1>9 DEF JobWriteFails
<1>10. ASSUME NEW i \in Instances, JobClear(i)
      PROVE  ReleasedStaysGone'
  BY <1>10 DEF JobClear
<1>11. ASSUME NEW i \in Instances, JobRename(i)
      PROVE  ReleasedStaysGone'
  BY <1>11 DEF JobRename
<1>12. ASSUME NEW i \in Instances, JobRenameFails(i)
      PROVE  ReleasedStaysGone'
  BY <1>12 DEF JobRenameFails
<1>13. ASSUME NEW i \in Instances, ReleaseBegin(i)
      PROVE  ReleasedStaysGone'
  BY <1>13 DEF ReleaseBegin
<1>14. ASSUME NEW i \in Instances, ReleaseLock(i)
      PROVE  ReleasedStaysGone'
  BY <1>14 DEF ReleaseLock, LockFree
<1>15. ASSUME NEW i \in Instances, ReleaseRemove(i)
      PROVE  ReleasedStaysGone'
  BY <1>15 DEF ReleaseRemove
<1>16. ASSUME NEW i \in Instances, Exit(i)
      PROVE  ReleasedStaysGone'
  BY <1>16 DEF Exit
<1>17. ASSUME NEW r \in Readers, ListBegin(r)
      PROVE  ReleasedStaysGone'
  BY <1>17 DEF ListBegin, IsFresh
<1>18. ASSUME NEW r \in Readers, RemoveStale(r)
      PROVE  ReleasedStaysGone'
  BY <1>18 DEF RemoveStale
<1>19. ASSUME NEW r \in Readers, ListEnd(r)
      PROVE  ReleasedStaysGone'
  BY <1>19 DEF ListEnd
<1>20. ASSUME NEW r \in Readers, NEW i \in Instances, ExamineLease(r, i)
      PROVE  ReleasedStaysGone'
  BY <1>20 DEF ExamineLease, Verdict, IsFresh
<1>21. ASSUME NEW r \in Readers, NEW i \in Instances, ExamineTemp(r, i)
      PROVE  ReleasedStaysGone'
  BY <1>21 DEF ExamineTemp, IsAbandoned
<1>22. ASSUME NEW r \in Readers, NEW i \in Instances, ExamineLitter(r, i)
      PROVE  ReleasedStaysGone'
  BY <1>22 DEF ExamineLitter, IsAbandoned
<1>23. ASSUME Tick
      PROVE  ReleasedStaysGone'
  BY <1>23 DEF Tick, Older
<1>24. QED
  BY <1>1, <1>2, <1>3, <1>4, <1>5, <1>6, <1>7, <1>8, <1>9, <1>10,
     <1>11, <1>12, <1>13, <1>14, <1>15, <1>16, <1>17, <1>18, <1>19, <1>20,
     <1>21, <1>22, <1>23
  DEF Next, OwnerStep, JobError, ReleaseStep, ReaderStep

\* Nothing of a process outlives it.
LEMMA DeadIsQuietStep == IInv /\ Next => DeadIsQuiet'
<1> SUFFICES ASSUME IInv, Next PROVE DeadIsQuiet'
  OBVIOUS
<1> USE AgesAreNaturals
    DEF IInv, TypeOK, DeadIsQuiet,
        ownerVars, fileVars, readerVars
<1>1. ASSUME NEW i \in Instances, Spawn(i)
      PROVE  DeadIsQuiet'
  BY <1>1 DEF Spawn
<1>2. ASSUME NEW i \in Instances, Wake(i)
      PROVE  DeadIsQuiet'
  BY <1>2 DEF Wake
<1>3. ASSUME NEW i \in Instances, Heartbeat(i)
      PROVE  DeadIsQuiet'
  BY <1>3 DEF Heartbeat
<1>4. ASSUME NEW i \in Instances, Resume(i)
      PROVE  DeadIsQuiet'
  BY <1>4 DEF Resume
<1>5. ASSUME NEW i \in Instances, Cancelled(i)
      PROVE  DeadIsQuiet'
  BY <1>5 DEF Cancelled
<1>6. ASSUME NEW i \in Instances, JobStart(i)
      PROVE  DeadIsQuiet'
  BY <1>6 DEF JobStart, LockFree
<1>7. ASSUME NEW i \in Instances, JobCreate(i)
      PROVE  DeadIsQuiet'
  BY <1>7 DEF JobCreate
<1>8. ASSUME NEW i \in Instances, JobRefused(i)
      PROVE  DeadIsQuiet'
  BY <1>8 DEF JobRefused
<1>9. ASSUME NEW i \in Instances, JobWriteFails(i)
      PROVE  DeadIsQuiet'
  BY <1>9 DEF JobWriteFails
<1>10. ASSUME NEW i \in Instances, JobClear(i)
      PROVE  DeadIsQuiet'
  BY <1>10 DEF JobClear
<1>11. ASSUME NEW i \in Instances, JobRename(i)
      PROVE  DeadIsQuiet'
  BY <1>11 DEF JobRename
<1>12. ASSUME NEW i \in Instances, JobRenameFails(i)
      PROVE  DeadIsQuiet'
  BY <1>12 DEF JobRenameFails
<1>13. ASSUME NEW i \in Instances, ReleaseBegin(i)
      PROVE  DeadIsQuiet'
  BY <1>13 DEF ReleaseBegin
<1>14. ASSUME NEW i \in Instances, ReleaseLock(i)
      PROVE  DeadIsQuiet'
  BY <1>14 DEF ReleaseLock, LockFree
<1>15. ASSUME NEW i \in Instances, ReleaseRemove(i)
      PROVE  DeadIsQuiet'
  BY <1>15 DEF ReleaseRemove
<1>16. ASSUME NEW i \in Instances, Exit(i)
      PROVE  DeadIsQuiet'
  BY <1>16 DEF Exit
<1>17. ASSUME NEW r \in Readers, ListBegin(r)
      PROVE  DeadIsQuiet'
  BY <1>17 DEF ListBegin, IsFresh
<1>18. ASSUME NEW r \in Readers, RemoveStale(r)
      PROVE  DeadIsQuiet'
  BY <1>18 DEF RemoveStale
<1>19. ASSUME NEW r \in Readers, ListEnd(r)
      PROVE  DeadIsQuiet'
  BY <1>19 DEF ListEnd
<1>20. ASSUME NEW r \in Readers, NEW i \in Instances, ExamineLease(r, i)
      PROVE  DeadIsQuiet'
  BY <1>20 DEF ExamineLease, Verdict, IsFresh
<1>21. ASSUME NEW r \in Readers, NEW i \in Instances, ExamineTemp(r, i)
      PROVE  DeadIsQuiet'
  BY <1>21 DEF ExamineTemp, IsAbandoned
<1>22. ASSUME NEW r \in Readers, NEW i \in Instances, ExamineLitter(r, i)
      PROVE  DeadIsQuiet'
  BY <1>22 DEF ExamineLitter, IsAbandoned
<1>23. ASSUME Tick
      PROVE  DeadIsQuiet'
  BY <1>23 DEF Tick, Older
<1>24. QED
  BY <1>1, <1>2, <1>3, <1>4, <1>5, <1>6, <1>7, <1>8, <1>9, <1>10,
     <1>11, <1>12, <1>13, <1>14, <1>15, <1>16, <1>17, <1>18, <1>19, <1>20,
     <1>21, <1>22, <1>23
  DEF Next, OwnerStep, JobError, ReleaseStep, ReaderStep

\* Nobody refreshes the lease of a dead process.
LEMMA DeadLeasesAgeStep == IInv /\ Next => DeadLeasesAge'
<1> SUFFICES ASSUME IInv, Next PROVE DeadLeasesAge'
  OBVIOUS
<1> USE AgesAreNaturals
    DEF IInv, TypeOK, DeadLeasesAge, DeadIsQuiet,
        ownerVars, fileVars, readerVars
<1>1. ASSUME NEW i \in Instances, Spawn(i)
      PROVE  DeadLeasesAge'
  BY <1>1 DEF Spawn
<1>2. ASSUME NEW i \in Instances, Wake(i)
      PROVE  DeadLeasesAge'
  BY <1>2 DEF Wake
<1>3. ASSUME NEW i \in Instances, Heartbeat(i)
      PROVE  DeadLeasesAge'
  BY <1>3 DEF Heartbeat
<1>4. ASSUME NEW i \in Instances, Resume(i)
      PROVE  DeadLeasesAge'
  BY <1>4 DEF Resume
<1>5. ASSUME NEW i \in Instances, Cancelled(i)
      PROVE  DeadLeasesAge'
  BY <1>5 DEF Cancelled
<1>6. ASSUME NEW i \in Instances, JobStart(i)
      PROVE  DeadLeasesAge'
  BY <1>6 DEF JobStart, LockFree
<1>7. ASSUME NEW i \in Instances, JobCreate(i)
      PROVE  DeadLeasesAge'
  BY <1>7 DEF JobCreate
<1>8. ASSUME NEW i \in Instances, JobRefused(i)
      PROVE  DeadLeasesAge'
  BY <1>8 DEF JobRefused
<1>9. ASSUME NEW i \in Instances, JobWriteFails(i)
      PROVE  DeadLeasesAge'
  BY <1>9 DEF JobWriteFails
<1>10. ASSUME NEW i \in Instances, JobClear(i)
      PROVE  DeadLeasesAge'
  BY <1>10 DEF JobClear
<1>11. ASSUME NEW i \in Instances, JobRename(i)
      PROVE  DeadLeasesAge'
  BY <1>11 DEF JobRename
<1>12. ASSUME NEW i \in Instances, JobRenameFails(i)
      PROVE  DeadLeasesAge'
  BY <1>12 DEF JobRenameFails
<1>13. ASSUME NEW i \in Instances, ReleaseBegin(i)
      PROVE  DeadLeasesAge'
  BY <1>13 DEF ReleaseBegin
<1>14. ASSUME NEW i \in Instances, ReleaseLock(i)
      PROVE  DeadLeasesAge'
  BY <1>14 DEF ReleaseLock, LockFree
<1>15. ASSUME NEW i \in Instances, ReleaseRemove(i)
      PROVE  DeadLeasesAge'
  BY <1>15 DEF ReleaseRemove
<1>16. ASSUME NEW i \in Instances, Exit(i)
      PROVE  DeadLeasesAge'
  <2> SUFFICES ASSUME NEW j \in Instances, proc'[j] = "dead", lease[j] # Absent
               PROVE  gone[j] <= lease[j]
    BY <1>16 DEF Exit
  <2>1. lease[j] \in Nat
    BY DEF TypeOK
  <2>2. CASE j = i
    <3>1. gone[j] = 0
      BY <1>16, <2>2 DEF Exit
    <3>2. QED
      BY <2>1, <3>1
  <2>3. CASE j # i
    BY <1>16, <2>3 DEF Exit
  <2>4. QED
    BY <2>2, <2>3
<1>17. ASSUME NEW r \in Readers, ListBegin(r)
      PROVE  DeadLeasesAge'
  BY <1>17 DEF ListBegin, IsFresh
<1>18. ASSUME NEW r \in Readers, RemoveStale(r)
      PROVE  DeadLeasesAge'
  BY <1>18 DEF RemoveStale
<1>19. ASSUME NEW r \in Readers, ListEnd(r)
      PROVE  DeadLeasesAge'
  BY <1>19 DEF ListEnd
<1>20. ASSUME NEW r \in Readers, NEW i \in Instances, ExamineLease(r, i)
      PROVE  DeadLeasesAge'
  BY <1>20 DEF ExamineLease, Verdict, IsFresh
<1>21. ASSUME NEW r \in Readers, NEW i \in Instances, ExamineTemp(r, i)
      PROVE  DeadLeasesAge'
  BY <1>21 DEF ExamineTemp, IsAbandoned
<1>22. ASSUME NEW r \in Readers, NEW i \in Instances, ExamineLitter(r, i)
      PROVE  DeadLeasesAge'
  BY <1>22 DEF ExamineLitter, IsAbandoned
<1>23. ASSUME Tick
      PROVE  DeadLeasesAge'
  <2> SUFFICES ASSUME NEW i \in Instances, proc[i] = "dead", lease'[i] # Absent
               PROVE  gone'[i] <= lease'[i]
    BY <1>23 DEF Tick
  <2>1. lease'[i] = Older(lease[i]) /\ gone'[i] = Older(gone[i])
    BY <1>23 DEF Tick
  <2>2. lease[i] # Absent
    BY <2>1 DEF Older
  <2>3. lease[i] \in Ages /\ gone[i] \in Ages /\ gone[i] <= lease[i]
    BY <2>2
  <2>4. Older(gone[i]) <= Older(lease[i])
    BY <2>3, OlderIsMonotonic
  <2>5. QED
    BY <2>1, <2>4
<1>24. QED
  BY <1>1, <1>2, <1>3, <1>4, <1>5, <1>6, <1>7, <1>8, <1>9, <1>10,
     <1>11, <1>12, <1>13, <1>14, <1>15, <1>16, <1>17, <1>18, <1>19, <1>20,
     <1>21, <1>22, <1>23
  DEF Next, OwnerStep, JobError, ReleaseStep, ReaderStep

\* Rows are found while listing.
LEMMA RowsBelongToListingsStep == IInv /\ Next => RowsBelongToListings'
<1> SUFFICES ASSUME IInv, Next PROVE RowsBelongToListings'
  OBVIOUS
<1> USE DEF IInv, TypeOK, RowsBelongToListings,
        ownerVars, fileVars, readerVars
<1>1. ASSUME NEW i \in Instances, Spawn(i)
      PROVE  RowsBelongToListings'
  BY <1>1 DEF Spawn
<1>2. ASSUME NEW i \in Instances, Wake(i)
      PROVE  RowsBelongToListings'
  BY <1>2 DEF Wake
<1>3. ASSUME NEW i \in Instances, Heartbeat(i)
      PROVE  RowsBelongToListings'
  BY <1>3 DEF Heartbeat
<1>4. ASSUME NEW i \in Instances, Resume(i)
      PROVE  RowsBelongToListings'
  BY <1>4 DEF Resume
<1>5. ASSUME NEW i \in Instances, Cancelled(i)
      PROVE  RowsBelongToListings'
  BY <1>5 DEF Cancelled
<1>6. ASSUME NEW i \in Instances, JobStart(i)
      PROVE  RowsBelongToListings'
  BY <1>6 DEF JobStart, LockFree
<1>7. ASSUME NEW i \in Instances, JobCreate(i)
      PROVE  RowsBelongToListings'
  BY <1>7 DEF JobCreate
<1>8. ASSUME NEW i \in Instances, JobRefused(i)
      PROVE  RowsBelongToListings'
  BY <1>8 DEF JobRefused
<1>9. ASSUME NEW i \in Instances, JobWriteFails(i)
      PROVE  RowsBelongToListings'
  BY <1>9 DEF JobWriteFails
<1>10. ASSUME NEW i \in Instances, JobClear(i)
      PROVE  RowsBelongToListings'
  BY <1>10 DEF JobClear
<1>11. ASSUME NEW i \in Instances, JobRename(i)
      PROVE  RowsBelongToListings'
  BY <1>11 DEF JobRename
<1>12. ASSUME NEW i \in Instances, JobRenameFails(i)
      PROVE  RowsBelongToListings'
  BY <1>12 DEF JobRenameFails
<1>13. ASSUME NEW i \in Instances, ReleaseBegin(i)
      PROVE  RowsBelongToListings'
  BY <1>13 DEF ReleaseBegin
<1>14. ASSUME NEW i \in Instances, ReleaseLock(i)
      PROVE  RowsBelongToListings'
  BY <1>14 DEF ReleaseLock, LockFree
<1>15. ASSUME NEW i \in Instances, ReleaseRemove(i)
      PROVE  RowsBelongToListings'
  BY <1>15 DEF ReleaseRemove
<1>16. ASSUME NEW i \in Instances, Exit(i)
      PROVE  RowsBelongToListings'
  BY <1>16 DEF Exit
<1>17. ASSUME NEW r \in Readers, ListBegin(r)
      PROVE  RowsBelongToListings'
  BY <1>17 DEF ListBegin, IsFresh
<1>18. ASSUME NEW r \in Readers, RemoveStale(r)
      PROVE  RowsBelongToListings'
  BY <1>18 DEF RemoveStale
<1>19. ASSUME NEW r \in Readers, ListEnd(r)
      PROVE  RowsBelongToListings'
  BY <1>19 DEF ListEnd
<1>20. ASSUME NEW r \in Readers, NEW i \in Instances, ExamineLease(r, i)
      PROVE  RowsBelongToListings'
  BY <1>20 DEF ExamineLease, Verdict, IsFresh
<1>21. ASSUME NEW r \in Readers, NEW i \in Instances, ExamineTemp(r, i)
      PROVE  RowsBelongToListings'
  BY <1>21 DEF ExamineTemp, IsAbandoned
<1>22. ASSUME NEW r \in Readers, NEW i \in Instances, ExamineLitter(r, i)
      PROVE  RowsBelongToListings'
  BY <1>22 DEF ExamineLitter, IsAbandoned
<1>23. ASSUME Tick
      PROVE  RowsBelongToListings'
  BY <1>23 DEF Tick, Older
<1>24. QED
  BY <1>1, <1>2, <1>3, <1>4, <1>5, <1>6, <1>7, <1>8, <1>9, <1>10,
     <1>11, <1>12, <1>13, <1>14, <1>15, <1>16, <1>17, <1>18, <1>19, <1>20,
     <1>21, <1>22, <1>23
  DEF Next, OwnerStep, JobError, ReleaseStep, ReaderStep

\* A row is found only while its record is fresh.
LEMMA CrashedRowsExpireStep == IInv /\ Next => CrashedRowsExpire'
<1> SUFFICES ASSUME IInv, Next PROVE CrashedRowsExpire'
  OBVIOUS
<1> USE AgesAreNaturals
    DEF IInv, TypeOK, CrashedRowsExpire, DeadIsQuiet, DeadLeasesAge, RowsBelongToListings,
        ownerVars, fileVars, readerVars
<1>1. ASSUME NEW i \in Instances, Spawn(i)
      PROVE  CrashedRowsExpire'
  BY <1>1 DEF Spawn
<1>2. ASSUME NEW i \in Instances, Wake(i)
      PROVE  CrashedRowsExpire'
  BY <1>2 DEF Wake
<1>3. ASSUME NEW i \in Instances, Heartbeat(i)
      PROVE  CrashedRowsExpire'
  BY <1>3 DEF Heartbeat
<1>4. ASSUME NEW i \in Instances, Resume(i)
      PROVE  CrashedRowsExpire'
  BY <1>4 DEF Resume
<1>5. ASSUME NEW i \in Instances, Cancelled(i)
      PROVE  CrashedRowsExpire'
  BY <1>5 DEF Cancelled
<1>6. ASSUME NEW i \in Instances, JobStart(i)
      PROVE  CrashedRowsExpire'
  BY <1>6 DEF JobStart, LockFree
<1>7. ASSUME NEW i \in Instances, JobCreate(i)
      PROVE  CrashedRowsExpire'
  BY <1>7 DEF JobCreate
<1>8. ASSUME NEW i \in Instances, JobRefused(i)
      PROVE  CrashedRowsExpire'
  BY <1>8 DEF JobRefused
<1>9. ASSUME NEW i \in Instances, JobWriteFails(i)
      PROVE  CrashedRowsExpire'
  BY <1>9 DEF JobWriteFails
<1>10. ASSUME NEW i \in Instances, JobClear(i)
      PROVE  CrashedRowsExpire'
  BY <1>10 DEF JobClear
<1>11. ASSUME NEW i \in Instances, JobRename(i)
      PROVE  CrashedRowsExpire'
  BY <1>11 DEF JobRename
<1>12. ASSUME NEW i \in Instances, JobRenameFails(i)
      PROVE  CrashedRowsExpire'
  BY <1>12 DEF JobRenameFails
<1>13. ASSUME NEW i \in Instances, ReleaseBegin(i)
      PROVE  CrashedRowsExpire'
  BY <1>13 DEF ReleaseBegin
<1>14. ASSUME NEW i \in Instances, ReleaseLock(i)
      PROVE  CrashedRowsExpire'
  BY <1>14 DEF ReleaseLock, LockFree
<1>15. ASSUME NEW i \in Instances, ReleaseRemove(i)
      PROVE  CrashedRowsExpire'
  BY <1>15 DEF ReleaseRemove
<1>16. ASSUME NEW i \in Instances, Exit(i)
      PROVE  CrashedRowsExpire'
  BY <1>16 DEF Exit
<1>17. ASSUME NEW r \in Readers, ListBegin(r)
      PROVE  CrashedRowsExpire'
  BY <1>17 DEF ListBegin, IsFresh
<1>18. ASSUME NEW r \in Readers, RemoveStale(r)
      PROVE  CrashedRowsExpire'
  BY <1>18 DEF RemoveStale
<1>19. ASSUME NEW r \in Readers, ListEnd(r)
      PROVE  CrashedRowsExpire'
  BY <1>19 DEF ListEnd
<1>20. ASSUME NEW r \in Readers, NEW i \in Instances, ExamineLease(r, i)
      PROVE  CrashedRowsExpire'
  <2> SUFFICES ASSUME NEW q \in Readers, NEW j \in rows'[q]
               PROVE  gone[j] <= Ttl + elapsed[q]
    BY <1>20 DEF ExamineLease
  <2>1. CASE j \in rows[q]
    BY <2>1
  <2>2. CASE j \notin rows[q]
    <3>1. j = i /\ q = r /\ Verdict(i, elapsed[r]) = "row"
      BY <1>20, <2>2 DEF ExamineLease
    <3>2. lease[i] # Absent /\ lease[i] <= Ttl + elapsed[r]
      BY <3>1 DEF Verdict, IsFresh
    <3>3. gone[i] = 0 \/ gone[i] <= lease[i]
      BY <3>2
    <3>4. gone[i] \in Ages /\ lease[i] \in Ages /\ elapsed[r] \in 0 .. MaxListing
      BY <3>2
    <3>5. gone[i] \in Nat /\ lease[i] \in Nat
      BY <3>4, AgesAreNaturals
    <3>6. elapsed[r] \in Nat
      BY <3>4, TimesAreNaturals
    <3>7. gone[i] <= Ttl + elapsed[r]
      BY <3>2, <3>3, <3>5, <3>6, TimesAreNaturals
    <3>8. QED
      BY <3>1, <3>7
  <2>3. QED
    BY <2>1, <2>2
<1>21. ASSUME NEW r \in Readers, NEW i \in Instances, ExamineTemp(r, i)
      PROVE  CrashedRowsExpire'
  BY <1>21 DEF ExamineTemp, IsAbandoned
<1>22. ASSUME NEW r \in Readers, NEW i \in Instances, ExamineLitter(r, i)
      PROVE  CrashedRowsExpire'
  BY <1>22 DEF ExamineLitter, IsAbandoned
<1>23. ASSUME Tick
      PROVE  CrashedRowsExpire'
  <2> SUFFICES ASSUME NEW r \in Readers, NEW i \in rows[r]
               PROVE  gone'[i] <= Ttl + elapsed'[r]
    BY <1>23 DEF Tick
  <2>1. i \in Instances /\ listing[r] /\ gone[i] <= Ttl + elapsed[r]
    OBVIOUS
  <2>2. gone[i] \in Ages /\ elapsed[r] \in 0 .. MaxListing
    BY <2>1
  <2>3. gone'[i] \in Ages /\ gone'[i] <= gone[i] + 1
    <3>1. CASE proc[i] = "dead"
      BY <1>23, <2>1, <2>2, <3>1, OlderAges DEF Tick
    <3>2. CASE proc[i] # "dead"
      BY <1>23, <2>1, <2>2, <3>2 DEF Tick
    <3>3. QED
      BY <3>1, <3>2
  <2>4. elapsed'[r] = elapsed[r] + 1
    BY <1>23, <2>1 DEF Tick
  <2>5. gone[i] \in Nat /\ gone'[i] \in Nat
    BY <2>2, <2>3, AgesAreNaturals
  <2>6. elapsed[r] \in Nat
    BY <2>2, TimesAreNaturals
  <2>7. QED
    BY <2>1, <2>3, <2>4, <2>5, <2>6, TimesAreNaturals
<1>24. QED
  BY <1>1, <1>2, <1>3, <1>4, <1>5, <1>6, <1>7, <1>8, <1>9, <1>10,
     <1>11, <1>12, <1>13, <1>14, <1>15, <1>16, <1>17, <1>18, <1>19, <1>20,
     <1>21, <1>22, <1>23
  DEF Next, OwnerStep, JobError, ReleaseStep, ReaderStep

-----------------------------------------------------------------------------
\* Nothing has been written, read or released when the system begins.
LEMMA InitIInv == Init => IInv
<1> SUFFICES ASSUME Init PROVE IInv
  OBVIOUS
<1>1. TypeOK
  BY AgesAreNaturals, TimesAreNaturals DEF Init, TypeOK
<1>2. QED
  BY <1>1, AgesAreNaturals DEF Init, IInv, ReleaseExcludesPublish, ReleasedStaysGone,
     DeadIsQuiet, DeadLeasesAge, RowsBelongToListings, CrashedRowsExpire

\* Every step keeps the invariant.
LEMMA NextIInv == IInv /\ [Next]_vars => IInv'
<1>1. IInv /\ Next => IInv'
  BY TypeOKStep, ReleaseExcludesPublishStep, ReleasedStaysGoneStep, DeadIsQuietStep,
     DeadLeasesAgeStep, RowsBelongToListingsStep, CrashedRowsExpireStep
  DEF IInv
<1>2. IInv /\ UNCHANGED vars => IInv'
  BY DEF vars, IInv, TypeOK, ReleaseExcludesPublish, ReleasedStaysGone,
     DeadIsQuiet, DeadLeasesAge, RowsBelongToListings, CrashedRowsExpire
<1>3. QED
  BY <1>1, <1>2

\* Every reachable state satisfies the inductive invariant.
THEOREM Invariant == Spec => []IInv
<1>1. QED
  BY InitIInv, NextIInv, PTL DEF Spec

\* Every age stays in its range, whatever the TTL.
THEOREM TypeCorrect == Spec => []TypeOK
<1>1. IInv => TypeOK
  BY DEF IInv
<1>2. QED
  BY <1>1, Invariant, PTL

\* StatusLease::release wins against every publish, whenever it was begun: the
\* check of the flag and the write are under the mutex that release takes.
THEOREM ReleaseIsFinal == Spec => []ReleasedStaysGone
<1>1. IInv => ReleasedStaysGone
  BY DEF IInv
<1>2. QED
  BY <1>1, Invariant, PTL

\* list() shows a process for at most the TTL after it has ended.
THEOREM DeadPeersDisappear == Spec => []CrashedRowsExpire
<1>1. IInv => CrashedRowsExpire
  BY DEF IInv
<1>2. QED
  BY <1>1, Invariant, PTL

-----------------------------------------------------------------------------
\* No reader is about to remove the lease of a build of another version.
NewerAreNotDoomed == \A r \in Readers : doomed[r] \notin Newer

\* Only a reader marks a lease for removal, or removes it for its age.
LEMMA DoomedChanges ==
  ASSUME Next
  PROVE  \/ UNCHANGED doomed
         \/ \E r \in Readers, i \in Instances : ExamineLease(r, i)
         \/ \E r \in Readers : RemoveStale(r)
<1> USE DEF readerVars
<1>1. ASSUME NEW i \in Instances, Spawn(i) \/ ReleaseBegin(i) \/ Exit(i)
      PROVE  UNCHANGED doomed
  BY <1>1 DEF Spawn, ReleaseBegin, Exit
<1>2. ASSUME NEW i \in Instances, OwnerStep(i)
      PROVE  UNCHANGED doomed
  BY <1>2 DEF OwnerStep, Wake, Heartbeat, Resume, Cancelled, JobStart, JobCreate, JobClear,
     JobRename
<1>3. ASSUME NEW i \in Instances, JobError(i) \/ ReleaseStep(i)
      PROVE  UNCHANGED doomed
  BY <1>3 DEF JobError, JobRefused, JobWriteFails, JobRenameFails, ReleaseStep, ReleaseLock,
     ReleaseRemove
<1>4. ASSUME NEW r \in Readers, ListBegin(r) \/ ListEnd(r)
      PROVE  UNCHANGED doomed
  BY <1>4 DEF ListBegin, ListEnd
<1>5. ASSUME NEW r \in Readers, NEW i \in Instances, ExamineTemp(r, i) \/ ExamineLitter(r, i)
      PROVE  UNCHANGED doomed
  BY <1>5 DEF ExamineTemp, ExamineLitter
<1>6. ASSUME Tick
      PROVE  UNCHANGED doomed
  BY <1>6 DEF Tick
<1>7. QED
  BY <1>1, <1>2, <1>3, <1>4, <1>5, <1>6 DEF Next, ReaderStep

\* A lease file changes in a rename, a removal by its owner or by a reader, or
\* with time.
LEMMA LeasesChange ==
  ASSUME Next
  PROVE  \/ UNCHANGED lease
         \/ \E i \in Instances : JobClear(i) \/ JobRename(i) \/ ReleaseRemove(i)
         \/ \E r \in Readers : RemoveStale(r)
         \/ Tick
<1> USE DEF fileVars
<1>1. ASSUME NEW i \in Instances, Spawn(i) \/ ReleaseBegin(i) \/ Exit(i)
      PROVE  UNCHANGED lease
  BY <1>1 DEF Spawn, ReleaseBegin, Exit
<1>2. ASSUME NEW i \in Instances, OwnerStep(i)
      PROVE  UNCHANGED lease \/ JobClear(i) \/ JobRename(i)
  BY <1>2 DEF OwnerStep, Wake, Heartbeat, Resume, Cancelled, JobStart, JobCreate
<1>3. ASSUME NEW i \in Instances, JobError(i) \/ ReleaseStep(i)
      PROVE  UNCHANGED lease \/ ReleaseRemove(i)
  BY <1>3 DEF JobError, JobRefused, JobWriteFails, JobRenameFails, ReleaseStep, ReleaseLock
<1>4. ASSUME NEW r \in Readers, ListBegin(r) \/ ListEnd(r)
      PROVE  UNCHANGED lease
  BY <1>4 DEF ListBegin, ListEnd
<1>5. ASSUME NEW r \in Readers, NEW i \in Instances,
             ExamineLease(r, i) \/ ExamineTemp(r, i) \/ ExamineLitter(r, i)
      PROVE  UNCHANGED lease
  BY <1>5 DEF ExamineLease, ExamineTemp, ExamineLitter
<1>6. QED
  BY <1>1, <1>2, <1>3, <1>4, <1>5 DEF Next, ReaderStep

\* A reader dooms a lease only after it has read it, and skips the version of
\* another build if it can parse the record.
LEMMA NewerAreNotDoomedStep ==
  NewerParses /\ IInv /\ NewerAreNotDoomed /\ [Next]_vars => NewerAreNotDoomed'
<1> SUFFICES ASSUME NewerParses, IInv, NewerAreNotDoomed, [Next]_vars
             PROVE  NewerAreNotDoomed'
  OBVIOUS
<1> USE NewerAreInstances, AbsentIsNothing DEF IInv, TypeOK, NewerAreNotDoomed
<1>1. ASSUME NEW r \in Readers, NEW i \in Instances, ExamineLease(r, i)
      PROVE  NewerAreNotDoomed'
  <2>1. Verdict(i, elapsed[r]) = "remove" => i \notin Newer
    BY DEF Verdict
  <2>2. QED
    BY <1>1, <2>1 DEF ExamineLease
<1>2. ASSUME NEW r \in Readers, RemoveStale(r)
      PROVE  NewerAreNotDoomed'
  BY <1>2 DEF RemoveStale
<1>3. CASE UNCHANGED doomed
  BY <1>3
<1>4. CASE UNCHANGED vars
  BY <1>3, <1>4 DEF vars
<1>5. QED
  BY <1>1, <1>2, <1>3, <1>4, DoomedChanges

\* The lease of another version goes only in the hands of its owner.
LEMMA NewerLeavesByItsOwner ==
  IInv /\ NewerAreNotDoomed /\ [Next]_vars =>
    [\A i \in Newer :
       lease[i] # Absent /\ lease'[i] = Absent =>
         release[i] = "removing" \/ job[i] = "clear"]_vars
<1> SUFFICES ASSUME IInv, NewerAreNotDoomed, Next, NEW i \in Newer,
                    lease[i] # Absent, lease'[i] = Absent
             PROVE  release[i] = "removing" \/ job[i] = "clear"
  OBVIOUS
<1> USE NewerAreInstances, AbsentIsNothing, AgesAreNaturals DEF IInv, TypeOK, NewerAreNotDoomed
<1>1. ASSUME NEW j \in Instances, JobClear(j)
      PROVE  job[i] = "clear"
  BY <1>1 DEF JobClear
<1>2. ASSUME NEW j \in Instances, JobRename(j)
      PROVE  FALSE
  BY <1>2 DEF JobRename
<1>3. ASSUME NEW j \in Instances, ReleaseRemove(j)
      PROVE  release[i] = "removing"
  BY <1>3 DEF ReleaseRemove
<1>4. ASSUME NEW r \in Readers, RemoveStale(r)
      PROVE  FALSE
  BY <1>4 DEF RemoveStale
<1>5. ASSUME Tick
      PROVE  FALSE
  <2>1. lease'[i] = Older(lease[i])
    BY <1>5 DEF Tick
  <2>2. QED
    BY <2>1, OlderAges
<1>6. CASE UNCHANGED lease
  BY <1>6
<1>7. QED
  BY <1>1, <1>2, <1>3, <1>4, <1>5, <1>6, LeasesChange

\* If list() can parse the record of another build, as the comment in it expects,
\* it leaves the lease alone; without the premise the registry_newer run refutes it.
THEOREM ParsedVersionsCoexist ==
  ASSUME NewerParses
  PROVE  Spec => VersionsCoexist
<1>1. Init => NewerAreNotDoomed
  BY NewerAreInstances, AbsentIsNothing DEF Init, NewerAreNotDoomed
<1>2. IInv /\ NewerAreNotDoomed /\ [Next]_vars => NewerAreNotDoomed'
  BY NewerAreNotDoomedStep
<1>3. QED
  BY <1>1, <1>2, NewerLeavesByItsOwner, Invariant, PTL DEF Spec, VersionsCoexist

-----------------------------------------------------------------------------
(* One reader.                                                             *)

\* One process lists, and a publish replaces the lease by the rename alone.
OneReader == \A r, s \in Readers : r = s

\* The record in a lease is of the last heartbeat, or older.
LeasesAreOfAStamp ==
  \A i \in Instances : lease[i] # Absent => stamp[i] <= lease[i]

\* A reader is about to remove nothing but a lease it has come to.
DoomedHaveBeenRead ==
  \A r \in Readers :
    /\ ~listing[r] => doomed[r] = Absent
    /\ <<doomed[r], "lease">> \notin todo[r]

\* What a listing owes and has yet to come to is still there, and fresh.
OwedAreFresh ==
  \A r \in Readers : \A i \in owed[r] :
    /\ i \notin Newer
    /\ <<i, "lease">> \in todo[r] => lease[i] # Absent /\ lease[i] <= Ttl

FInv ==
  /\ \A i \in Instances : job[i] # "clear"
  /\ LeasesAreOfAStamp
  /\ DoomedHaveBeenRead
  /\ OwedAreFresh
  /\ FreshPeersAreListed

\* Every step of one reader and of every process keeps it.
LEMMA OneReaderStep == OneReader /\ ~Windows /\ IInv /\ FInv /\ Next => FInv'
<1> SUFFICES ASSUME OneReader, ~Windows, IInv, FInv, Next PROVE FInv'
  OBVIOUS
<1> USE AgesAreNaturals, TimesAreNaturals, AbsentIsNothing
    DEF ownerVars, fileVars, readerVars
<1>a. TypeOK
  BY DEF IInv
<1>b. /\ \A i \in Instances : job[i] # "clear"
      /\ LeasesAreOfAStamp /\ DoomedHaveBeenRead /\ OwedAreFresh /\ FreshPeersAreListed
  BY DEF FInv
<1>c. \A r, s \in Readers : r = s
  BY DEF OneReader
<1>d. /\ \A i \in Instances : stamp[i] \in Nat /\ (lease[i] # Absent => lease[i] \in Nat)
      /\ \A r \in Readers : elapsed[r] \in Nat
  <2>1. /\ \A i \in Instances : stamp[i] \in Ages /\ (lease[i] # Absent => lease[i] \in Ages)
        /\ \A r \in Readers : elapsed[r] \in 0 .. MaxListing
    BY <1>a DEF TypeOK
  <2>2. \A n \in 0 .. MaxListing : n \in Nat
    OBVIOUS
  <2> QED
    BY <2>1, <2>2
<1>1. ASSUME NEW i \in Instances, Spawn(i)
      PROVE  FInv'
  BY <1>a, <1>b, <1>1 DEF FInv, LeasesAreOfAStamp, DoomedHaveBeenRead,
     OwedAreFresh, FreshPeersAreListed, TypeOK, Spawn
<1>2. ASSUME NEW i \in Instances, Wake(i)
      PROVE  FInv'
  BY <1>a, <1>b, <1>2 DEF FInv, LeasesAreOfAStamp, DoomedHaveBeenRead,
     OwedAreFresh, FreshPeersAreListed, TypeOK, Wake
<1>3. ASSUME NEW i \in Instances, Heartbeat(i)
      PROVE  FInv'
  <2>1. LeasesAreOfAStamp'
    <3>1. stamp'[i] = 0 /\ lease' = lease /\ \A j \in Instances \ {i} : stamp'[j] = stamp[j]
      BY <1>a, <1>3 DEF Heartbeat, TypeOK
    <3> QED
      BY <1>b, <1>d, <3>1 DEF LeasesAreOfAStamp
  <2> QED
    BY <1>a, <1>b, <1>3, <2>1 DEF FInv, DoomedHaveBeenRead, OwedAreFresh,
       FreshPeersAreListed, TypeOK, Heartbeat
<1>4. ASSUME NEW i \in Instances, Resume(i)
      PROVE  FInv'
  BY <1>a, <1>b, <1>4 DEF FInv, LeasesAreOfAStamp, DoomedHaveBeenRead,
     OwedAreFresh, FreshPeersAreListed, TypeOK, Resume
<1>5. ASSUME NEW i \in Instances, Cancelled(i)
      PROVE  FInv'
  BY <1>a, <1>b, <1>5 DEF FInv, LeasesAreOfAStamp, DoomedHaveBeenRead,
     OwedAreFresh, FreshPeersAreListed, TypeOK, Cancelled
<1>6. ASSUME NEW i \in Instances, JobStart(i)
      PROVE  FInv'
  BY <1>a, <1>b, <1>6 DEF FInv, LeasesAreOfAStamp, DoomedHaveBeenRead,
     OwedAreFresh, FreshPeersAreListed, TypeOK, JobStart
<1>7. ASSUME NEW i \in Instances, JobCreate(i)
      PROVE  FInv'
  BY <1>a, <1>b, <1>7 DEF FInv, LeasesAreOfAStamp, DoomedHaveBeenRead,
     OwedAreFresh, FreshPeersAreListed, TypeOK, JobCreate
<1>8. ASSUME NEW i \in Instances, JobRefused(i)
      PROVE  FInv'
  BY <1>a, <1>b, <1>8 DEF FInv, LeasesAreOfAStamp, DoomedHaveBeenRead,
     OwedAreFresh, FreshPeersAreListed, TypeOK, JobRefused
<1>9. ASSUME NEW i \in Instances, JobWriteFails(i)
      PROVE  FInv'
  BY <1>a, <1>b, <1>9 DEF FInv, LeasesAreOfAStamp, DoomedHaveBeenRead,
     OwedAreFresh, FreshPeersAreListed, TypeOK, JobWriteFails
<1>10. ASSUME NEW i \in Instances, JobClear(i)
      PROVE  FInv'
  BY <1>a, <1>b, <1>10 DEF FInv, LeasesAreOfAStamp, DoomedHaveBeenRead,
     OwedAreFresh, FreshPeersAreListed, TypeOK, JobClear
<1>11. ASSUME NEW i \in Instances, JobRename(i)
      PROVE  FInv'
  <2>1. /\ lease'[i] = IF temp[i] # Absent THEN stamp[i] ELSE lease[i]
        /\ \A j \in Instances \ {i} : lease'[j] = lease[j]
        /\ UNCHANGED <<stamp, listing, todo, doomed, rows, owed>>
    BY <1>a, <1>11 DEF JobRename, TypeOK
  <2>2. stamp[i] \in Nat /\ (lease[i] # Absent => lease[i] \in Nat)
    BY <1>d
  <2>3. LeasesAreOfAStamp'
    BY <1>b, <2>1, <2>2 DEF LeasesAreOfAStamp
  <2>4. OwedAreFresh'
    <3>1. \A j \in Instances :
            lease[j] # Absent /\ lease[j] <= Ttl => lease'[j] # Absent /\ lease'[j] <= Ttl
      BY <1>b, <2>1, <2>2 DEF LeasesAreOfAStamp
    <3>2. \A r \in Readers : owed[r] \subseteq Instances
      BY <1>a DEF TypeOK
    <3> QED
      BY <1>b, <2>1, <3>1, <3>2 DEF OwedAreFresh
  <2> QED
    <3>1. \A j \in Instances : job'[j] # "clear"
      BY <1>a, <1>b, <1>11 DEF JobRename, TypeOK
    <3>2. DoomedHaveBeenRead' /\ FreshPeersAreListed'
      BY <1>b, <2>1 DEF DoomedHaveBeenRead, FreshPeersAreListed
    <3> QED
      BY <2>3, <2>4, <3>1, <3>2 DEF FInv
<1>12. ASSUME NEW i \in Instances, JobRenameFails(i)
      PROVE  FInv'
  BY <1>a, <1>b, <1>12 DEF FInv, LeasesAreOfAStamp, DoomedHaveBeenRead,
     OwedAreFresh, FreshPeersAreListed, TypeOK, JobRenameFails
<1>13. ASSUME NEW i \in Instances, ReleaseBegin(i)
      PROVE  FInv'
  BY <1>a, <1>b, <1>13 DEF FInv, LeasesAreOfAStamp, DoomedHaveBeenRead,
     OwedAreFresh, FreshPeersAreListed, TypeOK, ReleaseBegin
<1>14. ASSUME NEW i \in Instances, ReleaseLock(i)
      PROVE  FInv'
  BY <1>a, <1>b, <1>14 DEF FInv, LeasesAreOfAStamp, DoomedHaveBeenRead,
     OwedAreFresh, FreshPeersAreListed, TypeOK, ReleaseLock
<1>15. ASSUME NEW i \in Instances, ReleaseRemove(i)
      PROVE  FInv'
  BY <1>a, <1>b, <1>15 DEF FInv, LeasesAreOfAStamp, DoomedHaveBeenRead,
     OwedAreFresh, FreshPeersAreListed, TypeOK, ReleaseRemove
<1>16. ASSUME NEW i \in Instances, Exit(i)
      PROVE  FInv'
  BY <1>a, <1>b, <1>16 DEF FInv, LeasesAreOfAStamp, DoomedHaveBeenRead,
     OwedAreFresh, FreshPeersAreListed, TypeOK, Exit
<1>17. ASSUME NEW r \in Readers, ListBegin(r)
      PROVE  FInv'
  <2>1. doomed[r] \notin Instances /\ doomed' = doomed
    BY <1>b, <1>17 DEF ListBegin, DoomedHaveBeenRead
  <2>2. /\ listing' = [listing EXCEPT ![r] = TRUE] /\ todo' = [todo EXCEPT ![r] = Entries]
        /\ owed' = [owed EXCEPT ![r] =
                      {i \in Instances \ Newer : lease[i] # Absent /\ lease[i] <= Ttl + 0}]
        /\ UNCHANGED <<lease, stamp, job>>
    BY <1>17 DEF ListBegin, IsFresh
  <2>3. /\ \A s \in Readers : s = r
        /\ listing'[r] = TRUE /\ todo'[r] = Entries
        /\ owed'[r] = {i \in Instances \ Newer : lease[i] # Absent /\ lease[i] <= Ttl + 0}
    BY <1>a, <1>c, <2>2 DEF TypeOK
  <2>4. DoomedHaveBeenRead'
    BY <2>1, <2>3 DEF DoomedHaveBeenRead, Entries
  <2>5. OwedAreFresh'
    BY <2>2, <2>3 DEF OwedAreFresh
  <2>6. FreshPeersAreListed'
    BY <2>3 DEF FreshPeersAreListed, Entries, Kinds
  <2> QED
    BY <1>b, <2>2, <2>4, <2>5, <2>6 DEF FInv, LeasesAreOfAStamp
<1>18. ASSUME NEW r \in Readers, RemoveStale(r)
      PROVE  FInv'
  <2>1. /\ \A s \in Readers : s = r
        /\ \A i \in Instances : i # doomed[r] => lease'[i] = lease[i]
        /\ \A i \in Instances : lease'[i] # Absent => lease'[i] = lease[i]
        /\ UNCHANGED <<stamp, job, listing, todo, rows, owed>>
    BY <1>a, <1>c, <1>18 DEF RemoveStale, TypeOK
  <2>2. doomed'[r] = Absent /\ \A i \in owed[r] : i \in Instances
    BY <1>a, <1>18 DEF RemoveStale, TypeOK
  <2>3. <<Absent, "lease">> \notin todo[r]
    BY <1>a DEF TypeOK, Entries
  <2>4. DoomedHaveBeenRead' /\ LeasesAreOfAStamp'
    BY <1>b, <2>1, <2>2, <2>3 DEF DoomedHaveBeenRead, LeasesAreOfAStamp
  <2>5. OwedAreFresh'
    BY <1>b, <2>1, <2>2 DEF OwedAreFresh, DoomedHaveBeenRead
  <2> QED
    BY <1>b, <2>1, <2>4, <2>5 DEF FInv, FreshPeersAreListed
<1>19. ASSUME NEW r \in Readers, ListEnd(r)
      PROVE  FInv'
  BY <1>a, <1>b, <1>c, <1>19 DEF FInv, LeasesAreOfAStamp, DoomedHaveBeenRead,
     OwedAreFresh, FreshPeersAreListed, TypeOK, ListEnd
<1>20. ASSUME NEW r \in Readers, NEW i \in Instances, ExamineLease(r, i)
      PROVE  FInv'
  <2>1. /\ \A s \in Readers : s = r
        /\ <<i, "lease">> \in todo[r] /\ todo'[r] = todo[r] \ {<<i, "lease">>}
        /\ rows'[r] = IF Verdict(i, elapsed[r]) = "row" THEN rows[r] \cup {i} ELSE rows[r]
        /\ doomed'[r] = IF Verdict(i, elapsed[r]) = "remove" THEN i ELSE Absent
        /\ UNCHANGED <<lease, stamp, job, listing, owed>>
    BY <1>a, <1>c, <1>20 DEF ExamineLease, TypeOK
  <2>2. listing[r] /\ <<Absent, "lease">> \notin todo[r]
    BY <1>a, <2>1 DEF TypeOK, Entries, IInv, RowsBelongToListings
  <2>3. DoomedHaveBeenRead'
    BY <2>1, <2>2 DEF DoomedHaveBeenRead
  <2>4. i \in owed[r] => Verdict(i, elapsed[r]) = "row"
    <3>1. elapsed[r] \in Nat /\ (lease[i] # Absent => lease[i] \in Nat)
      BY <1>d
    <3>2. i \in owed[r] => i \notin Newer /\ lease[i] # Absent /\ lease[i] <= Ttl + elapsed[r]
      BY <1>b, <2>1, <3>1 DEF OwedAreFresh
    <3> QED
      BY <3>2 DEF Verdict, IsFresh
  <2>5. OwedAreFresh' /\ FreshPeersAreListed'
    BY <1>b, <2>1, <2>4 DEF OwedAreFresh, FreshPeersAreListed
  <2> QED
    BY <1>b, <2>1, <2>3, <2>5 DEF FInv, LeasesAreOfAStamp
<1>21. ASSUME NEW r \in Readers, NEW i \in Instances, ExamineTemp(r, i)
      PROVE  FInv'
  BY <1>a, <1>b, <1>c, <1>21 DEF FInv, LeasesAreOfAStamp, DoomedHaveBeenRead,
     OwedAreFresh, FreshPeersAreListed, TypeOK, ExamineTemp
<1>22. ASSUME NEW r \in Readers, NEW i \in Instances, ExamineLitter(r, i)
      PROVE  FInv'
  BY <1>a, <1>b, <1>c, <1>22 DEF FInv, LeasesAreOfAStamp, DoomedHaveBeenRead,
     OwedAreFresh, FreshPeersAreListed, TypeOK, ExamineLitter
<1>23. ASSUME Tick
      PROVE  FInv'
  <2>1. LeasesAreOfAStamp'
    <3> SUFFICES ASSUME NEW i \in Instances, lease'[i] # Absent
                 PROVE  stamp'[i] <= lease'[i]
      BY DEF LeasesAreOfAStamp
    <3>1. lease'[i] = Older(lease[i]) /\ stamp'[i] = Older(stamp[i])
      BY <1>23 DEF Tick
    <3>2. lease[i] \in Ages /\ stamp[i] \in Ages /\ stamp[i] <= lease[i]
      <4>1. lease[i] \in Ages \cup {Absent} /\ stamp[i] \in Ages
        BY <1>a DEF TypeOK
      <4>2. lease[i] # Absent
        BY <3>1 DEF Older
      <4> QED
        BY <1>b, <4>1, <4>2 DEF LeasesAreOfAStamp
    <3> QED
      BY <3>1, <3>2, OlderIsMonotonic
  <2>2. OwedAreFresh'
    <3> SUFFICES ASSUME NEW r \in Readers, NEW i \in owed'[r]
                 PROVE  /\ i \notin Newer
                        /\ <<i, "lease">> \in todo'[r] =>
                             lease'[i] # Absent /\ lease'[i] <= Ttl
      BY DEF OwedAreFresh
    <3>1. /\ i \in owed[r] /\ (lease[i] # Absent => lease[i] < Ttl)
          /\ todo' = todo /\ i \in Instances /\ lease'[i] = Older(lease[i])
      BY <1>a, <1>23 DEF Tick, TypeOK
    <3>2. <<i, "lease">> \in todo[r] => lease[i] \in Ages /\ lease[i] + 1 <= Ttl
      <4>1. lease[i] \in Ages \cup {Absent}
        BY <1>a, <3>1 DEF TypeOK
      <4>2. <<i, "lease">> \in todo[r] => lease[i] # Absent
        BY <1>b, <3>1 DEF OwedAreFresh
      <4>3. lease[i] \in Nat /\ lease[i] < Ttl => lease[i] + 1 <= Ttl
        BY TimesAreNaturals
      <4> QED
        BY <1>d, <3>1, <4>1, <4>2, <4>3
    <3>3. lease[i] \in Ages => Older(lease[i]) \in Ages /\ Older(lease[i]) <= lease[i] + 1
      BY OlderAges
    <3>4. i \notin Newer
      BY <1>b, <3>1 DEF OwedAreFresh
    <3>5. \A n \in Ages : n \in Nat /\ n # Absent
      OBVIOUS
    <3>6. <<i, "lease">> \in todo[r] => lease'[i] \in Ages /\ lease'[i] <= Ttl
      <4> SUFFICES ASSUME <<i, "lease">> \in todo[r]
                   PROVE  lease'[i] \in Ages /\ lease'[i] <= Ttl
        BY <3>1
      <4> DEFINE a == lease[i]
                 b == Older(a)
      <4>1. lease'[i] = b
        BY <3>1
      <4>2. a \in Nat /\ b \in Nat /\ b \in Ages /\ b <= a + 1 /\ a + 1 <= Ttl
        BY <3>2, <3>3, <3>5
      <4> HIDE DEF a, b
      <4> QED
        BY <4>1, <4>2, TimesAreNaturals
    <3> QED
      BY <3>1, <3>4, <3>5, <3>6
  <2>3. DoomedHaveBeenRead' /\ FreshPeersAreListed' /\ \A i \in Instances : job'[i] # "clear"
    BY <1>a, <1>b, <1>23 DEF Tick, DoomedHaveBeenRead, FreshPeersAreListed, TypeOK
  <2> QED
    BY <2>1, <2>2, <2>3 DEF FInv
<1> QED
  BY <1>1, <1>2, <1>3, <1>4, <1>5, <1>6, <1>7, <1>8, <1>9, <1>10, <1>11, <1>12,
     <1>13, <1>14, <1>15, <1>16, <1>17, <1>18, <1>19, <1>20, <1>21, <1>22, <1>23
  DEF Next, OwnerStep, JobError, ReleaseStep, ReaderStep

\* Where the rename replaces the lease in one step and one process lists, a
\* listing shows every peer whose lease has been fresh since it began, however
\* slow the publishes are and whatever file operations fail.  A second reader
\* may remove the lease that a heartbeat has just replaced.
THEOREM FreshPeersAreListedByOneReader ==
  ASSUME OneReader, ~Windows
  PROVE  Spec => []FreshPeersAreListed
<1>1. Init => FInv
  BY DEF Init, FInv, LeasesAreOfAStamp, DoomedHaveBeenRead, OwedAreFresh,
     FreshPeersAreListed
<1>2. IInv /\ FInv /\ [Next]_vars => FInv'
  <2>1. CASE Next
    BY <2>1, OneReaderStep
  <2>2. CASE UNCHANGED vars
    BY <2>2 DEF vars, FInv, LeasesAreOfAStamp, DoomedHaveBeenRead, OwedAreFresh,
       FreshPeersAreListed
  <2> QED
    BY <2>1, <2>2
<1>3. FInv => FreshPeersAreListed
  BY DEF FInv
<1> QED
  BY <1>1, <1>2, <1>3, Invariant, PTL DEF Spec

=============================================================================
