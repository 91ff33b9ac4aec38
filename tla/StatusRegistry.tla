--------------------------- MODULE StatusRegistry ---------------------------
(***************************************************************************)
(* The presence registry, crates/core/src/status_registry.rs: each process *)
(* keeps one lease file, replaced every heartbeat, and every UI lists the  *)
(* directory to show its peers.                                            *)
(*                                                                         *)
(* An instance is one StatusLease: the heartbeat task, the blocking job    *)
(* that writes the file, and the call of release(), which run on three     *)
(* threads.  A reader is a process that lists.  Files are shared by all,   *)
(* and every file operation is a step of its own.                          *)
(*                                                                         *)
(* Time is kept as ages, in ticks: what matters of last_seen_at_ms, of an  *)
(* mtime and of `now` is how old they are.  Ages stop at AgeCap, past      *)
(* which every comparison has the same answer.  The clock never jumps      *)
(* back.                                                                   *)
(***************************************************************************)
EXTENDS Naturals

CONSTANTS
  Instances,    \* leases, one per process
  Readers,      \* processes that list the registry
  Newer,        \* the instances of a build with another schema version
  NewerParses,  \* whether this build can parse the record of such a build
  Windows,      \* whether publish removes the old lease before the rename
  IoErrors,     \* whether creating, writing or renaming a file may fail
  Prompt,       \* whether a publish takes less than the TTL
  Ttl,          \* LEASE_TTL
  MaxListing,   \* bound: ticks one listing takes
  Absent        \* no file, no instance

ASSUME TimesAreNaturals == Ttl \in Nat /\ MaxListing \in Nat
ASSUME SwitchesAreBooleans ==
  {NewerParses, Windows, IoErrors, Prompt} \subseteq BOOLEAN
ASSUME NewerAreInstances == Newer \subseteq Instances
ASSUME AbsentIsNothing == Absent \notin Nat /\ Absent \notin Instances

AgeCap == Ttl + MaxListing + 1
Ages == 0 .. AgeCap

VARIABLES
  proc,     \* the process of each instance
  task,     \* its heartbeat task
  aborted,  \* whether the task has been told to abort
  stamp,    \* the age of status.last_seen_at_ms
  job,      \* the publish on a blocking thread
  release,  \* the call of StatusLease::release
  released, \* StatusLease.released
  lease,    \* the lease file: the age of the record in it
  temp,     \* the temporary of the publish in progress: the age of its mtime
  litter,   \* the youngest temporary that a publish has left behind
  gone,     \* history: ticks since the process ended
  listing,  \* whether each reader is in list()
  elapsed,  \* ticks since that list() read the clock
  todo,     \* directory entries it has yet to come to
  doomed,   \* the lease it is about to remove
  rows,     \* the instances it has found so far
  owed      \* history: the peers that have been fresh since it began

ownerVars  == <<proc, task, aborted, stamp, job, release, released, gone>>
fileVars   == <<lease, temp, litter>>
readerVars == <<listing, elapsed, todo, doomed, rows, owed>>
vars == <<proc, task, aborted, stamp, job, release, released, gone,
          lease, temp, litter, listing, elapsed, todo, doomed, rows, owed>>

Kinds == {"lease", "temp", "litter"}
Entries == Instances \X Kinds

TypeOK ==
  /\ proc \in [Instances -> {"new", "up", "dead"}]
  /\ task \in [Instances -> {"none", "asleep", "running", "waiting", "gone"}]
  /\ aborted \in [Instances -> BOOLEAN]
  /\ stamp \in [Instances -> Ages]
  /\ job \in [Instances -> {"none", "queued", "create", "clear", "rename"}]
  /\ release \in [Instances -> {"no", "locking", "removing", "done"}]
  /\ released \in [Instances -> BOOLEAN]
  /\ lease \in [Instances -> Ages \cup {Absent}]
  /\ temp \in [Instances -> Ages \cup {Absent}]
  /\ litter \in [Instances -> Ages \cup {Absent}]
  /\ gone \in [Instances -> Ages]
  /\ listing \in [Readers -> BOOLEAN]
  /\ elapsed \in [Readers -> 0 .. MaxListing]
  /\ todo \in [Readers -> SUBSET Entries]
  /\ doomed \in [Readers -> Instances \cup {Absent}]
  /\ rows \in [Readers -> SUBSET Instances]
  /\ owed \in [Readers -> SUBSET Instances]

Init ==
  /\ proc = [i \in Instances |-> "new"]
  /\ task = [i \in Instances |-> "none"]
  /\ aborted = [i \in Instances |-> FALSE]
  /\ stamp = [i \in Instances |-> 0]
  /\ job = [i \in Instances |-> "none"]
  /\ release = [i \in Instances |-> "no"]
  /\ released = [i \in Instances |-> FALSE]
  /\ lease = [i \in Instances |-> Absent]
  /\ temp = [i \in Instances |-> Absent]
  /\ litter = [i \in Instances |-> Absent]
  /\ gone = [i \in Instances |-> 0]
  /\ listing = [r \in Readers |-> FALSE]
  /\ elapsed = [r \in Readers |-> 0]
  /\ todo = [r \in Readers |-> {}]
  /\ doomed = [r \in Readers |-> Absent]
  /\ rows = [r \in Readers |-> {}]
  /\ owed = [r \in Readers |-> {}]

-----------------------------------------------------------------------------
(* The heartbeat task.  It may be cancelled where it awaits, and nowhere   *)
(* else.                                                                   *)

\* StatusLease::spawn_in.
Spawn(i) ==
  /\ proc[i] = "new"
  /\ proc' = [proc EXCEPT ![i] = "up"]
  /\ task' = [task EXCEPT ![i] = "asleep"]
  /\ UNCHANGED <<aborted, stamp, job, release, released, gone, fileVars, readerVars>>

\* The interval has ticked and the snapshot has been taken.
Wake(i) ==
  /\ task[i] = "asleep"
  /\ ~aborted[i]
  /\ task' = [task EXCEPT ![i] = "running"]
  /\ UNCHANGED <<proc, aborted, stamp, job, release, released, gone, fileVars, readerVars>>

\* heartbeat(), apply(), and the publish is handed to a blocking thread.
Heartbeat(i) ==
  /\ task[i] = "running"
  /\ stamp' = [stamp EXCEPT ![i] = 0]
  /\ job' = [job EXCEPT ![i] = "queued"]
  /\ task' = [task EXCEPT ![i] = "waiting"]
  /\ UNCHANGED <<proc, aborted, release, released, gone, fileVars, readerVars>>

\* A bug: the heartbeat stops when its lease is no longer there.
ResumeIfListed(i) ==
  /\ task[i] = "waiting"
  /\ job[i] = "none"
  /\ ~aborted[i]
  /\ lease[i] # Absent
  /\ task' = [task EXCEPT ![i] = "asleep"]
  /\ UNCHANGED <<proc, aborted, stamp, job, release, released, gone, fileVars, readerVars>>

\* The publish is over, whatever its result.
Resume(i) ==
  /\ task[i] = "waiting"
  /\ job[i] = "none"
  /\ ~aborted[i]
  /\ task' = [task EXCEPT ![i] = "asleep"]
  /\ UNCHANGED <<proc, aborted, stamp, job, release, released, gone, fileVars, readerVars>>

Cancelled(i) ==
  /\ aborted[i]
  /\ task[i] \in {"asleep", "waiting"}
  /\ task' = [task EXCEPT ![i] = "gone"]
  /\ UNCHANGED <<proc, aborted, stamp, job, release, released, gone, fileVars, readerVars>>

-----------------------------------------------------------------------------
(* publish, on a blocking thread; cancelling the task does not stop it.    *)

\* A bug: the flag is read without holding the mutex for the publish.
NeverLocked(i) == release[i] \in {"no", "locking", "removing", "done"}

\* The mutex of `released` is held from the check to the end of the publish,
\* and from setting the flag to the end of the removal.
LockFree(i) == job[i] \notin {"create", "clear", "rename"} /\ release[i] # "removing"

JobStart(i) ==
  /\ job[i] = "queued"
  /\ LockFree(i)
  /\ job' = [job EXCEPT ![i] = IF released[i] THEN "none" ELSE "create"]
  /\ UNCHANGED <<proc, task, aborted, stamp, release, released, gone, fileVars, readerVars>>

\* A bug: the record is written to the path of the lease, not beside it.
JobCreateInPlace(i) ==
  /\ job[i] = "create"
  /\ temp' = [temp EXCEPT ![i] = 0]
  /\ lease' = [lease EXCEPT ![i] = Absent]
  /\ job' = [job EXCEPT ![i] = "rename"]
  /\ UNCHANGED <<proc, task, aborted, stamp, release, released, gone, litter, readerVars>>

\* The temporary is created and written.
JobCreate(i) ==
  /\ job[i] = "create"
  /\ temp' = [temp EXCEPT ![i] = 0]
  /\ job' = [job EXCEPT ![i] = IF Windows THEN "clear" ELSE "rename"]
  /\ UNCHANGED <<proc, task, aborted, stamp, release, released, gone, lease, litter, readerVars>>

\* The record is too large or the temporary cannot be created.
JobRefused(i) ==
  /\ IoErrors
  /\ job[i] = "create"
  /\ job' = [job EXCEPT ![i] = "none"]
  /\ UNCHANGED <<proc, task, aborted, stamp, release, released, gone, fileVars, readerVars>>

\* write_all fails: the temporary stays behind.
JobWriteFails(i) ==
  /\ IoErrors
  /\ job[i] = "create"
  /\ litter' = [litter EXCEPT ![i] = 0]
  /\ job' = [job EXCEPT ![i] = "none"]
  /\ UNCHANGED <<proc, task, aborted, stamp, release, released, gone, lease, temp, readerVars>>

\* On Windows the old lease is removed first.
JobClear(i) ==
  /\ job[i] = "clear"
  /\ lease' = [lease EXCEPT ![i] = Absent]
  /\ job' = [job EXCEPT ![i] = "rename"]
  /\ UNCHANGED <<proc, task, aborted, stamp, release, released, gone, temp, litter, readerVars>>

\* The rename fails if a reader has taken the temporary for an abandoned one.
JobRename(i) ==
  /\ job[i] = "rename"
  /\ lease' = [lease EXCEPT ![i] = IF temp[i] # Absent THEN stamp[i] ELSE @]
  /\ temp' = [temp EXCEPT ![i] = Absent]
  /\ job' = [job EXCEPT ![i] = "none"]
  /\ UNCHANGED <<proc, task, aborted, stamp, release, released, gone, litter, readerVars>>

\* A failed rename takes its temporary with it.
JobRenameFails(i) ==
  /\ IoErrors
  /\ job[i] = "rename"
  /\ temp' = [temp EXCEPT ![i] = Absent]
  /\ job' = [job EXCEPT ![i] = "none"]
  /\ UNCHANGED <<proc, task, aborted, stamp, release, released, gone, lease, litter, readerVars>>

-----------------------------------------------------------------------------
(* release and the end of the process.                                     *)

\* The explicit release, or the one of Drop, which may follow it.
ReleaseBegin(i) ==
  /\ proc[i] = "up"
  /\ release[i] \in {"no", "done"}
  /\ aborted' = [aborted EXCEPT ![i] = TRUE]
  /\ release' = [release EXCEPT ![i] = "locking"]
  /\ UNCHANGED <<proc, task, stamp, job, released, gone, fileVars, readerVars>>

ReleaseLock(i) ==
  /\ proc[i] = "up"
  /\ release[i] = "locking"
  /\ LockFree(i)
  /\ released' = [released EXCEPT ![i] = TRUE]
  /\ release' = [release EXCEPT ![i] = "removing"]
  /\ UNCHANGED <<proc, task, aborted, stamp, job, gone, fileVars, readerVars>>

ReleaseRemove(i) ==
  /\ proc[i] = "up"
  /\ release[i] = "removing"
  /\ lease' = [lease EXCEPT ![i] = Absent]
  /\ owed' = [r \in Readers |-> owed[r] \ {i}]
  /\ release' = [release EXCEPT ![i] = "done"]
  /\ UNCHANGED <<proc, task, aborted, stamp, job, released, gone, temp, litter,
                 listing, elapsed, todo, doomed, rows>>

\* The process ends, or is killed, in the middle of anything.
Exit(i) ==
  /\ proc[i] = "up"
  /\ proc' = [proc EXCEPT ![i] = "dead"]
  /\ task' = [task EXCEPT ![i] = "gone"]
  /\ job' = [job EXCEPT ![i] = "none"]
  /\ litter' = [litter EXCEPT ![i] = IF temp[i] # Absent THEN temp[i] ELSE @]
  /\ temp' = [temp EXCEPT ![i] = Absent]
  /\ UNCHANGED <<aborted, stamp, release, released, gone, lease, readerVars>>

-----------------------------------------------------------------------------
(* list.                                                                   *)

\* A bug: any record that parses is taken for a live process.
IsThere(i, since) == lease[i] # Absent /\ since >= 0

\* is_fresh, for the clock the listing has read.
IsFresh(i, since) == lease[i] <= Ttl + since

\* An entry created after this step may be come to or not, so every path is in
\* the list; a path with no file when the reader comes to it is not an entry.
ListBegin(r) ==
  /\ ~listing[r]
  /\ listing' = [listing EXCEPT ![r] = TRUE]
  /\ elapsed' = [elapsed EXCEPT ![r] = 0]
  /\ todo' = [todo EXCEPT ![r] = Entries]
  /\ rows' = [rows EXCEPT ![r] = {}]
  /\ owed' = [owed EXCEPT ![r] =
                {i \in Instances \ Newer : lease[i] # Absent /\ IsFresh(i, 0)}]
  /\ UNCHANGED <<ownerVars, fileVars, doomed>>

\* What a reader does with the lease it has read.  The parse comes first: a
\* record of another schema version that does not parse is malformed.
Verdict(i, since) ==
  CASE lease[i] = Absent -> "skip"
    [] lease[i] # Absent /\ i \in Newer -> IF NewerParses THEN "skip" ELSE "remove"
    [] lease[i] # Absent /\ i \notin Newer -> IF IsFresh(i, since) THEN "row" ELSE "remove"

ExamineLease(r, i) ==
  /\ doomed[r] = Absent
  /\ <<i, "lease">> \in todo[r]
  /\ LET verdict == Verdict(i, elapsed[r]) IN
       /\ rows' = [rows EXCEPT ![r] = IF verdict = "row" THEN @ \cup {i} ELSE @]
       /\ doomed' = [doomed EXCEPT ![r] = IF verdict = "remove" THEN i ELSE Absent]
  /\ todo' = [todo EXCEPT ![r] = @ \ {<<i, "lease">>}]
  /\ UNCHANGED <<ownerVars, fileVars, listing, elapsed, owed>>

\* remove_stale removes whatever is at the path by now.
RemoveStale(r) ==
  /\ doomed[r] # Absent
  /\ lease' = [lease EXCEPT ![doomed[r]] = Absent]
  /\ doomed' = [doomed EXCEPT ![r] = Absent]
  /\ UNCHANGED <<ownerVars, temp, litter, listing, elapsed, todo, rows, owed>>

\* The name of a temporary is never used again, so the check and the removal
\* are one step.
IsAbandoned(age) == age # Absent /\ age > Ttl

ExamineTemp(r, i) ==
  /\ doomed[r] = Absent
  /\ <<i, "temp">> \in todo[r]
  /\ temp' = [temp EXCEPT ![i] = IF IsAbandoned(@) THEN Absent ELSE @]
  /\ todo' = [todo EXCEPT ![r] = @ \ {<<i, "temp">>}]
  /\ UNCHANGED <<ownerVars, lease, litter, listing, elapsed, doomed, rows, owed>>

\* A bug: only the temporary of a running publish is looked at.
ExamineLitterSkips(r, i) ==
  /\ doomed[r] = Absent
  /\ <<i, "litter">> \in todo[r]
  /\ todo' = [todo EXCEPT ![r] = @ \ {<<i, "litter">>}]
  /\ UNCHANGED <<ownerVars, fileVars, listing, elapsed, doomed, rows, owed>>

ExamineLitter(r, i) ==
  /\ doomed[r] = Absent
  /\ <<i, "litter">> \in todo[r]
  /\ litter' = [litter EXCEPT ![i] = IF IsAbandoned(@) THEN Absent ELSE @]
  /\ todo' = [todo EXCEPT ![r] = @ \ {<<i, "litter">>}]
  /\ UNCHANGED <<ownerVars, lease, temp, listing, elapsed, doomed, rows, owed>>

ListEnd(r) ==
  /\ listing[r]
  /\ todo[r] = {}
  /\ doomed[r] = Absent
  /\ listing' = [listing EXCEPT ![r] = FALSE]
  /\ rows' = [rows EXCEPT ![r] = {}]
  /\ owed' = [owed EXCEPT ![r] = {}]
  /\ UNCHANGED <<ownerVars, fileVars, elapsed, todo, doomed>>

-----------------------------------------------------------------------------
(* Time.                                                                   *)

Older(age) == IF age = Absent THEN Absent ELSE IF age < AgeCap THEN age + 1 ELSE age

\* Only a listing has a deadline; a process may be suspended for any time.
Tick ==
  /\ \A r \in Readers : listing[r] => elapsed[r] < MaxListing
  /\ Prompt => \A i \in Instances : temp[i] # Absent => temp[i] < Ttl
  /\ lease' = [i \in Instances |-> Older(lease[i])]
  /\ temp' = [i \in Instances |-> Older(temp[i])]
  /\ litter' = [i \in Instances |-> Older(litter[i])]
  /\ stamp' = [i \in Instances |-> Older(stamp[i])]
  /\ gone' = [i \in Instances |-> IF proc[i] = "dead" THEN Older(gone[i]) ELSE 0]
  /\ elapsed' = [r \in Readers |-> IF listing[r] THEN elapsed[r] + 1 ELSE elapsed[r]]
  /\ owed' = [r \in Readers |->
                {i \in owed[r] : lease[i] # Absent => lease[i] < Ttl}]
  /\ UNCHANGED <<proc, task, aborted, job, release, released, listing, todo, doomed, rows>>

OwnerStep(i) ==
  \/ Wake(i) \/ Heartbeat(i) \/ Resume(i) \/ Cancelled(i)
  \/ JobStart(i) \/ JobCreate(i) \/ JobClear(i) \/ JobRename(i)

JobError(i) == JobRefused(i) \/ JobWriteFails(i) \/ JobRenameFails(i)

ReleaseStep(i) == ReleaseLock(i) \/ ReleaseRemove(i)

ReaderStep(r) ==
  \/ ListBegin(r) \/ ListEnd(r) \/ RemoveStale(r)
  \/ \E i \in Instances :
       ExamineLease(r, i) \/ ExamineTemp(r, i) \/ ExamineLitter(r, i)

Next ==
  \/ \E i \in Instances :
       Spawn(i) \/ OwnerStep(i) \/ JobError(i) \/ ReleaseBegin(i)
         \/ ReleaseStep(i) \/ Exit(i)
  \/ \E r \in Readers : ReaderStep(r)
  \/ Tick

Spec == Init /\ [][Next]_vars

\* The runtime drives the tasks and the blocking threads, an open UI polls its
\* peers, and time passes.
FairSpec ==
  /\ Spec
  /\ \A i \in Instances : WF_vars(OwnerStep(i)) /\ WF_vars(ReleaseStep(i))
  /\ \A r \in Readers : WF_vars(ReaderStep(r))
  /\ WF_vars(Tick)

-----------------------------------------------------------------------------
(* Properties.                                                             *)

\* A released lease never comes back: a publish that was queued or running when
\* release() was called has finished before the removal, or finds the flag set.
ReleasedStaysGone ==
  \A i \in Instances :
    released[i] /\ release[i] # "removing" => lease[i] = Absent

\* A process that has ended is in no listing once its TTL has passed, counted
\* from the clock the listing reads: a crash leaves no permanent peer row.
CrashedRowsExpire ==
  \A r \in Readers : \A i \in rows[r] : gone[i] <= Ttl + elapsed[r]

\* A listing shows every peer whose lease has been fresh since it began: the
\* replacement of a lease by the next one never hides the process.
FreshPeersAreListed ==
  \A r \in Readers :
    \A i \in owed[r] : <<i, "lease">> \in todo[r] \/ i \in rows[r]

\* Two builds with different schema versions leave each other's leases alone:
\* the lease of a newer build goes only when its owner replaces or releases it.
VersionsCoexist ==
  [][\A i \in Newer :
       lease[i] # Absent /\ lease'[i] = Absent =>
         release[i] = "removing" \/ job[i] = "clear"]_vars

\* A process that keeps running is advertised again and again, whatever was
\* removed by a reader that took its lease or its temporary for an old one.
RunningIsAdvertised ==
  \A i \in Instances :
    []<>(lease[i] # Absent \/ proc[i] # "up" \/ aborted[i])

\* What a dead process leaves in the directory is reclaimed by the readers.
RemainsAreReclaimed ==
  \A i \in Instances \ Newer :
    proc[i] = "dead" ~> lease[i] = Absent /\ litter[i] = Absent

=============================================================================
