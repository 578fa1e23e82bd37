--------------------------- MODULE BackupGateway ---------------------------
(***************************************************************************)
(* The object lifecycle of the backup gateway: the rows of its SQLite      *)
(* database, the ciphertext objects below its object root, and the HTTP    *)
(* handlers that move a backup from reservation over relay to completion   *)
(* while retention claims, unlinks and forgets old backups.                *)
(*                                                                         *)
(* A handler is a task that awaits one blocking job at a time: a database  *)
(* transaction or a file operation, each one atomic action here.  Between  *)
(* two jobs anything may happen.  A handler whose client disconnects is    *)
(* dropped: its permits are released at once, but the job it was awaiting  *)
(* was given to spawn_blocking and still runs, detached, at some later     *)
(* moment (api.rs run_db_with_slots, tokio::fs).                           *)
(*                                                                         *)
(* The device of a request is authenticated.  The ledger, the token bucket *)
(* and the cadence that may refuse a reservation or a relay are modelled   *)
(* in module Admission and are here a nondeterministic refusal.            *)
(* The clock never runs backwards.                                         *)
(***************************************************************************)
EXTENDS Integers, FiniteSets

CONSTANTS
  NumBackups,          \* bound: reservations ever inserted (UUIDs never recur)
  Artifact,            \* a (device, retention class, size, SHA-256) to upload
  Lane,                \* a (device, retention class)
  LaneOf,              \* the lane of each artifact
  Keep,                \* retention window of each lane
  PendingMaxAge,       \* age past its expiry at which a reservation is stale
  ReservationTtl,
  CleanupLimit,        \* unfinished claims and candidates of one run
  PendingCleanupLimit, \* stale reservations claimed by one run
  Request,             \* concurrent requests the listener serves
  Pruner,              \* the startup cleanup or the prune-storage command
  Nobody,
  NoArtifact,
  Faults,              \* which of "abort" and "crash" the environment may do
  MaxTime,             \* bound: the clock
  MaxDetached          \* bound: jobs of dropped handlers still to run

Backup == 1..NumBackups
Task == Request \union {Pruner}

ASSUME SetsAssumption ==
  /\ NumBackups \in Nat
  /\ LaneOf \in [Artifact -> Lane]
  /\ Pruner \notin Request
  /\ Nobody \notin Request
  /\ NoArtifact \notin Artifact
  /\ Faults \subseteq {"abort", "crash"}

\* config.rs accepts only windows and limits of at least one.
ASSUME PolicyAssumption ==
  /\ Keep \in [Lane -> Nat \ {0}]
  /\ {PendingMaxAge, ReservationTtl, CleanupLimit, PendingCleanupLimit}
       \subseteq Nat \ {0}
  /\ MaxTime \in Nat
  /\ MaxDetached \in Nat

VARIABLES
  now,
  row,            \* table backups
  purge,          \* table storage_purges: no claim, an unfinished or a finished one
  object,         \* objects below the object root, under the id of their backup
  task,           \* the handler of each request, and the pruner
  detached,       \* blocking jobs of dropped handlers that have not run yet
  relaySlot,      \* holder of the only relay permit
  retentionSlot,  \* holder of the only retention permit
  serving,        \* the listener is bound
  acked           \* history: backups some response reported as completed

vars == <<now, row, purge, object, task, detached,
          relaySlot, retentionSlot, serving, acked>>

db == <<row, purge>>
slots == <<relaySlot, retentionSlot>>

Row == [status : {"unused", "pending", "completed", "deleted"},
        art : Artifact \union {NoArtifact}, expires : Int, at : Int]

Pc == {"idle",
       "claim", "unlink", "finish", "reserve",            \* upload-url, pruner
       "lookup", "verify", "probe", "mark",               \* complete and relay
       "admit", "spool", "publish", "confirm"}            \* relay only

TaskState == [pc : Pc, op : {"upload", "relay", "complete", "boot", "cli"},
              b : 0..NumBackups, art : Artifact \union {NoArtifact},
              todo : SUBSET Backup]

IdleTask == [pc |-> "idle", op |-> "upload", b |-> 0, art |-> NoArtifact, todo |-> {}]

\* What a dropped handler leaves behind on the blocking pool.
Job == [pc : {"claim", "unlink", "finish", "reserve", "mark"},
        b : 0..NumBackups, art : Artifact \union {NoArtifact}]

TypeOK ==
  /\ now \in Int
  /\ row \in [Backup -> Row]
  /\ purge \in [Backup -> {"none", "open", "done"}]
  /\ object \subseteq Backup
  /\ task \in [Task -> TaskState]
  /\ detached \subseteq Job
  /\ relaySlot \in Request \union {Nobody}
  /\ retentionSlot \in Request \union {Nobody}
  /\ serving \in BOOLEAN
  /\ acked \subseteq Backup

-----------------------------------------------------------------------------
(* Database queries. *)

Pending(b) == row[b].status = "pending"
Completed(b) == row[b].status = "completed"
Claimed(b) == purge[b] # "none"
Unfinished == {b \in Backup : purge[b] = "open"}
LaneOfBackup(b) == LaneOf[row[b].art]

\* backup_for_device: claimed rows are invisible to relay and complete.
Visible(b) == (Pending(b) \/ Completed(b)) /\ ~Claimed(b)

\* completed_backup, list_completed_backups, backup_summary: what an operator
\* can recover and what the status endpoint may present.
Recoverable(b) == Completed(b) /\ ~Claimed(b)

\* ORDER BY completed_at, id
Newer(b, c) == \/ row[b].at > row[c].at
               \/ row[b].at = row[c].at /\ b > c

\* The row a claim must spare.
NewestOfLane(b) ==
  /\ Recoverable(b)
  /\ \A c \in Backup : Recoverable(c) /\ LaneOfBackup(c) = LaneOfBackup(b) /\ c # b
                         => Newer(b, c)

\* The k members of S that come first by (key, id): ORDER BY ... LIMIT k.
Earliest(S, key, k) ==
  {b \in S : Cardinality({c \in S : \/ key[c] < key[b]
                                    \/ key[c] = key[b] /\ c < b}) < k}

StalePending ==
  {b \in Backup : Pending(b) /\ ~Claimed(b) /\ row[b].expires < now - PendingMaxAge}

\* Mutant: the comparison with the cutoff is not strict.
ExpiredAtCutoff ==
  {b \in Backup : /\ Recoverable(b)
                  /\ row[b].at <= now - Keep[LaneOfBackup(b)]
                  /\ ~NewestOfLane(b)}

\* Mutant: the newest row is not spared.
ExpiredEvenNewest ==
  {b \in Backup : Recoverable(b) /\ row[b].at < now - Keep[LaneOfBackup(b)]}

ExpiredCompleted ==
  {b \in Backup : /\ Recoverable(b)
                  /\ row[b].at < now - Keep[LaneOfBackup(b)]
                  /\ ~NewestOfLane(b)}

LesserOf(m, n) == IF m < n THEN m ELSE n

\* Mutant: the limit holds per run, claims of earlier runs are not counted.
NewClaimsPerRun ==
  LET stale == Earliest(StalePending, [b \in Backup |-> row[b].expires],
                        LesserOf(CleanupLimit, PendingCleanupLimit))
  IN stale \union Earliest(ExpiredCompleted, [b \in Backup |-> row[b].at],
                           CleanupLimit - Cardinality(stale))

\* What claim_storage_purges inserts: stale reservations first, then expired
\* completed backups, never more than CleanupLimit unfinished claims together.
NewClaims ==
  LET remaining == CleanupLimit - Cardinality(Unfinished)
      stale == Earliest(StalePending, [b \in Backup |-> row[b].expires],
                        LesserOf(remaining, PendingCleanupLimit))
      old == Earliest(ExpiredCompleted, [b \in Backup |-> row[b].at],
                      remaining - Cardinality(stale))
  IN stale \union old

-----------------------------------------------------------------------------
(* Transactions. *)

\* Mutant: only a reservation that has not expired is refreshed.
ReusableUnexpired(a) ==
  {b \in Backup : /\ Pending(b) /\ ~Claimed(b) /\ row[b].art = a
                  /\ row[b].expires > now}

\* reserve_or_reuse_backup once admitted: refresh the pending reservation of
\* the same ciphertext, or insert a new one.
Reusable(a) == {b \in Backup : Pending(b) /\ ~Claimed(b) /\ row[b].art = a}

ReserveBackup(a) ==
  /\ \/ \E b \in Reusable(a) :
          row' = [row EXCEPT ![b].expires = now + ReservationTtl]
     \/ /\ Reusable(a) = {}
        /\ \E b \in Backup :
             /\ row[b].status = "unused"
             /\ \A c \in Backup : row[c].status = "unused" => b <= c
             /\ row' = [row EXCEPT ![b] = [status |-> "pending", art |-> a,
                                           expires |-> now + ReservationTtl,
                                           at |-> 0]]
  /\ purge' = purge

ClaimPurges ==
  /\ purge' = [b \in Backup |-> IF b \in NewClaims THEN "open" ELSE purge[b]]
  /\ row' = row

\* Mutant: the claim of a completed row is deleted too.
FinishPurgeForgets(b) ==
  /\ purge[b] = "open"
  /\ purge' = [purge EXCEPT ![b] = "none"]
  /\ row' = IF Pending(b) THEN [row EXCEPT ![b].status = "deleted"] ELSE row

\* finish_storage_purge: a reservation is forgotten, a completed row stays as
\* the record of a finished purge.
FinishPurge(b) ==
  /\ purge[b] = "open"
  /\ \/ /\ Pending(b)
        /\ purge' = [purge EXCEPT ![b] = "none"]
        /\ row' = [row EXCEPT ![b].status = "deleted"]
     \/ /\ Completed(b)
        /\ purge' = [purge EXCEPT ![b] = "done"]
        /\ row' = row

\* mark_backup_completed: the object was hashed before, so its evidence matches
\* the reservation.  A second completion changes nothing.
MarkCompleted(b) ==
  /\ \/ /\ Pending(b)
        /\ row' = [row EXCEPT ![b].status = "completed", ![b].at = now]
     \/ Completed(b) /\ row' = row
  /\ purge' = purge

RemoveObject(b) == object' = object \ {b}

-----------------------------------------------------------------------------
(* Tasks. *)

Goto(t, pc) == task' = [task EXCEPT ![t].pc = pc]

ReleaseSlots(t) ==
  /\ relaySlot' = IF relaySlot = t THEN Nobody ELSE relaySlot
  /\ retentionSlot' = IF retentionSlot = t THEN Nobody ELSE retentionSlot

\* The handler returns and its permits are dropped.
End(t) == task' = [task EXCEPT ![t] = IdleTask] /\ ReleaseSlots(t)

Reply200(t) == acked' = acked \union {task[t].b} /\ End(t)

\* The candidates are dealt with: upload-url goes on to its reservation, the
\* startup cleanup binds the listener, prune-storage exits.
CleanupDone(t) ==
  IF task[t].op = "upload"
    THEN /\ task' = [task EXCEPT ![t].pc = "reserve", ![t].todo = {}, ![t].b = 0]
         /\ ReleaseSlots(t)
         /\ serving' = serving
    ELSE End(t) /\ serving' = (serving \/ task[t].op = "boot")

NextCandidate(t, todo) ==
  IF todo = {}
    THEN CleanupDone(t)
    ELSE /\ task' = [task EXCEPT ![t].pc = "unlink", ![t].todo = todo, ![t].b = 0]
         /\ UNCHANGED <<slots, serving>>

Idle(r) == serving /\ r \in Request /\ task[r].pc = "idle"

\* Mutant: cleanup takes the retention permit only.
UploadCleansBesideRelay(r, a) ==
  /\ Idle(r)
  /\ retentionSlot = Nobody
  /\ retentionSlot' = r
  /\ task' = [task EXCEPT ![r] = [IdleTask EXCEPT !.pc = "claim", !.art = a]]
  /\ UNCHANGED <<now, db, object, detached, relaySlot, serving, acked>>

\* upload_url with both permits free: cleanup runs first.
UploadCleans(r, a) ==
  /\ Idle(r)
  /\ relaySlot = Nobody /\ retentionSlot = Nobody
  /\ relaySlot' = r /\ retentionSlot' = r
  /\ task' = [task EXCEPT ![r] = [IdleTask EXCEPT !.pc = "claim", !.art = a]]
  /\ UNCHANGED <<now, db, object, detached, serving, acked>>

\* upload_url while a relay or another cleanup is running: cleanup is skipped.
UploadSkipsCleanup(r, a) ==
  /\ Idle(r)
  /\ relaySlot # Nobody \/ retentionSlot # Nobody
  /\ task' = [task EXCEPT ![r] = [IdleTask EXCEPT !.pc = "reserve", !.art = a]]
  /\ UNCHANGED <<now, db, object, detached, slots, serving, acked>>

\* Mutant: the pruner takes the retention permit as a request would.
StartPrunerWithPermit(op) ==
  /\ ~serving
  /\ task[Pruner].pc = "idle"
  /\ task' = [task EXCEPT ![Pruner] = [IdleTask EXCEPT !.pc = "claim", !.op = op]]
  /\ retentionSlot' = Pruner
  /\ UNCHANGED <<now, db, object, detached, relaySlot, serving, acked>>

\* main.rs Serve cleans up before it binds; prune-storage is documented to run
\* only while the listener is stopped.  Neither takes a permit.
StartPruner(op) ==
  /\ ~serving
  /\ op \in {"boot", "cli"}
  /\ task[Pruner].pc = "idle"
  /\ task' = [task EXCEPT ![Pruner] = [IdleTask EXCEPT !.pc = "claim", !.op = op]]
  /\ UNCHANGED <<now, db, object, detached, slots, serving, acked>>

\* Mutant: unfinished claims of an interrupted run are not resumed.
ClaimOnlyNew(t) ==
  /\ task[t].pc = "claim"
  /\ ClaimPurges
  /\ NextCandidate(t, NewClaims)
  /\ UNCHANGED <<now, object, detached, acked>>

Claim(t) ==
  /\ task[t].pc = "claim"
  /\ ClaimPurges
  /\ NextCandidate(t, Unfinished')
  /\ UNCHANGED <<now, object, detached, acked>>

\* Candidates are taken by (started_at, backup_id); the order is left open.
Unlink(t) ==
  /\ task[t].pc = "unlink"
  /\ \E b \in task[t].todo :
       /\ RemoveObject(b)
       /\ task' = [task EXCEPT ![t].pc = "finish", ![t].b = b]
  /\ UNCHANGED <<now, db, detached, slots, serving, acked>>

Finish(t) ==
  /\ task[t].pc = "finish"
  /\ FinishPurge(task[t].b)
  /\ NextCandidate(t, task[t].todo \ {task[t].b})
  /\ UNCHANGED <<now, object, detached, acked>>

Reserve(r) ==
  /\ task[r].pc = "reserve"
  /\ ReserveBackup(task[r].art)
  /\ End(r)
  /\ UNCHANGED <<now, object, detached, serving, acked>>

\* relay_backup and complete_backup share the only relay permit; a request that
\* finds it taken is answered 429 and changes nothing.
StartExchange(r, op, b) ==
  /\ Idle(r)
  /\ op \in {"relay", "complete"}
  /\ row[b].status # "unused"
  /\ relaySlot = Nobody
  /\ relaySlot' = r
  /\ task' = [task EXCEPT ![r] = [IdleTask EXCEPT !.pc = "lookup", !.op = op, !.b = b]]
  /\ UNCHANGED <<now, db, object, detached, retentionSlot, serving, acked>>

Lookup(r) ==
  /\ task[r].pc = "lookup"
  /\ Visible(task[r].b)
  /\ Goto(r, IF Completed(task[r].b) THEN "verify" ELSE "probe")
  /\ UNCHANGED <<now, db, object, detached, slots, serving, acked>>

\* verify_completed_storage; a missing object is an error without effect.
Verify(r) ==
  /\ task[r].pc = "verify"
  /\ task[r].b \in object
  /\ Reply200(r)
  /\ UNCHANGED <<now, db, object, detached, serving>>

\* verify_object_if_present: an object an earlier attempt published is reused.
\* Without one complete answers 409, relay asks for admission.
Probe(r) ==
  /\ task[r].pc = "probe"
  /\ \/ task[r].b \in object /\ Goto(r, "mark")
     \/ task[r].b \notin object /\ task[r].op = "relay" /\ Goto(r, "admit")
  /\ UNCHANGED <<now, db, object, detached, slots, serving, acked>>

\* begin_relay_attempt asks for a pending row, claimed or not, of any age.
Admit(r) ==
  /\ task[r].pc = "admit"
  /\ Pending(task[r].b)
  /\ Goto(r, "spool")
  /\ UNCHANGED <<now, db, object, detached, slots, serving, acked>>

\* spool_relay_body: the body arrived complete and matches the reservation.
Spool(r) ==
  /\ task[r].pc = "spool"
  /\ Goto(r, "publish")
  /\ UNCHANGED <<now, db, object, detached, slots, serving, acked>>

\* store_verified_spool: a hard link that never overwrites.
Publish(r) ==
  /\ task[r].pc = "publish"
  /\ object' = object \union {task[r].b}
  /\ Goto(r, "confirm")
  /\ UNCHANGED <<now, db, detached, slots, serving, acked>>

\* ... and the published file is read back.
Confirm(r) ==
  /\ task[r].pc = "confirm"
  /\ task[r].b \in object
  /\ Goto(r, "mark")
  /\ UNCHANGED <<now, db, object, detached, slots, serving, acked>>

Mark(r) ==
  /\ task[r].pc = "mark"
  /\ MarkCompleted(task[r].b)
  /\ Reply200(r)
  /\ UNCHANGED <<now, object, detached, serving>>

\* Every error return: a row or an object that is not there, a refused
\* admission, no database slot, a bad body, an I/O error.  The rest of the
\* handler, and of the candidates, is skipped.
Fail(t) ==
  /\ task[t].pc # "idle"
  /\ End(t)
  /\ UNCHANGED <<now, db, object, detached, serving, acked>>

-----------------------------------------------------------------------------
(* The environment. *)

\* The client disconnects while the handler awaits a job.
AbortJob(r) ==
  /\ "abort" \in Faults
  /\ Cardinality(detached) < MaxDetached
  /\ r \in Request
  /\ task[r].pc \in {"claim", "unlink", "finish", "reserve", "mark"}
  /\ \E b \in (IF task[r].pc = "unlink" THEN task[r].todo ELSE {task[r].b}) :
       detached' = detached \union
                     {[pc |-> task[r].pc, b |-> b, art |-> task[r].art]}
  /\ End(r)
  /\ UNCHANGED <<now, db, object, serving, acked>>

\* ... while it awaits the hard link.  The spool is dropped, and its file
\* removed, before the permit: a link that succeeds does so before the permit
\* is free again.
AbortPublish(r) ==
  /\ "abort" \in Faults
  /\ task[r].pc = "publish"
  /\ object' = object \union {task[r].b}
  /\ End(r)
  /\ UNCHANGED <<now, db, detached, serving, acked>>

\* A job whose transaction is refused or finds no row has no effect.
JobEffect(j) ==
  \/ j.pc = "claim" /\ ClaimPurges /\ object' = object
  \/ j.pc = "unlink" /\ RemoveObject(j.b) /\ UNCHANGED db
  \/ j.pc = "finish" /\ FinishPurge(j.b) /\ object' = object
  \/ j.pc = "reserve" /\ ReserveBackup(j.art) /\ object' = object
  \/ j.pc = "mark" /\ MarkCompleted(j.b) /\ object' = object
  \/ UNCHANGED <<db, object>>

RunDetached(j) ==
  /\ JobEffect(j)
  /\ detached' = detached \ {j}
  /\ UNCHANGED <<now, task, slots, serving, acked>>

\* The process dies, or is stopped.  Its permits, handlers and jobs are gone;
\* the database and the objects remain.
Crash ==
  /\ "crash" \in Faults
  /\ task' = [t \in Task |-> IdleTask]
  /\ detached' = {}
  /\ relaySlot' = Nobody /\ retentionSlot' = Nobody
  /\ serving' = FALSE
  /\ UNCHANGED <<now, db, object, acked>>

Tick ==
  /\ now < MaxTime
  /\ now' = now + 1
  /\ UNCHANGED <<db, object, task, detached, slots, serving, acked>>

-----------------------------------------------------------------------------

Init ==
  /\ now = 0
  /\ row = [b \in Backup |-> [status |-> "unused", art |-> NoArtifact, expires |-> 0, at |-> 0]]
  /\ purge = [b \in Backup |-> "none"]
  /\ object = {}
  /\ task = [t \in Task |-> IdleTask]
  /\ detached = {}
  /\ relaySlot = Nobody /\ retentionSlot = Nobody
  /\ serving = FALSE
  /\ acked = {}

CleanupStep(t) == Claim(t) \/ Unlink(t) \/ Finish(t)

ExchangeStep(r) ==
  \/ Lookup(r) \/ Verify(r) \/ Probe(r) \/ Mark(r)
  \/ Admit(r) \/ Spool(r) \/ Publish(r) \/ Confirm(r)

Next ==
  \/ \E r \in Request, a \in Artifact : UploadCleans(r, a) \/ UploadSkipsCleanup(r, a)
  \/ \E op \in {"boot", "cli"} : StartPruner(op)
  \/ \E t \in Task : CleanupStep(t) \/ Fail(t)
  \/ \E r \in Request : Reserve(r) \/ ExchangeStep(r) \/ AbortJob(r) \/ AbortPublish(r)
  \/ \E r \in Request, op \in {"relay", "complete"}, b \in Backup : StartExchange(r, op, b)
  \/ \E j \in detached : RunDetached(j)
  \/ Crash
  \/ Tick

Spec == Init /\ [][Next]_vars

Cleaning(t) == task[t].pc \in {"claim", "unlink", "finish"}

\* A running handler eventually makes its next step or returns; the service is
\* restarted after it stopped; and desktops keep asking for reservations (their
\* scheduler does every six hours), so that a cleanup starts again and again if
\* the two permits are free again and again.
Fairness ==
  /\ WF_vars(StartPruner("boot"))
  /\ \A t \in Task : WF_vars(CleanupStep(t))
  /\ \A r \in Request :
       WF_vars(~Cleaning(r) /\ (Reserve(r) \/ ExchangeStep(r) \/ Fail(r)))
  /\ SF_vars(\E r \in Request, a \in Artifact : UploadCleans(r, a))

FairSpec == Spec /\ Fairness

-----------------------------------------------------------------------------
(* Safety. *)

\* What list-backups, lookup-backup and the status endpoint present as
\* recoverable is really on disk: between the hashing of an object and the
\* commit of its completion nothing unlinks it unnoticed (api.rs 493-508,
\* db.rs mark_backup_completed; README "A database claim excludes an object
\* from status and recovery before unlinking it").
RecoverableHasObject == \A b \in Backup : Recoverable(b) => b \in object

\* An object below the object root always belongs to a row that recovery or a
\* later cleanup can still reach: neither a relay that outlives its
\* reservation nor a crash between publication and completion leaves an
\* untracked file (gateway/README.md:77-79).
ObjectTracked ==
  \A b \in object : (Pending(b) \/ Completed(b)) /\ purge[b] # "done"

\* No history of claims, crashes and resumed claims makes one run unlink more
\* than CleanupLimit objects (claim_storage_purges).
UnfinishedBounded == Cardinality(Unfinished) <= CleanupLimit

\* b is the newest backup of its lane that was ever completed.
NewestEver(b) ==
  /\ Completed(b)
  /\ \A c \in Backup : Completed(c) /\ LaneOfBackup(c) = LaneOfBackup(b) /\ c # b
                         => Newer(b, c)

\* "Cleanup ... always preserves the newest completed object for every
\* device/class" (gateway/README.md:69-71).
NewestKept == \A b \in Backup : NewestEver(b) => Recoverable(b)

\* The same for a backup whose completion was reported to the desktop, which
\* has then removed its own copy.
AckedNewestKept == \A b \in acked : NewestEver(b) => Recoverable(b)

\* No completed backup is claimed before the window of its class is over.
WindowKept ==
  \A b \in Backup :
    Completed(b) /\ row[b].at >= now - Keep[LaneOfBackup(b)] => ~Claimed(b)

-----------------------------------------------------------------------------
(* Liveness. *)

\* Crashes, and the errors and lost clients of cleanups, end at some point.
Settles == <>[][~Crash /\ \A t \in Task : Cleaning(t) => ~Fail(t) /\ ~AbortJob(t)]_vars

\* No claim stays unfinished forever, whatever interrupted the run that made
\* it: startup or a later reservation resumes it ("retention cleanup has no
\* repeatedly unfinished claim", gateway/RUNBOOK.md:221).
ClaimsFinish == Settles => \A b \in Backup : purge[b] = "open" ~> purge[b] # "open"

=============================================================================
