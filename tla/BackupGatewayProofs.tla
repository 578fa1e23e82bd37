------------------------ MODULE BackupGatewayProofs ------------------------
(***************************************************************************)
(* Proofs about BackupGateway for any number of backups, artifacts,        *)
(* handlers and faults: its type, that what recovery presents is on disk,  *)
(* that every object is tracked and no run of claims exceeds its limit.    *)
(* As long as no handler is dropped while its job runs on, also that the   *)
(* newest and the young backups are kept and that the gateway implements   *)
(* its contract.                                                           *)
(***************************************************************************)
EXTENDS GatewayRefinement, FiniteSetTheorems, TLAPS

Artifacts == Artifact \union {NoArtifact}

\* b is claimed or forgotten: unlinking its object takes nothing from recovery.
Gone(b) == Claimed(b) \/ row[b].status = "deleted"

\* Completing b cannot make a row recoverable that has no object.
Safe(b) == b \in object \/ Gone(b)

\* What each step does to the database and to the object root, and to which
\* backups it may do so.
Effect ==
  \/ UNCHANGED <<row, purge, object>>
  \/ ClaimPurges /\ object' = object
  \/ \E a \in Artifacts : ReserveBackup(a) /\ object' = object
  \/ \E b \in Backup : FinishPurge(b) /\ object' = object
  \/ \E b \in Backup : Safe(b) /\ MarkCompleted(b) /\ object' = object
  \/ \E b \in Backup : Gone(b) /\ RemoveObject(b) /\ UNCHANGED db
  \/ \E b \in Backup : object' = object \union {b} /\ UNCHANGED db

ExchangePc == {"lookup", "verify", "probe", "mark", "admit", "spool", "publish", "confirm"}

\* The backups a handler works on.
TaskRefs ==
  \A t \in Task :
    /\ task[t].pc \in ExchangePc \union {"finish"} => task[t].b \in Backup
    /\ task[t].pc = "mark" => Safe(task[t].b)
    /\ task[t].pc = "verify" => Completed(task[t].b)
    /\ \A b \in task[t].todo : Gone(b)

\* The backups a job left behind by a dropped handler works on.
JobRefs ==
  \A j \in detached :
    /\ j.pc \in {"unlink", "finish", "mark"} => j.b \in Backup
    /\ j.pc = "mark" => Safe(j.b)
    /\ j.pc = "unlink" => Gone(j.b)

StoreInv == TaskRefs /\ JobRefs /\ RecoverableHasObject

LEMMA TasksType == ASSUME TypeOK, NEW t \in Task
                   PROVE  /\ task[t] \in TaskState
                          /\ task[t].pc \in Pc
                          /\ task[t].b \in 0..NumBackups
                          /\ task[t].art \in Artifacts
                          /\ task[t].todo \subseteq Backup
                          /\ task[t].op \in {"upload", "relay", "complete", "boot", "cli"}
BY DEF TypeOK, TaskState, Artifacts

LEMMA IdleType == IdleTask \in TaskState
BY SetsAssumption DEF IdleTask, TaskState, Pc, Backup

\* The initial state has the type and every part of the invariant.
LEMMA InitHolds == Init => TypeOK /\ StoreInv
<1> SUFFICES ASSUME Init PROVE TypeOK /\ StoreInv
  OBVIOUS
<1>1. TypeOK
  <2>1. row \in [Backup -> Row]
    BY DEF Init, Row
  <2>2. task \in [Task -> TaskState]
    BY IdleType DEF Init
  <2>3. purge \in [Backup -> {"none", "open", "done"}]
    BY DEF Init
  <2>4. /\ now \in Int /\ object \subseteq Backup /\ detached \subseteq Job
        /\ relaySlot \in Request \union {Nobody} /\ retentionSlot \in Request \union {Nobody}
        /\ acked \subseteq Backup
    BY DEF Init
  <2>5. serving \in BOOLEAN
    BY DEF Init
  <2> QED BY <2>1, <2>2, <2>3, <2>4, <2>5 DEF TypeOK
<1>2. StoreInv
  BY DEF Init, StoreInv, TaskRefs, JobRefs, RecoverableHasObject, Recoverable, Completed,
         IdleTask, ExchangePc
<1> QED BY <1>1, <1>2

\* Every step of the specification has one of the effects above.
LEMMA StepEffect == TypeOK /\ StoreInv /\ [Next]_vars => Effect
<1> SUFFICES ASSUME TypeOK, StoreInv, [Next]_vars PROVE Effect
  OBVIOUS
<1> USE DEF Effect, db, StoreInv
<1>1. ASSUME NEW r \in Request, NEW a \in Artifact,
             UploadCleans(r, a) \/ UploadSkipsCleanup(r, a)
      PROVE  Effect
  BY <1>1 DEF UploadCleans, UploadSkipsCleanup
<1>2. ASSUME NEW op \in {"boot", "cli"}, StartPruner(op) PROVE Effect
  BY <1>2 DEF StartPruner
<1>3. ASSUME NEW t \in Task, Claim(t) PROVE Effect
  BY <1>3 DEF Claim
<1>4. ASSUME NEW t \in Task, Unlink(t) PROVE Effect
  BY <1>4, TasksType DEF Unlink, TaskRefs
<1>5. ASSUME NEW t \in Task, Finish(t) PROVE Effect
  BY <1>5 DEF Finish, TaskRefs
<1>6. ASSUME NEW t \in Task, Fail(t) PROVE Effect
  BY <1>6 DEF Fail
<1>7. ASSUME NEW r \in Request, Reserve(r) PROVE Effect
  <2>1. r \in Task
    BY DEF Task
  <2> QED BY <1>7, <2>1, TasksType DEF Reserve
<1>8. ASSUME NEW r \in Request, Lookup(r) \/ Verify(r) \/ Probe(r) \/ Admit(r) \/ Spool(r) \/ Confirm(r)
      PROVE  Effect
  BY <1>8 DEF Lookup, Verify, Probe, Admit, Spool, Confirm
<1>9. ASSUME NEW r \in Request, Mark(r) PROVE Effect
  BY <1>9 DEF Mark, TaskRefs, Task, ExchangePc
<1>10. ASSUME NEW r \in Request, Publish(r) \/ AbortPublish(r) PROVE Effect
  BY <1>10 DEF Publish, AbortPublish, TaskRefs, Task, ExchangePc
<1>11. ASSUME NEW r \in Request, AbortJob(r) PROVE Effect
  BY <1>11 DEF AbortJob
<1>12. ASSUME NEW r \in Request, NEW op \in {"relay", "complete"}, NEW b \in Backup,
              StartExchange(r, op, b)
       PROVE  Effect
  BY <1>12 DEF StartExchange
<1>13. ASSUME NEW j \in detached, RunDetached(j) PROVE Effect
  <2>1. j \in Job
    BY DEF TypeOK
  <2> QED BY <1>13, <2>1 DEF RunDetached, JobEffect, JobRefs, Job, Artifacts
<1>14. ASSUME Crash \/ Tick PROVE Effect
  BY <1>14 DEF Crash, Tick
<1>15. ASSUME UNCHANGED vars PROVE Effect
  BY <1>15 DEF vars
<1> QED
  BY <1>1, <1>2, <1>3, <1>4, <1>5, <1>6, <1>7, <1>8, <1>9, <1>10, <1>11, <1>12, <1>13,
     <1>14, <1>15 DEF Next, CleanupStep, ExchangeStep


-----------------------------------------------------------------------------
(* What an effect keeps. *)

\* A transaction on row and purge leaves them well typed.
LEMMA EffectType == ASSUME TypeOK, Effect
                    PROVE  /\ row' \in [Backup -> Row]
                           /\ purge' \in [Backup -> {"none", "open", "done"}]
                           /\ object' \subseteq Backup
<1> USE DEF TypeOK
<1>1. CASE UNCHANGED <<row, purge, object>>
  BY <1>1
<1>2. CASE ClaimPurges /\ object' = object
  BY <1>2 DEF ClaimPurges
<1>3. ASSUME NEW a \in Artifacts, ReserveBackup(a), object' = object
      PROVE  row' \in [Backup -> Row] /\ purge' = purge
  <2>1. now + ReservationTtl \in Int
    BY PolicyAssumption
  <2>2. ASSUME NEW b \in Backup, row' = [row EXCEPT ![b].expires = now + ReservationTtl]
        PROVE  row' \in [Backup -> Row]
    BY <2>1, <2>2 DEF Row
  <2>3. ASSUME NEW b \in Backup,
               row' = [row EXCEPT ![b] = [status |-> "pending", art |-> a,
                                          expires |-> now + ReservationTtl, at |-> 0]]
        PROVE  row' \in [Backup -> Row]
    <3>1. [status |-> "pending", art |-> a, expires |-> now + ReservationTtl, at |-> 0] \in Row
      BY <2>1 DEF Row, Artifacts
    <3> QED BY <2>3, <3>1
  <2> QED BY <1>3, <2>2, <2>3 DEF ReserveBackup, Reusable
<1>4. ASSUME NEW b \in Backup, FinishPurge(b)
      PROVE  row' \in [Backup -> Row] /\ purge' \in [Backup -> {"none", "open", "done"}]
  BY <1>4 DEF FinishPurge, Row
<1>5. ASSUME NEW b \in Backup, MarkCompleted(b)
      PROVE  row' \in [Backup -> Row] /\ purge' = purge
  BY <1>5 DEF MarkCompleted, Row
<1>6. ASSUME NEW b \in Backup, RemoveObject(b)
      PROVE  object' \subseteq Backup
  BY <1>6 DEF RemoveObject
<1> QED BY <1>1, <1>2, <1>3, <1>4, <1>5, <1>6 DEF Effect, db

\* A claim is never withdrawn, and an id is never used again.
LEMMA GoneStable == ASSUME TypeOK, Effect, NEW c \in Backup, Gone(c)
                    PROVE  Gone(c)'
<1> USE DEF TypeOK, Gone, Claimed
<1>1. CASE UNCHANGED <<row, purge, object>>
  BY <1>1
<1>2. CASE ClaimPurges
  BY <1>2 DEF ClaimPurges
<1>3. ASSUME NEW a \in Artifacts, ReserveBackup(a)
      PROVE  Gone(c)'
  BY <1>3 DEF ReserveBackup, Reusable, Row, Pending
<1>4. ASSUME NEW b \in Backup, FinishPurge(b)
      PROVE  Gone(c)'
  BY <1>4 DEF FinishPurge, Row
<1>5. ASSUME NEW b \in Backup, MarkCompleted(b)
      PROVE  Gone(c)'
  BY <1>5 DEF MarkCompleted, Row, Pending
<1>6. CASE UNCHANGED db
  BY <1>6 DEF db
<1> QED BY <1>1, <1>2, <1>3, <1>4, <1>5, <1>6 DEF Effect

\* An object is only taken from a backup that is claimed or forgotten.
LEMMA SafeStable == ASSUME TypeOK, Effect, NEW c \in Backup, Safe(c)
                    PROVE  Safe(c)'
<1>1. CASE Gone(c)
  BY <1>1, GoneStable DEF Safe
<1>2. CASE ~Gone(c)
  BY <1>2 DEF Effect, Safe, RemoveObject
<1> QED BY <1>1, <1>2

\* The record of a completion stays, with its time and its ciphertext.
LEMMA CompletedStable == ASSUME TypeOK, Effect, NEW c \in Backup, Completed(c)
                         PROVE  Completed(c)' /\ row'[c] = row[c]
<1> USE DEF TypeOK, Completed, Pending
<1>1. CASE UNCHANGED <<row, purge, object>>
  BY <1>1
<1>2. CASE ClaimPurges
  BY <1>2 DEF ClaimPurges
<1>3. ASSUME NEW a \in Artifacts, ReserveBackup(a)
      PROVE  row'[c] = row[c]
  BY <1>3 DEF ReserveBackup, Reusable, Row
<1>4. ASSUME NEW b \in Backup, FinishPurge(b)
      PROVE  row'[c] = row[c]
  BY <1>4 DEF FinishPurge, Row
<1>5. ASSUME NEW b \in Backup, MarkCompleted(b)
      PROVE  row'[c] = row[c]
  BY <1>5 DEF MarkCompleted, Row
<1>6. CASE UNCHANGED db
  BY <1>6 DEF db
<1> QED BY <1>1, <1>2, <1>3, <1>4, <1>5, <1>6 DEF Effect

\* What recovery presents stays on disk under every effect.
LEMMA EffectRecoverable == ASSUME TypeOK, Effect, RecoverableHasObject
                           PROVE  RecoverableHasObject'
<1> SUFFICES ASSUME NEW c \in Backup, Recoverable(c)'
             PROVE  c \in object'
  BY DEF RecoverableHasObject
<1> USE DEF TypeOK, RecoverableHasObject, Recoverable, Completed, Claimed
<1>1. CASE UNCHANGED <<row, purge, object>>
  BY <1>1
<1>2. CASE ClaimPurges /\ object' = object
  BY <1>2 DEF ClaimPurges
<1>3. ASSUME NEW a \in Artifacts, ReserveBackup(a), object' = object
      PROVE  c \in object'
  BY <1>3 DEF ReserveBackup, Reusable, Row, Pending
<1>4. ASSUME NEW b \in Backup, FinishPurge(b), object' = object
      PROVE  c \in object'
  BY <1>4 DEF FinishPurge, Row, Pending
<1>5. ASSUME NEW b \in Backup, Safe(b), MarkCompleted(b), object' = object
      PROVE  c \in object'
  BY <1>5 DEF MarkCompleted, Row, Pending, Safe, Gone
<1>6. ASSUME NEW b \in Backup, Gone(b), RemoveObject(b), UNCHANGED db
      PROVE  c \in object'
  BY <1>6 DEF RemoveObject, Gone, db
<1>7. ASSUME NEW b \in Backup, object' = object \union {b}, UNCHANGED db
      PROVE  c \in object'
  BY <1>7 DEF db
<1> QED BY <1>1, <1>2, <1>3, <1>4, <1>5, <1>6, <1>7 DEF Effect

-----------------------------------------------------------------------------
(* Every step keeps the type and the references. *)

\* What one step does to a task that is not reset keeps its references.
TaskOK(t) ==
  /\ task[t].pc \in ExchangePc \union {"finish"} => task[t].b \in Backup
  /\ task[t].pc = "mark" => Safe(task[t].b)
  /\ task[t].pc = "verify" => Completed(task[t].b)
  /\ \A b \in task[t].todo : Gone(b)

\* A task no step has touched keeps its references.
LEMMA TaskKept == ASSUME TypeOK, Effect, NEW t \in Task, TaskOK(t), task'[t] = task[t]
                  PROVE  TaskOK(t)'
<1>1. task[t].todo \subseteq Backup
  BY TasksType
<1>2. ASSUME task[t].pc = "mark" PROVE Safe(task[t].b)'
  BY <1>2, SafeStable DEF TaskOK, ExchangePc
<1>3. \A b \in task[t].todo : Gone(b)'
  BY <1>1, GoneStable DEF TaskOK
<1>4. ASSUME task[t].pc = "verify" PROVE Completed(task[t].b)'
  BY <1>4, CompletedStable DEF TaskOK, ExchangePc
<1> QED BY <1>1, <1>2, <1>3, <1>4 DEF TaskOK, Safe, Gone, Claimed, Completed

\* A task that has been reset refers to nothing.
LEMMA TaskReset == ASSUME NEW t \in Task, task'[t] = IdleTask
                   PROVE  TaskOK(t)'
BY DEF TaskOK, IdleTask, ExchangePc

TasksOK == task \in [Task -> TaskState] /\ TaskRefs

\* Only task t changes.
LEMMA OneTask == ASSUME TypeOK, TaskRefs, Effect, NEW t \in Task, NEW x \in TaskState,
                        task' = [task EXCEPT ![t] = x], TaskOK(t)'
                 PROVE  TasksOK'
<1>1. task' \in [Task -> TaskState]
  BY DEF TypeOK
<1>2. ASSUME NEW u \in Task PROVE TaskOK(u)'
  <2>1. CASE u = t
    BY <2>1
  <2>2. CASE u # t
    BY <2>2, TaskKept DEF TypeOK, TaskRefs, TaskOK
  <2> QED BY <2>1, <2>2
<1> QED BY <1>1, <1>2 DEF TasksOK, TaskRefs, TaskOK

LEMMA EndOK == ASSUME TypeOK, TaskRefs, Effect, NEW t \in Task, End(t)
               PROVE  /\ TasksOK'
                      /\ relaySlot' \in Request \union {Nobody}
                      /\ retentionSlot' \in Request \union {Nobody}
<1>1. TaskOK(t)'
  BY TaskReset DEF End, TypeOK
<1> QED BY <1>1, OneTask, IdleType DEF End, ReleaseSlots, TypeOK

LEMMA GotoOK == ASSUME TypeOK, TaskRefs, Effect, NEW t \in Task, NEW p \in Pc, Goto(t, p),
                       p \in ExchangePc \union {"finish"} => task[t].b \in Backup,
                       p = "mark" => Safe(task[t].b),
                       p = "verify" => Completed(task[t].b)
                PROVE  TasksOK'
<1> DEFINE x == [task[t] EXCEPT !.pc = p]
<1>1. x \in TaskState /\ task' = [task EXCEPT ![t] = x] /\ task'[t] = x
  BY TasksType DEF Goto, TypeOK, TaskState
<1>2. x.pc = p /\ x.b = task[t].b /\ x.todo = task[t].todo /\ task[t].todo \subseteq Backup
  BY TasksType DEF TaskState
<1>3. ASSUME p = "mark", NEW b \in Backup, b = task[t].b PROVE Safe(b)'
  <2>1. Safe(b)
    BY <1>3
  <2> QED BY <2>1, SafeStable
<1>4. \A b \in task[t].todo : Gone(b)'
  BY <1>2, GoneStable DEF TaskRefs
<1>6. ASSUME p = "verify", NEW b \in Backup, b = task[t].b PROVE Completed(b)'
  <2>1. Completed(b)
    BY <1>6
  <2> QED BY <2>1, CompletedStable
<1>5. TaskOK(t)'
  BY <1>1, <1>2, <1>3, <1>4, <1>6 DEF TaskOK, Safe, Gone, Claimed, Completed, ExchangePc
<1> QED BY <1>1, <1>5, OneTask

\* The candidates that are left are all claimed.
LEMMA NextCandidateOK ==
  ASSUME TypeOK, TaskRefs, Effect, NEW t \in Task, NEW todo \in SUBSET Backup,
         NextCandidate(t, todo), \A b \in todo : Gone(b)'
  PROVE  /\ TasksOK'
         /\ relaySlot' \in Request \union {Nobody}
         /\ retentionSlot' \in Request \union {Nobody}
         /\ serving' \in BOOLEAN
<1>1. CASE todo # {}
  <2> DEFINE x == [task[t] EXCEPT !.pc = "unlink", !.todo = todo, !.b = 0]
  <2>0. x \in TaskState
    <3>1. task[t] \in TaskState /\ 0 \in 0..NumBackups
      BY TasksType, SetsAssumption
    <3> QED BY <3>1 DEF TaskState, Pc
  <2>1. task' = [task EXCEPT ![t] = x] /\ task'[t] = x
    BY <1>1 DEF NextCandidate, TypeOK
  <2>2. x.pc = "unlink" /\ x.todo = todo
    BY TasksType DEF TaskState
  <2>3. TaskOK(t)'
    BY <2>1, <2>2 DEF TaskOK, ExchangePc, Gone, Claimed
  <2>4. TasksOK'
    BY <2>0, <2>1, <2>3, OneTask
  <2> QED BY <1>1, <2>4 DEF NextCandidate, slots, TypeOK
<1>2. CASE todo = {} /\ task[t].op = "upload"
  <2> DEFINE x == [task[t] EXCEPT !.pc = "reserve", !.todo = {}, !.b = 0]
  <2>0. x \in TaskState
    <3>1. task[t] \in TaskState /\ 0 \in 0..NumBackups
      BY TasksType, SetsAssumption
    <3> QED BY <3>1 DEF TaskState, Pc
  <2>1. task' = [task EXCEPT ![t] = x] /\ task'[t] = x
    BY <1>2 DEF NextCandidate, CleanupDone, TypeOK
  <2>2. x.pc = "reserve" /\ x.todo = {}
    BY TasksType DEF TaskState
  <2>3. TaskOK(t)'
    BY <2>1, <2>2 DEF TaskOK, ExchangePc
  <2>4. TasksOK'
    BY <2>0, <2>1, <2>3, OneTask
  <2> QED BY <1>2, <2>4 DEF NextCandidate, CleanupDone, ReleaseSlots, TypeOK
<1>3. CASE todo = {} /\ task[t].op # "upload"
  <2>1. End(t) /\ serving' = (serving \/ task[t].op = "boot")
    BY <1>3 DEF NextCandidate, CleanupDone
  <2>2. serving' \in BOOLEAN
    BY <2>1
  <2> QED BY <2>1, <2>2, EndOK
<1> QED BY <1>1, <1>2, <1>3

\* No new job is left behind.
LEMMA JobsKept == ASSUME TypeOK, JobRefs, Effect, detached' \subseteq detached
                  PROVE  JobRefs' /\ detached' \subseteq Job
<1>1. detached' \subseteq Job
  BY DEF TypeOK
<1>2. ASSUME NEW j \in detached' PROVE /\ j.pc \in {"unlink", "finish", "mark"} => j.b \in Backup
                                       /\ j.pc = "mark" => Safe(j.b)'
                                       /\ j.pc = "unlink" => Gone(j.b)'
  BY <1>2, SafeStable, GoneStable DEF JobRefs
<1> QED BY <1>1, <1>2 DEF JobRefs, Safe, Gone, Claimed

-----------------------------------------------------------------------------
(* The step theorem: one step per action. *)

LEMMA NextKeeps == TypeOK /\ StoreInv /\ [Next]_vars => TypeOK' /\ StoreInv'
<1> SUFFICES ASSUME TypeOK, StoreInv, [Next]_vars PROVE TypeOK' /\ StoreInv'
  OBVIOUS
<1> DEFINE Rest == /\ now' \in Int
                   /\ relaySlot' \in Request \union {Nobody}
                   /\ retentionSlot' \in Request \union {Nobody}
                   /\ serving' \in BOOLEAN
                   /\ acked' \subseteq Backup
<1> DEFINE Goal == TasksOK' /\ Rest /\ JobRefs' /\ detached' \subseteq Job
<1>1. Effect
  BY StepEffect
<1>2. TaskRefs /\ JobRefs /\ RecoverableHasObject
  BY DEF StoreInv
<1>3. \A t \in Request : t \in Task
  BY DEF Task
<1> USE <1>1, <1>2
<1>a. ASSUME NEW r \in Request, NEW a \in Artifact,
             UploadCleans(r, a) \/ UploadSkipsCleanup(r, a)
      PROVE  Goal
  <2> DEFINE x(p) == [IdleTask EXCEPT !.pc = p, !.art = a]
  <2>1. PICK p \in {"claim", "reserve"} : task' = [task EXCEPT ![r] = x(p)]
    BY <1>a DEF UploadCleans, UploadSkipsCleanup
  <2>2. x(p) \in TaskState /\ x(p).pc = p /\ x(p).todo = {}
    <3>1. 0 \in 0..NumBackups
      BY SetsAssumption
    <3> QED BY <3>1 DEF IdleTask, TaskState, Pc
  <2>3. TaskOK(r)'
    BY <1>3, <2>1, <2>2 DEF TaskOK, ExchangePc, TypeOK
  <2>4. TasksOK'
    BY <1>3, <2>1, <2>2, <2>3, OneTask
  <2>5. JobRefs' /\ detached' \subseteq Job
    BY <1>a, JobsKept DEF UploadCleans, UploadSkipsCleanup
  <2> QED BY <1>a, <2>4, <2>5 DEF UploadCleans, UploadSkipsCleanup, TypeOK, slots
<1>b. ASSUME NEW op \in {"boot", "cli"}, StartPruner(op) PROVE Goal
  <2> DEFINE x == [IdleTask EXCEPT !.pc = "claim", !.op = op]
  <2>1. task' = [task EXCEPT ![Pruner] = x] /\ Pruner \in Task
    BY <1>b DEF StartPruner, Task
  <2>2. x \in TaskState /\ x.pc = "claim" /\ x.todo = {}
    <3>1. 0 \in 0..NumBackups
      BY SetsAssumption
    <3> QED BY <3>1 DEF IdleTask, TaskState, Pc
  <2>3. TaskOK(Pruner)'
    BY <2>1, <2>2 DEF TaskOK, ExchangePc, TypeOK
  <2>4. TasksOK'
    BY <2>1, <2>2, <2>3, OneTask
  <2>5. JobRefs' /\ detached' \subseteq Job
    BY <1>b, JobsKept DEF StartPruner
  <2> QED BY <1>b, <2>4, <2>5 DEF StartPruner, TypeOK, slots
<1>c. ASSUME NEW t \in Task, Claim(t) PROVE Goal
  <2>1. \A b \in Unfinished' : b \in Backup /\ Gone(b)'
    BY DEF Unfinished, Gone, Claimed
  <2>2. JobRefs' /\ detached' \subseteq Job
    BY <1>c, JobsKept DEF Claim
  <2> DEFINE todo == Unfinished'
  <2>3. todo \in SUBSET Backup
    BY <2>1
  <2>4. NextCandidate(t, todo)
    BY <1>c DEF Claim
  <2> HIDE DEF todo
  <2>5. \A b \in todo : Gone(b)'
    BY <2>1 DEF todo
  <2> QED BY <1>c, <2>2, <2>3, <2>4, <2>5, NextCandidateOK DEF Claim, TypeOK
<1>d. ASSUME NEW t \in Task, Unlink(t) PROVE Goal
  <2>1. PICK b \in task[t].todo :
          task' = [task EXCEPT ![t].pc = "finish", ![t].b = b]
    BY <1>d DEF Unlink
  <2> DEFINE x == [task[t] EXCEPT !.pc = "finish", !.b = b]
  <2>2. b \in Backup /\ task' = [task EXCEPT ![t] = x] /\ task'[t] = x
    BY <2>1, TasksType DEF TypeOK
  <2>3. x \in TaskState
    <3>1. task[t] \in TaskState /\ b \in 0..NumBackups
      BY <2>2, TasksType, SetsAssumption DEF Backup
    <3> QED BY <3>1 DEF TaskState, Pc
  <2>4. x.pc = "finish" /\ x.b = b /\ x.todo = task[t].todo /\ task[t].todo \subseteq Backup
    BY TasksType DEF TaskState
  <2>5. \A c \in task[t].todo : Gone(c)'
    BY <2>4, GoneStable DEF TaskRefs
  <2>6. TaskOK(t)'
    BY <2>2, <2>4, <2>5 DEF TaskOK, Gone, Claimed
  <2>7. TasksOK'
    BY <2>2, <2>3, <2>6, OneTask
  <2>8. JobRefs' /\ detached' \subseteq Job
    BY <1>d, JobsKept DEF Unlink
  <2> QED BY <1>d, <2>7, <2>8 DEF Unlink, TypeOK, slots
<1>e. ASSUME NEW t \in Task, Finish(t) PROVE Goal
  <2> DEFINE todo == task[t].todo \ {task[t].b}
  <2>1. todo \in SUBSET Backup
    BY TasksType
  <2>2. \A b \in todo : Gone(b)'
    BY <2>1, GoneStable DEF TaskRefs
  <2>3. JobRefs' /\ detached' \subseteq Job
    BY <1>e, JobsKept DEF Finish
  <2>4. NextCandidate(t, todo)
    BY <1>e DEF Finish
  <2> HIDE DEF todo
  <2> QED BY <1>e, <2>1, <2>2, <2>3, <2>4, NextCandidateOK DEF Finish, TypeOK
<1>f. ASSUME NEW t \in Task, Fail(t) PROVE Goal
  <2>1. JobRefs' /\ detached' \subseteq Job
    BY <1>f, JobsKept DEF Fail
  <2> QED BY <1>f, <2>1, EndOK DEF Fail, TypeOK
<1>g. ASSUME NEW r \in Request, Reserve(r) PROVE Goal
  <2>1. JobRefs' /\ detached' \subseteq Job
    BY <1>g, JobsKept DEF Reserve
  <2> QED BY <1>3, <1>g, <2>1, EndOK DEF Reserve, TypeOK
<1>h. ASSUME NEW r \in Request, Lookup(r) \/ Probe(r) \/ Admit(r) \/ Spool(r) \/ Publish(r) \/ Confirm(r)
      PROVE  Goal
  <2>1. PICK p \in Pc : /\ Goto(r, p)
                        /\ p \in ExchangePc
                        /\ p = "mark" => task[r].b \in object
                        /\ p = "verify" => Completed(task[r].b)
    BY <1>h DEF Lookup, Probe, Admit, Spool, Publish, Confirm, Pc, ExchangePc
  <2>2. task[r].b \in Backup
    BY <1>3, <1>h DEF Lookup, Probe, Admit, Spool, Publish, Confirm, TaskRefs, ExchangePc
  <2>3. TasksOK'
    BY <1>3, <2>1, <2>2, GotoOK DEF Safe
  <2>4. JobRefs' /\ detached' \subseteq Job
    BY <1>h, JobsKept DEF Lookup, Probe, Admit, Spool, Publish, Confirm
  <2> QED BY <1>h, <2>3, <2>4 DEF Lookup, Probe, Admit, Spool, Publish, Confirm, TypeOK, slots
<1>i. ASSUME NEW r \in Request, Verify(r) \/ Mark(r) PROVE Goal
  <2>1. task[r].b \in Backup
    BY <1>3, <1>i DEF Verify, Mark, TaskRefs, ExchangePc
  <2>2. JobRefs' /\ detached' \subseteq Job
    BY <1>i, JobsKept DEF Verify, Mark
  <2>3. End(r) /\ acked' = acked \union {task[r].b}
    BY <1>i DEF Verify, Mark, Reply200
  <2> QED BY <1>3, <1>i, <2>1, <2>2, <2>3, EndOK DEF Verify, Mark, TypeOK
<1>j. ASSUME NEW r \in Request, AbortJob(r) PROVE Goal
  <2>1. PICK b \in (IF task[r].pc = "unlink" THEN task[r].todo ELSE {task[r].b}) :
          detached' = detached \union
                        {[pc |-> task[r].pc, b |-> b, art |-> task[r].art]}
    BY <1>j DEF AbortJob
  <2> DEFINE j == [pc |-> task[r].pc, b |-> b, art |-> task[r].art]
  <2>2. /\ r \in Task
        /\ task[r].pc \in {"claim", "unlink", "finish", "reserve", "mark"}
        /\ End(r) /\ UNCHANGED <<now, db, object, serving, acked>>
    BY <1>3, <1>j DEF AbortJob
  <2>3. /\ b \in 0..NumBackups
        /\ j.pc \in {"unlink", "finish", "mark"} => b \in Backup
        /\ j.pc = "mark" => Safe(b)
        /\ j.pc = "unlink" => Gone(b)
    BY <2>1, <2>2, TasksType DEF TaskRefs, ExchangePc, Backup
  <2>4. j \in Job
    BY <2>2, <2>3, TasksType DEF Job, Artifacts
  <2>5. \A k \in detached' :
          /\ k.pc \in {"unlink", "finish", "mark"} => k.b \in Backup
          /\ k.pc = "mark" => Safe(k.b)
          /\ k.pc = "unlink" => Gone(k.b)
    BY <2>1, <2>3 DEF JobRefs
  <2>6. JobRefs' /\ detached' \subseteq Job
    BY <2>1, <2>2, <2>4, <2>5 DEF JobRefs, TypeOK, Safe, Gone, Claimed, db
  <2> QED BY <2>2, <2>6, EndOK DEF TypeOK
<1>k. ASSUME NEW r \in Request, AbortPublish(r) PROVE Goal
  <2>1. JobRefs' /\ detached' \subseteq Job
    BY <1>k, JobsKept DEF AbortPublish
  <2> QED BY <1>3, <1>k, <2>1, EndOK DEF AbortPublish, TypeOK
<1>l. ASSUME NEW r \in Request, NEW op \in {"relay", "complete"}, NEW b \in Backup,
             StartExchange(r, op, b)
      PROVE  Goal
  <2> DEFINE x == [IdleTask EXCEPT !.pc = "lookup", !.op = op, !.b = b]
  <2>1. task' = [task EXCEPT ![r] = x] /\ task'[r] = x
    BY <1>3, <1>l DEF StartExchange, TypeOK
  <2>2. x \in TaskState /\ x.pc = "lookup" /\ x.todo = {} /\ x.b = b
    <3>1. b \in 0..NumBackups
      BY SetsAssumption DEF Backup
    <3> QED BY <3>1 DEF IdleTask, TaskState, Pc
  <2>3. TaskOK(r)'
    BY <2>1, <2>2 DEF TaskOK
  <2>4. TasksOK'
    BY <1>3, <2>1, <2>2, <2>3, OneTask
  <2>5. JobRefs' /\ detached' \subseteq Job
    BY <1>l, JobsKept DEF StartExchange
  <2> QED BY <1>l, <2>4, <2>5 DEF StartExchange, TypeOK
<1>m. ASSUME NEW j \in detached, RunDetached(j) PROVE Goal
  <2>1. JobRefs' /\ detached' \subseteq Job
    BY <1>m, JobsKept DEF RunDetached
  <2>2. TasksOK'
    BY <1>m, TaskKept DEF RunDetached, TasksOK, TaskRefs, TaskOK, TypeOK
  <2> QED BY <1>m, <2>1, <2>2 DEF RunDetached, TypeOK, slots
<1>n. ASSUME Crash PROVE Goal
  <2>1. TasksOK'
    BY <1>n, IdleType, TaskReset DEF Crash, TasksOK, TaskRefs, TaskOK
  <2>2. JobRefs' /\ detached' \subseteq Job
    BY <1>n, JobsKept DEF Crash
  <2>3. serving' \in BOOLEAN
    BY <1>n DEF Crash
  <2> QED BY <1>n, <2>1, <2>2, <2>3 DEF Crash, TypeOK
<1>o. ASSUME Tick \/ UNCHANGED vars PROVE Goal
  <2>1. JobRefs' /\ detached' \subseteq Job
    BY <1>o, JobsKept DEF Tick, vars
  <2>2. TasksOK'
    BY <1>o, TaskKept DEF Tick, vars, TasksOK, TaskRefs, TaskOK, TypeOK
  <2> QED BY <1>o, <2>1, <2>2 DEF Tick, vars, TypeOK, slots
<1> HIDE DEF Goal
<1>4. Goal
  BY <1>a, <1>b, <1>c, <1>d, <1>e, <1>f, <1>g, <1>h, <1>i, <1>j, <1>k, <1>l, <1>m, <1>n, <1>o
  DEF Next, CleanupStep, ExchangeStep
<1>5. TypeOK'
  BY <1>4, EffectType DEF Goal, TypeOK, TasksOK
<1>6. StoreInv'
  BY <1>4, EffectRecoverable DEF Goal, StoreInv, TasksOK
<1> QED BY <1>5, <1>6

-----------------------------------------------------------------------------

\* The state always has the declared type.
THEOREM TypeCorrect == Spec => []TypeOK
<1>1. Spec => [](TypeOK /\ StoreInv)
  BY InitHolds, NextKeeps, PTL DEF Spec
<1> QED BY <1>1, PTL

\* Whatever handlers, dropped connections, crashes and cleanups do, a backup
\* that recovery presents as completed has its object on disk.
THEOREM RecoverableBackupsExist == Spec => []RecoverableHasObject
<1>1. Spec => [](TypeOK /\ StoreInv)
  BY InitHolds, NextKeeps, PTL DEF Spec
<1>2. StoreInv => RecoverableHasObject
  BY DEF StoreInv
<1> QED BY <1>1, <1>2, PTL

-----------------------------------------------------------------------------
(* No run of claims goes beyond the limit.                                 *)

LEMMA BackupsFinite == \A S \in SUBSET Backup : IsFiniteSet(S) /\ Cardinality(S) \in Nat
<1>1. IsFiniteSet(Backup)
  BY FS_Interval, SetsAssumption DEF Backup
<1> QED BY <1>1, FS_Subset, FS_CardinalityType

\* ORDER BY ... LIMIT k returns at most k rows: the places of the chosen ones
\* are different numbers below k.
LEMMA EarliestFew ==
  ASSUME NEW S \in SUBSET Backup, NEW key \in [Backup -> Int], NEW k \in Nat
  PROVE  /\ Earliest(S, key, k) \in SUBSET S
         /\ Cardinality(Earliest(S, key, k)) <= k
<1> DEFINE E == Earliest(S, key, k)
           Before(b) == {c \in S : \/ key[c] < key[b]
                                   \/ key[c] = key[b] /\ c < b}
           place == [b \in E |-> Cardinality(Before(b))]
<1>1. E = {b \in S : Cardinality(Before(b)) < k}
  BY DEF Earliest
<1>2. ASSUME NEW b \in S
      PROVE  Before(b) \in SUBSET Backup /\ Cardinality(Before(b)) \in Nat /\ IsFiniteSet(Before(b))
  BY BackupsFinite
<1>3. ASSUME NEW b \in S, NEW c \in S, b # c, Cardinality(Before(b)) = Cardinality(Before(c))
      PROVE  FALSE
  <2>1. ASSUME NEW x \in S, NEW y \in S, x \in Before(y),
               Cardinality(Before(x)) = Cardinality(Before(y))
        PROVE  FALSE
    <3>1. \A z \in S : key[z] \in Int /\ z \in Int
      BY DEF Backup
    <3>2. Before(x) \in SUBSET Before(y)
      BY <2>1, <3>1
    <3>3. x \notin Before(x)
      BY <2>1, <3>1
    <3>4. Before(x) = Before(y)
      BY <1>2, <2>1, <3>2, FS_Subset
    <3> QED BY <2>1, <3>3, <3>4
  <2>2. b \in Before(c) \/ c \in Before(b)
    BY <1>3 DEF Backup
  <2> QED BY <1>3, <2>1, <2>2
<1>4. place \in Injection(E, 0..(k - 1))
  <2>1. \A b \in E : Cardinality(Before(b)) \in 0..(k - 1)
    BY <1>1, <1>2
  <2>2. place \in [E -> 0..(k - 1)]
    BY <2>1
  <2>3. \A b, c \in E : place[b] = place[c] => b = c
    BY <1>1, <1>3
  <2> HIDE DEF place, E
  <2> QED BY <2>2, <2>3 DEF Injection, IsInjective
<1>5. IsFiniteSet(0..(k - 1)) /\ Cardinality(0..(k - 1)) = k
  BY FS_Interval
<1> HIDE DEF place, E, Before
<1>6. Cardinality(E) <= Cardinality(0..(k - 1))
  BY <1>4, <1>5, FS_Injection
<1> QED BY <1>1, <1>5, <1>6 DEF E

LEMMA UnfinishedKept ==
  ASSUME TypeOK, UnfinishedBounded, Effect
  PROVE  UnfinishedBounded'
<1>1. CASE ClaimPurges
  <2> DEFINE remaining == CleanupLimit - Cardinality(Unfinished)
             expires == [b \in Backup |-> row[b].expires]
             at == [b \in Backup |-> row[b].at]
             first == LesserOf(remaining, PendingCleanupLimit)
             stale == Earliest(StalePending, expires, first)
             old == Earliest(ExpiredCompleted, at, remaining - Cardinality(stale))
  <2>1. /\ StalePending \in SUBSET Backup /\ ExpiredCompleted \in SUBSET Backup
        /\ Unfinished \in SUBSET Backup
        /\ expires \in [Backup -> Int] /\ at \in [Backup -> Int]
    BY DEF StalePending, ExpiredCompleted, Unfinished, TypeOK, Row
  <2>2. /\ remaining \in Nat /\ first \in Nat /\ first <= remaining
    BY <2>1, BackupsFinite, PolicyAssumption DEF UnfinishedBounded, LesserOf
  <2>3. NewClaims = stale \union old
    BY DEF NewClaims
  <2>4. Unfinished' = Unfinished \union (stale \union old)
    <3>1. Unfinished' = {b \in Backup : b \in NewClaims \/ purge[b] = "open"}
      BY <1>1 DEF ClaimPurges, Unfinished
    <3>2. NewClaims \in SUBSET Backup
      BY DEF NewClaims, Earliest, StalePending, ExpiredCompleted
    <3> QED BY <2>3, <3>1, <3>2 DEF Unfinished
  <2> HIDE DEF remaining, expires, at, first, stale, old
  <2>5. stale \in SUBSET Backup /\ Cardinality(stale) <= first
    BY <2>1, <2>2, EarliestFew DEF stale
  <2>6. Cardinality(stale) \in Nat /\ remaining - Cardinality(stale) \in Nat
    BY <2>2, <2>5, BackupsFinite
  <2>7. old \in SUBSET Backup /\ Cardinality(old) <= remaining - Cardinality(stale)
    BY <2>1, <2>6, EarliestFew DEF old
  <2>8. ASSUME NEW S \in SUBSET Backup, NEW T \in SUBSET Backup
        PROVE  Cardinality(S \union T) <= Cardinality(S) + Cardinality(T)
    <3>1. IsFiniteSet(S) /\ IsFiniteSet(T)
      BY BackupsFinite
    <3>2. Cardinality(S \union T) = Cardinality(S) + Cardinality(T) - Cardinality(S \cap T)
      BY <3>1, FS_Union
    <3>3. /\ Cardinality(S) \in Nat /\ Cardinality(T) \in Nat /\ Cardinality(S \cap T) \in Nat
      <4>1. S \cap T \in SUBSET Backup
        OBVIOUS
      <4> QED BY <4>1, BackupsFinite
    <3> QED BY <3>2, <3>3
  <2>9. Cardinality(Unfinished') <= Cardinality(Unfinished) + (Cardinality(stale) + Cardinality(old))
    <3>1. stale \union old \in SUBSET Backup /\ Unfinished' \in SUBSET Backup
      BY <2>1, <2>4, <2>5, <2>7
    <3>2. Cardinality(stale \union old) <= Cardinality(stale) + Cardinality(old)
      BY <2>5, <2>7, <2>8
    <3>3. Cardinality(Unfinished') <= Cardinality(Unfinished) + Cardinality(stale \union old)
      BY <2>1, <2>4, <2>8, <3>1
    <3>4. /\ Cardinality(stale) \in Nat /\ Cardinality(old) \in Nat
          /\ Cardinality(stale \union old) \in Nat /\ Cardinality(Unfinished) \in Nat
          /\ Cardinality(Unfinished') \in Nat
      BY <2>1, <2>5, <2>7, <3>1, BackupsFinite
    <3> QED BY <3>2, <3>3, <3>4
  <2>10. Cardinality(old) \in Nat /\ Cardinality(Unfinished) \in Nat
         /\ Cardinality(Unfinished') \in Nat /\ CleanupLimit \in Nat
    <3>1. Unfinished' \in SUBSET Backup
      BY <2>1, <2>4, <2>5, <2>7
    <3> QED BY <2>1, <2>7, <3>1, BackupsFinite, PolicyAssumption
  <2> QED BY <2>6, <2>7, <2>9, <2>10 DEF UnfinishedBounded, remaining
<1>2. CASE ~ClaimPurges
  <2>1. Unfinished' \subseteq Unfinished
    <3>1. \A b \in Backup : purge'[b] = "open" => purge[b] = "open"
      BY <1>2 DEF Effect, FinishPurge, ReserveBackup, MarkCompleted, db, TypeOK
    <3> QED BY <3>1 DEF Unfinished
  <2>2. Unfinished \in SUBSET Backup
    BY DEF Unfinished
  <2> QED BY <2>1, <2>2, BackupsFinite, FS_Subset, PolicyAssumption DEF UnfinishedBounded
<1> QED BY <1>1, <1>2

-----------------------------------------------------------------------------
(* Who holds which permit.                                                 *)

CleaningPc == {"claim", "unlink", "finish"}

\* A request at work holds what its handler acquired; the pruner runs while
\* the listener is closed.
TaskPermit(t) ==
  /\ t \in Request =>
       /\ task[t].pc # "idle" => serving
       /\ task[t].pc \in ExchangePc => relaySlot = t
       /\ task[t].pc \in CleaningPc => relaySlot = t /\ task[t].op = "upload"
       /\ task[t].pc \in CleaningPc \union {"reserve"} => task[t].art \in Artifact
  /\ t = Pruner =>
       /\ task[t].pc \in CleaningPc \union {"idle"}
       /\ task[t].pc # "idle" => ~serving /\ task[t].op # "upload"

Permits == \A t \in Task : TaskPermit(t)

\* Only task t changes, and no other one loses its permit.
LEMMA OnePermit ==
  ASSUME TypeOK, Permits, NEW t \in Task, NEW x, task' = [task EXCEPT ![t] = x],
         serving' = serving, \A u \in Request : u # t /\ relaySlot = u => relaySlot' = u,
         TaskPermit(t)'
  PROVE  Permits'
<1> SUFFICES ASSUME NEW u \in Task, u # t PROVE TaskPermit(u)'
  BY DEF Permits
<1>1. task'[u] = task[u]
  BY DEF TypeOK
<1> QED BY <1>1 DEF Permits, TaskPermit

LEMMA EndPermits ==
  ASSUME TypeOK, Permits, NEW t \in Task, End(t), serving' = serving
  PROVE  Permits'
<1>1. task' = [task EXCEPT ![t] = IdleTask] /\ task'[t] = IdleTask
  BY DEF End, TypeOK
<1>2. TaskPermit(t)'
  BY <1>1 DEF TaskPermit, IdleTask, CleaningPc, ExchangePc
<1>3. \A u \in Request : u # t /\ relaySlot = u => relaySlot' = u
  BY DEF End, ReleaseSlots
<1> QED BY <1>1, <1>2, <1>3, OnePermit

LEMMA GotoPermits ==
  ASSUME TypeOK, Permits, NEW r \in Request, NEW p \in ExchangePc, Goto(r, p),
         task[r].pc \in ExchangePc, UNCHANGED <<relaySlot, serving>>
  PROVE  Permits'
<1> DEFINE x == [task[r] EXCEPT !.pc = p]
<1>0. r \in Task /\ r # Pruner
  BY SetsAssumption DEF Task
<1>1. task' = [task EXCEPT ![r] = x] /\ task'[r] = x /\ x.pc = p
  BY <1>0, TasksType DEF Goto, TypeOK, TaskState
<1>2. TaskPermit(r)'
  <2>1. relaySlot = r /\ serving
    BY <1>0 DEF Permits, TaskPermit, ExchangePc
  <2> QED BY <1>0, <1>1, <2>1 DEF TaskPermit, CleaningPc, ExchangePc
<1> HIDE DEF x
<1> QED BY <1>0, <1>1, <1>2, OnePermit

LEMMA NextCandidatePermits ==
  ASSUME TypeOK, Permits, NEW t \in Task, NEW todo, NextCandidate(t, todo),
         task[t].pc \in CleaningPc
  PROVE  Permits'
<1>0. Pruner \notin Request /\ task[t].pc # "idle"
  BY SetsAssumption DEF CleaningPc
<1>1. CASE todo # {}
  <2> DEFINE x == [task[t] EXCEPT !.pc = "unlink", !.todo = todo, !.b = 0]
  <2>1. /\ task' = [task EXCEPT ![t] = x] /\ task'[t] = x
        /\ UNCHANGED <<relaySlot, serving>>
    BY <1>1 DEF NextCandidate, TypeOK, slots
  <2>2. x.pc = "unlink" /\ x.op = task[t].op /\ x.art = task[t].art
    BY TasksType DEF TaskState
  <2>3. TaskPermit(t)'
    BY <1>0, <2>1, <2>2 DEF Permits, TaskPermit, CleaningPc, ExchangePc
  <2> HIDE DEF x
  <2> QED BY <2>1, <2>3, OnePermit
<1>2. CASE todo = {} /\ task[t].op = "upload"
  <2> DEFINE x == [task[t] EXCEPT !.pc = "reserve", !.todo = {}, !.b = 0]
  <2>1. /\ task' = [task EXCEPT ![t] = x] /\ task'[t] = x
        /\ serving' = serving /\ ReleaseSlots(t)
    BY <1>2 DEF NextCandidate, CleanupDone, TypeOK
  <2>2. x.pc = "reserve" /\ x.art = task[t].art
    BY TasksType DEF TaskState
  <2>3. t \in Request
    BY <1>0, <1>2 DEF Permits, TaskPermit, Task
  <2>4. TaskPermit(t)'
    BY <1>0, <2>1, <2>2, <2>3 DEF Permits, TaskPermit, CleaningPc, ExchangePc
  <2>5. \A u \in Request : u # t /\ relaySlot = u => relaySlot' = u
    BY <2>1 DEF ReleaseSlots
  <2> HIDE DEF x
  <2> QED BY <2>1, <2>4, <2>5, OnePermit
<1>3. CASE todo = {} /\ task[t].op # "upload"
  <2>1. End(t) /\ serving' = (serving \/ task[t].op = "boot")
    BY <1>3 DEF NextCandidate, CleanupDone
  <2>2. t = Pruner /\ ~serving
    BY <1>0, <1>3 DEF Permits, TaskPermit, Task
  <2>3. \A u \in Task : task'[u].pc = "idle"
    <3>1. ASSUME NEW r \in Request PROVE task[r].pc = "idle"
      BY <2>2 DEF Permits, TaskPermit, Task
    <3>2. task'[t] = IdleTask /\ \A u \in Task : u # t => task'[u] = task[u]
      BY <2>1 DEF End, TypeOK
    <3> QED BY <2>2, <3>1, <3>2 DEF Task, IdleTask
  <2> QED BY <2>3 DEF Permits, TaskPermit, CleaningPc, ExchangePc
<1> QED BY <1>1, <1>2, <1>3

LEMMA InitPermits == Init => Permits
BY DEF Init, Permits, TaskPermit, IdleTask, CleaningPc, ExchangePc

LEMMA PermitsKept == TypeOK /\ Permits /\ [Next]_vars => Permits'
<1> SUFFICES ASSUME TypeOK, Permits, [Next]_vars PROVE Permits'
  OBVIOUS
<1>0. /\ Pruner \notin Request /\ Nobody \notin Request /\ Pruner \in Task
      /\ \A r \in Request : r \in Task /\ r # Pruner
  BY SetsAssumption DEF Task
<1>1. ASSUME NEW r \in Request, NEW a \in Artifact, UploadCleans(r, a)
      PROVE  Permits'
  <2> DEFINE x == [IdleTask EXCEPT !.pc = "claim", !.art = a]
  <2>1. /\ task' = [task EXCEPT ![r] = x] /\ task'[r] = x
        /\ serving' = serving /\ serving /\ relaySlot = Nobody /\ relaySlot' = r
    BY <1>0, <1>1 DEF UploadCleans, Idle, TypeOK
  <2>3. x.pc = "claim" /\ x.op = "upload" /\ x.art \in Artifact
    BY DEF IdleTask
  <2>2. TaskPermit(r)'
    <3> HIDE DEF x
    <3>1. /\ task'[r].pc = "claim" /\ task'[r].op = "upload" /\ task'[r].art \in Artifact
          /\ serving' /\ relaySlot' = r /\ r # Pruner
      BY <1>0, <2>1, <2>3
    <3> QED BY <3>1 DEF TaskPermit, CleaningPc, ExchangePc
  <2> HIDE DEF x
  <2> QED BY <1>0, <2>1, <2>2, OnePermit
<1>2. ASSUME NEW r \in Request, NEW a \in Artifact, UploadSkipsCleanup(r, a)
      PROVE  Permits'
  <2> DEFINE x == [IdleTask EXCEPT !.pc = "reserve", !.art = a]
  <2>1. /\ task' = [task EXCEPT ![r] = x] /\ task'[r] = x
        /\ serving' = serving /\ serving /\ relaySlot' = relaySlot
    BY <1>0, <1>2 DEF UploadSkipsCleanup, Idle, TypeOK, slots
  <2>3. x.pc = "reserve" /\ x.art \in Artifact
    BY DEF IdleTask
  <2>2. TaskPermit(r)'
    <3> HIDE DEF x
    <3>1. /\ task'[r].pc = "reserve" /\ task'[r].art \in Artifact /\ serving' /\ r # Pruner
      BY <1>0, <2>1, <2>3
    <3> QED BY <3>1 DEF TaskPermit, CleaningPc, ExchangePc
  <2> HIDE DEF x
  <2> QED BY <1>0, <2>1, <2>2, OnePermit
<1>3. ASSUME NEW op \in {"boot", "cli"}, StartPruner(op) PROVE Permits'
  <2> DEFINE x == [IdleTask EXCEPT !.pc = "claim", !.op = op]
  <2>1. /\ task' = [task EXCEPT ![Pruner] = x] /\ task'[Pruner] = x
        /\ serving' = serving /\ ~serving /\ relaySlot' = relaySlot
    BY <1>0, <1>3 DEF StartPruner, TypeOK, slots
  <2>2. TaskPermit(Pruner)'
    BY <1>0, <2>1 DEF TaskPermit, CleaningPc, ExchangePc, IdleTask
  <2> HIDE DEF x
  <2> QED BY <1>0, <2>1, <2>2, OnePermit
<1>4. ASSUME NEW t \in Task, Claim(t) \/ Finish(t) PROVE Permits'
  <2>1. task[t].pc \in CleaningPc
    BY <1>4 DEF Claim, Finish, CleaningPc
  <2>2. PICK m : m = IF Claim(t) THEN Unfinished' ELSE task[t].todo \ {task[t].b}
    OBVIOUS
  <2>3. NextCandidate(t, m)
    BY <1>4, <2>2 DEF Claim, Finish
  <2> QED BY <2>1, <2>3, NextCandidatePermits
<1>5. ASSUME NEW t \in Task, Unlink(t) PROVE Permits'
  <2>1. PICK b : task' = [task EXCEPT ![t].pc = "finish", ![t].b = b]
    BY <1>5 DEF Unlink
  <2> DEFINE x == [task[t] EXCEPT !.pc = "finish", !.b = b]
  <2>2. /\ task' = [task EXCEPT ![t] = x] /\ task'[t] = x
        /\ UNCHANGED <<relaySlot, serving>> /\ task[t].pc = "unlink"
    BY <1>5, <2>1 DEF Unlink, TypeOK, slots
  <2>3. x.pc = "finish" /\ x.op = task[t].op /\ x.art = task[t].art
    BY TasksType DEF TaskState
  <2>4. TaskPermit(t)'
    BY <1>0, <2>2, <2>3 DEF Permits, TaskPermit, CleaningPc, ExchangePc
  <2> HIDE DEF x
  <2> QED BY <2>2, <2>4, OnePermit
<1>6. ASSUME NEW t \in Task, Fail(t) PROVE Permits'
  BY <1>6, EndPermits DEF Fail
<1>7. ASSUME NEW r \in Request,
             Reserve(r) \/ Verify(r) \/ Mark(r) \/ AbortJob(r) \/ AbortPublish(r)
      PROVE  Permits'
  <2>1. End(r) /\ serving' = serving
    BY <1>7 DEF Reserve, Verify, Mark, AbortJob, AbortPublish, Reply200
  <2> QED BY <1>0, <2>1, EndPermits
<1>8. ASSUME NEW r \in Request,
             Lookup(r) \/ Probe(r) \/ Admit(r) \/ Spool(r) \/ Publish(r) \/ Confirm(r)
      PROVE  Permits'
  <2>1. PICK p \in ExchangePc : Goto(r, p)
    BY <1>8 DEF Lookup, Probe, Admit, Spool, Publish, Confirm, ExchangePc
  <2>2. task[r].pc \in ExchangePc /\ UNCHANGED <<relaySlot, serving>>
    BY <1>8 DEF Lookup, Probe, Admit, Spool, Publish, Confirm, ExchangePc, slots
  <2> QED BY <2>1, <2>2, GotoPermits
<1>9. ASSUME NEW r \in Request, NEW op \in {"relay", "complete"}, NEW b \in Backup,
             StartExchange(r, op, b)
      PROVE  Permits'
  <2> DEFINE x == [IdleTask EXCEPT !.pc = "lookup", !.op = op, !.b = b]
  <2>1. /\ task' = [task EXCEPT ![r] = x] /\ task'[r] = x
        /\ serving' = serving /\ serving /\ relaySlot = Nobody /\ relaySlot' = r
    BY <1>0, <1>9 DEF StartExchange, Idle, TypeOK
  <2>3. x.pc = "lookup"
    BY DEF IdleTask
  <2>2. TaskPermit(r)'
    <3> HIDE DEF x
    <3> QED BY <1>0, <2>1, <2>3 DEF TaskPermit, CleaningPc, ExchangePc
  <2> HIDE DEF x
  <2> QED BY <1>0, <2>1, <2>2, OnePermit
<1>10. CASE Crash
  BY <1>10 DEF Crash, Permits, TaskPermit, IdleTask, CleaningPc, ExchangePc
<1>11. CASE Tick \/ UNCHANGED vars \/ \E j \in detached : RunDetached(j)
  BY <1>11 DEF Tick, vars, RunDetached, slots, Permits, TaskPermit
<1> QED
  BY <1>1, <1>2, <1>3, <1>4, <1>5, <1>6, <1>7, <1>8, <1>9, <1>10, <1>11
  DEF Next, CleanupStep, ExchangeStep

\* A cleanup and an exchange never run at the same time.
LEMMA CleansAlone ==
  ASSUME Permits, NEW t \in Task, task[t].pc \in CleaningPc, NEW r \in Request
  PROVE  task[r].pc \notin ExchangePc
BY SetsAssumption DEF Permits, TaskPermit, Task, CleaningPc, ExchangePc

-----------------------------------------------------------------------------
(* What each step does, and for whom.                                      *)

RelayPc == ExchangePc \ {"lookup"}

\* Backups a handler has found visible and is completing.
Relaying == {b \in Backup : \E r \in Request : task[r].pc \in RelayPc /\ task[r].b = b}

\* Backups whose object was unlinked and whose claim is about to be finished.
Forgetting ==
  {b \in Backup : \/ \E t \in Task : task[t].pc = "finish" /\ task[t].b = b
                  \/ \E j \in detached : j.pc = "finish" /\ j.b = b}

RefsKept == Relaying' \subseteq Relaying /\ Forgetting' \subseteq Forgetting
Still == UNCHANGED <<row, purge, object>>

\* Effect, with the handler's hand in it: whose backups are finished,
\* completed and published, and that no cleanup claims beside an exchange.
Deed ==
  \/ Still /\ RefsKept /\ acked' = acked
  \/ \E b \in Relaying : /\ Completed(b) /\ acked' = acked \union {b}
                         /\ Still /\ RefsKept
  \/ \E b \in Backup : /\ Visible(b) /\ Relaying' \subseteq Relaying \union {b}
                       /\ Still /\ Forgetting' \subseteq Forgetting /\ acked' = acked
  \/ /\ ClaimPurges /\ (Relaying = {} \/ detached # {})
     /\ object' = object /\ RefsKept /\ acked' = acked
  \/ \E a \in Artifacts : /\ ReserveBackup(a) /\ (a \in Artifact \/ detached # {})
                          /\ object' = object /\ RefsKept /\ acked' = acked
  \/ \E b \in Forgetting : FinishPurge(b) /\ object' = object /\ RefsKept /\ acked' = acked
  \/ \E b \in Backup : /\ MarkCompleted(b) /\ (b \in Relaying \/ detached # {})
                       /\ acked' \in {acked, acked \union {b}}
                       /\ object' = object /\ RefsKept
  \/ \E b \in Backup : /\ Gone(b) /\ RemoveObject(b) /\ Relaying' \subseteq Relaying
                       /\ \/ Forgetting' \subseteq Forgetting
                          \/ Relaying = {} /\ Forgetting' \subseteq Forgetting \union {b}
                       /\ UNCHANGED <<row, purge, acked>>
  \/ \E b \in Relaying : object' = object \union {b} /\ UNCHANGED <<row, purge, acked>> /\ RefsKept

LEMMA RefsShrink ==
  ASSUME TypeOK, NEW t \in Task, NEW x, task' = [task EXCEPT ![t] = x], x.pc # "finish",
         x.pc \in RelayPc => task[t].pc \in RelayPc /\ x.b = task[t].b,
         detached' \subseteq detached
  PROVE  RefsKept
<1>1. task'[t] = x /\ \A u \in Task : u # t => task'[u] = task[u]
  BY DEF TypeOK
<1>2. Relaying' \subseteq Relaying
  BY <1>1 DEF Relaying, Task
<1>3. Forgetting' \subseteq Forgetting
  BY <1>1 DEF Forgetting
<1> QED BY <1>2, <1>3 DEF RefsKept

LEMMA EndRefs ==
  ASSUME TypeOK, NEW t \in Task, End(t), detached' \subseteq detached
  PROVE  RefsKept
<1>1. task' = [task EXCEPT ![t] = IdleTask] /\ IdleTask.pc = "idle"
  BY DEF End, IdleTask
<1> HIDE DEF IdleTask
<1> QED BY <1>1, RefsShrink DEF RelayPc, ExchangePc

LEMMA NextCandidateRefs ==
  ASSUME TypeOK, NEW t \in Task, NEW todo, NextCandidate(t, todo), detached' = detached
  PROVE  RefsKept
<1>1. CASE todo # {}
  <2> DEFINE x == [task[t] EXCEPT !.pc = "unlink", !.todo = todo, !.b = 0]
  <2>1. task' = [task EXCEPT ![t] = x] /\ x.pc = "unlink"
    BY <1>1, TasksType DEF NextCandidate, TypeOK, TaskState
  <2> HIDE DEF x
  <2> QED BY <2>1, RefsShrink DEF RelayPc, ExchangePc
<1>2. CASE todo = {} /\ task[t].op = "upload"
  <2> DEFINE x == [task[t] EXCEPT !.pc = "reserve", !.todo = {}, !.b = 0]
  <2>1. task' = [task EXCEPT ![t] = x] /\ x.pc = "reserve"
    BY <1>2, TasksType DEF NextCandidate, CleanupDone, TypeOK, TaskState
  <2> HIDE DEF x
  <2> QED BY <2>1, RefsShrink DEF RelayPc, ExchangePc
<1>3. CASE todo = {} /\ task[t].op # "upload"
  <2>1. End(t)
    BY <1>3 DEF NextCandidate, CleanupDone
  <2> QED BY <2>1, EndRefs
<1> QED BY <1>1, <1>2, <1>3

LEMMA StartRefs ==
  ASSUME TypeOK, NEW t \in Task, NEW x, task' = [task EXCEPT ![t] = x],
         x.pc \in {"claim", "reserve", "lookup"}, detached' = detached
  PROVE  RefsKept
BY RefsShrink DEF RelayPc, ExchangePc

LEMMA AloneRefs ==
  ASSUME Permits, NEW t \in Task, task[t].pc \in CleaningPc
  PROVE  Relaying = {}
BY CleansAlone DEF Relaying, RelayPc

\* Every step is such a deed.
LEMMA StepDeed == TypeOK /\ StoreInv /\ Permits /\ [Next]_vars => Deed
<1> SUFFICES ASSUME TypeOK, StoreInv, Permits, [Next]_vars PROVE Deed
  OBVIOUS
<1>0. Pruner \in Task /\ \A r \in Request : r \in Task
  BY DEF Task
<1> USE DEF db, StoreInv, Still
<1>1. ASSUME NEW r \in Request, NEW a \in Artifact,
             UploadCleans(r, a) \/ UploadSkipsCleanup(r, a)
      PROVE  Deed
  <2> DEFINE x(p) == [IdleTask EXCEPT !.pc = p, !.art = a]
  <2>1. PICK p \in {"claim", "reserve"} : task' = [task EXCEPT ![r] = x(p)]
    BY <1>1 DEF UploadCleans, UploadSkipsCleanup
  <2>2. x(p).pc = p
    BY DEF IdleTask
  <2>3. /\ UNCHANGED <<row, purge, object, acked>> /\ detached' = detached
    BY <1>1 DEF UploadCleans, UploadSkipsCleanup
  <2> HIDE DEF x
  <2>4. RefsKept
    BY <1>0, <2>1, <2>2, <2>3, StartRefs
  <2> QED BY <2>3, <2>4 DEF Deed
<1>2. ASSUME NEW op \in {"boot", "cli"}, StartPruner(op) PROVE Deed
  <2> DEFINE x == [IdleTask EXCEPT !.pc = "claim", !.op = op]
  <2>1. /\ task' = [task EXCEPT ![Pruner] = x] /\ x.pc = "claim"
        /\ UNCHANGED <<row, purge, object, acked>> /\ detached' = detached
    BY <1>2 DEF StartPruner, IdleTask
  <2> HIDE DEF x
  <2>2. RefsKept
    BY <1>0, <2>1, StartRefs
  <2> QED BY <2>1, <2>2 DEF Deed
<1>3. ASSUME NEW t \in Task, Claim(t) PROVE Deed
  <2>1. Relaying = {}
    BY <1>3, AloneRefs DEF Claim, CleaningPc
  <2>2. PICK m : m = Unfinished'
    OBVIOUS
  <2>3. NextCandidate(t, m) /\ detached' = detached
    BY <1>3, <2>2 DEF Claim
  <2>4. RefsKept
    BY <2>3, NextCandidateRefs
  <2> QED BY <1>3, <2>1, <2>4 DEF Claim, Deed
<1>4. ASSUME NEW t \in Task, Unlink(t) PROVE Deed
  <2>1. Relaying = {}
    BY <1>4, AloneRefs DEF Unlink, CleaningPc
  <2>2. PICK b \in task[t].todo : /\ RemoveObject(b)
                                  /\ task' = [task EXCEPT ![t].pc = "finish", ![t].b = b]
    BY <1>4 DEF Unlink
  <2>3. b \in Backup /\ Gone(b)
    BY <2>2, TasksType DEF TaskRefs
  <2> DEFINE x == [task[t] EXCEPT !.pc = "finish", !.b = b]
  <2>4. task' = [task EXCEPT ![t] = x] /\ task'[t] = x
    BY <2>2 DEF TypeOK
  <2>5. x.pc = "finish" /\ x.b = b
    BY TasksType DEF TaskState
  <2> HIDE DEF x
  <2>6. \A u \in Task : u # t => task'[u] = task[u]
    BY <2>4 DEF TypeOK
  <2>7. detached' = detached /\ UNCHANGED <<row, purge, acked>>
    BY <1>4 DEF Unlink
  <2>8. Relaying' \subseteq Relaying
    BY <1>0, <2>4, <2>5, <2>6 DEF Relaying, RelayPc, ExchangePc
  <2>9. Forgetting' \subseteq Forgetting \union {b}
    BY <2>4, <2>5, <2>6, <2>7 DEF Forgetting
  <2> QED BY <2>1, <2>2, <2>3, <2>7, <2>8, <2>9 DEF Deed
<1>5. ASSUME NEW t \in Task, Finish(t) PROVE Deed
  <2>1. task[t].b \in Forgetting
    BY <1>5 DEF Finish, TaskRefs, Forgetting
  <2>2. PICK m : m = task[t].todo \ {task[t].b}
    OBVIOUS
  <2>3. NextCandidate(t, m) /\ detached' = detached
    BY <1>5, <2>2 DEF Finish
  <2>4. RefsKept
    BY <2>3, NextCandidateRefs
  <2> QED BY <1>5, <2>1, <2>4 DEF Finish, Deed
<1>6. ASSUME NEW t \in Task, Fail(t) PROVE Deed
  <2>1. RefsKept
    BY <1>6, EndRefs DEF Fail
  <2> QED BY <1>6, <2>1 DEF Fail, Deed
<1>7. ASSUME NEW r \in Request, Reserve(r) PROVE Deed
  <2>1. RefsKept
    BY <1>0, <1>7, EndRefs DEF Reserve
  <2>2. task[r].art \in Artifact
    BY <1>0, <1>7 DEF Reserve, Permits, TaskPermit
  <2> QED BY <1>7, <2>1, <2>2 DEF Reserve, Deed, Artifacts
<1>8. ASSUME NEW r \in Request, Lookup(r) PROVE Deed
  <2>1. task[r].b \in Backup /\ Visible(task[r].b) /\ detached' = detached
        /\ UNCHANGED <<row, purge, object, acked>>
    BY <1>0, <1>8 DEF Lookup, TaskRefs, ExchangePc
  <2>2. PICK p \in {"verify", "probe"} : Goto(r, p)
    BY <1>8 DEF Lookup
  <2>3. /\ task'[r].b = task[r].b /\ task'[r].pc = p
        /\ \A u \in Task : u # r => task'[u] = task[u]
    BY <1>0, <2>2, TasksType DEF Goto, TypeOK, TaskState
  <2>4. Relaying' \subseteq Relaying \union {task[r].b}
    BY <1>0, <2>3 DEF Relaying
  <2>5. Forgetting' \subseteq Forgetting
    BY <2>1, <2>2, <2>3 DEF Forgetting
  <2> QED BY <2>1, <2>4, <2>5 DEF Deed
<1>9. ASSUME NEW r \in Request, Probe(r) \/ Admit(r) \/ Spool(r) \/ Publish(r) \/ Confirm(r)
      PROVE  Deed
  <2>1. PICK p \in RelayPc : Goto(r, p)
    BY <1>9 DEF Probe, Admit, Spool, Publish, Confirm, RelayPc, ExchangePc
  <2>2. task[r].pc \in RelayPc /\ detached' = detached /\ UNCHANGED <<row, purge, acked>>
    BY <1>9 DEF Probe, Admit, Spool, Publish, Confirm, RelayPc, ExchangePc
  <2>3. task[r].b \in Relaying
    BY <1>0, <2>2 DEF TaskRefs, Relaying, RelayPc
  <2>4. RefsKept
    <3> DEFINE x == [task[r] EXCEPT !.pc = p]
    <3>1. task' = [task EXCEPT ![r] = x] /\ x.pc = p /\ x.b = task[r].b
      BY <1>0, <2>1, TasksType DEF Goto, TypeOK, TaskState
    <3> HIDE DEF x
    <3> QED BY <1>0, <2>1, <2>2, <3>1, RefsShrink DEF RelayPc, ExchangePc
  <2>5. object' = object \/ object' = object \union {task[r].b}
    BY <1>9 DEF Probe, Admit, Spool, Publish, Confirm
  <2> QED BY <2>2, <2>3, <2>4, <2>5 DEF Deed
<1>10. ASSUME NEW r \in Request, Verify(r) \/ Mark(r) PROVE Deed
  <2>1. task[r].b \in Relaying /\ (Verify(r) => Completed(task[r].b))
    BY <1>0, <1>10 DEF Verify, Mark, TaskRefs, Relaying, RelayPc, ExchangePc
  <2>2. /\ End(r) /\ acked' = acked \union {task[r].b}
        /\ detached' = detached /\ object' = object
    BY <1>10 DEF Verify, Mark, Reply200
  <2>3. RefsKept
    BY <1>0, <2>2, EndRefs
  <2>4. task[r].b \in Backup
    BY <2>1 DEF Relaying
  <2>5. CASE Verify(r)
    BY <2>1, <2>2, <2>3, <2>5 DEF Verify, Deed
  <2>6. CASE Mark(r)
    BY <2>1, <2>2, <2>3, <2>4, <2>6 DEF Mark, Deed
  <2> QED BY <1>10, <2>5, <2>6
<1>11. ASSUME NEW r \in Request, AbortJob(r) PROVE Deed
  <2>1. PICK b \in (IF task[r].pc = "unlink" THEN task[r].todo ELSE {task[r].b}) :
          detached' = detached \union
                        {[pc |-> task[r].pc, b |-> b, art |-> task[r].art]}
    BY <1>11 DEF AbortJob
  <2>2. /\ UNCHANGED <<row, purge, object, acked>>
        /\ task' = [task EXCEPT ![r] = IdleTask] /\ IdleTask.pc = "idle"
    BY <1>11 DEF AbortJob, End, IdleTask
  <2>3. task'[r].pc = "idle" /\ \A u \in Task : u # r => task'[u] = task[u]
    BY <1>0, <2>2 DEF TypeOK
  <2>4. Relaying' \subseteq Relaying
    BY <1>0, <2>3 DEF Relaying, RelayPc, ExchangePc
  <2>5. Forgetting' \subseteq Forgetting
    <3>1. \A t \in Task : task'[t].pc = "finish" => task[t].pc = "finish" /\ task[t].b = task'[t].b
      BY <2>3
    <3>2. ASSUME NEW j \in detached', j.pc = "finish"
          PROVE  j \in detached \/ (task[r].pc = "finish" /\ task[r].b = j.b)
      BY <2>1, <3>2
    <3> QED BY <1>0, <3>1, <3>2 DEF Forgetting
  <2> QED BY <2>2, <2>4, <2>5 DEF Deed, RefsKept
<1>12. ASSUME NEW r \in Request, AbortPublish(r) PROVE Deed
  <2>1. task[r].b \in Relaying
    BY <1>0, <1>12 DEF AbortPublish, TaskRefs, Relaying, RelayPc, ExchangePc
  <2>2. RefsKept
    BY <1>0, <1>12, EndRefs DEF AbortPublish
  <2> QED BY <1>12, <2>1, <2>2 DEF AbortPublish, Deed
<1>13. ASSUME NEW r \in Request, NEW op \in {"relay", "complete"}, NEW b \in Backup,
              StartExchange(r, op, b)
       PROVE  Deed
  <2> DEFINE x == [IdleTask EXCEPT !.pc = "lookup", !.op = op, !.b = b]
  <2>1. /\ task' = [task EXCEPT ![r] = x] /\ x.pc = "lookup"
        /\ UNCHANGED <<row, purge, object, acked>> /\ detached' = detached
    BY <1>13 DEF StartExchange, IdleTask
  <2> HIDE DEF x
  <2>2. RefsKept
    BY <1>0, <2>1, StartRefs
  <2> QED BY <2>1, <2>2 DEF Deed
<1>14. ASSUME NEW j \in detached, RunDetached(j) PROVE Deed
  <2>1. /\ task' = task /\ detached' \subseteq detached /\ acked' = acked
        /\ detached # {} /\ JobEffect(j)
    BY <1>14 DEF RunDetached
  <2>2. RefsKept
    BY <2>1 DEF RefsKept, Relaying, Forgetting
  <2>3. j \in Job
    BY DEF TypeOK
  <2>4. j.pc = "finish" => j.b \in Forgetting
    BY <2>3 DEF JobRefs, Forgetting
  <2>5. CASE UNCHANGED <<row, purge, object>>
    BY <2>1, <2>2, <2>5 DEF Deed
  <2>6. CASE j.pc = "claim" /\ ClaimPurges /\ object' = object
    BY <2>1, <2>2, <2>6 DEF Deed
  <2>7. CASE j.pc = "unlink" /\ RemoveObject(j.b) /\ UNCHANGED db
    <3>1. j.b \in Backup /\ Gone(j.b)
      BY <2>7 DEF JobRefs
    <3> QED BY <2>1, <2>2, <2>7, <3>1 DEF Deed, RefsKept
  <2>8. CASE j.pc = "finish" /\ FinishPurge(j.b) /\ object' = object
    BY <2>1, <2>2, <2>4, <2>8 DEF Deed
  <2>9. CASE j.pc = "reserve" /\ ReserveBackup(j.art) /\ object' = object
    BY <2>1, <2>2, <2>3, <2>9 DEF Deed, Job, Artifacts
  <2>10. CASE j.pc = "mark" /\ MarkCompleted(j.b) /\ object' = object
    <3>1. j.b \in Backup
      BY <2>10 DEF JobRefs
    <3> QED BY <2>1, <2>2, <2>10, <3>1 DEF Deed
  <2> QED BY <2>1, <2>5, <2>6, <2>7, <2>8, <2>9, <2>10 DEF JobEffect
<1>15. CASE Crash
  <2>1. Relaying' = {} /\ Forgetting' = {}
    BY <1>15 DEF Crash, Relaying, Forgetting, IdleTask, RelayPc, ExchangePc, Task
  <2> QED BY <1>15, <2>1 DEF Crash, Deed, RefsKept
<1>16. CASE Tick \/ UNCHANGED vars
  BY <1>16 DEF Tick, vars, Deed, RefsKept, Relaying, Forgetting
<1> QED
  BY <1>1, <1>2, <1>3, <1>4, <1>5, <1>6, <1>7, <1>8, <1>9, <1>10, <1>11, <1>12, <1>13,
     <1>14, <1>15, <1>16 DEF Next, CleanupStep, ExchangeStep

-----------------------------------------------------------------------------
(* Objects and claims.                                                     *)

Live(b) == (Pending(b) \/ Completed(b)) /\ purge[b] # "done"

\* A backup being completed is tracked, one being forgotten has no object, and
\* none is both.
LifeInv ==
  /\ \A b \in Relaying : Live(b)
  /\ \A b \in Forgetting : b \notin object /\ Gone(b)
  /\ Relaying \intersect Forgetting = {}
  /\ ObjectTracked

\* Only a finished claim takes a row from recovery and cleanup.
LEMMA LiveStable ==
  ASSUME TypeOK, Effect, Deed, NEW c \in Backup, Live(c), c \notin Forgetting
  PROVE  Live(c)'
<1> USE DEF TypeOK, Live, Pending, Completed
<1>1. CASE Still \/ UNCHANGED <<row, purge, acked>>
  BY <1>1 DEF Still
<1>2. CASE ClaimPurges
  BY <1>2 DEF ClaimPurges
<1>3. ASSUME NEW a \in Artifacts, ReserveBackup(a)
      PROVE  Live(c)'
  BY <1>3 DEF ReserveBackup, Reusable, Row
<1>4. ASSUME NEW b \in Forgetting, FinishPurge(b)
      PROVE  Live(c)'
  BY <1>4 DEF FinishPurge, Row
<1>5. ASSUME NEW b \in Backup, MarkCompleted(b)
      PROVE  Live(c)'
  BY <1>5 DEF MarkCompleted, Row
<1> QED BY <1>1, <1>2, <1>3, <1>4, <1>5 DEF Deed

LEMMA LifeKept == ASSUME TypeOK, Effect, Deed, LifeInv PROVE LifeInv'
<1>0. Relaying \subseteq Backup /\ Forgetting \subseteq Backup /\ object \subseteq Backup
  BY DEF Relaying, Forgetting, TypeOK
<1>1. \A b \in Relaying : Live(b)'
  BY <1>0, LiveStable DEF LifeInv
<1>2. \A b \in Forgetting : Gone(b)'
  BY <1>0, GoneStable DEF LifeInv
<1>3. ASSUME NEW c \in object, c \notin Forgetting PROVE Live(c)'
  BY <1>0, <1>3, LiveStable DEF LifeInv, ObjectTracked, Live
<1>4. \A c \in object : c \notin Forgetting
  BY DEF LifeInv
<1>5. CASE Still /\ RefsKept
  BY <1>1, <1>2, <1>3, <1>4, <1>5 DEF LifeInv, RefsKept, Still, ObjectTracked, Live
<1>6. ASSUME NEW b \in Backup, Visible(b), Relaying' \subseteq Relaying \union {b},
             Still, Forgetting' \subseteq Forgetting
      PROVE  LifeInv'
  <2>1. Live(b)' /\ b \notin Forgetting
    BY <1>6 DEF Visible, Live, Still, Pending, Completed, Claimed, LifeInv, Gone, TypeOK
  <2>2. object' = object
    BY <1>6 DEF Still
  <2> QED BY <1>1, <1>2, <1>3, <1>4, <1>6, <2>1, <2>2 DEF LifeInv, ObjectTracked, Live
<1>7. CASE object' = object /\ RefsKept
  BY <1>1, <1>2, <1>3, <1>4, <1>7 DEF LifeInv, RefsKept, ObjectTracked, Live
<1>8. ASSUME NEW b \in Backup, Gone(b), RemoveObject(b), Relaying' \subseteq Relaying,
             \/ Forgetting' \subseteq Forgetting
             \/ Relaying = {} /\ Forgetting' \subseteq Forgetting \union {b}
      PROVE  LifeInv'
  <2>1. Gone(b)' /\ b \notin object' /\ object' \subseteq object
    BY <1>8, GoneStable DEF RemoveObject
  <2> QED BY <1>1, <1>2, <1>3, <1>4, <1>8, <2>1 DEF LifeInv, ObjectTracked, Live
<1>9. ASSUME NEW b \in Relaying, object' = object \union {b}, RefsKept
      PROVE  LifeInv'
  <2>1. b \notin Forgetting /\ Live(b)'
    BY <1>1 DEF LifeInv
  <2> QED BY <1>1, <1>2, <1>3, <1>4, <1>9, <2>1 DEF LifeInv, RefsKept, ObjectTracked, Live
<1> QED BY <1>5, <1>6, <1>7, <1>8, <1>9 DEF Deed

LEMMA InitLife == Init => LifeInv
BY DEF Init, LifeInv, Relaying, Forgetting, ObjectTracked, RelayPc, ExchangePc, IdleTask, Task

-----------------------------------------------------------------------------
(* Without dropped handlers.                                               *)

NoAborts == "abort" \notin Faults

\* Nothing runs detached, and what is being completed is not claimed.
CalmInv ==
  /\ detached = {}
  /\ \A b \in Backup : Pending(b) \/ Completed(b) => row[b].art \in Artifact
  /\ \A b \in Backup : row[b].status = "unused" => ~Claimed(b)
  /\ \A b \in Relaying : ~Claimed(b)
  /\ NewestKept
  /\ WindowKept

LEMMA NoJobs == NoAborts /\ detached = {} /\ [Next]_vars => detached' = {}
<1> SUFFICES ASSUME NoAborts, detached = {}, [Next]_vars PROVE detached' = {}
  OBVIOUS
<1>1. ASSUME NEW r \in Request, NEW a \in Artifact,
             UploadCleans(r, a) \/ UploadSkipsCleanup(r, a)
      PROVE  detached' = {}
  BY <1>1 DEF UploadCleans, UploadSkipsCleanup
<1>2. ASSUME NEW op \in {"boot", "cli"}, StartPruner(op) PROVE detached' = {}
  BY <1>2 DEF StartPruner
<1>3. ASSUME NEW t \in Task, Claim(t) \/ Unlink(t) \/ Finish(t) \/ Fail(t) PROVE detached' = {}
  BY <1>3 DEF Claim, Unlink, Finish, Fail
<1>4. ASSUME NEW r \in Request,
             \/ Reserve(r) \/ Lookup(r) \/ Verify(r) \/ Probe(r) \/ Mark(r)
             \/ Admit(r) \/ Spool(r) \/ Publish(r) \/ Confirm(r)
      PROVE  detached' = {}
  BY <1>4 DEF Reserve, Lookup, Verify, Probe, Mark, Admit, Spool, Publish, Confirm
<1>5. ASSUME NEW r \in Request, AbortJob(r) \/ AbortPublish(r) PROVE detached' = {}
  BY <1>5 DEF AbortJob, AbortPublish, NoAborts
<1>6. ASSUME NEW r \in Request, NEW op \in {"relay", "complete"}, NEW b \in Backup,
             StartExchange(r, op, b)
      PROVE  detached' = {}
  BY <1>6 DEF StartExchange
<1>7. CASE Crash \/ Tick \/ UNCHANGED vars
  BY <1>7 DEF Crash, Tick, vars
<1> QED BY <1>1, <1>2, <1>3, <1>4, <1>5, <1>6, <1>7 DEF Next, CleanupStep, ExchangeStep

\* The clock never runs backwards.
LEMMA TimeAdvances == TypeOK /\ [Next]_vars => now' >= now /\ now' \in Int
<1> SUFFICES ASSUME TypeOK, [Next]_vars PROVE now' = now \/ now' = now + 1
  BY DEF TypeOK
<1>1. ASSUME NEW r \in Request, NEW a \in Artifact,
             UploadCleans(r, a) \/ UploadSkipsCleanup(r, a)
      PROVE  now' = now
  BY <1>1 DEF UploadCleans, UploadSkipsCleanup
<1>2. ASSUME NEW op \in {"boot", "cli"}, StartPruner(op) PROVE now' = now
  BY <1>2 DEF StartPruner
<1>3. ASSUME NEW t \in Task, Claim(t) \/ Unlink(t) \/ Finish(t) \/ Fail(t) PROVE now' = now
  BY <1>3 DEF Claim, Unlink, Finish, Fail
<1>4. ASSUME NEW r \in Request,
             \/ Reserve(r) \/ Lookup(r) \/ Verify(r) \/ Probe(r) \/ Mark(r)
             \/ Admit(r) \/ Spool(r) \/ Publish(r) \/ Confirm(r)
      PROVE  now' = now
  BY <1>4 DEF Reserve, Lookup, Verify, Probe, Mark, Admit, Spool, Publish, Confirm
<1>5. ASSUME NEW r \in Request, AbortJob(r) \/ AbortPublish(r) PROVE now' = now
  BY <1>5 DEF AbortJob, AbortPublish
<1>6. ASSUME NEW r \in Request, NEW op \in {"relay", "complete"}, NEW b \in Backup,
             StartExchange(r, op, b)
      PROVE  now' = now
  BY <1>6 DEF StartExchange
<1>7. ASSUME NEW j \in detached, RunDetached(j) PROVE now' = now
  BY <1>7 DEF RunDetached
<1>8. CASE Crash \/ Tick \/ UNCHANGED vars
  BY <1>8 DEF Crash, Tick, vars
<1> QED BY <1>1, <1>2, <1>3, <1>4, <1>5, <1>6, <1>7, <1>8 DEF Next, CleanupStep, ExchangeStep

\* What a step claims or completes, where no job runs detached: a claim spares
\* a completed row that is young or the newest of its lane, and a row that is
\* completed is not claimed.
LEMMA CalmDeed ==
  ASSUME TypeOK, LifeInv, CalmInv, Deed, NEW c \in Backup, Completed(c)', Claimed(c)'
  PROVE  \/ Completed(c) /\ Claimed(c) /\ row'[c] = row[c]
         \/ c \in ExpiredCompleted /\ row'[c] = row[c]
<1> USE DEF TypeOK, Completed, Claimed, Pending
<1>1. CASE Still \/ UNCHANGED <<row, purge, acked>>
  BY <1>1 DEF Still
<1>2. CASE ClaimPurges
  <2>1. Completed(c) /\ row' = row /\ (Claimed(c) \/ c \in NewClaims)
    BY <1>2 DEF ClaimPurges
  <2>2. c \in NewClaims => c \in StalePending \union ExpiredCompleted
    BY DEF NewClaims, Earliest
  <2>3. c \notin StalePending
    BY <2>1 DEF StalePending
  <2> QED BY <2>1, <2>2, <2>3
<1>3. ASSUME NEW a \in Artifacts, ReserveBackup(a)
      PROVE  Completed(c) /\ Claimed(c) /\ row'[c] = row[c]
  BY <1>3 DEF ReserveBackup, Reusable, Row
<1>4. ASSUME NEW b \in Forgetting, FinishPurge(b)
      PROVE  Completed(c) /\ Claimed(c) /\ row'[c] = row[c]
  <2>1. b \in Backup
    BY DEF Forgetting
  <2> QED BY <1>4, <2>1 DEF FinishPurge, Row
<1>5. ASSUME NEW b \in Backup, MarkCompleted(b), b \in Relaying
      PROVE  Completed(c) /\ Claimed(c) /\ row'[c] = row[c]
  BY <1>5 DEF MarkCompleted, Row, CalmInv
<1> QED BY <1>1, <1>2, <1>3, <1>4, <1>5 DEF Deed, CalmInv

\* Every reservation names a ciphertext, and keeps it.
LEMMA ArtStep ==
  ASSUME TypeOK, CalmInv, Deed, NEW c \in Backup, Pending(c)' \/ Completed(c)'
  PROVE  row'[c].art \in Artifact
<1> USE DEF TypeOK, Completed, Pending, CalmInv
<1>1. CASE Still \/ UNCHANGED <<row, purge, acked>>
  BY <1>1 DEF Still
<1>2. CASE ClaimPurges
  BY <1>2 DEF ClaimPurges
<1>3. ASSUME NEW a \in Artifact, ReserveBackup(a)
      PROVE  row'[c].art \in Artifact
  BY <1>3 DEF ReserveBackup, Reusable, Row
<1>4. ASSUME NEW b \in Forgetting, FinishPurge(b)
      PROVE  row'[c].art \in Artifact
  <2>1. b \in Backup
    BY DEF Forgetting
  <2> QED BY <1>4, <2>1 DEF FinishPurge, Row
<1>5. ASSUME NEW b \in Backup, MarkCompleted(b)
      PROVE  row'[c].art \in Artifact
  BY <1>5 DEF MarkCompleted, Row
<1> QED BY <1>1, <1>2, <1>3, <1>4, <1>5 DEF Deed

\* Only a row that is in use is claimed.
LEMMA UnusedStep ==
  ASSUME TypeOK, CalmInv, Deed, NEW c \in Backup, row'[c].status = "unused"
  PROVE  ~Claimed(c)'
<1> USE DEF TypeOK, Completed, Pending, Claimed, CalmInv
<1>1. CASE Still \/ UNCHANGED <<row, purge, acked>>
  BY <1>1 DEF Still
<1>2. CASE ClaimPurges
  <2>1. c \notin NewClaims
    BY <1>2 DEF ClaimPurges, NewClaims, Earliest, StalePending, ExpiredCompleted, Recoverable
  <2> QED BY <1>2, <2>1 DEF ClaimPurges
<1>3. ASSUME NEW a \in Artifact, ReserveBackup(a)
      PROVE  ~Claimed(c)'
  BY <1>3 DEF ReserveBackup, Reusable, Row
<1>4. ASSUME NEW b \in Forgetting, FinishPurge(b)
      PROVE  ~Claimed(c)'
  <2>1. b \in Backup
    BY DEF Forgetting
  <2> QED BY <1>4, <2>1 DEF FinishPurge, Row
<1>5. ASSUME NEW b \in Backup, MarkCompleted(b)
      PROVE  ~Claimed(c)'
  BY <1>5 DEF MarkCompleted, Row
<1> QED BY <1>1, <1>2, <1>3, <1>4, <1>5 DEF Deed

LEMMA WindowStep ==
  ASSUME TypeOK, LifeInv, CalmInv, Deed, now' >= now, now' \in Int
  PROVE  WindowKept'
<1> SUFFICES ASSUME NEW c \in Backup, Completed(c)', Claimed(c)'
             PROVE  ~(row'[c].at >= now' - Keep[LaneOf[row'[c].art]])
  BY DEF WindowKept, LaneOfBackup
<1>1. /\ row'[c] = row[c]
      /\ \/ Completed(c) /\ Claimed(c)
         \/ row[c].at < now - Keep[LaneOf[row[c].art]]
  BY CalmDeed DEF ExpiredCompleted, LaneOfBackup
<1>2. row[c].art \in Artifact /\ now \in Int /\ row[c].at \in Int
  BY <1>1, ArtStep DEF TypeOK, Row
<1>3. Keep[LaneOf[row[c].art]] \in Nat
  BY <1>2, SetsAssumption, PolicyAssumption
<1>4. ~(row[c].at >= now - Keep[LaneOf[row[c].art]])
  BY <1>1, <1>2, <1>3 DEF CalmInv, WindowKept, LaneOfBackup
<1> QED BY <1>1, <1>2, <1>3, <1>4

\* The newer of two backups that are not the same.
LEMMA NewerTotal ==
  ASSUME TypeOK, NEW b \in Backup, NEW c \in Backup, b # c
  PROVE  (Newer(b, c) \/ Newer(c, b)) /\ ~(Newer(b, c) /\ Newer(c, b))
BY DEF TypeOK, Row, Newer, Backup

\* Every claimed record of a completion has a newer one in its lane.
LEMMA NewestStep ==
  ASSUME TypeOK, Effect, LifeInv, CalmInv, Deed, row' \in [Backup -> Row]
  PROVE  NewestKept'
<1> SUFFICES ASSUME NEW b \in Backup, NewestEver(b)', Claimed(b)'
             PROVE  FALSE
  BY DEF NewestKept, NewestEver, Recoverable
<1>1. Completed(b)' /\ row'[b] = row[b] /\ Completed(b)
  BY CalmDeed DEF NewestEver, ExpiredCompleted, Recoverable, Completed
<1>2. \A c \in Backup : Completed(c) => Completed(c)' /\ row'[c] = row[c]
  BY CompletedStable
<1>3. NewestEver(b)
  <2> SUFFICES ASSUME NEW c \in Backup, Completed(c), LaneOfBackup(c) = LaneOfBackup(b), c # b
               PROVE  Newer(b, c)
    BY <1>1 DEF NewestEver
  <2>1. Completed(c)' /\ row'[c] = row[c]
    BY <1>2
  <2>2. Newer(b, c)'
    BY <1>1, <2>1 DEF NewestEver, LaneOfBackup
  <2> QED BY <1>1, <2>1, <2>2 DEF Newer
<1>4. ~Claimed(b)
  BY <1>3 DEF CalmInv, NewestKept, Recoverable
<1>5. b \in ExpiredCompleted
  BY <1>1, <1>4, CalmDeed
<1>6. PICK c \in Backup : /\ Recoverable(c) /\ LaneOfBackup(c) = LaneOfBackup(b) /\ c # b
                          /\ ~Newer(b, c)
  BY <1>5 DEF ExpiredCompleted, NewestOfLane
<1> QED BY <1>3, <1>6 DEF NewestEver, Recoverable

LEMMA CalmKept ==
  ASSUME TypeOK, TypeOK', Effect, LifeInv, CalmInv, Deed, now' >= now, detached' = {}
  PROVE  CalmInv'
<1>1. ASSUME NEW b \in Relaying' PROVE ~Claimed(b)'
  <2>1. b \in Backup
    BY DEF Relaying
  <2>2. CASE Visible(b) /\ Still
    BY <2>2 DEF Visible, Still, Claimed
  <2>3. CASE b \in Relaying
    <3>1. ~Claimed(b) /\ b \notin Forgetting /\ Relaying # {}
      BY <2>3 DEF CalmInv, LifeInv
    <3>2. purge'[b] = purge[b]
      <4>1. ASSUME NEW c \in Forgetting, FinishPurge(c) PROVE purge'[b] = purge[b]
        BY <2>1, <3>1, <4>1 DEF FinishPurge, TypeOK
      <4> QED BY <3>1, <4>1 DEF Deed, CalmInv, Still, ReserveBackup, MarkCompleted
    <3> QED BY <3>1, <3>2 DEF Claimed
  <2>4. b \in Relaying \/ (Visible(b) /\ Still)
    BY <1>1 DEF Deed, RefsKept
  <2> QED BY <2>2, <2>3, <2>4
<1>2. \A b \in Backup : Pending(b)' \/ Completed(b)' => row'[b].art \in Artifact
  BY ArtStep
<1>3. NewestKept'
  BY NewestStep DEF TypeOK
<1>4. WindowKept'
  BY WindowStep DEF TypeOK
<1>5. \A b \in Backup : row'[b].status = "unused" => ~Claimed(b)'
  BY UnusedStep
<1> QED BY <1>1, <1>2, <1>3, <1>4, <1>5 DEF CalmInv, Pending, Completed, Claimed

LEMMA InitCalm == Init => CalmInv
BY DEF Init, CalmInv, Relaying, RelayPc, ExchangePc, IdleTask, Task, NewestKept, NewestEver,
       WindowKept, Completed, Pending, Claimed

-----------------------------------------------------------------------------
(* The contract.                                                           *)

\* A lane with something to recover has a newest backup.
LEMMA NewestExists ==
  ASSUME TypeOK, NEW b \in Backup, Recoverable(b)
  PROVE  \E c \in Backup : NewestOfLane(c) /\ LaneOfBackup(c) = LaneOfBackup(b)
<1> DEFINE X == {c \in Backup : Recoverable(c) /\ LaneOfBackup(c) = LaneOfBackup(b)}
           Above(c) == {d \in X : Newer(d, c)}
           T == {Above(c) : c \in X}
<1>1. T # {} /\ T \subseteq FiniteSubsetsOf(Backup)
  <2>1. \A c \in X : IsFiniteSet(Above(c)) /\ Above(c) \subseteq Backup
    BY BackupsFinite
  <2>2. b \in X
    OBVIOUS
  <2> HIDE DEF X, Above
  <2> QED BY <2>1, <2>2 DEF FiniteSubsetsOf
<1>2. PICK m \in T : \A u \in T : ~(<<u, m>> \in StrictSubsetOrdering(Backup))
  <2> HIDE DEF T
  <2> QED BY <1>1, FS_StrictSubsetOrderingWellFounded, WFMin, Zenon
<1>3. PICK c \in X : m = Above(c)
  BY <1>2
<1>4. Above(c) = {}
  <2> SUFFICES ASSUME NEW d \in Above(c) PROVE FALSE
    OBVIOUS
  <2>1. \A e \in X : Newer(e, d) => Newer(e, c)
    BY DEF Newer, TypeOK, Row, Backup
  <2>2. ~Newer(d, d)
    BY DEF Newer, TypeOK, Row, Backup
  <2>3. Above(d) \subseteq Above(c) /\ Above(d) # Above(c)
    BY <2>1, <2>2
  <2>4. <<Above(d), Above(c)>> \in StrictSubsetOrdering(Backup)
    BY <2>3 DEF StrictSubsetOrdering
  <2> QED BY <1>2, <1>3, <2>4
<1>5. \A d \in X : d # c => Newer(c, d)
  BY <1>4, NewerTotal
<1> QED BY <1>5 DEF NewestOfLane

LEMMA SameContract ==
  ASSUME \A b \in Backup : CopyOf(b)' = CopyOf(b) /\ row'[b].art = row[b].art,
         acked' = acked
  PROVE  UNCHANGED Contract!cvars
BY DEF Contract!cvars

LEMMA CopyRange ==
  \A b \in Backup : CopyOf(b) \in {"none", "reserved", "stored", "gone"}
BY DEF CopyOf

\* A completed row stays completed: an acknowledgement is of a stored backup.
LEMMA ContractStep ==
  ASSUME TypeOK, Effect, LifeInv, CalmInv, Deed
  PROVE  [Contract!CNext]_(Contract!cvars)
<1> USE DEF CopyOf
<1>0. purge \in [Backup -> {"none", "open", "done"}] /\ row \in [Backup -> Row]
  BY DEF TypeOK
<1>1. CASE (Still /\ acked' = acked) \/ UNCHANGED <<row, purge, acked>>
  BY <1>1, SameContract DEF Still, Pending, Completed, Recoverable, Claimed
<1>2. ASSUME NEW b \in Relaying, Completed(b), Still, acked' = acked \union {b}
      PROVE  Contract!CNext
  <2>1. b \in Backup /\ ~Claimed(b)
    BY <1>2 DEF Relaying, CalmInv
  <2>2. CopyOf(b) = "stored"
    BY <1>2, <2>1 DEF Completed, Pending, Recoverable
  <2>3. \A c \in Backup : CopyOf(c)' = CopyOf(c) /\ row'[c].art = row[c].art
    BY <1>2 DEF Still, Pending, Completed, Recoverable, Claimed
  <2> HIDE DEF CopyOf
  <2>4. Contract!Acknowledge(b)
    BY <1>2, <2>1, <2>2, <2>3 DEF Contract!Acknowledge, Contract!Stored
  <2> QED BY <2>1, <2>4 DEF Contract!CNext
<1>3. CASE ClaimPurges /\ acked' = acked
  <2> DEFINE D == NewClaims
  <2>1. D \subseteq StalePending \union ExpiredCompleted
    BY DEF NewClaims, Earliest
  <2>2. \A b \in D : b \in Backup /\ CopyOf(b) \in {"reserved", "stored"}
    BY <2>1 DEF StalePending, ExpiredCompleted, Pending, Completed, Recoverable
  <2>3. ASSUME NEW b \in D, CopyOf(b) = "stored"
        PROVE  \E c \in Backup \ D : CopyOf(c) = "stored"
                                     /\ LaneOf[row[c].art] = LaneOf[row[b].art]
    <3>1. b \in Backup /\ Recoverable(b)
      BY <2>2, <2>3
    <3>2. PICK c \in Backup : NewestOfLane(c) /\ LaneOfBackup(c) = LaneOfBackup(b)
      BY <3>1, NewestExists
    <3>3. c \notin D /\ Recoverable(c)
      BY <2>1, <3>2 DEF NewestOfLane, StalePending, ExpiredCompleted, Recoverable, Completed, Pending
    <3>4. CopyOf(c) = "stored"
      BY <3>3 DEF Recoverable, Completed, Pending
    <3> QED BY <3>2, <3>3, <3>4 DEF LaneOfBackup
  <2>4. row' = row /\ \A b \in Backup : purge'[b] = IF b \in D THEN "open" ELSE purge[b]
    BY <1>3 DEF ClaimPurges
  <2>5. \A b \in Backup : CopyOf(b)' = IF b \in D THEN "gone" ELSE CopyOf(b)
    <3>1. \A b \in D : row[b].status # "unused"
      BY <2>2
    <3> QED BY <2>4, <3>1 DEF Pending, Completed, Recoverable, Claimed
  <2>6. D \in SUBSET Backup
    BY <2>2
  <2> HIDE DEF D, CopyOf
  <2>7. Contract!Retire(D)
    BY <1>3, <2>2, <2>3, <2>4, <2>5, <2>6
       DEF Contract!Retire, Contract!Reserved, Contract!Stored
  <2> QED BY <2>6, <2>7 DEF Contract!CNext
<1>4. ASSUME NEW a \in Artifact, ReserveBackup(a), acked' = acked
      PROVE  [Contract!CNext]_(Contract!cvars)
  <2>1. CASE \E b \in Reusable(a) : row' = [row EXCEPT ![b].expires = now + ReservationTtl]
    BY <1>0, <1>4, <2>1, SameContract
       DEF ReserveBackup, Reusable, Row, Pending, Completed, Recoverable, Claimed
  <2>2. ASSUME Reusable(a) = {}, NEW b \in Backup, row[b].status = "unused",
               row' = [row EXCEPT ![b] = [status |-> "pending", art |-> a,
                                          expires |-> now + ReservationTtl, at |-> 0]]
        PROVE  Contract!CNext
    <3>1. purge' = purge /\ purge[b] = "none"
      BY <1>0, <1>4, <2>2 DEF ReserveBackup, CalmInv, Claimed
    <3>2. CopyOf(b) = "none" /\ CopyOf(b)' = "reserved" /\ row'[b].art = a
      BY <1>0, <2>2, <3>1 DEF Pending, Claimed
    <3>3. \A c \in Backup : c # b => CopyOf(c)' = CopyOf(c) /\ row'[c].art = row[c].art
      BY <1>0, <2>2, <3>1 DEF Pending, Completed, Recoverable, Claimed
    <3>4. \A c \in Backup : ~(CopyOf(c) = "reserved" /\ row[c].art = a)
      BY <2>2 DEF Reusable
    <3> HIDE DEF CopyOf
    <3>5. Contract!OpenReservation(a, b)
      BY <1>4, <3>2, <3>3, <3>4 DEF Contract!OpenReservation, Contract!Reserved
    <3> QED BY <3>5 DEF Contract!CNext
  <2> QED BY <1>4, <2>1, <2>2 DEF ReserveBackup
<1>5. ASSUME NEW b \in Forgetting, FinishPurge(b), acked' = acked
      PROVE  [Contract!CNext]_(Contract!cvars)
  <2>1. b \in Backup /\ purge[b] = "open"
    BY <1>5 DEF Forgetting, FinishPurge
  <2>2. CopyOf(b) = "gone" /\ CopyOf(b)' = "gone" /\ row'[b].art = row[b].art
    BY <1>0, <1>5, <2>1 DEF FinishPurge, Pending, Completed, Recoverable, Claimed, Row
  <2>3. \A c \in Backup : c # b => CopyOf(c)' = CopyOf(c) /\ row'[c].art = row[c].art
    BY <1>0, <1>5, <2>1 DEF FinishPurge, Pending, Completed, Recoverable, Claimed
  <2> HIDE DEF CopyOf
  <2> QED BY <1>5, <2>2, <2>3, SameContract
<1>6. ASSUME NEW b \in Relaying, MarkCompleted(b), acked' \in {acked, acked \union {b}}
      PROVE  [Contract!CNext]_(Contract!cvars)
  <2>1. b \in Backup /\ ~Claimed(b) /\ purge' = purge
    BY <1>6 DEF Relaying, CalmInv, MarkCompleted
  <2>2. CopyOf(b)' = "stored" /\ row'[b].art = row[b].art
    BY <1>0, <1>6, <2>1 DEF MarkCompleted, Pending, Completed, Recoverable, Claimed, Row
  <2>3. \A c \in Backup : c # b => CopyOf(c)' = CopyOf(c) /\ row'[c].art = row[c].art
    BY <1>0, <1>6, <2>1 DEF MarkCompleted, Pending, Completed, Recoverable, Claimed
  <2>4. CopyOf(b) \in {"reserved", "stored"}
    BY <1>6, <2>1 DEF MarkCompleted, Pending, Completed, Recoverable
  <2> HIDE DEF CopyOf
  <2>5. CASE CopyOf(b) = "reserved"
    <3>1. Contract!StoreBackup(b)
      BY <1>6, <2>1, <2>2, <2>3, <2>5 DEF Contract!StoreBackup, Contract!Reserved
    <3> QED BY <2>1, <3>1 DEF Contract!CNext
  <2>6. CASE CopyOf(b) = "stored" /\ acked' = acked
    BY <2>2, <2>3, <2>6, SameContract
  <2>7. CASE CopyOf(b) = "stored" /\ acked' = acked \union {b}
    <3>1. Contract!Acknowledge(b)
      BY <2>1, <2>2, <2>3, <2>7 DEF Contract!Acknowledge, Contract!Stored
    <3> QED BY <2>1, <3>1 DEF Contract!CNext
  <2> QED BY <1>6, <2>4, <2>5, <2>6, <2>7
<1> HIDE DEF CopyOf
<1> QED BY <1>1, <1>2, <1>3, <1>4, <1>5, <1>6 DEF Deed, CalmInv

LEMMA ContractStart == Init => Contract!CInit
BY DEF Init, Contract!CInit, CopyOf

-----------------------------------------------------------------------------

GatewayInv == TypeOK /\ StoreInv /\ Permits /\ LifeInv /\ UnfinishedBounded

LEMMA InitGateway == Init => GatewayInv
<1> SUFFICES ASSUME Init PROVE UnfinishedBounded
  BY InitHolds, InitPermits, InitLife DEF GatewayInv
<1>1. Unfinished = {}
  BY DEF Init, Unfinished
<1> QED BY <1>1, FS_EmptySet, PolicyAssumption DEF UnfinishedBounded

LEMMA GatewayKept == GatewayInv /\ [Next]_vars => GatewayInv' /\ Effect /\ Deed
<1> SUFFICES ASSUME GatewayInv, [Next]_vars PROVE GatewayInv' /\ Effect /\ Deed
  OBVIOUS
<1>1. Effect /\ Deed
  BY StepEffect, StepDeed DEF GatewayInv
<1> QED BY <1>1, NextKeeps, PermitsKept, LifeKept, UnfinishedKept DEF GatewayInv

LEMMA GatewayAlways == Spec => []GatewayInv
BY InitGateway, GatewayKept, PTL DEF Spec

\* Every object below the object root belongs to a row that recovery or a later
\* cleanup still reaches, whatever relays outlive their reservations, handlers
\* are dropped and processes die between two jobs: no backup is published while
\* its claim is being finished (api.rs relay permit, db.rs backup_for_device).
THEOREM ObjectsTracked == Spec => []ObjectTracked
<1>1. GatewayInv => ObjectTracked
  BY DEF GatewayInv, LifeInv
<1> QED BY <1>1, GatewayAlways, PTL

\* Whatever runs were interrupted, and however many resume or claim at a time,
\* no more than CleanupLimit claims are ever unfinished (claim_storage_purges).
THEOREM ClaimsBounded == Spec => []UnfinishedBounded
<1>1. GatewayInv => UnfinishedBounded
  BY DEF GatewayInv
<1> QED BY <1>1, GatewayAlways, PTL

LEMMA CalmAlways == NoAborts /\ Spec => [](GatewayInv /\ CalmInv)
<1> SUFFICES ASSUME NoAborts PROVE Spec => [](GatewayInv /\ CalmInv)
  OBVIOUS
<1>1. GatewayInv /\ CalmInv /\ [Next]_vars => GatewayInv' /\ CalmInv'
  <2> SUFFICES ASSUME GatewayInv, CalmInv, [Next]_vars
               PROVE  GatewayInv' /\ CalmInv'
    OBVIOUS
  <2>1. GatewayInv' /\ Effect /\ Deed
    BY GatewayKept
  <2>2. detached' = {}
    BY NoJobs DEF CalmInv
  <2>3. now' >= now
    BY TimeAdvances DEF GatewayInv
  <2> QED BY <2>1, <2>2, <2>3, CalmKept DEF GatewayInv
<1>2. Init => GatewayInv /\ CalmInv
  BY InitGateway, InitCalm
<1> QED BY <1>1, <1>2, PTL DEF Spec

\* As long as no handler is dropped while its job runs on, cleanup never claims
\* the newest backup of a device and class that was ever completed, through any
\* number of crashes (claim_storage_purges; README.md:69-71).  With dropped
\* handlers it may: run gateway_newest_lost.
THEOREM NewestAlwaysKept == NoAborts /\ Spec => []NewestKept
<1>1. CalmInv => NewestKept
  BY DEF CalmInv
<1> QED BY <1>1, CalmAlways, PTL

\* ... and so none that was reported to the desktop as completed.
THEOREM AckedNewestAlwaysKept == NoAborts /\ Spec => []AckedNewestKept
<1>1. GatewayInv /\ NewestKept => AckedNewestKept
  BY DEF GatewayInv, TypeOK, NewestKept, AckedNewestKept
<1>2. CalmInv => NewestKept
  BY DEF CalmInv
<1> QED BY <1>1, <1>2, CalmAlways, PTL

\* ... and no completed backup before the window of its class is over
\* (claim_storage_purges, config.rs retention windows).
THEOREM WindowAlwaysKept == NoAborts /\ Spec => []WindowKept
<1>1. CalmInv => WindowKept
  BY DEF CalmInv
<1> QED BY <1>1, CalmAlways, PTL

\* Every step of the gateway is one its contract allows or none of the
\* contract's business, while no handler is dropped (reserve_or_reuse_backup,
\* mark_backup_completed, claim_storage_purges).
THEOREM ContractImplemented == NoAborts /\ Spec => ImplementsContract
<1>1. GatewayInv /\ CalmInv /\ [Next]_vars => [Contract!CNext]_(Contract!cvars)
  BY GatewayKept, ContractStep DEF GatewayInv
<1> QED BY <1>1, CalmAlways, ContractStart, PTL DEF Spec, ImplementsContract, Contract!CSpec

-----------------------------------------------------------------------------
(* What follows from the contract.                                         *)

Promise == INSTANCE GatewayContractProofs
  WITH copy <- [b \in Backup |-> CopyOf(b)], art <- [b \in Backup |-> row[b].art]

LEMMA SameSpec == Contract!CSpec => Promise!CSpec
<1>1. Contract!CInit => Promise!CInit
  BY DEF Contract!CInit, Promise!CInit
<1>2. [Contract!CNext]_(Contract!cvars) => [Promise!CNext]_(Promise!cvars)
  BY DEF Contract!CNext, Promise!CNext, Contract!cvars, Promise!cvars,
         Contract!OpenReservation, Promise!OpenReservation,
         Contract!StoreBackup, Promise!StoreBackup,
         Contract!Acknowledge, Promise!Acknowledge, Contract!Retire, Promise!Retire,
         Contract!Reserved, Promise!Reserved, Contract!Stored, Promise!Stored
<1> QED BY <1>1, <1>2, PTL DEF Contract!CSpec, Promise!CSpec

\* Once a backup of a device and class was acknowledged, recovery finds some
\* backup of that device and class.
LaneRecoverable ==
  \A b \in acked : \E c \in Backup : Recoverable(c) /\ LaneOfBackup(c) = LaneOfBackup(b)

\* The promise of the contract, said of the gateway's own tables: the lane of
\* an acknowledged backup never becomes empty (gateway/README.md:69-71).
THEOREM LaneAlwaysRecoverable == NoAborts /\ Spec => []LaneRecoverable
<1>1. GatewayInv /\ Promise!LaneNeverEmpty => LaneRecoverable
  <2> SUFFICES ASSUME GatewayInv, Promise!LaneNeverEmpty, NEW b \in acked
               PROVE  \E c \in Backup : Recoverable(c) /\ LaneOfBackup(c) = LaneOfBackup(b)
    BY DEF LaneRecoverable
  <2>1. b \in Backup
    BY DEF GatewayInv, TypeOK
  <2>2. PICK c \in Backup : CopyOf(c) = "stored" /\ LaneOf[row[c].art] = LaneOf[row[b].art]
    BY <2>1 DEF Promise!LaneNeverEmpty, Promise!Stored
  <2> QED BY <2>2 DEF CopyOf, LaneOfBackup
<1>2. Spec => []GatewayInv
  BY GatewayAlways
<1>3. NoAborts /\ Spec => []Promise!LaneNeverEmpty
  BY ContractImplemented, SameSpec, Promise!LaneNeverEmptied, PTL DEF ImplementsContract
<1> QED BY <1>1, <1>2, <1>3, PTL

\* A device that asks again for a ciphertext it has an open reservation for is
\* given that one, so no ciphertext ever has two (reserve_or_reuse_backup).
OneReusable ==
  \A b, c \in Backup :
    /\ Pending(b) /\ ~Claimed(b) /\ Pending(c) /\ ~Claimed(c)
    /\ row[b].art = row[c].art
    => b = c

\* However often lost responses make desktops reserve again, each ciphertext has
\* one open reservation at most.
THEOREM OneReusableAtATime == NoAborts /\ Spec => []OneReusable
<1>1. Promise!OneReservation => OneReusable
  BY DEF Promise!OneReservation, Promise!Reserved, OneReusable, CopyOf, Pending, Claimed
<1>2. NoAborts /\ Spec => []Promise!OneReservation
  BY ContractImplemented, SameSpec, Promise!OneReservationAtATime, PTL DEF ImplementsContract
<1> QED BY <1>1, <1>2, PTL

=============================================================================
