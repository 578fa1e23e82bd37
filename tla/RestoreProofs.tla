---------------------------- MODULE RestoreProofs ----------------------------
(***************************************************************************)
(* Proofs about Restore for any number of restores, contents and faults:   *)
(* a start without a marker finds a whole database, the plaintext of an    *)
(* incident is gone before its marker, and, unless a recovery was started  *)
(* too early, nothing is lost and the incident can be recovered.           *)
(***************************************************************************)
EXTENDS Restore, FiniteSetTheorems, TLAPS

Before == {"rollback", "candidate", "mark"}
After == {"flush", "detach", "swap", "swapped", "caught", "verify", "undo", "tidy", "unmark"}

\* What the database may hold when the application starts.
SoundContent(c) == c = last \/ (verified /\ c = Backup)

\* A log was written by a running application.
Written(log) == \A w \in log : w.over # Absent /\ w.to # Absent
LogInv == Written(wal) /\ \A s \in Script : Written(rollback[s].log)

\* Who works where, and whose marker there is meanwhile.
LockInv ==
  /\ holder \in {Nobody, App} => run.pc = "idle"
  /\ holder = App => ~Marked /\ base # Absent
  /\ holder = Recovery => Marked /\ run.pc \in {"detach", "swap", "tidy", "unmark"}
  /\ holder \in Script =>
       /\ run.pc \in Before \union After \union {"discard", "finally"}
       /\ run.pc \in Before \union {"discard"} => ~Marked
       /\ run.pc \in After => Marked
       /\ \A m \in marker : m.of = holder /\ m.existed = run.existed
  /\ run.pc \in After \ {"flush"} => \A m \in marker : m.disk = "whole"

\* Where plaintext may lie.
IncidentInv ==
  /\ \A s \in Script : at[s] \in {"new", "staged"} => s \notin incident
  /\ holder \in Script /\ run.pc \in Before => holder \notin incident
  /\ \A s \in incident :
       s \in candidate \union staging => Marked /\ \A m \in marker : m.of = s
  /\ run.pc = "unmark" => \A m \in marker : m.of \notin candidate \union staging

\* What the files hold, whoever works on them.
ContentInv ==
  /\ ~Marked => SoundContent(Reads)
  /\ \A m \in marker :
       /\ rollback[m.of].exists => SoundContent(rollback[m.of].db)
       /\ m.disk # "whole" => SoundContent(Reads)
       /\ ~m.existed => SoundContent(Absent)
       /\ holder = Recovery => m.disk = "whole"
  /\ holder = Recovery /\ run.pc = "swap" => wal = {}
  /\ run.pc \in {"tidy", "unmark"} => SoundContent(Reads)

\* What a recovery finds, unless one was started too early: the rollback directory
\* of the marker goes only from a database that does not need it, while nobody
\* works on it.
TimelyInv ==
  ~hasty => \A m \in marker :
    /\ m.existed /\ ~SoundContent(Reads) => rollback[m.of].exists
    /\ holder = Recovery => rollback[m.of].exists
    /\ Condemned(m.of) => holder = Nobody /\ (m.existed => SoundContent(Reads))

\* What a restore may rely on at each of its steps.
ScriptInv ==
  \A s \in Script : holder = s =>
    /\ run.pc \in After \union {"candidate", "mark"} =>
         /\ rollback[s].exists /\ SoundContent(rollback[s].db)
         /\ run.existed = (run.original # Absent)
    /\ run.pc \in {"candidate", "mark", "flush", "detach"} =>
         base = run.original /\ rollback[s].log = {} /\ SoundContent(Reads)
    /\ run.pc = "swap" =>
         base = run.original /\ wal = {} /\ SoundContent(Reading(base, rollback[s].log))
    /\ run.pc \in {"swap", "swapped", "verify"} /\ run.outcome = "done" => wal = {}
    /\ run.pc \in {"swapped", "verify"} => base = Backup
    /\ run.pc \in Before \union {"flush", "detach", "swap", "swapped"} => run.outcome = "done"
    /\ run.pc = "verify" => run.outcome # "unchanged"
    /\ run.pc = "caught" /\ base = run.original /\ base # Backup =>
         SoundContent(Reading(base, IF wal = {} THEN rollback[s].log ELSE wal))
    /\ run.pc \in {"caught", "verify", "undo"} /\ ~run.existed => wal = {}
    /\ run.pc \in {"swap", "swapped", "caught", "verify", "undo", "tidy", "unmark"}
       /\ run.existed => run.keep
    /\ run.pc = "finally" /\ run.existed /\ Marked /\ ~SoundContent(Reads) => run.keep

Files == LogInv /\ LockInv /\ IncidentInv /\ ContentInv /\ TimelyInv /\ ScriptInv

RestoreInv == RTypeOK /\ Files

-----------------------------------------------------------------------------

LEMMA Actors ==
  /\ Nobody # App /\ Nobody # Recovery /\ App # Recovery
  /\ Nobody \notin Script /\ App \notin Script /\ Recovery \notin Script
<1>1. ASSUME Nobody = App \/ Nobody = Recovery \/ App = Recovery
      PROVE  FALSE
  <2>1. PICK a, b : {Nobody, App, Recovery} = {a, b}
    BY <1>1
  <2>2. IsFiniteSet({a, b}) /\ Cardinality({a, b}) <= 2
    <3>1. IsFiniteSet({a}) /\ Cardinality({a}) = 1
      BY FS_Singleton
    <3>2. /\ IsFiniteSet({a} \union {b})
          /\ Cardinality({a} \union {b}) \in {1, 2}
      BY <3>1, FS_AddElement
    <3>3. {a} \union {b} = {a, b}
      OBVIOUS
    <3> QED BY <3>2, <3>3
  <2> QED BY <2>1, <2>2, RestoreAssumption
<1> QED BY <1>1, RestoreAssumption

LEMMA Numbers == /\ MaxContent \in Nat /\ MaxContent >= 2 /\ MaxFaults \in Nat
                 /\ Content = 0..MaxContent /\ Absent = 0 /\ Backup = 1 /\ Absent \in Content /\ Backup \in Content
                 /\ Absent # Backup
                 /\ Mixed \notin Content
BY RestoreAssumption DEF Content, Absent, Backup, Mixed

LEMMA ReadsBase == \A b : Reading(b, {}) = b
BY DEF Reading

LEMMA ReadsLog ==
  ASSUME NEW b, NEW l \in Logs, NEW w \in l
  PROVE  Reading(b, l) = IF w.over = b THEN w.to ELSE Mixed
<1>1. \A x \in l : x = w
  BY DEF Logs, AtMostOne
<1>2. (CHOOSE x \in l : TRUE) = w
  BY <1>1
<1> QED BY <1>1, <1>2 DEF Reading

\* What is read is a content, or a base under the log of another one; and
\* nothing is read from a log without a base.
LEMMA ReadingType ==
  ASSUME NEW b \in Content, NEW l \in Logs
  PROVE  /\ Reading(b, l) \in Content \union {Mixed}
         /\ (b = Absent /\ \A w \in l : w.over # Absent) /\ l # {} => Reading(b, l) = Mixed
<1>1. CASE l = {}
  BY <1>1, ReadsBase
<1>2. CASE l # {}
  <2>1. PICK w \in l : TRUE
    BY <1>2
  <2>2. w.over \in Content /\ w.to \in Content
    BY <2>1 DEF Logs, Log
  <2> QED BY <2>1, <2>2, ReadsLog
<1> QED BY <1>1, <1>2

LEMMA MarkerIs == ASSUME RTypeOK, Marked
                  PROVE  /\ TheMarker \in marker /\ \A m \in marker : m = TheMarker
                         /\ TheMarker.of \in Script /\ TheMarker.existed \in BOOLEAN
                         /\ TheMarker.disk \in Disk
                         /\ TheMarker \in Marker
<1>1. TheMarker \in marker
  BY DEF Marked, TheMarker
<1>2. \A m \in marker : m = TheMarker
  BY <1>1 DEF RTypeOK, AtMostOne
<1>3. TheMarker \in Marker
  BY <1>1 DEF RTypeOK
<1> QED BY <1>1, <1>2, <1>3 DEF Marker

LEMMA StepType ==
  ASSUME RTypeOK
  PROVE  /\ run.pc \in Pc /\ run.existed \in BOOLEAN /\ run.original \in Content
         /\ run.keep \in BOOLEAN /\ run.outcome \in Outcome
         /\ \A s \in Script : /\ rollback[s] \in Directory /\ rollback[s].exists \in BOOLEAN
                              /\ rollback[s].db \in Content /\ rollback[s].log \in Logs
         /\ Idle.pc = "idle" /\ Idle \in Memory /\ run \in Memory
         /\ Reads \in Content \union {Mixed}
         /\ {} \in Logs
<1>1. Reads \in Content \union {Mixed}
  BY ReadingType DEF RTypeOK, Reads
<1>2. run \in Memory
  BY DEF RTypeOK, Memory
<1>3. Idle.pc = "idle" /\ Idle \in Memory
  BY Numbers DEF Idle, Memory, Pc, Outcome
<1>4. \A s \in Script : /\ rollback[s] \in Directory /\ rollback[s].exists \in BOOLEAN
                        /\ rollback[s].db \in Content /\ rollback[s].log \in Logs
  BY DEF RTypeOK, Directory
<1>5. {} \in Logs
  BY DEF Logs, AtMostOne
<1> QED BY <1>1, <1>2, <1>3, <1>4, <1>5 DEF Memory

\* What the steps make of the holder's memory and of a rollback directory.
LEMMA MemorySteps ==
  ASSUME NEW r \in Memory, NEW p \in Pc, NEW b \in BOOLEAN, NEW o \in Outcome
  PROVE  /\ [r EXCEPT !.pc = p] \in Memory
         /\ [r EXCEPT !.pc = p, !.keep = b] \in Memory
         /\ [r EXCEPT !.pc = p, !.outcome = o] \in Memory
         /\ [r EXCEPT !.pc = p, !.keep = b, !.outcome = o] \in Memory
         /\ \A c \in Content : [r EXCEPT !.pc = p, !.existed = b, !.original = c] \in Memory
<1>1. [r EXCEPT !.pc = p] \in Memory
  BY DEF Memory
<1>2. [r EXCEPT !.pc = p, !.keep = b] \in Memory
  BY DEF Memory
<1>3. [r EXCEPT !.pc = p, !.outcome = o] \in Memory
  BY DEF Memory
<1>4. [r EXCEPT !.pc = p, !.keep = b, !.outcome = o] \in Memory
  BY DEF Memory
<1>5. ASSUME NEW c \in Content
      PROVE  [r EXCEPT !.pc = p, !.existed = b, !.original = c] \in Memory
  BY DEF Memory
<1> QED BY <1>1, <1>2, <1>3, <1>4, <1>5, Zenon

LEMMA DirectorySteps ==
  ASSUME NEW f \in [Script -> Directory], NEW s \in Script
  PROVE  /\ \A l \in Logs : [f EXCEPT ![s].log = l] \in [Script -> Directory]
         /\ {} \in Logs
         /\ \A c \in Content :
              [f EXCEPT ![s] = [exists |-> TRUE, db |-> c, log |-> {}]] \in [Script -> Directory]
         /\ [f EXCEPT ![s] = NoDirectory] \in [Script -> Directory]
<1>1. {} \in Logs
  BY DEF Logs, AtMostOne
<1>2. NoDirectory \in Directory
  BY <1>1, Numbers DEF Directory, NoDirectory
<1>3. \A c \in Content : [exists |-> TRUE, db |-> c, log |-> {}] \in Directory
  BY <1>1 DEF Directory
<1>4. \A l \in Logs : [f[s] EXCEPT !.log = l] \in Directory
  BY DEF Directory
<1> QED BY <1>1, <1>2, <1>3, <1>4

\* The steps of the application and of a recovery keep the types.
LEMMA OthersKeepTypes ==
  ASSUME RTypeOK,
         StartApp \/ Commit \/ Checkpoint \/ StopApp \/ StartRecovery \/ RecoveryStep
  PROVE  RTypeOK'
<1>t. Reads \in Content \union {Mixed} /\ {} \in Logs
  BY StepType
<1> USE Actors, Numbers, <1>t DEF database, plaintext, history
<1>1. CASE StartApp
  <2>1. base' \in Content /\ newest' \in Content /\ last' \in Content
    BY <1>1 DEF StartApp, RTypeOK
  <2> QED BY <1>1, <2>1 DEF StartApp, RTypeOK
<1>2. CASE Commit
  <2>1. wal' \in Logs
    BY <1>2 DEF Commit, RTypeOK, Log, Logs, AtMostOne
  <2> QED BY <1>2, <2>1 DEF Commit, RTypeOK
<1>3. CASE Checkpoint
  BY <1>3 DEF Checkpoint, RTypeOK
<1>4. CASE StopApp
  BY <1>4 DEF StopApp, RTypeOK
<1>5. CASE StartRecovery
  <2>1. run' \in Memory
    BY <1>5, StepType, MemorySteps DEF StartRecovery, Pc
  <2>2. [TheMarker EXCEPT !.disk = "whole"] \in Marker
    BY <1>5, MarkerIs DEF StartRecovery, CanRecover, Marker, Disk
  <2>3. marker' \subseteq Marker /\ AtMostOne(marker') /\ marker' # {}
    BY <1>5, <2>2 DEF StartRecovery, AtMostOne
  <2>4. hasty' \in BOOLEAN
    BY <1>5 DEF StartRecovery, Condemned, RTypeOK
  <2> QED BY <1>5, <2>1, <2>3, <2>4 DEF StartRecovery, Marked, RTypeOK
<1>6. CASE RecoveryStep
  <2> USE DEF Step
  <2>1. CASE RecoveryDetaches
    <3>1. run' \in Memory
      BY <2>1, StepType, MemorySteps DEF RecoveryDetaches, Goto, Pc
    <3> QED BY <2>1, <3>1 DEF RecoveryDetaches, Marked, RTypeOK
  <2>2. CASE RecoverySwaps
    <3>1. run' \in Memory
      BY <2>2, StepType, MemorySteps DEF RecoverySwaps, Goto, Pc
    <3>2. base' \in Content
      BY <2>2, MarkerIs, StepType DEF RecoverySwaps, RTypeOK
    <3> QED BY <2>2, <3>1, <3>2 DEF RecoverySwaps, Marked, RTypeOK
  <2>3. CASE RecoveryTidies
    <3>1. run' \in Memory
      BY <2>3, StepType, MemorySteps DEF RecoveryTidies, Goto, Pc
    <3> QED BY <2>3, <3>1 DEF RecoveryTidies, Marked, RTypeOK
  <2>4. CASE RecoveryUnmarks
    <3>1. run' \in Memory
      BY <2>4, StepType DEF RecoveryUnmarks
    <3> QED BY <2>4, <3>1 DEF RecoveryUnmarks, AtMostOne, RTypeOK
  <2>5. CASE RecoveryStops
    <3>1. run' \in Memory
      BY <2>5, StepType DEF RecoveryStops
    <3> QED BY <2>5, <3>1 DEF RecoveryStops, Marked, RTypeOK
  <2> QED BY <1>6, <2>1, <2>2, <2>3, <2>4, <2>5 DEF RecoveryStep
<1> QED BY <1>1, <1>2, <1>3, <1>4, <1>5, <1>6

\* The steps of a restore change what the holder remembers within its type.
LEMMA RestoreMemory ==
  ASSUME RTypeOK, NEW s \in Script, RestoreStep(s)
  PROVE  run' \in Memory /\ rollback' \in [Script -> Directory]
<1>0. /\ run \in Memory /\ Idle \in Memory
      /\ rollback \in [Script -> Directory] /\ base \in Content
  BY StepType DEF RTypeOK
<1>p. \A pc \in Pc : [run EXCEPT !.pc = pc] \in Memory
  BY <1>0, MemorySteps, Zenon DEF Outcome
<1> USE <1>0
<1>1. CASE MakeRollback(s)
  <2>1. Reads \in Content
    BY <1>1, StepType DEF MakeRollback
  <2>2. run' \in Memory
    <3>1. run' = [run EXCEPT !.pc = "candidate", !.existed = base # Absent, !.original = base]
      BY <1>1 DEF MakeRollback
    <3>2. "candidate" \in Pc /\ (base # Absent) \in BOOLEAN /\ "done" \in Outcome
      BY DEF Pc, Outcome
    <3> QED BY <3>1, <3>2, MemorySteps, Zenon
  <2>3. rollback' \in [Script -> Directory]
    <3>1. rollback' = [rollback EXCEPT ![s] = [exists |-> TRUE, db |-> Reads, log |-> {}]]
      BY <1>1 DEF MakeRollback
    <3> QED BY <2>1, <3>1, DirectorySteps, Zenon
  <2> QED BY <2>2, <2>3
<1>2. CASE CopyCandidate(s) \/ WriteMarker(s) \/ FlushMarker(s) \/ Swap(s)
  <2>1. /\ "mark" \in Pc /\ "flush" \in Pc /\ "detach" \in Pc /\ "swapped" \in Pc
    BY DEF Pc
  <2> QED BY <1>p, <1>2, <2>1, Zenon DEF CopyCandidate, WriteMarker, FlushMarker, Swap, Goto
<1>3. CASE Verify(s) \/ Undo(s) \/ Tidy(s)
  <2>1. /\ "tidy" \in Pc /\ "unmark" \in Pc /\ "undo" \in Pc
    BY DEF Pc
  <2> QED BY <1>p, <1>3, <2>1, Zenon DEF Verify, Undo, Tidy, Goto
<1>4. CASE Detach(s)
  <2>1. /\ wal \in Logs /\ run.existed \in BOOLEAN /\ "swap" \in Pc /\ "done" \in Outcome
    BY StepType DEF RTypeOK, Pc, Outcome
  <2> QED BY <1>4, <2>1, MemorySteps, DirectorySteps, Zenon DEF Detach
<1>5. CASE Swapped(s)
  <2>1. "verify" \in Pc /\ TRUE \in BOOLEAN /\ "done" \in Outcome
    BY DEF Pc, Outcome
  <2> QED BY <1>5, <2>1, MemorySteps, Zenon DEF Swapped
<1>6. CASE Caught(s)
  <2>1. /\ "verify" \in Pc /\ "tidy" \in Pc /\ "finally" \in Pc /\ TRUE \in BOOLEAN
        /\ "done" \in Outcome /\ "undo" \in Outcome /\ "unchanged" \in Outcome
    BY DEF Pc, Outcome
  <2>2. CASE run' = [run EXCEPT !.pc = "verify", !.keep = TRUE, !.outcome = "undo"]
             /\ rollback' = rollback
    BY <2>1, <2>2, MemorySteps, Zenon
  <2>3. CASE run' = [run EXCEPT !.pc = "tidy", !.outcome = "unchanged"]
             /\ rollback' = [rollback EXCEPT ![s].log = {}]
    BY <2>1, <2>3, MemorySteps, DirectorySteps, Zenon
  <2>4. CASE run' = [run EXCEPT !.pc = "finally", !.keep = TRUE] /\ rollback' = rollback
    BY <2>1, <2>4, MemorySteps, Zenon
  <2> QED BY <1>6, <2>2, <2>3, <2>4, Zenon DEF Caught
<1>7. CASE Unmark(s)
  <2> DEFINE keep == run.keep /\ run.outcome # "unchanged" /\ (run.existed \/ run.outcome = "undo")
  <2> DEFINE pc == IF run.existed \/ run.outcome # "done" THEN "finally" ELSE "discard"
  <2>1. pc \in Pc /\ keep \in BOOLEAN /\ "done" \in Outcome
    BY StepType DEF Pc, Outcome
  <2>2. run' = [run EXCEPT !.pc = pc, !.keep = keep] /\ rollback' = rollback
    BY <1>7 DEF Unmark
  <2> HIDE DEF pc, keep
  <2> QED BY <2>1, <2>2, MemorySteps, Zenon
<1>8. CASE DiscardEmpty(s)
  <2>1. "finally" \in Pc
    BY DEF Pc
  <2> QED BY <1>8, <1>p, <2>1, DirectorySteps, Zenon DEF DiscardEmpty, Without, Goto
<1>9. CASE Release(s)
  BY <1>9, Zenon DEF Release
<1> QED BY <1>1, <1>2, <1>3, <1>4, <1>5, <1>6, <1>7, <1>8, <1>9, Zenon DEF RestoreStep

LEMMA RestoreKeepsTypes ==
  ASSUME RTypeOK, NEW s \in Script, Stage(s) \/ Refuse(s) \/ Lock(s) \/ RestoreStep(s)
  PROVE  RTypeOK'
<1> USE Actors, Numbers DEF database, plaintext, history, At
<1>1. CASE Stage(s)
  BY <1>1 DEF Stage, Marked, RTypeOK
<1>2. CASE Refuse(s)
  BY <1>2 DEF Refuse, Marked, RTypeOK
<1>3. CASE Lock(s)
  <2>1. run' \in Memory
    BY <1>3, StepType, MemorySteps DEF Lock, Pc
  <2> QED BY <1>3, <2>1 DEF Lock, RTypeOK
<1>4. CASE RestoreStep(s)
  <2>0. run' \in Memory /\ rollback' \in [Script -> Directory]
    BY <1>4, RestoreMemory
  <2> USE <2>0 DEF Step
  <2>1. CASE MakeRollback(s) \/ CopyCandidate(s)
    BY <2>1 DEF MakeRollback, CopyCandidate, RTypeOK
  <2>2. CASE WriteMarker(s) \/ FlushMarker(s)
    <3>1. run.existed \in BOOLEAN
      BY StepType
    <3>2. marker' \subseteq Marker /\ AtMostOne(marker')
      BY <2>2, <3>1 DEF WriteMarker, FlushMarker, Put, Marker, Disk, AtMostOne
    <3> QED BY <2>2, <3>2 DEF WriteMarker, FlushMarker, RTypeOK
  <2>3. CASE Detach(s) \/ Swap(s) \/ Swapped(s)
    <3>1. {} \in Logs
      BY StepType
    <3> QED BY <2>3, <3>1 DEF Detach, Swap, Swapped, RTypeOK
  <2>4. CASE Caught(s)
    <3>1. rollback[s].log \in Logs
      BY StepType
    <3>2. wal' \in Logs
      BY <2>4, <3>1 DEF Caught, RTypeOK
    <3> QED BY <2>4, <3>2 DEF Caught, RTypeOK
  <2>5. CASE Verify(s)
    BY <2>5 DEF Verify, RTypeOK
  <2>6. CASE Undo(s)
    <3>1. rollback[s].db \in Content /\ {} \in Logs
      BY StepType
    <3> QED BY <2>6, <3>1 DEF Undo, RTypeOK
  <2>7. CASE Tidy(s)
    BY <2>7 DEF Tidy, RTypeOK
  <2>8. CASE Unmark(s)
    BY <2>8 DEF Unmark, AtMostOne, RTypeOK
  <2>9. CASE DiscardEmpty(s)
    BY <2>9 DEF DiscardEmpty, RTypeOK
  <2>10. CASE Release(s)
    <3>1. at' \in [Script -> At]
      BY <2>10 DEF Release, RTypeOK, At
    <3>2. \A x \in Script : at'[x] # "locked" /\ holder' # x
      BY <2>10 DEF Release, RTypeOK
    <3> QED BY <2>10, <3>1, <3>2 DEF Release, RTypeOK
  <2> QED BY <1>4, <2>1, <2>2, <2>3, <2>4, <2>5, <2>6, <2>7, <2>8, <2>9, <2>10
          DEF RestoreStep
<1> QED BY <1>1, <1>2, <1>3, <1>4

\* What a script removes once it has released the lock, or could not remove.
LEMMA CleanUpKeepsTypes ==
  ASSUME RTypeOK, NEW s \in Script, CleanUp(s) \/ CleanupFails(s)
  PROVE  RTypeOK'
<1>1. /\ at[s] \in {"keeping", "dropping", "discarding"}
      /\ at' \in [Script -> At]
      /\ \A x \in Script : at'[x] = "locked" <=> at[x] = "locked"
  BY DEF CleanUp, CleanPlaintext, Discard, CleanupFails, Cleaned, RTypeOK, At
<1>2. rollback' \in [Script -> Directory]
  <2>1. rollback' = rollback \/ rollback' = Without(s)
    BY DEF CleanUp, CleanPlaintext, Discard, CleanupFails, Cleaned
  <2>2. rollback \in [Script -> Directory]
    BY DEF RTypeOK
  <2>3. Without(s) \in [Script -> Directory]
    BY <2>2, DirectorySteps, Zenon DEF Without
  <2> QED BY <2>1, <2>2, <2>3
<1>3. candidate' \subseteq Script /\ staging' \subseteq Script
  BY DEF CleanUp, CleanPlaintext, Discard, CleanupFails, Cleaned, plaintext, RTypeOK
<1>4. /\ UNCHANGED <<base, wal, marker, holder, run, newest, last, verified, incident, hasty>>
      /\ faults' \in 0..MaxFaults
  BY Numbers DEF CleanUp, CleanPlaintext, Discard, CleanupFails, Cleaned, Fault, database, history, RTypeOK
<1> QED BY <1>1, <1>2, <1>3, <1>4 DEF RTypeOK, Marked

LEMMA FaultsKeepTypes ==
  ASSUME RTypeOK,
         \/ \E s \in Script : Fail(s) \/ SwapFails(s) \/ UndoFails(s) \/ Cancel(s)
         \/ \E p \in Script \union {App, Recovery} : Kill(p)
         \/ RecoveryFails \/ Power
  PROVE  RTypeOK'
<1>0. /\ run \in Memory /\ Idle \in Memory /\ {} \in Logs
      /\ \A s \in Script : rollback[s].db \in Content
  BY StepType
<1>p. \A pc \in Pc : [run EXCEPT !.pc = pc] \in Memory
  BY <1>0, MemorySteps, Zenon DEF Outcome
<1>c. /\ "finally" \in Pc /\ "caught" \in Pc /\ "undo" \in Pc
      /\ "done" \in Outcome /\ "undo" \in Outcome
  BY DEF Pc, Outcome
<1> USE Actors, Numbers DEF plaintext, database, Fault
<1>1. ASSUME NEW s \in Script, Fail(s)
      PROVE  RTypeOK'
  <2>1. run' \in Memory
    <3>1. run.existed \in BOOLEAN /\ TRUE \in BOOLEAN
      BY StepType
    <3>2. CASE run' = [run EXCEPT !.pc = "finally"]
      BY <1>p, <1>c, <3>2, Zenon
    <3>3. CASE run' = [run EXCEPT !.pc = "caught", !.keep = run.existed]
      BY <1>0, <1>c, <3>1, <3>3, MemorySteps, Zenon
    <3>4. CASE run' = [run EXCEPT !.pc = "finally", !.keep = TRUE]
      BY <1>0, <1>c, <3>1, <3>4, MemorySteps, Zenon
    <3>5. CASE run' = [run EXCEPT !.pc = "undo", !.outcome = "undo"]
      BY <1>0, <1>c, <3>1, <3>5, MemorySteps, Zenon
    <3> QED BY <1>1, <3>2, <3>3, <3>4, <3>5, Zenon DEF Fail, Goto
  <2>2. marker' \subseteq Marker /\ AtMostOne(marker') /\ incident' \subseteq Script
    <3>1. run.existed \in BOOLEAN
      BY StepType
    <3>2. CASE UNCHANGED <<marker, incident>>
      BY <3>2 DEF RTypeOK, AtMostOne
    <3>3. CASE Put(s, "torn") /\ incident' = incident \union {s}
      BY <3>1, <3>3 DEF Put, RTypeOK, Marker, Disk, AtMostOne
    <3> QED BY <1>1, <3>2, <3>3 DEF Fail
  <2>3. /\ UNCHANGED <<base, wal, at, staging, candidate, rollback, holder, newest, last, verified,
                    hasty>>
        /\ holder = s /\ faults' \in 0..MaxFaults
    BY <1>1 DEF Fail, RTypeOK
  <2> QED BY <2>1, <2>2, <2>3 DEF RTypeOK
<1>2. ASSUME NEW s \in Script, SwapFails(s) \/ UndoFails(s) \/ Cancel(s)
      PROVE  RTypeOK'
  <2>1. run' \in Memory
    BY <1>p, <1>c, <1>2, Zenon DEF SwapFails, UndoFails, Cancel, Goto
  <2>2. base' \in Content /\ wal' \in Logs /\ candidate' \subseteq Script
    BY <1>0, <1>2 DEF SwapFails, UndoFails, Cancel, RTypeOK
  <2>3. /\ UNCHANGED <<marker, at, staging, rollback, holder, newest, last, verified, incident,
                    hasty>>
        /\ holder = s /\ faults' \in 0..MaxFaults
    BY <1>2 DEF SwapFails, UndoFails, Cancel, Step, RTypeOK
  <2> QED BY <2>1, <2>2, <2>3 DEF RTypeOK
<1>3. ASSUME NEW p \in Script \union {App, Recovery}, Kill(p)
      PROVE  RTypeOK'
  <2>1. at' \in [Script -> At]
    BY <1>3 DEF Kill, Ended, RTypeOK, At
  <2>2. \A s \in Script : at'[s] = "locked" <=> at[s] = "locked" /\ s # p
    BY <1>3 DEF Kill, Ended, RTypeOK, Working
  <2>3. \A s \in Script : holder' = s <=> holder = s /\ s # p
    BY <1>3 DEF Kill, RTypeOK, Working
  <2>4. /\ holder' \in Script \union {Nobody, App, Recovery} /\ (holder' = Recovery => Marked)
        /\ run' \in Memory
    BY <1>0, <1>3 DEF Kill, RTypeOK
  <2>5. /\ UNCHANGED <<base, wal, marker, staging, candidate, rollback, newest, last, verified,
                       incident, hasty>>
        /\ faults' \in 0..MaxFaults
    BY <1>3 DEF Kill, RTypeOK
  <2> QED BY <2>1, <2>2, <2>3, <2>4, <2>5 DEF RTypeOK, Marked
<1>4. CASE RecoveryFails
  <2>1. base' \in Content
    BY <1>0, <1>4, MarkerIs DEF RecoveryFails, RTypeOK
  <2> QED BY <1>0, <1>4, <2>1 DEF RecoveryFails, RTypeOK
<1>5. CASE Power
  <2>1. marker' \subseteq Marker /\ AtMostOne(marker')
    <3>1. CASE marker' = marker
      BY <3>1 DEF RTypeOK, AtMostOne
    <3>2. CASE Marked /\ marker' = {[TheMarker EXCEPT !.disk = "torn"]}
      <4>1. [TheMarker EXCEPT !.disk = "torn"] \in Marker
        BY <3>2, MarkerIs DEF Marker, Disk
      <4> QED BY <3>2, <4>1 DEF AtMostOne
    <3> QED BY <1>5, <3>1, <3>2 DEF Power
  <2>2. /\ at' \in [Script -> At]
        /\ \A s \in Script : at'[s] # "locked"
    BY <1>5 DEF Power, Ended, RTypeOK, Working, At
  <2>3. /\ UNCHANGED <<base, wal, staging, candidate, rollback, newest, last, verified, incident, hasty>>
        /\ holder' = Nobody /\ run' = Idle /\ faults' \in 0..MaxFaults
    BY <1>5 DEF Power, RTypeOK
  <2> QED BY <1>0, <2>1, <2>2, <2>3 DEF RTypeOK
<1> QED BY <1>1, <1>2, <1>3, <1>4, <1>5

LEMMA TypesKept == RTypeOK /\ [Next]_vars => RTypeOK'
<1> SUFFICES ASSUME RTypeOK, [Next]_vars PROVE RTypeOK'
  OBVIOUS
<1>1. CASE UNCHANGED vars
  <2>1. /\ UNCHANGED <<base, wal, marker, at, staging, candidate, rollback, holder, run>>
        /\ UNCHANGED <<newest, last, verified, incident, hasty, faults>>
    BY <1>1 DEF vars, database, plaintext, history
  <2> QED BY <2>1 DEF RTypeOK, Marked, AtMostOne
<1>2. CASE Next
  BY <1>2, OthersKeepTypes, RestoreKeepsTypes, CleanUpKeepsTypes, FaultsKeepTypes DEF Next
<1> QED BY <1>1, <1>2

LEMMA TypesHold == Init => RTypeOK
<1> SUFFICES ASSUME Init PROVE RTypeOK
  OBVIOUS
<1>1. {} \in Logs
  BY DEF Logs, AtMostOne
<1>2. NoDirectory \in Directory
  BY <1>1, Numbers DEF NoDirectory, Directory
<1>3. Idle \in Memory
  BY Numbers DEF Idle, Memory, Pc, Outcome
<1>4. AtMostOne(marker) /\ marker \subseteq Marker
  BY DEF Init, AtMostOne
<1>5. /\ base \in Content /\ newest \in Content /\ last \in Content
      /\ faults \in 0..MaxFaults
  BY Numbers DEF Init
<1>6. at \in [Script -> At] /\ rollback \in [Script -> Directory]
  BY <1>2 DEF Init, At
<1>7. \A s \in Script : at[s] # "locked" /\ holder # s
  BY Actors DEF Init
<1> QED BY <1>1, <1>3, <1>4, <1>5, <1>6, <1>7, Actors DEF Init, RTypeOK

\* The types hold for any number of restores, contents and faults, and nobody
\* works on the database but the holder of the lock.
THEOREM RestoreTypes == Spec => []RTypeOK
<1> QED BY TypesHold, TypesKept, PTL DEF Spec

-----------------------------------------------------------------------------

\* What a step leaves of the holder's memory and of the directories.
LEMMA MemoryFields ==
  ASSUME NEW r \in Memory, NEW p, NEW b, NEW o
  PROVE  /\ [r EXCEPT !.pc = p].pc = p
         /\ [r EXCEPT !.pc = p].existed = r.existed
         /\ [r EXCEPT !.pc = p].original = r.original
         /\ [r EXCEPT !.pc = p].keep = r.keep
         /\ [r EXCEPT !.pc = p].outcome = r.outcome
BY DEF Memory

LEMMA DirectoryFields ==
  ASSUME NEW f \in [Script -> Directory], NEW s \in Script, NEW l
  PROVE  LET g == [f EXCEPT ![s].log = l]
         IN  /\ g[s].exists = f[s].exists /\ g[s].db = f[s].db /\ g[s].log = l
             /\ \A t \in Script : t # s => g[t] = f[t]
BY DEF Directory

\* A database that may be found is a content; so there is no log without its base.
LEMMA SoundIsContent ==
  ASSUME RTypeOK, LogInv, SoundContent(Reads)
  PROVE  Reads \in Content /\ (base = Absent => wal = {} /\ Reads = Absent)
<1>1. Reads # Mixed
  BY Numbers DEF SoundContent, RTypeOK
<1>2. wal \in Logs /\ base \in Content
  BY DEF RTypeOK
<1>3. Reads \in Content
  BY <1>1, StepType
<1>4. base = Absent => wal = {}
  BY <1>1, <1>2, ReadingType DEF Reads, LogInv, Written
<1> QED BY <1>3, <1>4, ReadsBase DEF Reads

\* Without a marker there is nothing to recover; and beside the marker of a
\* restore at work its rollback directory is there.
LEMMA TimelyUnmarked == ASSUME marker' = {}
                        PROVE  TimelyInv'
BY DEF TimelyInv

LEMMA TimelyForScript ==
  ASSUME RTypeOK, NEW s \in Script, holder = s, UNCHANGED at,
         \A m \in marker' : m.of = s,
         marker' # {} => rollback'[s].exists
  PROVE  TimelyInv'
<1>1. at[s] = "locked"
  BY DEF RTypeOK
<1> QED BY <1>1 DEF TimelyInv, Condemned

LEMMA StartAppKeeps == RestoreInv /\ StartApp => Files'
<1> SUFFICES ASSUME RestoreInv, StartApp PROVE Files'
  OBVIOUS
<1>1. /\ RTypeOK /\ LogInv /\ LockInv /\ IncidentInv /\ ContentInv /\ ScriptInv
      /\ holder = Nobody /\ ~Marked /\ run.pc = "idle" /\ SoundContent(Reads)
  BY DEF RestoreInv, Files, StartApp, LockInv, ContentInv
<1>2. /\ holder' = App /\ UNCHANGED <<wal, marker, at, staging, candidate, rollback, run, incident>>
  BY DEF StartApp, plaintext
<1>3. Reads' = last' /\ base' # Absent
  <2>1. CASE base = Absent
    <3>1. wal' = {} /\ newest \in Nat
      BY <1>1, <1>2, <2>1, SoundIsContent, Numbers DEF RTypeOK
    <3>2. base' = newest + 1 /\ last' = newest + 1
      BY <2>1 DEF StartApp
    <3> QED BY <3>1, <3>2, ReadsBase, Numbers DEF Reads
  <2>2. CASE base # Absent
    <3>1. Reads # Mixed
      BY <1>1, SoundIsContent, Numbers
    <3> QED BY <1>2, <2>2, <3>1 DEF StartApp, Reads
  <2> QED BY <2>1, <2>2
<1>4. LogInv'
  BY <1>1, <1>2 DEF LogInv, Written
<1>5. LockInv'
  BY <1>1, <1>2, <1>3, Actors DEF LockInv, Marked, After
<1>6. IncidentInv'
  BY <1>1, <1>2, <1>3, Actors DEF IncidentInv, Marked
<1>7. ContentInv'
  BY <1>1, <1>2, <1>3, Actors DEF ContentInv, Marked, SoundContent
<1>8. ScriptInv'
  BY <1>2, Actors DEF ScriptInv
<1>t. TimelyInv'
  BY <1>1, TimelyUnmarked DEF Marked, StartApp, Commit, Checkpoint, StopApp
<1> QED BY <1>4, <1>5, <1>6, <1>7, <1>8, <1>t DEF Files

LEMMA CommitKeeps == RestoreInv /\ Commit => Files'
<1> SUFFICES ASSUME RestoreInv, Commit PROVE Files'
  OBVIOUS
<1>1. /\ RTypeOK /\ LogInv /\ LockInv /\ IncidentInv
      /\ holder = App /\ ~Marked /\ run.pc = "idle" /\ base # Absent
  BY DEF RestoreInv, Files, Commit, LockInv
<1>2. /\ UNCHANGED <<base, holder, marker, at, staging, candidate, rollback, run, incident>>
      /\ wal' = {[over |-> base, to |-> newest + 1]} /\ last' = newest + 1 /\ newest + 1 \in Nat \ {0}
      /\ newest + 1 \in Content
  BY <1>1, Numbers DEF Commit, plaintext, RTypeOK
<1>3. Reads' = last'
  <2>1. wal' \in Logs
    BY <1>1, <1>2 DEF Logs, Log, AtMostOne, RTypeOK
  <2> QED BY <1>2, <2>1, ReadsLog DEF Reads
<1>4. LogInv'
  BY <1>1, <1>2, Numbers DEF LogInv, Written
<1>5. LockInv'
  BY <1>1, <1>2 DEF LockInv, Marked
<1>6. IncidentInv'
  BY <1>1, <1>2 DEF IncidentInv, Marked
<1>7. ContentInv'
  BY <1>1, <1>2, <1>3, Actors DEF ContentInv, Marked, SoundContent
<1>8. ScriptInv'
  BY <1>1, <1>2, Actors DEF ScriptInv
<1>t. TimelyInv'
  BY <1>1, TimelyUnmarked DEF Marked, StartApp, Commit, Checkpoint, StopApp
<1> QED BY <1>4, <1>5, <1>6, <1>7, <1>8, <1>t DEF Files

LEMMA CheckpointKeeps == RestoreInv /\ Checkpoint => Files'
<1> SUFFICES ASSUME RestoreInv, Checkpoint PROVE Files'
  OBVIOUS
<1>1. /\ RTypeOK /\ LogInv /\ LockInv /\ IncidentInv /\ ContentInv
      /\ holder = App /\ ~Marked /\ run.pc = "idle" /\ SoundContent(Reads)
  BY DEF RestoreInv, Files, Checkpoint, LockInv, ContentInv
<1>2. /\ UNCHANGED <<holder, marker, at, staging, candidate, rollback, run, incident, last, verified>>
      /\ base' = Reads /\ wal' = {} /\ wal # {} /\ Reads # Mixed
  BY DEF Checkpoint, plaintext, history
<1>3. Reads' = Reads
  BY <1>2, ReadsBase DEF Reads
<1>4. base' # Absent
  <2>1. PICK w \in wal : TRUE
    BY <1>2
  <2>2. Reads = w.to
    BY <1>1, <1>2, <2>1, ReadsLog DEF Reads, RTypeOK
  <2> QED BY <1>1, <1>2, <2>1, <2>2 DEF LogInv, Written
<1>5. LogInv'
  BY <1>1, <1>2 DEF LogInv, Written
<1>6. LockInv'
  BY <1>1, <1>2, <1>4 DEF LockInv, Marked
<1>7. IncidentInv'
  BY <1>1, <1>2 DEF IncidentInv, Marked
<1>8. ContentInv'
  BY <1>1, <1>2, <1>3, Actors DEF ContentInv, Marked, SoundContent
<1>9. ScriptInv'
  BY <1>1, <1>2, Actors DEF ScriptInv
<1>t. TimelyInv'
  BY <1>1, TimelyUnmarked DEF Marked, StartApp, Commit, Checkpoint, StopApp
<1> QED BY <1>5, <1>6, <1>7, <1>8, <1>9, <1>t DEF Files

LEMMA StopAppKeeps == RestoreInv /\ StopApp => Files'
<1> SUFFICES ASSUME RestoreInv, StopApp PROVE Files'
  OBVIOUS
<1>1. /\ RTypeOK /\ LogInv /\ LockInv /\ IncidentInv /\ ContentInv
      /\ holder = App /\ holder' = Nobody /\ run.pc = "idle"
      /\ UNCHANGED <<base, wal, marker, at, staging, candidate, rollback, run, incident, last,
                     verified>>
  BY DEF RestoreInv, Files, StopApp, LockInv, database, plaintext, history
<1>2. LogInv'
  BY <1>1 DEF LogInv, Written
<1>3. LockInv'
  BY <1>1, Actors DEF LockInv, Marked
<1>4. IncidentInv'
  BY <1>1, Actors DEF IncidentInv, Marked
<1>5. ContentInv'
  BY <1>1, Actors DEF ContentInv, Marked, SoundContent, Reads
<1>6. ScriptInv'
  BY <1>1, Actors DEF ScriptInv
<1>t. TimelyInv'
  BY <1>1, TimelyUnmarked DEF LockInv, Marked
<1> QED BY <1>2, <1>3, <1>4, <1>5, <1>6, <1>t DEF Files

\* Staging and refusing touch nothing but the plaintext of that script.
LEMMA StageKeeps == ASSUME RestoreInv, NEW s \in Script, Stage(s) \/ Refuse(s)
                    PROVE  Files'
<1>1. /\ RTypeOK /\ LogInv /\ LockInv /\ IncidentInv /\ ContentInv /\ ScriptInv
      /\ TimelyInv
      /\ UNCHANGED <<base, wal, marker, candidate, rollback, holder, run, incident, last, verified,
                     hasty>>
  BY DEF RestoreInv, Files, Stage, Refuse, database, history
<1>2. LogInv' /\ LockInv' /\ ScriptInv'
  BY <1>1 DEF LogInv, LockInv, ScriptInv, Marked, SoundContent, Reads
<1>3. ContentInv'
  BY <1>1 DEF ContentInv, Marked, SoundContent, Reads
<1>4. IncidentInv'
  <2>1. CASE Stage(s)
    BY <1>1, <2>1 DEF Stage, IncidentInv, Marked, RTypeOK
  <2>2. CASE Refuse(s)
    BY <1>1, <2>2 DEF Refuse, IncidentInv, Marked, RTypeOK
  <2> QED BY <2>1, <2>2
<1>t. TimelyInv'
  <2>1. \A x \in Script : Condemned(x)' => Condemned(x)
    BY <1>1 DEF Stage, Refuse, Condemned, RTypeOK
  <2>2. \A m \in marker : m.of \in Script
    BY <1>1 DEF RTypeOK, Marker
  <2> QED BY <1>1, <2>1, <2>2 DEF TimelyInv, SoundContent, Reads
<1> QED BY <1>2, <1>3, <1>4, <1>t DEF Files

LEMMA LockKeeps == ASSUME RestoreInv, NEW s \in Script, Lock(s)
                   PROVE  Files'
<1>1. /\ RTypeOK /\ LogInv /\ LockInv /\ IncidentInv /\ ContentInv
      /\ at[s] = "staged" /\ ~Marked /\ holder = Nobody /\ holder' = s
      /\ at' = [at EXCEPT ![s] = "locked"]
      /\ UNCHANGED <<base, wal, marker, staging, candidate, rollback, incident, last, verified>>
  BY DEF RestoreInv, Files, Lock, database, plaintext, history
<1>2. run'.pc = "rollback" /\ run'.outcome = "done"
  BY DEF Lock, Idle
<1>3. LogInv'
  BY <1>1 DEF LogInv, Written
<1>4. LockInv'
  BY <1>1, <1>2, Actors DEF LockInv, Marked, Before, After
<1>5. IncidentInv'
  BY <1>1, <1>2 DEF IncidentInv, Marked, RTypeOK
<1>6. ContentInv'
  BY <1>1, <1>2, Actors DEF ContentInv, Marked, SoundContent, Reads
<1>7. ScriptInv'
  BY <1>1, <1>2 DEF ScriptInv, Before, After
<1>t. TimelyInv'
  BY <1>1, TimelyUnmarked DEF Marked
<1> QED BY <1>3, <1>4, <1>5, <1>6, <1>7, <1>t DEF Files

LEMMA MakeRollbackKeeps == ASSUME RestoreInv, NEW s \in Script, MakeRollback(s)
                           PROVE  Files'
<1>1. /\ RTypeOK /\ LogInv /\ LockInv /\ IncidentInv /\ ContentInv /\ ScriptInv
      /\ holder = s /\ run.pc = "rollback" /\ ~Marked /\ SoundContent(Reads)
      /\ UNCHANGED <<base, wal, marker, at, staging, candidate, holder, incident, last, verified>>
  BY DEF RestoreInv, Files, MakeRollback, Step, LockInv, ContentInv, Before, database, plaintext, history
<1>2. /\ run'.pc = "candidate" /\ run'.existed = (run'.original # Absent) /\ run'.original = base
      /\ run'.outcome = "done"
  <2>1. run.outcome = "done"
    BY <1>1 DEF ScriptInv, Before
  <2>2. run \in Memory
    BY <1>1 DEF RTypeOK
  <2> QED BY <2>1, <2>2 DEF MakeRollback, Memory
<1>3. rollback'[s].exists /\ rollback'[s].db = Reads /\ rollback'[s].log = {}
  BY <1>1 DEF MakeRollback, RTypeOK
<1>4. LogInv'
  <2>1. \A t \in Script : t # s => rollback'[t] = rollback[t]
    BY <1>1 DEF MakeRollback, RTypeOK
  <2> QED BY <1>1, <1>3, <2>1 DEF LogInv, Written
<1>5. LockInv'
  BY <1>1, <1>2, Actors DEF LockInv, Marked, Before, After
<1>6. IncidentInv'
  BY <1>1, <1>2 DEF IncidentInv, Marked, Before
<1>7. ContentInv'
  BY <1>1, <1>2, Actors DEF ContentInv, Marked, SoundContent, Reads
<1>8. ScriptInv'
  BY <1>1, <1>2, <1>3 DEF ScriptInv, Before, After, SoundContent, Reads
<1>t. TimelyInv'
  BY <1>1, TimelyUnmarked DEF Marked
<1> QED BY <1>4, <1>5, <1>6, <1>7, <1>8, <1>t DEF Files

LEMMA CopyCandidateKeeps == ASSUME RestoreInv, NEW s \in Script, CopyCandidate(s)
                            PROVE  Files'
<1>1. /\ RTypeOK /\ LogInv /\ LockInv /\ IncidentInv /\ ContentInv /\ ScriptInv
      /\ holder = s /\ run.pc = "candidate" /\ ~Marked /\ s \notin incident
      /\ UNCHANGED <<base, wal, marker, at, staging, rollback, holder, incident, last, verified>>
      /\ candidate' = candidate \union {s}
  BY DEF RestoreInv, Files, CopyCandidate, Step, LockInv, IncidentInv, Before, database, history
<1>2. /\ run'.pc = "mark"
      /\ UNCHANGED <<run.existed, run.original, run.keep, run.outcome>>
  BY <1>1, MemoryFields DEF CopyCandidate, Goto, RTypeOK
<1>3. LogInv'
  BY <1>1 DEF LogInv, Written
<1>4. LockInv'
  BY <1>1, <1>2, Actors DEF LockInv, Marked, Before, After
<1>5. IncidentInv'
  BY <1>1, <1>2 DEF IncidentInv, Marked, Before
<1>6. ContentInv'
  BY <1>1, <1>2, Actors DEF ContentInv, Marked, SoundContent, Reads
<1>7. ScriptInv'
  BY <1>1, <1>2 DEF ScriptInv, Before, After, SoundContent, Reads
<1>t. TimelyInv'
  BY <1>1, TimelyUnmarked DEF Marked
<1> QED BY <1>3, <1>4, <1>5, <1>6, <1>7, <1>t DEF Files

\* Where there was no database there is nothing to be found.
LEMMA AbsentIsSound ==
  ASSUME RestoreInv, NEW s \in Script, holder = s, run.pc \in {"mark", "flush"}
  PROVE  ~run.existed => SoundContent(Absent)
<1>1. /\ run.existed = (run.original # Absent) /\ base = run.original /\ SoundContent(Reads)
  BY DEF RestoreInv, Files, ScriptInv, After
<1>2. base = Absent => Reads = Absent
  BY <1>1, SoundIsContent DEF RestoreInv, Files
<1> QED BY <1>1, <1>2

LEMMA WriteMarkerKeeps == ASSUME RestoreInv, NEW s \in Script, WriteMarker(s)
                          PROVE  Files'
<1>1. /\ RTypeOK /\ LogInv /\ LockInv /\ IncidentInv /\ ContentInv /\ ScriptInv
      /\ holder = s /\ run.pc = "mark" /\ ~Marked /\ at[s] = "locked" /\ SoundContent(Reads)
      /\ UNCHANGED <<base, wal, at, staging, candidate, rollback, holder, last, verified>>
      /\ incident' = incident \union {s}
  BY DEF RestoreInv, Files, WriteMarker, Step, LockInv, ContentInv, Before, database, plaintext, RTypeOK
<1>2. /\ run'.pc = "flush"
      /\ UNCHANGED <<run.existed, run.original, run.keep, run.outcome>>
  BY <1>1, MemoryFields DEF WriteMarker, Goto, RTypeOK
<1>3. marker' # {} /\ \A m \in marker' : m.of = s /\ m.existed = run.existed /\ m.disk = "fresh"
  BY DEF WriteMarker, Put
<1>4. rollback[s].exists /\ SoundContent(rollback[s].db)
  BY <1>1 DEF ScriptInv
<1>5. LogInv'
  BY <1>1 DEF LogInv, Written
<1>6. LockInv'
  BY <1>1, <1>2, <1>3, Actors DEF LockInv, Marked, Before, After
<1>7. IncidentInv'
  BY <1>1, <1>2, <1>3 DEF IncidentInv, Marked, Before
<1>8. ContentInv'
  <2>1. ~run.existed => SoundContent(Absent)
    BY <1>1, AbsentIsSound
  <2> QED BY <1>1, <1>2, <1>3, <1>4, <2>1, Actors DEF ContentInv, Marked, SoundContent, Reads
<1>9. ScriptInv'
  BY <1>1, <1>2 DEF ScriptInv, Before, After, SoundContent, Reads
<1>t. TimelyInv'
  BY <1>1, <1>3, <1>4, TimelyForScript
<1> QED BY <1>5, <1>6, <1>7, <1>8, <1>9, <1>t DEF Files

LEMMA FlushMarkerKeeps == ASSUME RestoreInv, NEW s \in Script, FlushMarker(s)
                          PROVE  Files'
<1>1. /\ RTypeOK /\ LogInv /\ LockInv /\ IncidentInv /\ ContentInv /\ ScriptInv
      /\ holder = s /\ run.pc = "flush" /\ Marked /\ SoundContent(Reads)
      /\ UNCHANGED <<base, wal, at, staging, candidate, rollback, holder, incident, last, verified>>
  BY DEF RestoreInv, Files, FlushMarker, Step, LockInv, ScriptInv, After, database, plaintext, history
<1>2. /\ run'.pc = "detach"
      /\ UNCHANGED <<run.existed, run.original, run.keep, run.outcome>>
  BY <1>1, MemoryFields DEF FlushMarker, Goto, RTypeOK
<1>3. /\ marker' # {} /\ \A m \in marker' : m.of = s /\ m.existed = run.existed /\ m.disk = "whole"
      /\ \A m \in marker : m.of = s
  BY <1>1 DEF FlushMarker, Put, LockInv
<1>4. rollback[s].exists /\ SoundContent(rollback[s].db)
  BY <1>1 DEF ScriptInv, After
<1>5. LogInv'
  BY <1>1 DEF LogInv, Written
<1>6. LockInv'
  BY <1>1, <1>2, <1>3, Actors DEF LockInv, Marked, Before, After
<1>7. IncidentInv'
  BY <1>1, <1>2, <1>3 DEF IncidentInv, Marked, Before
<1>8. ContentInv'
  <2>1. ~run.existed => SoundContent(Absent)
    BY <1>1, AbsentIsSound
  <2> QED BY <1>1, <1>2, <1>3, <1>4, <2>1, Actors DEF ContentInv, Marked, SoundContent, Reads
<1>9. ScriptInv'
  BY <1>1, <1>2 DEF ScriptInv, Before, After, SoundContent, Reads
<1>t. TimelyInv'
  BY <1>1, <1>3, <1>4, TimelyForScript
<1> QED BY <1>5, <1>6, <1>7, <1>8, <1>9, <1>t DEF Files

LEMMA DetachKeeps == ASSUME RestoreInv, NEW s \in Script, Detach(s)
                     PROVE  Files'
<1>1. /\ RTypeOK /\ LogInv /\ LockInv /\ IncidentInv /\ ContentInv /\ ScriptInv
      /\ holder = s /\ run.pc = "detach" /\ Marked
      /\ UNCHANGED <<base, marker, at, staging, candidate, holder, incident, last, verified>>
      /\ wal' = {}
  BY DEF RestoreInv, Files, Detach, Step, LockInv, After, plaintext, history
<1>2. /\ run'.pc = "swap" /\ run'.keep = run.existed
      /\ UNCHANGED <<run.existed, run.original, run.outcome>>
  BY <1>1 DEF Detach, RTypeOK, Memory
<1>3. /\ rollback'[s].exists = rollback[s].exists /\ rollback'[s].db = rollback[s].db
      /\ rollback'[s].log = wal
  BY <1>1, DirectoryFields DEF Detach, RTypeOK
<1>4. /\ rollback[s].exists /\ SoundContent(rollback[s].db) /\ SoundContent(Reads)
      /\ base = run.original /\ run.outcome = "done" /\ run.existed = (run.original # Absent)
  BY <1>1 DEF ScriptInv, After
<1>5. \A m \in marker : m.of = s /\ m.disk = "whole"
  BY <1>1 DEF LockInv, After
<1>6. LogInv'
  <2>1. \A t \in Script : t # s => rollback'[t] = rollback[t]
    BY <1>1, DirectoryFields DEF Detach, RTypeOK
  <2> QED BY <1>1, <1>3, <2>1 DEF LogInv, Written
<1>7. LockInv'
  BY <1>1, <1>2, Actors DEF LockInv, Marked, Before, After
<1>8. IncidentInv'
  BY <1>1, <1>2 DEF IncidentInv, Marked, Before
<1>9. ContentInv'
  BY <1>1, <1>2, <1>3, <1>4, <1>5, Actors DEF ContentInv, Marked, SoundContent
<1>10. ScriptInv'
  BY <1>1, <1>2, <1>3, <1>4 DEF ScriptInv, Before, After, SoundContent, Reads
<1>t. TimelyInv'
  BY <1>1, <1>3, <1>4, <1>5, TimelyForScript
<1> QED BY <1>6, <1>7, <1>8, <1>9, <1>10, <1>t DEF Files

LEMMA SwapKeeps == ASSUME RestoreInv, NEW s \in Script, Swap(s)
                   PROVE  Files'
<1>1. /\ RTypeOK /\ LogInv /\ LockInv /\ IncidentInv /\ ContentInv /\ ScriptInv
      /\ holder = s /\ run.pc = "swap" /\ Marked
      /\ UNCHANGED <<wal, marker, at, staging, rollback, holder, incident, last, verified>>
      /\ base' = Backup /\ candidate' = candidate \ {s}
  BY DEF RestoreInv, Files, Swap, Step, LockInv, After, history
<1>2. /\ run'.pc = "swapped"
      /\ UNCHANGED <<run.existed, run.original, run.keep, run.outcome>>
  BY <1>1, MemoryFields DEF Swap, Goto, RTypeOK
<1>3. /\ rollback[s].exists /\ SoundContent(rollback[s].db) /\ wal = {} /\ run.outcome = "done"
  BY <1>1 DEF ScriptInv, After
<1>4. \A m \in marker : m.of = s /\ m.disk = "whole"
  BY <1>1 DEF LockInv, After
<1>5. LogInv'
  BY <1>1 DEF LogInv, Written
<1>6. LockInv'
  BY <1>1, <1>2, Actors DEF LockInv, Marked, Before, After
<1>7. IncidentInv'
  BY <1>1, <1>2 DEF IncidentInv, Marked, Before
<1>8. ContentInv'
  BY <1>1, <1>2, <1>3, <1>4, Actors DEF ContentInv, Marked, SoundContent
<1>9. ScriptInv'
  BY <1>1, <1>2, <1>3 DEF ScriptInv, Before, After, SoundContent
<1>t. TimelyInv'
  BY <1>1, <1>3, <1>4, TimelyForScript
<1> QED BY <1>5, <1>6, <1>7, <1>8, <1>9, <1>t DEF Files

LEMMA SwappedKeeps == ASSUME RestoreInv, NEW s \in Script, Swapped(s)
                      PROVE  Files'
<1>1. /\ RTypeOK /\ LogInv /\ LockInv /\ IncidentInv /\ ContentInv /\ ScriptInv
      /\ holder = s /\ run.pc = "swapped" /\ Marked
      /\ UNCHANGED <<base, wal, marker, at, staging, candidate, rollback, holder, incident, last, verified>>
  BY DEF RestoreInv, Files, Swapped, Step, LockInv, After, database, plaintext, history
<1>2. /\ run'.pc = "verify" /\ run'.keep
      /\ UNCHANGED <<run.existed, run.original, run.outcome>>
  BY <1>1 DEF Swapped, RTypeOK, Memory
<1>3. /\ run.outcome = "done" /\ base = Backup /\ wal = {}
      /\ rollback[s].exists /\ SoundContent(rollback[s].db)
      /\ run.existed = (run.original # Absent)
  BY <1>1 DEF ScriptInv, After
<1>4. LogInv'
  BY <1>1 DEF LogInv, Written
<1>5. LockInv'
  BY <1>1, <1>2, Actors DEF LockInv, Marked, Before, After
<1>6. IncidentInv'
  BY <1>1, <1>2 DEF IncidentInv, Marked, Before
<1>7. ContentInv'
  BY <1>1, <1>2, Actors DEF ContentInv, Marked, SoundContent, Reads
<1>8. ScriptInv'
  BY <1>1, <1>2, <1>3 DEF ScriptInv, Before, After, SoundContent
<1>t. TimelyInv'
  BY <1>1, <1>3, TimelyForScript DEF LockInv
<1> QED BY <1>4, <1>5, <1>6, <1>7, <1>8, <1>t DEF Files

\* The block has found what is there: the backup, the old base and its log, or
\* neither of them.
LEMMA CaughtKeeps == ASSUME RestoreInv, NEW s \in Script, Caught(s)
                     PROVE  Files'
<1>1. /\ RTypeOK /\ LogInv /\ LockInv /\ IncidentInv /\ ContentInv /\ ScriptInv
      /\ holder = s /\ run.pc = "caught" /\ Marked
      /\ UNCHANGED <<base, marker, at, staging, candidate, holder, incident, last, verified>>
  BY DEF RestoreInv, Files, Caught, Step, LockInv, After, plaintext, history
<1>2. /\ rollback[s].exists /\ SoundContent(rollback[s].db)
      /\ run.existed = (run.original # Absent) /\ (run.existed => run.keep)
      /\ (~run.existed => wal = {})
      /\ (base = run.original /\ base # Backup =>
            SoundContent(Reading(base, IF wal = {} THEN rollback[s].log ELSE wal)))
  BY <1>1 DEF ScriptInv, After
<1>3. \A m \in marker : m.of = s /\ m.disk = "whole"
  BY <1>1 DEF LockInv, After
<1>4. CASE /\ base = Backup
           /\ run' = [run EXCEPT !.pc = "verify", !.keep = TRUE, !.outcome = "undo"]
           /\ UNCHANGED <<wal, rollback>>
  <2>1. /\ run'.pc = "verify" /\ run'.keep /\ run'.outcome = "undo"
        /\ UNCHANGED <<run.existed, run.original>>
    BY <1>1, <1>4 DEF RTypeOK, Memory
  <2>2. LogInv'
    BY <1>1, <1>4 DEF LogInv, Written
  <2>3. LockInv'
    BY <1>1, <1>4, <2>1, Actors DEF LockInv, Marked, Before, After
  <2>4. IncidentInv'
    BY <1>1, <1>4, <2>1 DEF IncidentInv, Marked, Before
  <2>5. ContentInv'
    BY <1>1, <1>4, <2>1, Actors DEF ContentInv, Marked, SoundContent, Reads
  <2>6. ScriptInv'
    BY <1>1, <1>2, <1>4, <2>1 DEF ScriptInv, Before, After, SoundContent
  <2>t. TimelyInv'
    BY <1>1, <1>2, <1>3, <1>4, TimelyForScript
  <2> QED BY <2>2, <2>3, <2>4, <2>5, <2>6, <2>t DEF Files
<1>5. CASE /\ base # Backup /\ base = run.original
           /\ wal' = IF wal = {} THEN rollback[s].log ELSE wal
           /\ rollback' = [rollback EXCEPT ![s].log = {}]
           /\ run' = [run EXCEPT !.pc = "tidy", !.outcome = "unchanged"]
  <2>1. /\ run'.pc = "tidy" /\ run'.outcome = "unchanged"
        /\ UNCHANGED <<run.existed, run.original, run.keep>>
    BY <1>1, <1>5 DEF RTypeOK, Memory
  <2>2. /\ rollback'[s].exists = rollback[s].exists /\ rollback'[s].db = rollback[s].db
    BY <1>1, <1>5, DirectoryFields DEF RTypeOK
  <2>3. SoundContent(Reads')
    BY <1>1, <1>2, <1>5 DEF Reads
  <2>4. LogInv'
    BY <1>1, <1>2, <1>5, <2>3 DEF LogInv, Written
  <2>5. LockInv'
    BY <1>1, <2>1, Actors DEF LockInv, Marked, Before, After
  <2>6. IncidentInv'
    BY <1>1, <2>1 DEF IncidentInv, Marked, Before
  <2>7. ContentInv'
    BY <1>1, <1>2, <1>3, <2>1, <2>2, <2>3, Actors DEF ContentInv, Marked, SoundContent
  <2>8. ScriptInv'
    BY <1>1, <1>2, <2>1, <2>2 DEF ScriptInv, Before, After, SoundContent
  <2>t. TimelyInv'
    BY <1>1, <1>2, <1>3, <2>2, TimelyForScript
  <2> QED BY <2>4, <2>5, <2>6, <2>7, <2>8, <2>t DEF Files
<1>6. CASE /\ run' = [run EXCEPT !.pc = "finally", !.keep = TRUE]
           /\ UNCHANGED <<wal, rollback>>
  <2>1. /\ run'.pc = "finally" /\ run'.keep
        /\ UNCHANGED <<run.existed, run.original, run.outcome>>
    BY <1>1, <1>6 DEF RTypeOK, Memory
  <2>2. LogInv'
    BY <1>1, <1>6 DEF LogInv, Written
  <2>3. LockInv'
    BY <1>1, <1>6, <2>1, Actors DEF LockInv, Marked, Before, After
  <2>4. IncidentInv'
    BY <1>1, <1>6, <2>1 DEF IncidentInv, Marked, Before
  <2>5. ContentInv'
    BY <1>1, <1>6, <2>1, Actors DEF ContentInv, Marked, SoundContent, Reads
  <2>6. ScriptInv'
    BY <1>1, <1>2, <1>6, <2>1 DEF ScriptInv, Before, After
  <2>t. TimelyInv'
    BY <1>1, <1>2, <1>3, <1>6, TimelyForScript
  <2> QED BY <2>2, <2>3, <2>4, <2>5, <2>6, <2>t DEF Files
<1> QED BY <1>4, <1>5, <1>6 DEF Caught

LEMMA VerifyKeeps == ASSUME RestoreInv, NEW s \in Script, Verify(s)
                     PROVE  Files'
<1>1. /\ RTypeOK /\ LogInv /\ LockInv /\ IncidentInv /\ ContentInv /\ ScriptInv
      /\ holder = s /\ run.pc = "verify" /\ Marked
      /\ UNCHANGED <<base, wal, marker, at, staging, candidate, rollback, holder, incident, last>>
  BY DEF RestoreInv, Files, Verify, Step, LockInv, After, database, plaintext
<1>2. /\ run'.pc = (IF run.outcome = "undo" THEN "undo" ELSE "tidy")
      /\ UNCHANGED <<run.existed, run.original, run.keep, run.outcome>>
  BY <1>1, MemoryFields DEF Verify, Goto, RTypeOK
<1>3. /\ rollback[s].exists /\ SoundContent(rollback[s].db) /\ base = Backup
      /\ run.existed = (run.original # Absent) /\ (run.existed => run.keep)
      /\ (run.outcome = "done" => wal = {}) /\ run.outcome # "unchanged"
      /\ (~run.existed => wal = {})
  BY <1>1 DEF ScriptInv, After
<1>4. \A m \in marker : m.of = s /\ m.disk = "whole"
  BY <1>1 DEF LockInv, After
<1>5. /\ verified' \in BOOLEAN /\ (verified => verified')
      /\ (run.outcome # "undo" => verified' /\ Reads = Backup)
  <2>1. verified \in BOOLEAN /\ run.outcome \in Outcome
    BY <1>1, StepType DEF RTypeOK
  <2>2. verified' = (verified \/ run.outcome # "undo")
    BY DEF Verify
  <2>3. run.outcome # "undo" => Reads = Backup
    BY <1>3, <2>1, ReadsBase DEF Reads, Outcome
  <2> QED BY <2>1, <2>2, <2>3
<1>6. LogInv'
  BY <1>1 DEF LogInv, Written
<1>7. LockInv'
  BY <1>1, <1>2, Actors DEF LockInv, Marked, Before, After
<1>8. IncidentInv'
  BY <1>1, <1>2 DEF IncidentInv, Marked, Before
<1>9. ContentInv'
  BY <1>1, <1>2, <1>3, <1>4, <1>5, Actors DEF ContentInv, Marked, SoundContent, Reads
<1>10. ScriptInv'
  BY <1>1, <1>2, <1>3, <1>5 DEF ScriptInv, Before, After, SoundContent
<1>t. TimelyInv'
  BY <1>1, <1>3, <1>4, TimelyForScript
<1> QED BY <1>6, <1>7, <1>8, <1>9, <1>10, <1>t DEF Files

LEMMA UndoKeeps == ASSUME RestoreInv, NEW s \in Script, Undo(s)
                   PROVE  Files'
<1>1. /\ RTypeOK /\ LogInv /\ LockInv /\ IncidentInv /\ ContentInv /\ ScriptInv
      /\ holder = s /\ run.pc = "undo" /\ Marked
      /\ UNCHANGED <<marker, at, staging, candidate, rollback, holder, incident, last, verified>>
      /\ base' = rollback[s].db /\ wal' = (IF run.existed THEN {} ELSE wal)
  BY DEF RestoreInv, Files, Undo, Step, LockInv, After, plaintext, history
<1>2. /\ run'.pc = "tidy"
      /\ UNCHANGED <<run.existed, run.original, run.keep, run.outcome>>
  BY <1>1, MemoryFields DEF Undo, Goto, RTypeOK
<1>3. /\ rollback[s].exists /\ SoundContent(rollback[s].db)
      /\ run.existed = (run.original # Absent) /\ (run.existed => run.keep)
      /\ (~run.existed => wal = {})
  BY <1>1 DEF ScriptInv, After
<1>4. \A m \in marker : m.of = s /\ m.disk = "whole"
  BY <1>1 DEF LockInv, After
<1>5. wal' = {} /\ Reads' = rollback[s].db
  BY <1>1, <1>3, ReadsBase DEF Reads
<1>6. LogInv'
  BY <1>1, <1>5 DEF LogInv, Written
<1>7. LockInv'
  BY <1>1, <1>2, Actors DEF LockInv, Marked, Before, After
<1>8. IncidentInv'
  BY <1>1, <1>2 DEF IncidentInv, Marked, Before
<1>9. ContentInv'
  BY <1>1, <1>2, <1>3, <1>4, <1>5, Actors DEF ContentInv, Marked, SoundContent
<1>10. ScriptInv'
  BY <1>1, <1>2, <1>3 DEF ScriptInv, Before, After, SoundContent
<1>t. TimelyInv'
  BY <1>1, <1>3, <1>4, TimelyForScript
<1> QED BY <1>6, <1>7, <1>8, <1>9, <1>10, <1>t DEF Files

LEMMA TidyKeeps == ASSUME RestoreInv, NEW s \in Script, Tidy(s)
                   PROVE  Files'
<1>1. /\ RTypeOK /\ LogInv /\ LockInv /\ IncidentInv /\ ContentInv /\ ScriptInv
      /\ holder = s /\ run.pc = "tidy" /\ Marked /\ SoundContent(Reads)
      /\ UNCHANGED <<base, wal, marker, at, rollback, holder, incident, last, verified>>
      /\ candidate' = candidate \ {s} /\ staging' = staging \ {s}
  BY DEF RestoreInv, Files, Tidy, Step, LockInv, ContentInv, After, database, history
<1>2. /\ run'.pc = "unmark"
      /\ UNCHANGED <<run.existed, run.original, run.keep, run.outcome>>
  BY <1>1, MemoryFields DEF Tidy, Goto, RTypeOK
<1>3. \A m \in marker : m.of = s /\ m.disk = "whole"
  BY <1>1 DEF LockInv, After
<1>4. LogInv'
  BY <1>1 DEF LogInv, Written
<1>5. LockInv'
  BY <1>1, <1>2, Actors DEF LockInv, Marked, Before, After
<1>6. IncidentInv'
  BY <1>1, <1>2, <1>3 DEF IncidentInv, Marked, Before
<1>7. ContentInv'
  BY <1>1, <1>2, Actors DEF ContentInv, Marked, SoundContent, Reads
<1>8. ScriptInv'
  BY <1>1, <1>2 DEF ScriptInv, Before, After, SoundContent
<1>t. TimelyInv'
  BY <1>1, <1>3, TimelyForScript DEF ScriptInv, After
<1> QED BY <1>4, <1>5, <1>6, <1>7, <1>8, <1>t DEF Files

LEMMA UnmarkKeeps == ASSUME RestoreInv, NEW s \in Script, Unmark(s)
                     PROVE  Files'
<1>1. /\ RTypeOK /\ LogInv /\ LockInv /\ IncidentInv /\ ContentInv /\ ScriptInv
      /\ holder = s /\ run.pc = "unmark" /\ Marked /\ SoundContent(Reads)
      /\ UNCHANGED <<base, wal, at, staging, candidate, rollback, holder, incident, last, verified>>
      /\ marker' = {}
  BY DEF RestoreInv, Files, Unmark, Step, LockInv, ContentInv, After, database, plaintext, history
<1>2. run'.pc \in {"discard", "finally"}
  BY <1>1 DEF Unmark, RTypeOK, Memory
<1>3. \A t \in incident : t \notin candidate \union staging
  BY <1>1 DEF IncidentInv, Marked
<1>4. LogInv'
  BY <1>1 DEF LogInv, Written
<1>5. LockInv'
  BY <1>1, <1>2, Actors DEF LockInv, Marked, Before, After
<1>6. IncidentInv'
  BY <1>1, <1>2, <1>3 DEF IncidentInv, Marked, Before
<1>7. ContentInv'
  BY <1>1, <1>2, Actors DEF ContentInv, Marked, SoundContent, Reads
<1>8. ScriptInv'
  BY <1>1, <1>2 DEF ScriptInv, Before, After, SoundContent, Marked
<1>t. TimelyInv'
  BY <1>1, TimelyUnmarked
<1> QED BY <1>4, <1>5, <1>6, <1>7, <1>8, <1>t DEF Files

LEMMA DiscardEmptyKeeps == ASSUME RestoreInv, NEW s \in Script, DiscardEmpty(s)
                           PROVE  Files'
<1>1. /\ RTypeOK /\ LogInv /\ LockInv /\ IncidentInv /\ ContentInv /\ ScriptInv
      /\ holder = s /\ run.pc = "discard" /\ marker = {}
      /\ UNCHANGED <<base, wal, marker, at, staging, candidate, holder, incident, last, verified>>
  BY DEF RestoreInv, Files, DiscardEmpty, Step, LockInv, Marked, database, plaintext, history
<1>2. run'.pc = "finally"
  BY <1>1, MemoryFields DEF DiscardEmpty, Goto, RTypeOK
<1>3. /\ \A t \in Script : t # s => rollback'[t] = rollback[t]
      /\ rollback'[s].log = {}
  BY <1>1 DEF DiscardEmpty, Without, NoDirectory, RTypeOK
<1>4. LogInv'
  BY <1>1, <1>3 DEF LogInv, Written
<1>5. LockInv'
  BY <1>1, <1>2, Actors DEF LockInv, Marked, Before, After
<1>6. IncidentInv'
  BY <1>1, <1>2 DEF IncidentInv, Marked, Before
<1>7. ContentInv'
  BY <1>1, <1>2, Actors DEF ContentInv, Marked, SoundContent, Reads
<1>8. ScriptInv'
  BY <1>1, <1>2 DEF ScriptInv, Before, After, Marked
<1>t. TimelyInv'
  BY <1>1, TimelyUnmarked
<1> QED BY <1>4, <1>5, <1>6, <1>7, <1>8, <1>t DEF Files

\* A script does not go on to remove a rollback directory that an existing
\* database needs.
LEMMA ReleaseKeeps == ASSUME RestoreInv, NEW s \in Script, Release(s)
                      PROVE  Files'
<1>1. /\ RTypeOK /\ LogInv /\ LockInv /\ IncidentInv /\ ContentInv /\ TimelyInv /\ ScriptInv
      /\ holder = s /\ run.pc = "finally" /\ holder' = Nobody
      /\ UNCHANGED <<base, wal, marker, staging, candidate, rollback, incident, last, verified,
                     hasty>>
  BY DEF RestoreInv, Files, Release, Step, database, plaintext, history
<1>2. run'.pc = "idle"
  BY DEF Release, Idle
<1>3. /\ \A m \in marker : m.of = s /\ m.existed = run.existed
      /\ Marked <=> marker # {}
  BY <1>1 DEF LockInv, Marked
<1>4. run.existed /\ Marked /\ ~SoundContent(Reads) => run.keep
  BY <1>1 DEF ScriptInv
<1>5. /\ \A x \in Script : at'[x] \in {"new", "staged"} => at[x] \in {"new", "staged"}
      /\ run.keep => ~Condemned(s)'
  BY <1>1 DEF Release, Condemned, RTypeOK
<1>6. LogInv'
  BY <1>1 DEF LogInv, Written
<1>7. LockInv'
  BY <1>1, <1>2, Actors DEF LockInv, Marked, After
<1>8. IncidentInv'
  BY <1>1, <1>2, <1>5, Actors DEF IncidentInv, Marked
<1>9. ContentInv'
  BY <1>1, <1>2, Actors DEF ContentInv, Marked, SoundContent, Reads
<1>10. ScriptInv'
  BY <1>1, Actors DEF ScriptInv
<1>t. TimelyInv'
  BY <1>1, <1>3, <1>4, <1>5, Actors DEF TimelyInv, SoundContent, Reads
<1> QED BY <1>6, <1>7, <1>8, <1>9, <1>10, <1>t DEF Files

\* After that it removes its plaintext, and its rollback directory where nobody
\* needs that.
LEMMA CleanUpKeeps == ASSUME RestoreInv, NEW s \in Script, CleanUp(s) \/ CleanupFails(s)
                      PROVE  Files'
<1>1. /\ RTypeOK /\ LogInv /\ LockInv /\ IncidentInv /\ ContentInv /\ TimelyInv /\ ScriptInv
      /\ at[s] \in {"keeping", "dropping", "discarding"} /\ holder # s
      /\ UNCHANGED <<base, wal, marker, holder, run, incident, last, verified, hasty>>
  BY DEF RestoreInv, Files, CleanUp, CleanPlaintext, Discard, CleanupFails, Cleaned, Fault,
         database, history, RTypeOK
<1>2. candidate' \subseteq candidate /\ staging' \subseteq staging
  BY DEF CleanUp, CleanPlaintext, Discard, CleanupFails, Cleaned, plaintext
<1>3. \A x \in Script : /\ at'[x] \in {"new", "staged"} => at[x] \in {"new", "staged"}
                        /\ Condemned(x)' => Condemned(x)
  BY <1>1 DEF CleanUp, CleanPlaintext, Discard, CleanupFails, Cleaned, Condemned, RTypeOK
<1>4. UNCHANGED rollback \/ (Condemned(s) /\ rollback' = Without(s))
  BY DEF CleanUp, CleanPlaintext, Discard, CleanupFails, Cleaned, Condemned
<1>5. /\ \A x \in Script : x # s => rollback'[x] = rollback[x]
      /\ \/ rollback'[s] = rollback[s]
         \/ Condemned(s) /\ rollback'[s].exists = FALSE /\ rollback'[s].log = {}
  BY <1>1, <1>4 DEF Without, NoDirectory, RTypeOK
<1>m. \A m \in marker : m.of \in Script
  BY <1>1 DEF RTypeOK, Marker
<1>6. LogInv'
  BY <1>1, <1>5 DEF LogInv, Written
<1>7. LockInv'
  BY <1>1 DEF LockInv, Marked
<1>8. IncidentInv'
  BY <1>1, <1>2, <1>3 DEF IncidentInv, Marked
<1>9. ContentInv'
  <2>1. \A m \in marker : rollback'[m.of].exists => rollback'[m.of] = rollback[m.of]
    BY <1>5, <1>m
  <2> QED BY <1>1, <2>1 DEF ContentInv, Marked, SoundContent, Reads
<1>10. ScriptInv'
  BY <1>1, <1>5 DEF ScriptInv, Marked, SoundContent, Reads
<1>t. TimelyInv'
  <2>1. \A m \in marker : rollback'[m.of] = rollback[m.of] \/ Condemned(m.of)
    BY <1>5, <1>m
  <2> QED BY <1>1, <1>3, <1>m, <2>1, Actors DEF TimelyInv, SoundContent, Reads
<1> QED BY <1>6, <1>7, <1>8, <1>9, <1>10, <1>t DEF Files

LEMMA StartRecoveryKeeps == RestoreInv /\ StartRecovery => Files'
<1> SUFFICES ASSUME RestoreInv, StartRecovery PROVE Files'
  OBVIOUS
<1>1. /\ RTypeOK /\ LogInv /\ LockInv /\ IncidentInv /\ ContentInv
      /\ Marked /\ holder = Nobody /\ holder' = Recovery
      /\ UNCHANGED <<base, wal, at, staging, candidate, rollback, incident, last, verified>>
  BY DEF RestoreInv, Files, StartRecovery, CanRecover, database, plaintext, history
<1>2. run'.pc = "detach"
  BY DEF StartRecovery, Idle
<1>3. /\ TheMarker \in marker /\ TheMarker.of \in Script
      /\ marker' = {[TheMarker EXCEPT !.disk = "whole"]} /\ rollback[TheMarker.of].exists
  BY <1>1, MarkerIs DEF StartRecovery, CanRecover
<1>4. /\ marker' # {}
      /\ \A m \in marker' : m.of = TheMarker.of /\ m.existed = TheMarker.existed /\ m.disk = "whole"
  BY <1>1, <1>3, MarkerIs DEF Marker
<1>5. LogInv'
  BY <1>1 DEF LogInv, Written
<1>6. LockInv'
  BY <1>2, <1>1, <1>4, Actors DEF LockInv, Marked, Before, After
<1>7. IncidentInv'
  BY <1>1, <1>2, <1>3, <1>4, Actors DEF IncidentInv, Marked
<1>8. ContentInv'
  BY <1>1, <1>2, <1>3, <1>4 DEF ContentInv, Marked, SoundContent, Reads
<1>9. ScriptInv'
  BY <1>1, Actors DEF ScriptInv
<1>t. TimelyInv'
  <2>1. hasty' \/ \A m \in marker' : ~Condemned(m.of)'
    BY <1>1, <1>4 DEF StartRecovery, Condemned
  <2> QED BY <1>1, <1>3, <1>4, <2>1 DEF TimelyInv
<1> QED BY <1>5, <1>6, <1>7, <1>8, <1>9, <1>t DEF Files

\* A recovery holds the lock beside a whole marker whose rollback is there, unless
\* one was started too early.
LEMMA AtRecovery ==
  ASSUME RestoreInv, holder = Recovery
  PROVE  /\ RTypeOK /\ LogInv /\ LockInv /\ IncidentInv /\ ContentInv
         /\ Marked /\ TheMarker \in marker /\ TheMarker.of \in Script
         /\ \A m \in marker : m = TheMarker
         /\ TheMarker.disk = "whole" /\ (~TheMarker.existed => SoundContent(Absent))
         /\ rollback[TheMarker.of].exists => SoundContent(rollback[TheMarker.of].db)
         /\ ~hasty => rollback[TheMarker.of].exists /\ ~Condemned(TheMarker.of)
<1>1. /\ RTypeOK /\ LogInv /\ LockInv /\ IncidentInv /\ ContentInv /\ TimelyInv /\ Marked
  BY DEF RestoreInv, Files, LockInv
<1>2. TheMarker \in marker /\ TheMarker.of \in Script /\ \A m \in marker : m = TheMarker
  BY <1>1, MarkerIs
<1> QED BY <1>1, <1>2, Actors DEF ContentInv, TimelyInv

LEMMA TimelyForRecovery ==
  ASSUME RestoreInv, holder = Recovery, UNCHANGED <<at, rollback, hasty>>, marker' \subseteq marker
  PROVE  TimelyInv'
BY AtRecovery DEF TimelyInv, Condemned

LEMMA RecoveryStepKeeps == RestoreInv /\ RecoveryStep => Files'
<1> SUFFICES ASSUME RestoreInv, RecoveryStep PROVE Files'
  OBVIOUS
<1>0. holder = Recovery /\ run \in Memory
  BY DEF RecoveryStep, RecoveryDetaches, RecoverySwaps, RecoveryTidies, RecoveryUnmarks, Step,
         RecoveryStops, RestoreInv, RTypeOK
<1>t. TimelyInv'
  BY <1>0, TimelyForRecovery
     DEF RecoveryStep, RecoveryDetaches, RecoverySwaps, RecoveryTidies, RecoveryUnmarks,
         RecoveryStops, history
<1>1. CASE RecoveryDetaches
  <2>1. /\ run'.pc = "swap" /\ wal' = {}
        /\ UNCHANGED <<base, marker, at, staging, candidate, rollback, holder, incident, last, verified>>
    BY <1>0, <1>1, MemoryFields DEF RecoveryDetaches, Goto, plaintext, history
  <2>2. LogInv'
    BY <1>0, <2>1, AtRecovery DEF LogInv, Written
  <2>3. LockInv'
    BY <1>0, <2>1, AtRecovery, Actors DEF LockInv, Marked, After
  <2>4. IncidentInv'
    BY <1>0, <2>1, AtRecovery, Actors DEF IncidentInv, Marked
  <2>5. ContentInv'
    BY <1>0, <2>1, AtRecovery DEF ContentInv, Marked, SoundContent
  <2>6. ScriptInv'
    BY <1>0, <2>1, Actors DEF ScriptInv
  <2> QED BY <1>t, <2>2, <2>3, <2>4, <2>5, <2>6 DEF Files
<1>2. CASE RecoverySwaps
  <2>1. /\ run.pc = "swap" /\ run'.pc = "tidy"
        /\ base' = IF TheMarker.existed THEN rollback[TheMarker.of].db ELSE Absent
        /\ TheMarker.existed => rollback[TheMarker.of].exists
        /\ UNCHANGED <<wal, marker, at, staging, candidate, rollback, holder, incident, last, verified>>
    BY <1>0, <1>2, MemoryFields DEF RecoverySwaps, Possible, Needed, Step, Goto, plaintext, history
  <2>2. SoundContent(Reads')
    BY <1>0, <2>1, AtRecovery, ReadsBase DEF ContentInv, Reads
  <2>3. LogInv'
    BY <1>0, <2>1, AtRecovery DEF LogInv, Written
  <2>4. LockInv'
    BY <1>0, <2>1, AtRecovery, Actors DEF LockInv, Marked, After
  <2>5. IncidentInv'
    BY <1>0, <2>1, AtRecovery, Actors DEF IncidentInv, Marked
  <2>6. ContentInv'
    BY <1>0, <2>1, <2>2, AtRecovery DEF ContentInv, Marked, SoundContent
  <2>7. ScriptInv'
    BY <1>0, <2>1, Actors DEF ScriptInv
  <2> QED BY <1>t, <2>3, <2>4, <2>5, <2>6, <2>7 DEF Files
<1>3. CASE RecoveryTidies
  <2>1. /\ run.pc = "tidy" /\ run'.pc = "unmark"
        /\ candidate' = candidate \ {TheMarker.of} /\ staging' = staging \ {TheMarker.of}
        /\ UNCHANGED <<base, wal, marker, at, rollback, holder, incident, last, verified>>
    BY <1>0, <1>3, MemoryFields DEF RecoveryTidies, Step, Goto, database, history
  <2>2. LogInv'
    BY <1>0, <2>1, AtRecovery DEF LogInv, Written
  <2>3. LockInv'
    BY <1>0, <2>1, AtRecovery, Actors DEF LockInv, Marked, After
  <2>4. IncidentInv'
    BY <1>0, <2>1, AtRecovery, Actors DEF IncidentInv, Marked
  <2>5. ContentInv'
    BY <1>0, <2>1, AtRecovery DEF ContentInv, Marked, SoundContent, Reads
  <2>6. ScriptInv'
    BY <1>0, <2>1, Actors DEF ScriptInv
  <2> QED BY <1>t, <2>2, <2>3, <2>4, <2>5, <2>6 DEF Files
<1>4. CASE RecoveryUnmarks
  <2>1. /\ run.pc = "unmark" /\ marker' = {} /\ holder' = Nobody /\ run'.pc = "idle"
        /\ UNCHANGED <<base, wal, at, staging, candidate, rollback, incident, last, verified>>
    BY <1>4 DEF RecoveryUnmarks, Step, Idle, database, plaintext, history
  <2>2. SoundContent(Reads)
    BY <1>0, <2>1, AtRecovery DEF ContentInv
  <2>3. \A t \in incident : t \notin candidate \union staging
    BY <1>0, <2>1, AtRecovery DEF IncidentInv, Marked
  <2>4. LogInv'
    BY <1>0, <2>1, AtRecovery DEF LogInv, Written
  <2>5. LockInv'
    BY <1>0, <2>1, Actors DEF LockInv, Marked, After
  <2>6. IncidentInv'
    BY <1>0, <2>1, <2>3, AtRecovery, Actors DEF IncidentInv, Marked
  <2>7. ContentInv'
    BY <2>1, <2>2, Actors DEF ContentInv, Marked, SoundContent, Reads
  <2>8. ScriptInv'
    BY <2>1, Actors DEF ScriptInv
  <2> QED BY <1>t, <2>4, <2>5, <2>6, <2>7, <2>8 DEF Files
<1>5. CASE RecoveryStops
  <2>1. /\ run'.pc = "idle" /\ holder' = Nobody
        /\ UNCHANGED <<base, wal, marker, at, staging, candidate, rollback, incident, last, verified>>
    BY <1>5 DEF RecoveryStops, Idle, database, plaintext, history
  <2>2. LogInv'
    BY <1>0, <2>1, AtRecovery DEF LogInv, Written
  <2>3. LockInv'
    BY <1>0, <2>1, AtRecovery, Actors DEF LockInv, Marked, After
  <2>4. IncidentInv'
    BY <1>0, <2>1, AtRecovery, Actors DEF IncidentInv, Marked
  <2>5. ContentInv'
    BY <1>0, <2>1, AtRecovery, Actors DEF ContentInv, Marked, SoundContent, Reads
  <2>6. ScriptInv'
    BY <2>1, Actors DEF ScriptInv
  <2> QED BY <1>t, <2>2, <2>3, <2>4, <2>5, <2>6 DEF Files
<1> QED BY <1>1, <1>2, <1>3, <1>4, <1>5 DEF RecoveryStep

\* A holder that goes away at any point leaves what can be recovered.
LEMMA EndKeeps ==
  ASSUME RestoreInv, holder' = Nobody, run' = Idle,
         UNCHANGED <<base, wal, marker, staging, candidate, rollback, incident, last,
                     verified, hasty>>,
         \A s \in Script : /\ at'[s] \in {"new", "staged"} => at[s] \in {"new", "staged"}
                           /\ Condemned(s)' => Condemned(s)
  PROVE  Files'
<1>1. RTypeOK /\ LogInv /\ LockInv /\ IncidentInv /\ ContentInv /\ TimelyInv /\ run'.pc = "idle"
  BY DEF RestoreInv, Files, Idle
<1>2. LogInv'
  BY <1>1 DEF LogInv, Written
<1>3. LockInv'
  BY <1>1, Actors DEF LockInv, Marked, After
<1>4. IncidentInv'
  BY <1>1, Actors DEF IncidentInv, Marked
<1>5. ContentInv'
  BY <1>1, Actors DEF ContentInv, Marked, SoundContent, Reads
<1>6. ScriptInv'
  BY Actors DEF ScriptInv
<1>t. TimelyInv'
  <2>1. \A m \in marker : m.of \in Script
    BY <1>1 DEF RTypeOK, Marker
  <2> QED BY <1>1, <2>1, Actors DEF TimelyInv, SoundContent, Reads
<1> QED BY <1>2, <1>3, <1>4, <1>5, <1>6, <1>t DEF Files

LEMMA KillKeeps == ASSUME RestoreInv, NEW p \in Script \union {App, Recovery}, Kill(p)
                   PROVE  Files'
<1>1. /\ UNCHANGED <<base, wal, marker, staging, candidate, rollback, incident, last, verified,
                 hasty>>
      /\ \A s \in Script : /\ at'[s] \in {"new", "staged"} => at[s] \in {"new", "staged"}
                           /\ Condemned(s)' => Condemned(s)
  BY DEF Kill, Fault, Ended, Condemned, database, plaintext
<1>2. CASE holder' = Nobody /\ run' = Idle
  BY <1>1, <1>2, EndKeeps
<1>3. CASE UNCHANGED <<holder, run>>
  <2>1. RTypeOK /\ LogInv /\ LockInv /\ IncidentInv /\ ContentInv /\ TimelyInv /\ ScriptInv
    BY DEF RestoreInv, Files
  <2>2. LogInv' /\ LockInv' /\ ScriptInv'
    BY <1>1, <1>3, <2>1 DEF LogInv, Written, LockInv, ScriptInv, Marked, SoundContent, Reads
  <2>3. IncidentInv'
    BY <1>1, <1>3, <2>1 DEF IncidentInv, Marked
  <2>4. ContentInv'
    BY <1>1, <1>3, <2>1 DEF ContentInv, Marked, SoundContent, Reads
  <2>5. \A m \in marker : m.of \in Script
    BY <2>1 DEF RTypeOK, Marker
  <2>t. TimelyInv'
    BY <1>1, <1>3, <2>1, <2>5 DEF TimelyInv, SoundContent, Reads
  <2> QED BY <2>2, <2>3, <2>4, <2>t DEF Files
<1> QED BY <1>2, <1>3 DEF Kill

LEMMA PowerKeeps == RestoreInv /\ Power => Files'
<1> SUFFICES ASSUME RestoreInv, Power PROVE Files'
  OBVIOUS
<1>1. /\ UNCHANGED <<base, wal, staging, candidate, rollback, incident, last, verified,
                 hasty>>
      /\ holder' = Nobody /\ run' = Idle
      /\ \A s \in Script : /\ at'[s] \in {"new", "staged"} => at[s] \in {"new", "staged"}
                           /\ Condemned(s)' => Condemned(s)
  BY DEF Power, Fault, Ended, Condemned, database, plaintext
<1>2. CASE marker' = marker
  BY <1>1, <1>2, EndKeeps
<1>3. CASE /\ Marked /\ TheMarker.disk = "fresh"
           /\ marker' = {[TheMarker EXCEPT !.disk = "torn"]}
  <2>1. RTypeOK /\ LogInv /\ LockInv /\ IncidentInv /\ ContentInv /\ TimelyInv
        /\ run'.pc = "idle"
    BY <1>1 DEF RestoreInv, Files, Idle
  <2>2. TheMarker \in marker /\ SoundContent(Reads)
    BY <1>3, <2>1, MarkerIs DEF ContentInv
  <2>3. \A m \in marker' : m.of = TheMarker.of /\ m.existed = TheMarker.existed
    BY <1>3, <2>1, MarkerIs DEF Marker
  <2>4. LogInv'
    BY <1>1, <2>1 DEF LogInv, Written
  <2>5. LockInv'
    BY <1>1, <2>1, Actors DEF LockInv, Marked, After
  <2>6. IncidentInv'
    BY <1>1, <1>3, <2>1, <2>2, <2>3, Actors DEF IncidentInv, Marked
  <2>7. ContentInv'
    BY <1>1, <2>1, <2>2, <2>3, Actors DEF ContentInv, Marked, SoundContent, Reads
  <2>8. ScriptInv'
    BY <1>1, Actors DEF ScriptInv
  <2>t. TimelyInv'
    BY <1>1, <2>1, <2>2, <2>3, Actors DEF TimelyInv, SoundContent, Reads
  <2> QED BY <2>4, <2>5, <2>6, <2>7, <2>8, <2>t DEF Files
<1> QED BY <1>2, <1>3 DEF Power

LEMMA RecoveryFailsKeeps == RestoreInv /\ RecoveryFails => Files'
<1> SUFFICES ASSUME RestoreInv, RecoveryFails PROVE Files'
  OBVIOUS
<1>1. /\ holder = Recovery /\ holder' = Nobody /\ run'.pc = "idle"
      /\ UNCHANGED <<wal, marker, at, staging, candidate, rollback, incident, last, verified>>
  BY DEF RecoveryFails, Fault, Idle, plaintext
<1>2. LogInv'
  BY <1>1, AtRecovery DEF LogInv, Written
<1>3. LockInv'
  BY <1>1, Actors DEF LockInv, After
<1>4. IncidentInv'
  BY <1>1, AtRecovery, Actors DEF IncidentInv, Marked
<1>5. ContentInv'
  BY <1>1, AtRecovery, Actors DEF ContentInv, Marked, SoundContent
<1>6. ScriptInv'
  BY <1>1, Actors DEF ScriptInv
<1>t. TimelyInv'
  BY <1>1, TimelyForRecovery DEF RecoveryFails, Fault
<1> QED BY <1>2, <1>3, <1>4, <1>5, <1>6, <1>t DEF Files

\* What a script may rely on when it is stopped in the middle of a step.
LEMMA AtScript ==
  ASSUME RestoreInv, NEW s \in Script, holder = s
  PROVE  /\ RTypeOK /\ LogInv /\ LockInv /\ IncidentInv /\ ContentInv /\ ScriptInv
         /\ run \in Memory
         /\ \A m \in marker : m.of = s
         /\ Marked /\ run.pc # "finally" => rollback[s].exists
         /\ run.existed /\ Marked /\ ~SoundContent(Reads) => run.keep \/ run.pc = "detach"
         /\ run.pc = "detach" => SoundContent(Reads)
<1>1. /\ RTypeOK /\ LogInv /\ LockInv /\ IncidentInv /\ ContentInv /\ ScriptInv
      /\ run \in Memory
  BY DEF RestoreInv, Files, RTypeOK
<1>2. run.pc \in Before \union {"discard"} => ~Marked
  BY <1>1 DEF LockInv
<1>3. run.pc \in Before \union After \union {"discard", "finally"}
  BY <1>1 DEF LockInv
<1>4. run.pc \in {"flush", "detach"} => SoundContent(Reads)
  BY <1>1 DEF ScriptInv
<1>5. run.pc \in {"swap", "swapped", "caught", "verify", "undo", "tidy", "unmark"} /\ run.existed
        => run.keep
  BY <1>1 DEF ScriptInv
<1>6. run.pc = "finally" /\ run.existed /\ Marked /\ ~SoundContent(Reads) => run.keep
  BY <1>1 DEF ScriptInv
<1>7. (\A m \in marker : m.of = s) /\ (run.pc \in After => rollback[s].exists)
  BY <1>1 DEF LockInv, ScriptInv
<1> QED BY <1>1, <1>2, <1>3, <1>4, <1>5, <1>6, <1>7 DEF After

\* A script that goes on to its finally block, with its files as they are.
LEMMA ToFinallyKeeps ==
  ASSUME RestoreInv, NEW s \in Script, holder = s, run.pc # "finally",
         run' = [run EXCEPT !.pc = "finally"] \/ run' = [run EXCEPT !.pc = "finally", !.keep = TRUE],
         UNCHANGED <<base, wal, marker, at, staging, candidate, rollback, holder, incident, last,
                     verified>>
  PROVE  Files'
<1>1. /\ RTypeOK /\ LogInv /\ LockInv /\ IncidentInv /\ ContentInv /\ ScriptInv
      /\ run.existed /\ Marked /\ ~SoundContent(Reads) => run.keep
  BY AtScript
<1>2. /\ run'.pc = "finally" /\ run'.existed = run.existed /\ (run.keep => run'.keep)
  BY AtScript DEF Memory
<1>3. LogInv'
  BY <1>1 DEF LogInv, Written
<1>4. LockInv'
  BY <1>1, <1>2, Actors DEF LockInv, Marked, Before, After
<1>5. IncidentInv'
  BY <1>1, <1>2 DEF IncidentInv, Marked, Before
<1>6. ContentInv'
  BY <1>1, <1>2, Actors DEF ContentInv, Marked, SoundContent, Reads
<1>7. ScriptInv'
  BY <1>1, <1>2 DEF ScriptInv, Before, After, Marked, SoundContent, Reads
<1>t. TimelyInv'
  BY <1>1, AtScript, TimelyForScript DEF Marked
<1> QED BY <1>3, <1>4, <1>5, <1>6, <1>7, <1>t DEF Files

LEMMA CancelKeeps == ASSUME RestoreInv, NEW s \in Script, Cancel(s)
                     PROVE  Files'
BY ToFinallyKeeps DEF Cancel, Goto, Fault, database, plaintext

LEMMA FailKeeps == ASSUME RestoreInv, NEW s \in Script, Fail(s)
                   PROVE  Files'
<1>1. /\ holder = s
      /\ UNCHANGED <<base, wal, at, staging, candidate, rollback, holder, last, verified>>
  BY DEF Fail, Fault, database, plaintext
<1>2. /\ RTypeOK /\ LogInv /\ LockInv /\ IncidentInv /\ ContentInv /\ ScriptInv /\ run \in Memory
  BY <1>1, AtScript
<1>3. LogInv'
  BY <1>1, <1>2 DEF LogInv, Written
<1>4. CASE /\ \/ run' = [run EXCEPT !.pc = "finally"]
              \/ run' = [run EXCEPT !.pc = "finally", !.keep = TRUE]
           /\ UNCHANGED <<marker, incident>>
  <2>1. run.pc # "finally"
    BY DEF Fail
  <2> QED BY <1>1, <1>4, <2>1, ToFinallyKeeps
<1>5. CASE /\ run.pc = "mark" /\ run' = [run EXCEPT !.pc = "finally"]
           /\ Put(s, "torn") /\ incident' = incident \union {s}
  <2>1. /\ run'.pc = "finally" /\ UNCHANGED <<run.existed, run.keep>>
    BY <1>2, <1>5, MemoryFields
  <2>2. /\ ~Marked /\ at[s] = "locked"
    BY <1>1, <1>2, <1>5 DEF LockInv, Before, RTypeOK
  <2>3. /\ rollback[s].exists /\ SoundContent(rollback[s].db) /\ SoundContent(Reads)
    BY <1>1, <1>2, <1>5 DEF ScriptInv, Before
  <2>4. marker' # {} /\ \A m \in marker' : m.of = s /\ m.existed = run.existed /\ m.disk = "torn"
    BY <1>5 DEF Put
  <2>5. LockInv'
    BY <1>1, <1>2, <2>1, <2>4, Actors DEF LockInv, Marked, Before, After
  <2>6. IncidentInv'
    BY <1>1, <1>2, <1>5, <2>1, <2>2, <2>4 DEF IncidentInv, Marked, Before
  <2>7. ContentInv'
    <3>1. ~run.existed => SoundContent(Absent)
      BY <1>1, <1>5, AbsentIsSound
    <3> QED BY <1>1, <1>2, <2>1, <2>3, <2>4, <3>1, Actors
            DEF ContentInv, Marked, SoundContent, Reads
  <2>8. ScriptInv'
    BY <1>1, <1>2, <2>1, <2>3 DEF ScriptInv, Before, After, SoundContent, Reads
  <2>t. TimelyInv'
    BY <1>1, <1>2, <2>3, <2>4, TimelyForScript
  <2> QED BY <1>3, <2>5, <2>6, <2>7, <2>8, <2>t DEF Files
<1>6. CASE /\ run.pc = "detach" /\ run' = [run EXCEPT !.pc = "caught", !.keep = run.existed]
           /\ UNCHANGED <<marker, incident>>
  <2>1. /\ run'.pc = "caught" /\ run'.keep = run.existed
        /\ UNCHANGED <<run.existed, run.original, run.outcome>>
    BY <1>2, <1>6 DEF Memory
  <2>2. /\ rollback[s].exists /\ SoundContent(rollback[s].db) /\ SoundContent(Reads)
        /\ base = run.original /\ rollback[s].log = {}
        /\ run.existed = (run.original # Absent)
    BY <1>1, <1>2, <1>6 DEF ScriptInv, After
  <2>3. base = Absent => wal = {}
    BY <1>2, <2>2, SoundIsContent
  <2>4. SoundContent(Reading(base, IF wal = {} THEN rollback[s].log ELSE wal))
    BY <2>2 DEF Reads
  <2>5. LockInv'
    BY <1>1, <1>2, <1>6, <2>1, Actors DEF LockInv, Marked, Before, After
  <2>6. IncidentInv'
    BY <1>1, <1>2, <1>6, <2>1 DEF IncidentInv, Marked, Before
  <2>7. ContentInv'
    BY <1>1, <1>2, <1>6, <2>1, Actors DEF ContentInv, Marked, SoundContent, Reads
  <2>8. ScriptInv'
    BY <1>1, <2>1, <2>2, <2>3, <2>4 DEF ScriptInv, Before, After, SoundContent
  <2>t. TimelyInv'
    BY <1>1, <1>2, <1>6, <2>2, TimelyForScript DEF LockInv
  <2> QED BY <1>3, <2>5, <2>6, <2>7, <2>8, <2>t DEF Files
<1>7. CASE /\ run.pc = "verify" /\ run' = [run EXCEPT !.pc = "undo", !.outcome = "undo"]
           /\ UNCHANGED <<marker, incident>>
  <2>1. /\ run'.pc = "undo" /\ UNCHANGED <<run.existed, run.original, run.keep>>
    BY <1>2, <1>7 DEF Memory
  <2>2. /\ rollback[s].exists /\ SoundContent(rollback[s].db)
        /\ run.existed = (run.original # Absent) /\ (run.existed => run.keep)
        /\ (~run.existed => wal = {})
    BY <1>1, <1>2, <1>7 DEF ScriptInv, After
  <2>3. LockInv'
    BY <1>1, <1>2, <1>7, <2>1, Actors DEF LockInv, Marked, Before, After
  <2>4. IncidentInv'
    BY <1>1, <1>2, <1>7, <2>1 DEF IncidentInv, Marked, Before
  <2>5. ContentInv'
    BY <1>1, <1>2, <1>7, <2>1, Actors DEF ContentInv, Marked, SoundContent, Reads
  <2>6. ScriptInv'
    BY <1>1, <2>1, <2>2 DEF ScriptInv, Before, After, SoundContent
  <2>t. TimelyInv'
    BY <1>1, <1>2, <1>7, <2>2, TimelyForScript DEF LockInv
  <2> QED BY <1>3, <2>3, <2>4, <2>5, <2>6, <2>t DEF Files
<1> QED BY <1>4, <1>5, <1>6, <1>7, Zenon DEF Fail, Goto

LEMMA SwapFailsKeeps == ASSUME RestoreInv, NEW s \in Script, SwapFails(s)
                        PROVE  Files'
<1>1. /\ holder = s /\ run.pc = "swap"
      /\ UNCHANGED <<wal, marker, at, staging, rollback, holder, incident, last, verified>>
      /\ candidate' \subseteq candidate
      /\ base' = base \/ (run.existed /\ base' = Absent) \/ base' = Backup
  BY DEF SwapFails, Step, Fault
<1>2. /\ RTypeOK /\ LogInv /\ LockInv /\ IncidentInv /\ ContentInv /\ ScriptInv /\ run \in Memory
  BY <1>1, AtScript
<1>3. /\ run'.pc = "caught" /\ UNCHANGED <<run.existed, run.original, run.keep, run.outcome>>
  BY <1>2, MemoryFields DEF SwapFails, Goto
<1>4. /\ rollback[s].exists /\ SoundContent(rollback[s].db)
      /\ run.existed = (run.original # Absent) /\ (run.existed => run.keep)
      /\ base = run.original /\ wal = {} /\ SoundContent(Reading(base, rollback[s].log))
  BY <1>1, <1>2 DEF ScriptInv, After
<1>5. \A m \in marker : m.of = s /\ m.disk = "whole"
  BY <1>1, <1>2 DEF LockInv, After
<1>6. LogInv'
  BY <1>1, <1>2 DEF LogInv, Written
<1>7. LockInv'
  BY <1>1, <1>2, <1>3, Actors DEF LockInv, Marked, Before, After
<1>8. IncidentInv'
  BY <1>1, <1>2, <1>3 DEF IncidentInv, Marked, Before
<1>9. ContentInv'
  <2>1. Marked
    BY <1>1, <1>2 DEF LockInv, After
  <2> QED BY <1>1, <1>2, <1>3, <1>4, <1>5, <2>1, Actors DEF ContentInv, Marked, SoundContent
<1>10. ScriptInv'
  BY <1>1, <1>3, <1>4 DEF ScriptInv, Before, After, SoundContent
<1>t. TimelyInv'
  BY <1>1, <1>2, <1>4, <1>5, TimelyForScript
<1> QED BY <1>6, <1>7, <1>8, <1>9, <1>10, <1>t DEF Files

LEMMA UndoFailsKeeps == ASSUME RestoreInv, NEW s \in Script, UndoFails(s)
                        PROVE  Files'
<1>1. /\ holder = s /\ run.pc = "undo"
      /\ UNCHANGED <<marker, at, staging, candidate, rollback, holder, incident, last, verified>>
      /\ UNCHANGED <<base, wal>> \/ (run.existed /\ wal' = {})
  BY DEF UndoFails, Step, Fault, database, plaintext
<1>2. /\ RTypeOK /\ LogInv /\ LockInv /\ IncidentInv /\ ContentInv /\ ScriptInv /\ run \in Memory
  BY <1>1, AtScript
<1>3. /\ run'.pc = "finally" /\ UNCHANGED <<run.existed, run.original, run.keep, run.outcome>>
  BY <1>2, MemoryFields DEF UndoFails, Goto
<1>4. /\ rollback[s].exists /\ SoundContent(rollback[s].db)
      /\ (run.existed => run.keep)
  BY <1>1, <1>2 DEF ScriptInv, After
<1>5. Marked /\ \A m \in marker : m.of = s /\ m.disk = "whole"
  BY <1>1, <1>2 DEF LockInv, After
<1>6. LogInv'
  BY <1>1, <1>2 DEF LogInv, Written
<1>7. LockInv'
  BY <1>1, <1>2, <1>3, Actors DEF LockInv, Marked, Before, After
<1>8. IncidentInv'
  BY <1>1, <1>2, <1>3 DEF IncidentInv, Marked, Before
<1>9. ContentInv'
  BY <1>1, <1>2, <1>3, <1>4, <1>5, Actors DEF ContentInv, Marked, SoundContent
<1>10. ScriptInv'
  BY <1>1, <1>3, <1>4 DEF ScriptInv, Before, After, SoundContent
<1>t. TimelyInv'
  BY <1>1, <1>2, <1>4, <1>5, TimelyForScript
<1> QED BY <1>6, <1>7, <1>8, <1>9, <1>10, <1>t DEF Files

-----------------------------------------------------------------------------

LEMMA RestoreStepKeeps == ASSUME RestoreInv, NEW s \in Script, RestoreStep(s)
                          PROVE  Files'
BY MakeRollbackKeeps, CopyCandidateKeeps, WriteMarkerKeeps, FlushMarkerKeeps, DetachKeeps,
   SwapKeeps, SwappedKeeps, CaughtKeeps, VerifyKeeps, UndoKeeps, TidyKeeps, UnmarkKeeps,
   DiscardEmptyKeeps, ReleaseKeeps, Zenon DEF RestoreStep

LEMMA StartsSound == Init => Files
<1> SUFFICES ASSUME Init PROVE Files
  OBVIOUS
<1>1. /\ wal = {} /\ marker = {} /\ candidate = {} /\ staging = {} /\ incident = {}
      /\ holder = Nobody /\ run.pc = "idle" /\ base = last
      /\ \A s \in Script : rollback[s].log = {}
  BY DEF Init, Idle, NoDirectory
<1>2. SoundContent(Reads)
  BY <1>1, ReadsBase DEF SoundContent, Reads
<1> QED BY <1>1, <1>2, Actors
        DEF Files, LogInv, Written, LockInv, IncidentInv, ContentInv, TimelyInv, ScriptInv, Marked, After

LEMMA InvKept == RestoreInv /\ [Next]_vars => RestoreInv'
<1> SUFFICES ASSUME RestoreInv, [Next]_vars PROVE RestoreInv'
  OBVIOUS
<1>1. RTypeOK'
  BY TypesKept DEF RestoreInv
<1>2. CASE UNCHANGED vars
  <2>1. /\ UNCHANGED <<base, wal, marker, at, staging, candidate, rollback, holder, run>>
        /\ UNCHANGED <<last, verified, incident, hasty>>
    BY <1>2 DEF vars, database, plaintext, history
  <2>2. LogInv /\ LockInv /\ IncidentInv /\ ContentInv /\ TimelyInv /\ ScriptInv
    BY DEF RestoreInv, Files
  <2>3. LogInv' /\ LockInv' /\ ScriptInv'
    BY <2>1, <2>2 DEF LogInv, Written, LockInv, ScriptInv, Marked, SoundContent, Reads
  <2>4. IncidentInv' /\ ContentInv' /\ TimelyInv'
    BY <2>1, <2>2 DEF IncidentInv, ContentInv, TimelyInv, Condemned, Marked, SoundContent, Reads
  <2> QED BY <1>1, <2>3, <2>4 DEF RestoreInv, Files
<1>3. CASE Next
  <2>1. Files'
    BY <1>3, StartAppKeeps, CommitKeeps, CheckpointKeeps, StopAppKeeps, StageKeeps, LockKeeps,
       RestoreStepKeeps, StartRecoveryKeeps, RecoveryStepKeeps, FailKeeps, SwapFailsKeeps,
       UndoFailsKeeps, CancelKeeps, CleanUpKeeps, KillKeeps, RecoveryFailsKeeps, PowerKeeps, Zenon DEF Next
  <2> QED BY <1>1, <2>1 DEF RestoreInv
<1> QED BY <1>2, <1>3

\* What the theorems below follow from, for any number of restores and faults.
THEOREM InvHolds == Spec => []RestoreInv
<1>1. Init => RestoreInv
  BY TypesHold, StartsSound DEF RestoreInv
<1> QED BY <1>1, InvKept, PTL DEF Spec

\* An application that starts beside no marker finds what it left or a verified
\* backup, whatever happened to any number of restores and recoveries.
THEOREM WholeStarts == Spec => []StartsWhole
<1>1. RestoreInv => StartsWhole
  BY DEF RestoreInv, Files, ContentInv, StartsWhole, Sound, SoundContent
<1> QED BY <1>1, InvHolds, PTL

\* While nobody works, an existing database that is not whole has a marker and a
\* rollback directory that the recovery accepts, unless a recovery was started
\* while the restore that it undoes was still to remove that directory.
THEOREM IncidentsRecoverable == Spec => []IncidentRecoverable
<1>1. RestoreInv => IncidentRecoverable
  <2> SUFFICES ASSUME RestoreInv, ~hasty, ~Sound
               PROVE  CanRecover \/ (Marked /\ ~TheMarker.existed)
    BY DEF IncidentRecoverable
  <2>1. RTypeOK /\ ContentInv /\ TimelyInv /\ ~SoundContent(Reads)
    BY DEF RestoreInv, Files, Sound, SoundContent
  <2>2. Marked
    BY <2>1 DEF ContentInv
  <2>3. TheMarker \in marker
    BY <2>1, <2>2, MarkerIs
  <2>4. TheMarker.disk = "whole" /\ (TheMarker.existed => rollback[TheMarker.of].exists)
    BY <2>1, <2>3 DEF ContentInv, TimelyInv
  <2> QED BY <2>2, <2>4 DEF CanRecover
<1> QED BY <1>1, InvHolds, PTL

\* The plaintext of an incident is gone before the marker that points at it.
THEOREM PlaintextGoesFirst == Spec => []PlaintextResolved
<1>1. RestoreInv => PlaintextResolved
  <2> SUFFICES ASSUME RestoreInv, NEW s \in incident, s \in candidate \union staging
               PROVE  Marked /\ TheMarker.of = s
    BY DEF PlaintextResolved
  <2>1. RTypeOK /\ Marked /\ \A m \in marker : m.of = s
    BY DEF RestoreInv, Files, IncidentInv
  <2> QED BY <2>1, MarkerIs
<1> QED BY <1>1, InvHolds, PTL

-----------------------------------------------------------------------------
(* A restore loses nothing: what the application left is in the database or *)
(* in a rollback directory until the application starts again, unless a     *)
(* recovery was started too early.                                          *)

\* A rollback directory that nobody is about to remove holds what the application
\* left.
Kept(s) == ~Condemned(s) /\ rollback[s].exists /\ rollback[s].db = last
Stored == \E s \in Script : Kept(s)
Elsewhere(s) == \E t \in Script : t # s /\ Kept(t)

OldStored == last # Absent => Reads = last \/ Stored

\* No file but a rollback directory has to hold it while there is a marker.
StoredInv ==
  /\ OldStored
  /\ \A m \in marker :
       rollback[m.of].exists /\ last # Absent => rollback[m.of].db = last \/ Stored
  /\ \A s \in Script : at[s] \in {"new", "staged"} => ~rollback[s].exists

\* What a script knows of its own rollback directory.
OwnInv ==
  \A s \in Script : holder = s =>
    /\ run.pc = "rollback" => ~rollback[s].exists
    /\ run.pc \in After \union {"candidate", "mark"} =>
         /\ last # Absent => rollback[s].db = last \/ Elsewhere(s)
         /\ ~run.existed => rollback[s].db = Absent
    /\ run.pc \in {"candidate", "mark", "flush", "detach"} => Reads = rollback[s].db
    /\ run.pc = "swap" => Reading(base, rollback[s].log) = rollback[s].db
    /\ run.pc = "caught" /\ base = run.original /\ base # Backup =>
         Reading(base, IF wal = {} THEN rollback[s].log ELSE wal) = rollback[s].db
    /\ run.pc \in {"tidy", "unmark"} /\ run.outcome = "unchanged" => Reads = rollback[s].db
    /\ run.pc = "discard" \/ (run.pc = "finally" /\ ~run.keep) =>
         (last # Absent => Reads = last \/ Elsewhere(s))

KeptInv == StoredInv /\ OwnInv
UnlessHasty == ~hasty => KeptInv

-----------------------------------------------------------------------------

LEMMA StoredStays ==
  ASSUME UNCHANGED <<rollback, last>>, \A s \in Script : Condemned(s)' => Condemned(s)
  PROVE  (Stored => Stored') /\ \A s \in Script : Elsewhere(s) => Elsewhere(s)'
BY DEF Stored, Elsewhere, Kept

LEMMA StoredSame ==
  ASSUME UNCHANGED <<rollback, last, at>>
  PROVE  (Stored' <=> Stored) /\ \A s \in Script : Elsewhere(s)' <=> Elsewhere(s)
BY DEF Stored, Elsewhere, Kept, Condemned

LEMMA StoredSomewhere ==
  ASSUME NEW s \in Script
  PROVE  Elsewhere(s) \/ Kept(s) <=> Stored
BY DEF Stored, Elsewhere

\* What the invariants say of the script that holds the lock.
LEMMA Own ==
  ASSUME RestoreInv, KeptInv, NEW s \in Script, holder = s
  PROVE  /\ RTypeOK /\ LogInv /\ LockInv /\ ContentInv /\ ScriptInv /\ StoredInv /\ OwnInv
         /\ run \in Memory /\ at[s] = "locked" /\ ~Condemned(s) /\ \A m \in marker : m.of = s
         /\ run.pc \in After \union {"candidate", "mark"} =>
              rollback[s].exists /\ (last # Absent => Stored)
<1>1. /\ RTypeOK /\ LogInv /\ LockInv /\ ContentInv /\ ScriptInv /\ StoredInv /\ OwnInv
      /\ run \in Memory /\ at[s] = "locked"
  BY DEF RestoreInv, Files, KeptInv, RTypeOK
<1>2. \A m \in marker : m.of = s
  BY <1>1 DEF LockInv
<1>3. run.pc \in After \union {"candidate", "mark"} =>
        rollback[s].exists /\ (last # Absent => rollback[s].db = last \/ Elsewhere(s))
  BY <1>1 DEF ScriptInv, OwnInv
<1>4. ~Condemned(s)
  BY <1>1 DEF Condemned
<1> QED BY <1>1, <1>2, <1>3, <1>4, StoredSomewhere DEF Kept

\* The application works where there is no marker, and knows what it leaves.
LEMMA AppKeepsStored ==
  ASSUME RestoreInv, KeptInv, StartApp \/ Commit \/ Checkpoint \/ StopApp
  PROVE  KeptInv'
<1>1. /\ ~Marked /\ holder' \in {Nobody, App} /\ UNCHANGED <<marker, at, rollback>>
  BY DEF StartApp, Commit, Checkpoint, StopApp, RestoreInv, Files, LockInv
<1>2. last # Absent => Reads = last \/ Stored
  BY DEF KeptInv, StoredInv, OldStored
<1>3. (last # Absent => Reads = last \/ Stored)'
  <2>1. CASE StartApp
    <3>1. /\ RTypeOK /\ LogInv /\ SoundContent(Reads)
      BY <1>1 DEF RestoreInv, Files, ContentInv
    <3>2. CASE base = Absent
      <4>1. wal' = {}
        BY <2>1, <3>1, <3>2, SoundIsContent DEF StartApp
      <4> QED BY <2>1, <3>2, <4>1, ReadsBase DEF StartApp, Reads
    <3>3. CASE base # Absent
      <4>1. Reads # Mixed
        BY <3>1, SoundIsContent, Numbers
      <4> QED BY <2>1, <3>3, <4>1 DEF StartApp, Reads
    <3> QED BY <3>2, <3>3
  <2>2. CASE Commit
    <3>1. /\ RTypeOK' /\ wal' = {[over |-> base, to |-> newest + 1]} /\ base' = base
          /\ last' = newest + 1
      BY <2>2, OthersKeepTypes DEF RestoreInv, Commit
    <3>2. wal' \in Logs
      BY <3>1 DEF RTypeOK
    <3> QED BY <3>1, <3>2, ReadsLog DEF Reads
  <2>3. CASE Checkpoint
    <3>1. base' = Reads /\ wal' = {} /\ UNCHANGED <<last, rollback>>
      BY <2>3 DEF Checkpoint, history
    <3>2. Reads' = Reads
      BY <3>1, ReadsBase DEF Reads
    <3> QED BY <1>1, <1>2, <3>1, <3>2, StoredSame
  <2>4. CASE StopApp
    <3>1. UNCHANGED <<base, wal, last, rollback>>
      BY <2>4 DEF StopApp, database, history
    <3> QED BY <1>1, <1>2, <3>1, StoredSame DEF Reads
  <2> QED BY <2>1, <2>2, <2>3, <2>4
<1>4. StoredInv'
  BY <1>1, <1>3 DEF KeptInv, StoredInv, OldStored, Marked
<1>5. OwnInv'
  BY <1>1, Actors DEF OwnInv
<1> QED BY <1>4, <1>5 DEF KeptInv

LEMMA StageKeepsStored ==
  ASSUME RestoreInv, KeptInv, NEW s \in Script, Stage(s) \/ Refuse(s)
  PROVE  KeptInv'
<1>1. /\ UNCHANGED <<base, wal, marker, rollback, holder, run, last>>
      /\ \A t \in Script : /\ at'[t] \in {"new", "staged"} => at[t] \in {"new", "staged"}
                           /\ Condemned(t)' => Condemned(t)
  BY DEF RestoreInv, RTypeOK, Condemned, Stage, Refuse, database, history
<1>2. StoredInv'
  BY <1>1, StoredStays DEF KeptInv, StoredInv, OldStored, Reads
<1>3. OwnInv'
  BY <1>1, StoredStays DEF KeptInv, OwnInv, Reads
<1> QED BY <1>2, <1>3 DEF KeptInv

LEMMA LockKeepsStored ==
  ASSUME RestoreInv, KeptInv, NEW s \in Script, Lock(s)
  PROVE  KeptInv'
<1>1. /\ UNCHANGED <<base, wal, marker, rollback, last>> /\ at[s] = "staged" /\ holder' = s
      /\ \A t \in Script : /\ at'[t] \in {"new", "staged"} => at[t] \in {"new", "staged"}
                           /\ Condemned(t)' => Condemned(t)
  BY DEF RestoreInv, RTypeOK, Condemned, Lock, database, history
<1>2. run'.pc = "rollback"
  BY DEF Lock, Idle
<1>3. StoredInv'
  BY <1>1, StoredStays DEF KeptInv, StoredInv, OldStored, Reads
<1>4. OwnInv'
  BY <1>1, <1>2 DEF KeptInv, StoredInv, OwnInv, After
<1> QED BY <1>3, <1>4 DEF KeptInv

LEMMA MakeRollbackKeepsStored ==
  ASSUME RestoreInv, KeptInv, NEW s \in Script, MakeRollback(s)
  PROVE  KeptInv'
<1>1. holder = s /\ run.pc = "rollback"
  BY DEF MakeRollback, Step
<1>2. /\ RTypeOK /\ LogInv /\ LockInv /\ ContentInv /\ ScriptInv /\ StoredInv /\ OwnInv
      /\ run \in Memory /\ at[s] = "locked" /\ ~Condemned(s)
  BY <1>1, Own
<1>3. /\ ~Marked /\ SoundContent(Reads) /\ ~rollback[s].exists
  BY <1>1, <1>2 DEF LockInv, ContentInv, OwnInv, Before
<1>4. /\ UNCHANGED <<base, wal, marker, at, holder, last>>
      /\ run'.pc = "candidate" /\ run'.existed = (base # Absent)
  BY <1>2 DEF MakeRollback, Memory, database, plaintext, history
<1>5. /\ rollback'[s].exists /\ rollback'[s].db = Reads
      /\ \A t \in Script : t # s => rollback'[t] = rollback[t]
  BY <1>2 DEF MakeRollback, RTypeOK
<1>6. last # Absent => Reads = last \/ Elsewhere(s)
  BY <1>2, <1>3, StoredSomewhere DEF StoredInv, OldStored, Kept
<1>7. Elsewhere(s) => Elsewhere(s)'
  BY <1>4, <1>5 DEF Elsewhere, Kept, Condemned
<1>8. StoredInv'
  <2>1. (last # Absent => Stored)'
    <3>1. Kept(s)' <=> (last = Reads)
      BY <1>2, <1>4, <1>5 DEF Kept, Condemned
    <3> QED BY <1>4, <1>6, <1>7, <3>1 DEF Stored, Elsewhere
  <2> QED BY <1>2, <1>3, <1>4, <1>5, <2>1 DEF StoredInv, OldStored, Marked
<1>9. OwnInv'
  <2>1. base = Absent => Reads = Absent
    BY <1>2, <1>3, SoundIsContent
  <2> QED BY <1>1, <1>4, <1>5, <1>6, <1>7, <2>1 DEF OwnInv, After, Reads
<1> QED BY <1>8, <1>9 DEF KeptInv

\* A step beside a rollback directory that is there may do what it likes with the
\* database: what the application left is in that directory or in another.
LEMMA BesideRollback ==
  ASSUME RestoreInv, KeptInv, NEW s \in Script, holder = s,
         run.pc \in After \union {"candidate", "mark"},
         UNCHANGED <<at, rollback, last>>
  PROVE  StoredInv'
<1>1. StoredInv /\ (last # Absent => Stored)
  BY Own
<1>2. (last # Absent => Stored)'
  BY <1>1, StoredSame
<1> QED BY <1>1, <1>2 DEF StoredInv, OldStored

LEMMA CandidateKeepsStored ==
  ASSUME RestoreInv, KeptInv, NEW s \in Script,
         CopyCandidate(s) \/ WriteMarker(s) \/ FlushMarker(s)
  PROVE  KeptInv'
<1>1. /\ holder = s /\ run.pc \in {"candidate", "mark", "flush"}
      /\ UNCHANGED <<base, wal, at, rollback, holder, last>>
  BY DEF CopyCandidate, WriteMarker, FlushMarker, Step, database, plaintext, history
<1>2. RTypeOK /\ OwnInv /\ run \in Memory
  BY <1>1, Own
<1>3. run'.pc \in {"mark", "flush", "detach"} /\ UNCHANGED run.existed
  <2>1. PICK pc \in {"mark", "flush", "detach"} : run' = [run EXCEPT !.pc = pc]
    BY DEF CopyCandidate, WriteMarker, FlushMarker, Goto
  <2> QED BY <1>2, <2>1, MemoryFields
<1>4. StoredInv'
  BY <1>1, BesideRollback DEF After
<1>5. OwnInv'
  BY <1>1, <1>2, <1>3, StoredSame DEF OwnInv, After, Reads
<1> QED BY <1>4, <1>5 DEF KeptInv

LEMMA DetachKeepsStored ==
  ASSUME RestoreInv, KeptInv, NEW s \in Script, Detach(s)
  PROVE  KeptInv'
<1>1. /\ holder = s /\ run.pc = "detach" /\ UNCHANGED <<base, marker, at, holder, last>>
  BY DEF Detach, Step, plaintext, history
<1>2. /\ RTypeOK /\ StoredInv /\ OwnInv /\ run \in Memory /\ (last # Absent => Stored)
  BY <1>1, Own DEF After
<1>3. run'.pc = "swap" /\ UNCHANGED run.existed
  BY <1>2 DEF Detach, Memory
<1>4. /\ \A t \in Script : /\ rollback'[t].exists = rollback[t].exists
                           /\ rollback'[t].db = rollback[t].db
      /\ rollback'[s].log = wal
  <2>1. rollback' = [rollback EXCEPT ![s].log = wal] /\ rollback \in [Script -> Directory]
    BY <1>2 DEF Detach, RTypeOK
  <2>2. /\ rollback'[s].exists = rollback[s].exists /\ rollback'[s].db = rollback[s].db
        /\ rollback'[s].log = wal /\ \A t \in Script : t # s => rollback'[t] = rollback[t]
    BY <2>1, DirectoryFields
  <2> QED BY <2>2
<1>5. (Stored' <=> Stored) /\ (Elsewhere(s)' <=> Elsewhere(s))
  BY <1>1, <1>4 DEF Stored, Elsewhere, Kept, Condemned
<1>6. StoredInv'
  <2>1. \A m \in marker : m.of \in Script
    BY <1>2 DEF RTypeOK, Marker
  <2>2. OldStored'
    BY <1>1, <1>2, <1>5 DEF OldStored
  <2> QED BY <1>1, <1>2, <1>4, <1>5, <2>1, <2>2 DEF StoredInv
<1>7. OwnInv'
  BY <1>1, <1>2, <1>3, <1>4, <1>5 DEF OwnInv, After, Reads
<1> QED BY <1>6, <1>7 DEF KeptInv

LEMMA SwapKeepsStored ==
  ASSUME RestoreInv, KeptInv, NEW s \in Script,
         Swap(s) \/ Swapped(s) \/ Verify(s) \/ Undo(s) \/ Tidy(s)
  PROVE  KeptInv'
<1>1. /\ holder = s /\ run.pc \in {"swap", "swapped", "verify", "undo", "tidy"}
      /\ UNCHANGED <<at, rollback, holder, last>>
  BY DEF Swap, Swapped, Verify, Undo, Tidy, Step, plaintext, history
<1>2. RTypeOK /\ ScriptInv /\ OwnInv /\ run \in Memory
  BY <1>1, Own
<1>3. StoredInv'
  BY <1>1, BesideRollback DEF After
<1>4. /\ last # Absent => rollback[s].db = last \/ Elsewhere(s)
      /\ ~run.existed => rollback[s].db = Absent
  BY <1>1, <1>2 DEF OwnInv, After
<1>5. CASE Swap(s) \/ Swapped(s)
  <2>1. run'.pc \in {"swapped", "verify"} /\ UNCHANGED run.existed
    BY <1>2, <1>5 DEF Swap, Swapped, Goto, Memory
  <2> QED BY <1>1, <1>3, <1>4, <2>1, StoredSame DEF KeptInv, OwnInv, After
<1>6. CASE Verify(s)
  <2>1. /\ run'.pc \in {"undo", "tidy"} /\ UNCHANGED <<run.existed, run.outcome>>
    BY <1>2, <1>6, MemoryFields DEF Verify, Goto
  <2>2. run.outcome # "unchanged"
    BY <1>1, <1>2, <1>6 DEF ScriptInv, Verify, Step
  <2> QED BY <1>1, <1>3, <1>4, <2>1, <2>2, StoredSame DEF KeptInv, OwnInv, After
<1>7. CASE Undo(s)
  <2>1. /\ run.pc = "undo" /\ run'.pc = "tidy" /\ UNCHANGED run.existed
        /\ base' = rollback[s].db /\ wal' = (IF run.existed THEN {} ELSE wal)
    BY <1>2, <1>7, MemoryFields DEF Undo, Step, Goto
  <2>2. ~run.existed => wal = {}
    BY <1>1, <1>2, <2>1 DEF ScriptInv
  <2>3. Reads' = rollback'[s].db
    BY <1>1, <2>1, <2>2, ReadsBase DEF Reads
  <2> QED BY <1>1, <1>3, <1>4, <2>1, <2>3, StoredSame DEF KeptInv, OwnInv, After
<1>8. CASE Tidy(s)
  <2>1. /\ run.pc = "tidy" /\ run'.pc = "unmark" /\ UNCHANGED <<run.existed, run.outcome, base, wal>>
    BY <1>2, <1>8, MemoryFields DEF Tidy, Step, Goto, database
  <2>2. run.outcome = "unchanged" => Reads = rollback[s].db
    BY <1>1, <1>2, <2>1 DEF OwnInv
  <2> QED BY <1>1, <1>3, <1>4, <2>1, <2>2, StoredSame DEF KeptInv, OwnInv, After, Reads
<1> QED BY <1>5, <1>6, <1>7, <1>8

LEMMA CaughtKeepsStored ==
  ASSUME RestoreInv, KeptInv, NEW s \in Script, Caught(s)
  PROVE  KeptInv'
<1>1. /\ holder = s /\ run.pc = "caught" /\ UNCHANGED <<base, marker, at, holder, last>>
  BY DEF Caught, Step, plaintext, history
<1>2. /\ RTypeOK /\ StoredInv /\ OwnInv /\ run \in Memory /\ (last # Absent => Stored)
  BY <1>1, Own DEF After
<1>3. /\ last # Absent => rollback[s].db = last \/ Elsewhere(s)
      /\ ~run.existed => rollback[s].db = Absent
  BY <1>1, <1>2 DEF OwnInv, After
<1>4. CASE /\ \/ run' = [run EXCEPT !.pc = "verify", !.keep = TRUE, !.outcome = "undo"]
              \/ run' = [run EXCEPT !.pc = "finally", !.keep = TRUE]
           /\ UNCHANGED <<wal, rollback>>
  <2>1. /\ run'.pc \in {"verify", "finally"} /\ run'.keep /\ UNCHANGED run.existed
    BY <1>2, <1>4 DEF Memory
  <2>2. StoredInv'
    BY <1>1, <1>4, BesideRollback DEF After
  <2> QED BY <1>1, <1>3, <1>4, <2>1, <2>2, StoredSame DEF KeptInv, OwnInv, After
<1>5. CASE /\ base # Backup /\ base = run.original
           /\ wal' = IF wal = {} THEN rollback[s].log ELSE wal
           /\ rollback' = [rollback EXCEPT ![s].log = {}]
           /\ run' = [run EXCEPT !.pc = "tidy", !.outcome = "unchanged"]
  <2>1. run'.pc = "tidy" /\ UNCHANGED run.existed
    BY <1>2, <1>5 DEF Memory
  <2>2. \A t \in Script : /\ rollback'[t].exists = rollback[t].exists
                          /\ rollback'[t].db = rollback[t].db
    <3>1. /\ rollback'[s].exists = rollback[s].exists /\ rollback'[s].db = rollback[s].db
          /\ \A t \in Script : t # s => rollback'[t] = rollback[t]
      BY <1>2, <1>5, DirectoryFields DEF RTypeOK
    <3> QED BY <3>1
  <2>3. (Stored' <=> Stored) /\ (Elsewhere(s)' <=> Elsewhere(s))
    BY <1>1, <2>2 DEF Stored, Elsewhere, Kept, Condemned
  <2>4. Reads' = rollback'[s].db
    BY <1>1, <1>2, <1>5, <2>2 DEF OwnInv, Reads
  <2>5. StoredInv'
    <3>1. \A m \in marker : m.of \in Script
      BY <1>2 DEF RTypeOK, Marker
    <3>2. OldStored'
      BY <1>1, <1>2, <2>3 DEF OldStored
    <3> QED BY <1>1, <1>2, <2>2, <2>3, <3>1, <3>2 DEF StoredInv
  <2>6. OwnInv'
    BY <1>1, <1>3, <2>1, <2>2, <2>3, <2>4 DEF OwnInv, After
  <2> QED BY <2>5, <2>6 DEF KeptInv
<1> QED BY <1>4, <1>5 DEF Caught

LEMMA UnmarkKeepsStored ==
  ASSUME RestoreInv, KeptInv, NEW s \in Script, Unmark(s)
  PROVE  KeptInv'
<1>1. /\ holder = s /\ run.pc = "unmark" /\ marker' = {}
      /\ UNCHANGED <<base, wal, at, rollback, holder, last>>
  BY DEF Unmark, Step, database, plaintext, history
<1>2. /\ RTypeOK /\ ScriptInv /\ OwnInv /\ run \in Memory
  BY <1>1, Own
<1>3. /\ run'.pc \in {"discard", "finally"} /\ (run'.pc = "discard" => ~run.existed)
      /\ ~run'.keep => ~run.keep \/ run.outcome = "unchanged" \/ ~run.existed
  BY <1>2 DEF Unmark, Memory
<1>4. run.existed => run.keep
  BY <1>1, <1>2 DEF ScriptInv
<1>5. /\ last # Absent => rollback[s].db = last \/ Elsewhere(s)
      /\ ~run.existed => rollback[s].db = Absent
      /\ run.outcome = "unchanged" => Reads = rollback[s].db
  BY <1>1, <1>2 DEF OwnInv, After
<1>6. StoredInv'
  BY <1>1, BesideRollback DEF After
<1>7. OwnInv'
  BY <1>1, <1>3, <1>4, <1>5, StoredSame DEF OwnInv, After, Reads
<1> QED BY <1>6, <1>7 DEF KeptInv

LEMMA DiscardEmptyKeepsStored ==
  ASSUME RestoreInv, KeptInv, NEW s \in Script, DiscardEmpty(s)
  PROVE  KeptInv'
<1>1. /\ holder = s /\ run.pc = "discard"
      /\ UNCHANGED <<base, wal, marker, at, holder, last>>
  BY DEF DiscardEmpty, Step, database, plaintext, history
<1>2. /\ RTypeOK /\ StoredInv /\ OwnInv /\ at[s] = "locked" /\ ~Marked
  BY <1>1, Own DEF LockInv
<1>3. run'.pc = "finally"
  BY <1>1, Own, MemoryFields DEF DiscardEmpty, Goto
<1>4. \A t \in Script : t # s => rollback'[t] = rollback[t]
  BY <1>2 DEF DiscardEmpty, Without, RTypeOK
<1>5. Elsewhere(s) => Elsewhere(s)' /\ Stored'
  BY <1>1, <1>4 DEF Elsewhere, Stored, Kept, Condemned
<1>6. last # Absent => Reads = last \/ Elsewhere(s)
  BY <1>1, <1>2 DEF OwnInv
<1>7. StoredInv'
  BY <1>1, <1>2, <1>4, <1>5, <1>6 DEF StoredInv, OldStored, Marked, Reads
<1>8. OwnInv'
  BY <1>1, <1>3, <1>5, <1>6 DEF OwnInv, After, Reads
<1> QED BY <1>7, <1>8 DEF KeptInv

LEMMA ReleaseKeepsStored ==
  ASSUME RestoreInv, KeptInv, NEW s \in Script, Release(s)
  PROVE  KeptInv'
<1>1. /\ holder = s /\ run.pc = "finally" /\ holder' = Nobody
      /\ UNCHANGED <<base, wal, marker, rollback, last>>
  BY DEF Release, Step, database, plaintext, history
<1>2. /\ RTypeOK /\ StoredInv /\ OwnInv /\ at[s] = "locked" /\ ~Condemned(s)
      /\ \A m \in marker : m.of = s
  BY <1>1, Own
<1>3. /\ \A t \in Script : t # s => at'[t] = at[t]
      /\ at'[s] \in {"keeping", "dropping"} /\ (run.keep => at'[s] = "keeping")
  BY <1>2 DEF Release, RTypeOK
<1>4. \A t \in Script : at'[t] \in {"new", "staged"} => at[t] \in {"new", "staged"}
  BY <1>2, <1>3
<1>5. OwnInv'
  BY <1>1, Actors DEF OwnInv
<1>6. CASE run.keep
  <2>1. \A t \in Script : Condemned(t)' => Condemned(t)
    BY <1>3, <1>6 DEF Condemned
  <2>2. Stored => Stored'
    BY <1>1, <2>1, StoredStays
  <2>3. StoredInv'
    BY <1>1, <1>2, <1>4, <2>2 DEF StoredInv, OldStored, Reads
  <2> QED BY <1>5, <2>3 DEF KeptInv
<1>7. CASE ~run.keep
  <2>1. last # Absent => Reads = last \/ Elsewhere(s)
    BY <1>1, <1>2, <1>7 DEF OwnInv
  <2>2. Elsewhere(s) => Stored'
    BY <1>1, <1>3 DEF Elsewhere, Stored, Kept, Condemned
  <2>3. Stored => Elsewhere(s) \/ rollback[s].db = last
    BY StoredSomewhere DEF Kept
  <2>4. StoredInv'
    BY <1>1, <1>2, <1>4, <2>1, <2>2, <2>3 DEF StoredInv, OldStored, Reads
  <2> QED BY <1>5, <2>4 DEF KeptInv
<1> QED BY <1>6, <1>7

\* What a script removes after that was not counted upon.
LEMMA CleanUpKeepsStored ==
  ASSUME RestoreInv, KeptInv, NEW s \in Script, CleanUp(s) \/ CleanupFails(s)
  PROVE  KeptInv'
<1>1. /\ RTypeOK /\ StoredInv /\ OwnInv
      /\ at[s] \in {"keeping", "dropping", "discarding"} /\ holder # s
      /\ UNCHANGED <<base, wal, marker, holder, run, last>>
  BY DEF RestoreInv, KeptInv, CleanUp, CleanPlaintext, Discard, CleanupFails, Cleaned, Fault,
         database, history, RTypeOK
<1>2. \A x \in Script : /\ at'[x] \in {"new", "staged"} => at[x] \in {"new", "staged"}
                        /\ Condemned(x)' => Condemned(x)
  BY <1>1 DEF CleanUp, CleanPlaintext, Discard, CleanupFails, Cleaned, Condemned, RTypeOK
<1>3. UNCHANGED rollback \/ (Condemned(s) /\ rollback' = Without(s))
  BY DEF CleanUp, CleanPlaintext, Discard, CleanupFails, Cleaned, Condemned
<1>4. /\ \A x \in Script : x # s => rollback'[x] = rollback[x]
      /\ rollback'[s] = rollback[s] \/ (Condemned(s) /\ rollback'[s].exists = FALSE)
  BY <1>1, <1>3 DEF Without, NoDirectory, RTypeOK
<1>5. \A x \in Script : Kept(x) => Kept(x)'
  BY <1>1, <1>2, <1>4 DEF Kept
<1>6. (Stored => Stored') /\ \A x \in Script : Elsewhere(x) => Elsewhere(x)'
  BY <1>5 DEF Stored, Elsewhere
<1>7. StoredInv'
  <2>1. \A m \in marker : m.of \in Script
    BY <1>1 DEF RTypeOK, Marker
  <2> QED BY <1>1, <1>2, <1>4, <1>6, <2>1 DEF StoredInv, OldStored, Reads
<1>8. OwnInv'
  BY <1>1, <1>4, <1>6 DEF OwnInv, Reads
<1> QED BY <1>7, <1>8 DEF KeptInv

\* A recovery works beside a rollback directory too.
LEMMA RecoveryKeepsStored ==
  ASSUME RestoreInv, KeptInv, ~hasty, ~hasty', StartRecovery \/ RecoveryStep \/ RecoveryFails
  PROVE  KeptInv'
<1>1. /\ RTypeOK /\ StoredInv
  BY DEF RestoreInv, KeptInv
<1>2. /\ UNCHANGED <<at, rollback, last>> /\ holder' \in {Nobody, Recovery}
      /\ Marked /\ rollback[TheMarker.of].exists /\ ~Condemned(TheMarker.of)
  <2>1. CASE StartRecovery
    BY <2>1 DEF StartRecovery, CanRecover
  <2>2. CASE RecoveryStep \/ RecoveryFails
    <3>1. holder = Recovery
      BY <2>2 DEF RecoveryStep, RecoveryDetaches, RecoverySwaps, RecoveryTidies, RecoveryUnmarks, RecoveryStops,
                  Step, RecoveryFails
    <3> QED BY <2>2, <3>1, AtRecovery
            DEF RecoveryStep, RecoveryDetaches, RecoverySwaps, RecoveryTidies, RecoveryUnmarks, RecoveryStops,
                RecoveryFails, Fault, history, plaintext
  <2> QED BY <2>1, <2>2
<1>3. last # Absent => Stored
  BY <1>1, <1>2, MarkerIs DEF StoredInv, Stored, Kept
<1>4. (last # Absent => Stored)'
  BY <1>2, <1>3, StoredSame
<1>5. StoredInv'
  BY <1>1, <1>2, <1>4 DEF StoredInv, OldStored
<1>6. OwnInv'
  BY <1>2, Actors DEF OwnInv
<1> QED BY <1>5, <1>6 DEF KeptInv

LEMMA KillKeepsStored ==
  ASSUME RestoreInv, KeptInv, (\E p \in Script \union {App, Recovery} : Kill(p)) \/ Power
  PROVE  KeptInv'
<1>1. RTypeOK /\ StoredInv /\ OwnInv
  BY DEF RestoreInv, KeptInv
<1>2. /\ UNCHANGED <<base, wal, rollback, last>>
      /\ holder' = Nobody \/ UNCHANGED <<holder, run>>
      /\ \A s \in Script : /\ at'[s] \in {"new", "staged"} => at[s] \in {"new", "staged"}
                           /\ Condemned(s)' => Condemned(s)
  BY DEF Kill, Power, Fault, Ended, Condemned, database
<1>3. \A m \in marker' : \E n \in marker : m.of = n.of
  <2>1. CASE marker' = marker
    BY <2>1
  <2>2. CASE Marked /\ marker' = {[TheMarker EXCEPT !.disk = "torn"]}
    BY <1>1, <2>2, MarkerIs DEF Marker
  <2> QED BY <2>1, <2>2 DEF Kill, Power
<1>s. (Stored => Stored') /\ \A s \in Script : Elsewhere(s) => Elsewhere(s)'
  BY <1>2, StoredStays
<1>4. OldStored'
  BY <1>1, <1>2, <1>s DEF StoredInv, OldStored, Reads
<1>5. StoredInv'
  BY <1>1, <1>2, <1>3, <1>4, <1>s DEF StoredInv
<1>6. OwnInv'
  BY <1>1, <1>2, <1>s, Actors DEF OwnInv, Reads
<1> QED BY <1>5, <1>6 DEF KeptInv

\* A script that is stopped knows whether its rollback directory is needed.
LEMMA StoppedKeepsStored ==
  ASSUME RestoreInv, KeptInv, NEW s \in Script, holder = s, run.pc # "finally",
         UNCHANGED <<at, rollback, holder, last>>, run'.pc = "finally",
         run.keep => run'.keep,
         run.pc \in Before \union {"flush", "detach", "discard"} => UNCHANGED <<base, wal>>,
         run.pc \in {"rollback", "discard"} => UNCHANGED marker
  PROVE  KeptInv'
<1>1. /\ RTypeOK /\ LockInv /\ ScriptInv /\ StoredInv /\ OwnInv
  BY Own
<1>2. run.pc \in Before \union After \union {"discard"}
  BY <1>1 DEF LockInv
<1>3. CASE run.pc \in {"rollback", "discard"}
  <2>1. last # Absent => Reads = last \/ Elsewhere(s)
    BY <1>1, <1>3, StoredSomewhere DEF StoredInv, OldStored, OwnInv, Kept
  <2>2. UNCHANGED <<base, wal, marker>>
    BY <1>3 DEF Before
  <2>3. OwnInv'
    BY <2>1, <2>2, StoredSame DEF OwnInv, After, Reads
  <2>4. OldStored'
    BY <1>1, <2>2, StoredSame DEF StoredInv, OldStored, Reads
  <2>5. StoredInv'
    BY <1>1, <2>2, <2>4, StoredSame DEF StoredInv
  <2> QED BY <2>3, <2>5 DEF KeptInv
<1>4. CASE run.pc \in After \union {"candidate", "mark"}
  <2>1. StoredInv'
    BY <1>4, BesideRollback
  <2>2. CASE run.pc \in {"candidate", "mark", "flush", "detach"}
    <3>1. /\ Reads = rollback[s].db /\ (last # Absent => rollback[s].db = last \/ Elsewhere(s))
      BY <1>1, <2>2 DEF OwnInv, After
    <3>2. UNCHANGED <<base, wal>>
      BY <2>2 DEF Before
    <3>3. OwnInv'
      BY <3>1, <3>2, StoredSame DEF OwnInv, After, Reads
    <3> QED BY <2>1, <3>3 DEF KeptInv
  <2>3. CASE run.pc \in After \ {"flush", "detach"}
    <3>1. /\ last # Absent => rollback[s].db = last \/ Elsewhere(s)
          /\ ~run.existed => rollback[s].db = Absent
          /\ run.existed => run.keep
      BY <1>1, <2>3 DEF OwnInv, ScriptInv, After
    <3>2. OwnInv'
      BY <3>1, StoredSame DEF OwnInv, After
    <3> QED BY <2>1, <3>2 DEF KeptInv
  <2> QED BY <1>4, <2>2, <2>3
<1> QED BY <1>2, <1>3, <1>4 DEF Before

LEMMA CancelKeepsStored ==
  ASSUME RestoreInv, KeptInv, NEW s \in Script, Cancel(s) \/ UndoFails(s)
  PROVE  KeptInv'
<1>1. /\ holder = s /\ run.pc # "finally" /\ UNCHANGED <<marker, at, rollback, holder, last>>
      /\ run.pc # "undo" => UNCHANGED <<base, wal>>
  BY DEF Cancel, UndoFails, Step, Fault, database, plaintext
<1>2. run'.pc = "finally" /\ UNCHANGED run.keep
  <2>1. run' = [run EXCEPT !.pc = "finally"]
    BY DEF Cancel, UndoFails, Goto
  <2>2. run \in Memory
    BY <1>1, Own
  <2> QED BY <2>1, <2>2, MemoryFields
<1> QED BY <1>1, <1>2, StoppedKeepsStored DEF Before

LEMMA SwapFailsKeepsStored ==
  ASSUME RestoreInv, KeptInv, NEW s \in Script, SwapFails(s)
  PROVE  KeptInv'
<1>1. /\ holder = s /\ run.pc = "swap" /\ UNCHANGED <<wal, marker, at, rollback, holder, last>>
      /\ base' = base \/ (run.existed /\ base' = Absent) \/ base' = Backup
  BY DEF SwapFails, Step, Fault
<1>2. /\ RTypeOK /\ ScriptInv /\ OwnInv /\ run \in Memory
  BY <1>1, Own
<1>3. run'.pc = "caught" /\ UNCHANGED <<run.existed, run.original>>
  BY <1>2, MemoryFields DEF SwapFails, Goto
<1>4. /\ last # Absent => rollback[s].db = last \/ Elsewhere(s)
      /\ ~run.existed => rollback[s].db = Absent
      /\ Reading(base, rollback[s].log) = rollback[s].db
      /\ base = run.original /\ wal = {} /\ run.existed = (run.original # Absent)
  BY <1>1, <1>2 DEF OwnInv, ScriptInv, After
<1>5. StoredInv'
  BY <1>1, BesideRollback DEF After
<1>6. OwnInv'
  BY <1>1, <1>3, <1>4, StoredSame DEF OwnInv, After
<1> QED BY <1>5, <1>6 DEF KeptInv

LEMMA FailKeepsStored ==
  ASSUME RestoreInv, KeptInv, NEW s \in Script, Fail(s)
  PROVE  KeptInv'
<1>1. /\ holder = s /\ run.pc # "finally"
      /\ UNCHANGED <<base, wal, at, rollback, holder, last>>
      /\ run.pc \in {"rollback", "discard"} => UNCHANGED marker
  BY DEF Fail, Fault, database, plaintext
<1>2. /\ RTypeOK /\ ScriptInv /\ OwnInv /\ run \in Memory
  BY <1>1, Own
<1>3. CASE \/ run' = [run EXCEPT !.pc = "finally"]
           \/ run' = [run EXCEPT !.pc = "finally", !.keep = TRUE]
  <2>1. run'.pc = "finally" /\ (run.keep => run'.keep)
    BY <1>2, <1>3 DEF Memory
  <2> QED BY <1>1, <2>1, StoppedKeepsStored
<1>4. CASE /\ run.pc = "detach" /\ run' = [run EXCEPT !.pc = "caught", !.keep = run.existed]
  <2>1. run'.pc = "caught" /\ UNCHANGED run.existed
    BY <1>2, <1>4 DEF Memory
  <2>2. /\ last # Absent => rollback[s].db = last \/ Elsewhere(s)
        /\ ~run.existed => rollback[s].db = Absent
        /\ Reads = rollback[s].db /\ rollback[s].log = {}
    BY <1>1, <1>2, <1>4 DEF OwnInv, ScriptInv, After
  <2>3. Reading(base, IF wal = {} THEN rollback[s].log ELSE wal) = rollback[s].db
    BY <2>2 DEF Reads
  <2>4. StoredInv'
    BY <1>1, <1>4, BesideRollback DEF After
  <2>5. OwnInv'
    BY <1>1, <2>1, <2>2, <2>3, StoredSame DEF OwnInv, After
  <2> QED BY <2>4, <2>5 DEF KeptInv
<1>5. CASE run.pc = "verify" /\ run' = [run EXCEPT !.pc = "undo", !.outcome = "undo"]
  <2>1. run'.pc = "undo" /\ UNCHANGED run.existed
    BY <1>2, <1>5 DEF Memory
  <2>2. /\ last # Absent => rollback[s].db = last \/ Elsewhere(s)
        /\ ~run.existed => rollback[s].db = Absent
    BY <1>1, <1>2, <1>5 DEF OwnInv, After
  <2>3. StoredInv'
    BY <1>1, <1>5, BesideRollback DEF After
  <2>4. OwnInv'
    BY <1>1, <2>1, <2>2, StoredSame DEF OwnInv, After
  <2> QED BY <2>3, <2>4 DEF KeptInv
<1> QED BY <1>3, <1>4, <1>5, Zenon DEF Fail, Goto

-----------------------------------------------------------------------------

LEMMA ScriptKeepsStored ==
  ASSUME RestoreInv, KeptInv, NEW s \in Script, RestoreStep(s)
  PROVE  KeptInv'
BY MakeRollbackKeepsStored, CandidateKeepsStored, DetachKeepsStored, SwapKeepsStored,
   CaughtKeepsStored, UnmarkKeepsStored, DiscardEmptyKeepsStored, ReleaseKeepsStored,
   Zenon DEF RestoreStep

LEMMA KeptKept == RestoreInv /\ UnlessHasty /\ [Next]_vars => UnlessHasty'
<1> SUFFICES ASSUME RestoreInv, UnlessHasty, [Next]_vars, ~hasty' PROVE KeptInv'
  BY DEF UnlessHasty
<1>0. ~hasty /\ KeptInv
  <2>1. CASE UNCHANGED vars
    BY <2>1 DEF vars, history, UnlessHasty
  <2>2. CASE Next
    <3>1. hasty => hasty'
      BY <2>2 DEF Next, StartApp, Commit, Checkpoint, StopApp, Stage, Refuse, Lock, RestoreStep,
                  MakeRollback, CopyCandidate, WriteMarker, FlushMarker, Detach, Swap, Swapped,
                  Caught, Verify, Undo, Tidy, Unmark, DiscardEmpty, Release, CleanUp,
                  CleanPlaintext, Discard, StartRecovery, RecoveryStep, RecoveryDetaches,
                  RecoverySwaps, RecoveryTidies, RecoveryUnmarks, RecoveryStops, Fail, SwapFails,
                  UndoFails, Cancel, CleanupFails, Kill, RecoveryFails, Power, Fault, history
    <3> QED BY <3>1 DEF UnlessHasty
  <2> QED BY <2>1, <2>2
<1>1. CASE UNCHANGED vars
  <2>1. UNCHANGED <<base, wal, marker, at, rollback, holder, run, last>>
    BY <1>1 DEF vars, database, plaintext, history
  <2>2. OldStored'
    BY <1>0, <2>1, StoredSame DEF KeptInv, StoredInv, OldStored, Reads
  <2>3. StoredInv'
    BY <1>0, <2>1, <2>2, StoredSame DEF KeptInv, StoredInv
  <2>4. OwnInv'
    BY <1>0, <2>1, StoredSame DEF KeptInv, OwnInv, Reads
  <2> QED BY <2>3, <2>4 DEF KeptInv
<1>2. CASE Next
  BY <1>0, <1>2, AppKeepsStored, StageKeepsStored, LockKeepsStored, ScriptKeepsStored,
     CleanUpKeepsStored, RecoveryKeepsStored, FailKeepsStored, SwapFailsKeepsStored,
     CancelKeepsStored, KillKeepsStored, Zenon DEF Next
<1> QED BY <1>1, <1>2

\* A restore loses nothing, however it and the recoveries after it end: what the
\* application left is in the database or in a rollback directory, unless a
\* recovery was started while the restore that it undoes was still to remove its
\* rollback directory.
THEOREM NothingLost == Spec => []OldKept
<1>1. Init => UnlessHasty
  BY ReadsBase, Actors
     DEF Init, UnlessHasty, KeptInv, StoredInv, OldStored, OwnInv, NoDirectory, Reads
<1>2. Init => RestoreInv
  BY TypesHold, StartsSound DEF RestoreInv
<1>3. UnlessHasty => OldKept
  BY DEF UnlessHasty, KeptInv, StoredInv, OldStored, Stored, Kept, OldKept
<1> QED BY <1>1, <1>2, <1>3, InvKept, KeptKept, PTL DEF Spec

==============================================================================
