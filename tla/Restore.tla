-------------------------------- MODULE Restore --------------------------------
(***************************************************************************)
(* Replacing the live database by a backup                                 *)
(* (scripts/Restore-PusulaBackup.ps1) and the start of the application     *)
(* (lib.rs initialize_guarded_database).  Both hold .pusula-database.lock  *)
(* while they use the database; a marker file beside it keeps the          *)
(* application from starting on a half-done swap, and -RecoverInterrupted- *)
(* Restore undoes the incident that the marker names.                      *)
(*                                                                         *)
(* The database is its base file and its write-ahead log.  A content is a  *)
(* number; the backup to restore is content 1.  A script may fail at any   *)
(* statement (its catch and finally blocks run), be cancelled (only        *)
(* finally runs), be killed, or lose the power, which may also tear what   *)
(* was written and not flushed.                                            *)
(***************************************************************************)
EXTENDS Integers, FiniteSets

CONSTANTS
  Script,         \* restores with -Apply, each with its own incident id
  Nobody, App, Recovery,
  Faults,         \* of "error", "cancel", "kill", "power"
  MaxFaults,      \* bound: how many of them happen
  MaxContent      \* bound: contents of the database

ASSUME RestoreAssumption ==
  /\ Cardinality({Nobody, App, Recovery}) = 3 /\ Script \intersect {Nobody, App, Recovery} = {}
  /\ Faults \subseteq {"error", "cancel", "kill", "power"}
  /\ MaxFaults \in Nat /\ MaxContent \in Nat \ {0, 1}

Absent == 0
Backup == 1
Mixed == MaxContent + 1     \* a base under the log of another one
Content == 0..MaxContent

VARIABLES
  base,       \* content of pusula.sqlite3
  wal,        \* its log, at most one: the base it was written over and where it leads
  marker,     \* the marker, at most one: its script, target_existed, its state on disk
  at,         \* of each script: where it is, see At
  staging,    \* scripts whose staging directory holds the decrypted backup
  candidate,  \* scripts whose verified copy lies beside the database
  rollback,   \* the rollback directory of each script
  holder,     \* of the lock
  run,        \* what the holder remembers
  newest,     \* history: the last content the application wrote
  last,       \* history: what the application last left
  verified,   \* history: a restore was verified after that
  incident,   \* history: scripts whose marker was written
  hasty,      \* history: a recovery was started while the restore it undoes
              \* was still to remove its rollback directory
  faults      \* history: how many happened

database == <<base, wal>>
plaintext == <<staging, candidate>>
history == <<newest, last, verified, incident, hasty, faults>>
vars == <<database, marker, at, plaintext, rollback, holder, run, history>>

\* A script that released the lock removes its plaintext first, and its rollback
\* directory last if it does not keep it.
At == {"new", "staged", "locked", "keeping", "dropping", "discarding", "ended"}
Condemned(s) == at[s] \in {"dropping", "discarding"}

Log == [over : Content, to : Content]
AtMostOne(S) == \A x, y \in S : x = y
Logs == {l \in SUBSET Log : AtMostOne(l)}
Disk == {"fresh", "whole", "torn"}     \* fresh: written and not flushed
Marker == [of : Script, existed : BOOLEAN, disk : Disk]
Directory == [exists : BOOLEAN, db : Content, log : Logs]
NoDirectory == [exists |-> FALSE, db |-> Absent, log |-> {}]
Pc == {"idle", "rollback", "candidate", "mark", "flush", "detach", "swap", "swapped", "caught",
       "verify", "undo", "tidy", "unmark", "discard", "finally"}
Outcome == {"done", "unchanged", "undo"}
Memory == [pc : Pc, existed : BOOLEAN, original : Content, keep : BOOLEAN, outcome : Outcome]
Idle == [pc |-> "idle", existed |-> FALSE, original |-> Absent, keep |-> FALSE,
         outcome |-> "done"]

\* What SQLite reads: it replays a log over whatever base it finds.
Reading(b, log) == IF log = {} THEN b
                   ELSE IF \E w \in log : w.over = b THEN (CHOOSE w \in log : TRUE).to
                   ELSE Mixed

Reads == Reading(base, wal)

Marked == marker # {}
TheMarker == CHOOSE m \in marker : TRUE

\* The types, and that a script holds the lock exactly while it is locked, and
\* a recovery only beside a marker.
RTypeOK ==
  /\ base \in Content
  /\ wal \in Logs
  /\ marker \subseteq Marker /\ AtMostOne(marker)
  /\ at \in [Script -> At]
  /\ staging \subseteq Script /\ candidate \subseteq Script
  /\ rollback \in [Script -> Directory]
  /\ holder \in Script \union {Nobody, App, Recovery}
  /\ run \in Memory
  /\ newest \in Content /\ last \in Content
  /\ verified \in BOOLEAN /\ incident \subseteq Script
  /\ hasty \in BOOLEAN /\ faults \in 0..MaxFaults
  /\ \A s \in Script : at[s] = "locked" <=> holder = s
  /\ holder = Recovery => Marked

Init ==
  /\ base \in {Absent, Backup + 1} /\ wal = {} /\ marker = {}
  /\ at = [s \in Script |-> "new"]
  /\ staging = {} /\ candidate = {} /\ rollback = [s \in Script |-> NoDirectory]
  /\ holder = Nobody /\ run = Idle
  /\ newest = Backup + 1 /\ last = base /\ verified = FALSE /\ incident = {}
  /\ hasty = FALSE /\ faults = 0

-----------------------------------------------------------------------------
(* The application. *)

\* It needs the lock and no marker, and makes a database where there is none.
StartApp ==
  /\ holder = Nobody /\ ~Marked
  /\ holder' = App
  /\ IF base = Absent
     THEN newest < MaxContent /\ base' = newest + 1 /\ newest' = newest + 1
     ELSE UNCHANGED <<base, newest>>
  /\ last' = IF base = Absent THEN newest + 1 ELSE IF Reads = Mixed THEN last ELSE Reads
  /\ verified' = FALSE
  /\ UNCHANGED <<wal, marker, at, plaintext, rollback, run, incident, hasty, faults>>

Commit ==
  /\ holder = App /\ newest < MaxContent
  /\ wal' = {[over |-> base, to |-> newest + 1]}
  /\ newest' = newest + 1 /\ last' = newest + 1
  /\ UNCHANGED <<base, marker, at, plaintext, rollback, holder, run, verified, incident, hasty, faults>>

Checkpoint ==
  /\ holder = App /\ wal # {} /\ Reads # Mixed
  /\ base' = Reads /\ wal' = {}
  /\ UNCHANGED <<marker, at, plaintext, rollback, holder, run, history>>

\* An application that ends without a checkpoint leaves its log behind.
StopApp ==
  /\ holder = App /\ holder' = Nobody
  /\ UNCHANGED <<database, marker, at, plaintext, rollback, run, history>>

-----------------------------------------------------------------------------
(* A restore. *)

Step(s, pc) == holder = s /\ run.pc = pc
Goto(pc) == run' = [run EXCEPT !.pc = pc]

\* The first look at the marker, the process check, decryption and validation.
Stage(s) ==
  /\ at[s] = "new" /\ ~Marked /\ holder # App
  /\ at' = [at EXCEPT ![s] = "staged"] /\ staging' = staging \union {s}
  /\ UNCHANGED <<database, marker, candidate, rollback, holder, run, history>>

\* A backup that does not match its evidence, a refusal at the prompt, or a
\* lock that somebody holds.
Refuse(s) ==
  /\ at[s] = "staged"
  /\ at' = [at EXCEPT ![s] = "ended"] /\ staging' = staging \ {s}
  /\ UNCHANGED <<database, marker, candidate, rollback, holder, run, history>>

\* Mutant: no second look at the marker, although the prompt waited.
LockUnchecked(s) ==
  /\ at[s] = "staged" /\ holder = Nobody
  /\ holder' = s /\ at' = [at EXCEPT ![s] = "locked"]
  /\ run' = [Idle EXCEPT !.pc = "rollback"]
  /\ UNCHANGED <<database, marker, plaintext, rollback, history>>

Lock(s) ==
  /\ at[s] = "staged" /\ holder = Nobody /\ ~Marked
  /\ holder' = s /\ at' = [at EXCEPT ![s] = "locked"]
  /\ run' = [Idle EXCEPT !.pc = "rollback"]
  /\ UNCHANGED <<database, marker, plaintext, rollback, history>>

\* Mutant: the base file is copied, without what is only in its log.
MakeRollbackOfBase(s) ==
  /\ Step(s, "rollback")
  /\ rollback' = [rollback EXCEPT ![s] =
       [exists |-> TRUE, db |-> base, log |-> {}]]
  /\ run' = [run EXCEPT !.pc = "candidate", !.existed = base # Absent, !.original = base]
  /\ UNCHANGED <<database, marker, at, plaintext, holder, history>>

\* SQLite's online backup of base and log, flushed with its evidence.
MakeRollback(s) ==
  /\ Step(s, "rollback") /\ Reads # Mixed
  /\ rollback' = [rollback EXCEPT ![s] =
       [exists |-> TRUE, db |-> Reads, log |-> {}]]
  /\ run' = [run EXCEPT !.pc = "candidate", !.existed = base # Absent, !.original = base]
  /\ UNCHANGED <<database, marker, at, plaintext, holder, history>>

CopyCandidate(s) ==
  /\ Step(s, "candidate")
  /\ candidate' = candidate \union {s} /\ Goto("mark")
  /\ UNCHANGED <<database, marker, at, staging, rollback, holder, history>>

Put(s, disk) == marker' = {[of |-> s, existed |-> run.existed, disk |-> disk]}

WriteMarker(s) ==
  /\ Step(s, "mark")
  /\ Put(s, "fresh") /\ incident' = incident \union {s}
  /\ Goto("flush")
  /\ UNCHANGED <<database, at, plaintext, rollback, holder, newest, last, verified, hasty, faults>>

FlushMarker(s) ==
  /\ Step(s, "flush")
  /\ Put(s, "whole") /\ Goto("detach")
  /\ UNCHANGED <<database, at, plaintext, rollback, holder, history>>

\* Mutant: the log stays beside the base that is to be replaced.
DetachNothing(s) ==
  /\ Step(s, "detach")
  /\ run' = [run EXCEPT !.pc = "swap", !.keep = run.existed]
  /\ UNCHANGED <<database, rollback, marker, at, plaintext, holder, history>>

\* Mutant: the rollback directory is kept only once the swap is done.
DetachKeepsLater(s) ==
  /\ Step(s, "detach")
  /\ rollback' = [rollback EXCEPT ![s].log = wal] /\ wal' = {}
  /\ Goto("swap")
  /\ UNCHANGED <<base, marker, at, plaintext, holder, history>>

Detach(s) ==
  /\ Step(s, "detach")
  /\ rollback' = [rollback EXCEPT ![s].log = wal] /\ wal' = {}
  /\ run' = [run EXCEPT !.pc = "swap", !.keep = run.existed]
  /\ UNCHANGED <<base, marker, at, plaintext, holder, history>>

Swap(s) ==
  /\ Step(s, "swap")
  /\ base' = Backup /\ candidate' = candidate \ {s}
  /\ Goto("swapped")
  /\ UNCHANGED <<wal, marker, at, staging, rollback, holder, history>>

Swapped(s) ==
  /\ Step(s, "swapped")
  /\ run' = [run EXCEPT !.pc = "verify", !.keep = TRUE]
  /\ UNCHANGED <<database, marker, at, plaintext, rollback, holder, history>>

\* The catch block looks at what is there now: the backup after all, the old
\* base, whose log comes back, nothing where nothing was, or something else.
Caught(s) ==
  /\ Step(s, "caught")
  /\ \/ /\ base = Backup
        /\ run' = [run EXCEPT !.pc = "verify", !.keep = TRUE, !.outcome = "undo"]
        /\ UNCHANGED <<wal, rollback>>
     \/ /\ base # Backup /\ base = run.original
        /\ wal' = IF wal = {} THEN rollback[s].log ELSE wal
        /\ rollback' = [rollback EXCEPT ![s].log = {}]
        /\ run' = [run EXCEPT !.pc = "tidy", !.outcome = "unchanged"]
     \/ /\ base # Backup /\ base # run.original
        /\ run' = [run EXCEPT !.pc = "finally", !.keep = TRUE]
        /\ UNCHANGED <<wal, rollback>>
  /\ UNCHANGED <<base, marker, at, plaintext, holder, history>>

\* The installed base alone is compared with the backup; after a late error of
\* the swap the answer is a rollback all the same.
Verify(s) ==
  /\ Step(s, "verify")
  /\ Goto(IF run.outcome = "undo" THEN "undo" ELSE "tidy")
  /\ verified' = (verified \/ run.outcome # "undo")
  /\ UNCHANGED <<database, marker, at, plaintext, rollback, holder, newest, last, incident, hasty, faults>>

Undo(s) ==
  /\ Step(s, "undo")
  /\ base' = rollback[s].db
  /\ wal' = IF run.existed THEN {} ELSE wal
  /\ Goto("tidy")
  /\ UNCHANGED <<marker, at, plaintext, rollback, holder, history>>

\* Mutant: the marker goes before what it records.
TidyUnmarks(s) ==
  /\ Step(s, "tidy")
  /\ marker' = {} /\ Goto("unmark")
  /\ UNCHANGED <<database, at, plaintext, rollback, holder, history>>

Tidy(s) ==
  /\ Step(s, "tidy")
  /\ candidate' = candidate \ {s} /\ staging' = staging \ {s}
  /\ Goto("unmark")
  /\ UNCHANGED <<database, marker, at, rollback, holder, history>>

\* The rollback is kept unless the database is as it was, or was none.
Unmark(s) ==
  /\ Step(s, "unmark")
  /\ marker' = {}
  /\ run' = [run EXCEPT !.pc = IF run.existed \/ run.outcome # "done"
                              THEN "finally" ELSE "discard",
                        !.keep = /\ @ /\ run.outcome # "unchanged"
                                 /\ run.existed \/ run.outcome = "undo"]
  /\ UNCHANGED <<database, at, plaintext, rollback, holder, history>>

Without(s) == [rollback EXCEPT ![s] = NoDirectory]

\* After a restore where nothing was, still under the lock.
DiscardEmpty(s) ==
  /\ Step(s, "discard")
  /\ rollback' = Without(s) /\ Goto("finally")
  /\ UNCHANGED <<database, marker, at, plaintext, holder, history>>

\* Mutant: the lock is not released.
ReleaseKeepsLock(s) ==
  /\ Step(s, "finally")
  /\ run' = Idle
  /\ at' = [at EXCEPT ![s] = IF run.keep THEN "keeping" ELSE "dropping"]
  /\ UNCHANGED <<database, marker, plaintext, rollback, holder, history>>

\* finally releases the lock before it cleans up.
Release(s) ==
  /\ Step(s, "finally")
  /\ holder' = Nobody /\ run' = Idle
  /\ at' = [at EXCEPT ![s] = IF run.keep THEN "keeping" ELSE "dropping"]
  /\ UNCHANGED <<database, marker, plaintext, rollback, history>>

\* Then candidate and staging directory, then the rollback directory.
Cleaned(s) ==
  /\ at[s] \in {"keeping", "dropping"}
  /\ at' = [at EXCEPT ![s] = IF @ = "keeping" THEN "ended" ELSE "discarding"]
  /\ UNCHANGED <<database, marker, rollback, holder, run>>

CleanPlaintext(s) ==
  /\ Cleaned(s)
  /\ candidate' = candidate \ {s} /\ staging' = staging \ {s}
  /\ UNCHANGED history

Discard(s) ==
  /\ at[s] = "discarding"
  /\ at' = [at EXCEPT ![s] = "ended"]
  /\ rollback' = Without(s)
  /\ UNCHANGED <<database, marker, plaintext, holder, run, history>>

CleanUp(s) == CleanPlaintext(s) \/ Discard(s)

RestoreStep(s) ==
  \/ MakeRollback(s) \/ CopyCandidate(s) \/ WriteMarker(s) \/ FlushMarker(s)
  \/ Detach(s) \/ Swap(s) \/ Swapped(s) \/ Caught(s) \/ Verify(s) \/ Undo(s)
  \/ Tidy(s) \/ Unmark(s) \/ DiscardEmpty(s) \/ Release(s)

-----------------------------------------------------------------------------
(* -RecoverInterruptedRestore. *)

\* Read-RestoreInProgressMarker; a rollback directory that is there holds what
\* MakeRollback flushed.
CanRecover ==
  /\ Marked /\ TheMarker.disk \in {"fresh", "whole"}
  /\ rollback[TheMarker.of].exists

\* By then the operating system has written what was not flushed.
StartRecovery ==
  /\ holder = Nobody /\ CanRecover
  /\ holder' = Recovery /\ run' = [Idle EXCEPT !.pc = "detach"]
  /\ marker' = {[TheMarker EXCEPT !.disk = "whole"]}
  /\ hasty' = (hasty \/ Condemned(TheMarker.of))
  /\ UNCHANGED <<database, at, plaintext, rollback, newest, last, verified, incident, faults>>

\* What a step moves goes into the rollback directory under a name of its own,
\* and the database comes from there.
Needed ==
  \/ run.pc = "detach" /\ wal # {}
  \/ run.pc = "swap" /\ (TheMarker.existed \/ base # Absent)
  \/ run.pc = "tidy" /\ TheMarker.of \in candidate
Possible == Needed => rollback[TheMarker.of].exists

RecoveryDetaches ==
  /\ Step(Recovery, "detach") /\ Possible
  /\ wal' = {} /\ Goto("swap")
  /\ UNCHANGED <<base, marker, at, plaintext, rollback, holder, history>>

RecoverySwaps ==
  /\ Step(Recovery, "swap") /\ Possible
  /\ base' = IF TheMarker.existed THEN rollback[TheMarker.of].db ELSE Absent
  /\ Goto("tidy")
  /\ UNCHANGED <<wal, marker, at, plaintext, rollback, holder, history>>

\* Mutant: the recorded candidate has to be there.
RecoveryTidiesAlways ==
  /\ Step(Recovery, "tidy") /\ Possible /\ TheMarker.of \in candidate
  /\ candidate' = candidate \ {TheMarker.of} /\ staging' = staging \ {TheMarker.of}
  /\ Goto("unmark")
  /\ UNCHANGED <<database, marker, at, rollback, holder, history>>

RecoveryTidies ==
  /\ Step(Recovery, "tidy") /\ Possible
  /\ candidate' = candidate \ {TheMarker.of} /\ staging' = staging \ {TheMarker.of}
  /\ Goto("unmark")
  /\ UNCHANGED <<database, marker, at, rollback, holder, history>>

RecoveryUnmarks ==
  /\ Step(Recovery, "unmark")
  /\ marker' = {} /\ holder' = Nobody /\ run' = Idle
  /\ UNCHANGED <<database, at, plaintext, rollback, history>>

\* The rollback directory went while the recovery was at work.
RecoveryStops ==
  /\ holder = Recovery /\ ~Possible
  /\ holder' = Nobody /\ run' = Idle
  /\ UNCHANGED <<database, marker, at, plaintext, rollback, history>>

RecoveryStep ==
  \/ RecoveryDetaches \/ RecoverySwaps \/ RecoveryTidies \/ RecoveryUnmarks
  \/ RecoveryStops

-----------------------------------------------------------------------------
(* What goes wrong. *)

Fault(kind) ==
  /\ kind \in Faults /\ faults < MaxFaults
  /\ faults' = faults + 1
  /\ UNCHANGED <<newest, last, verified, hasty>>

\* A statement of a restore throws; a marker may have been written in part.
Fail(s) ==
  /\ Fault("error") /\ holder = s
  /\ \/ /\ run.pc \in {"rollback", "candidate", "mark", "flush", "tidy", "unmark", "discard"}
        /\ Goto("finally")
     \/ /\ run.pc = "detach"
        /\ run' = [run EXCEPT !.pc = "caught", !.keep = run.existed]
     \/ /\ run.pc = "caught"
        /\ run' = [run EXCEPT !.pc = "finally", !.keep = TRUE]
     \/ /\ run.pc = "verify"
        /\ run' = [run EXCEPT !.pc = "undo", !.outcome = "undo"]
  /\ \/ UNCHANGED <<marker, incident>>
     \/ run.pc = "mark" /\ Put(s, "torn") /\ incident' = incident \union {s}
  /\ UNCHANGED <<database, at, plaintext, rollback, holder>>

\* The swap reports an error, having done nothing, half of it, or everything.
SwapFails(s) ==
  /\ Fault("error") /\ Step(s, "swap")
  /\ \/ UNCHANGED <<base, candidate>>
     \/ run.existed /\ base' = Absent /\ candidate' = candidate
     \/ base' = Backup /\ candidate' = candidate \ {s}
  /\ Goto("caught")
  /\ UNCHANGED <<wal, marker, at, staging, rollback, holder, incident>>

\* The same of the swap back to the rollback, before which the logs go.
UndoFails(s) ==
  /\ Fault("error") /\ Step(s, "undo")
  /\ \/ UNCHANGED database
     \/ run.existed /\ wal' = {} /\ base' \in {base, Absent, rollback[s].db}
  /\ Goto("finally")
  /\ UNCHANGED <<marker, at, plaintext, rollback, holder, incident>>

\* Ctrl+C skips the catch blocks.
Cancel(s) ==
  /\ Fault("cancel") /\ holder = s /\ run.pc # "finally"
  /\ Goto("finally")
  /\ UNCHANGED <<database, marker, at, plaintext, rollback, holder, incident>>

RecoveryFails ==
  /\ Fault("error") /\ holder = Recovery
  /\ \/ base' = base
     \/ run.pc = "swap" /\ rollback[TheMarker.of].exists
        /\ base' \in {Absent, rollback[TheMarker.of].db}
  /\ holder' = Nobody /\ run' = Idle
  /\ UNCHANGED <<wal, marker, at, plaintext, rollback, incident>>

\* A path that cannot be removed is reported, and the next one tried.
CleanupFails(s) ==
  /\ Fault("error")
  /\ \/ /\ Cleaned(s)
        /\ candidate' \in {candidate, candidate \ {s}} /\ staging' \in {staging, staging \ {s}}
     \/ /\ at[s] = "discarding" /\ at' = [at EXCEPT ![s] = "ended"]
        /\ UNCHANGED <<database, marker, plaintext, rollback, holder, run>>
  /\ UNCHANGED incident

Working == {"staged", "keeping", "dropping", "discarding"}
Ended(S) == at' = [s \in Script |-> IF s \in S THEN "ended" ELSE at[s]]

Kill(p) ==
  /\ Fault("kill")
  /\ \/ p = holder /\ p # Nobody /\ holder' = Nobody /\ run' = Idle
     \/ p \in Script /\ at[p] \in Working /\ UNCHANGED <<holder, run>>
  /\ Ended({p} \intersect Script)
  /\ UNCHANGED <<database, marker, plaintext, rollback, incident>>

\* What was not flushed may be torn.
Power ==
  /\ Fault("power")
  /\ holder' = Nobody /\ run' = Idle
  /\ Ended({s \in Script : at[s] \in Working \union {"locked"}})
  /\ \/ marker' = marker
     \/ Marked /\ TheMarker.disk = "fresh" /\ marker' = {[TheMarker EXCEPT !.disk = "torn"]}
  /\ UNCHANGED <<database, plaintext, rollback, incident>>

Next ==
  \/ StartApp \/ Commit \/ Checkpoint \/ StopApp
  \/ \E s \in Script : Stage(s) \/ Refuse(s) \/ Lock(s) \/ RestoreStep(s) \/ CleanUp(s)
  \/ StartRecovery \/ RecoveryStep
  \/ \E s \in Script : Fail(s) \/ SwapFails(s) \/ UndoFails(s) \/ Cancel(s) \/ CleanupFails(s)
  \/ \E p \in Script \union {App, Recovery} : Kill(p)
  \/ RecoveryFails \/ Power

Spec == Init /\ [][Next]_vars

\* A script that runs goes on, and the operator runs the recovery, again if it
\* was interrupted.
Fairness ==
  /\ \A s \in Script : WF_vars(RestoreStep(s) \/ CleanUp(s))
  /\ SF_vars(StartRecovery) /\ WF_vars(RecoveryStep)

FairSpec == Spec /\ Fairness

-----------------------------------------------------------------------------

Sound == Reads = last \/ (verified /\ Reads = Backup)

\* Without a marker the application finds what it left, or a backup that was
\* verified, and never a base under the log of another one or nothing where
\* there was something (docs/RESTORE_HARNESS.md:142-145).
StartsWhole == ~Marked => Sound

\* What the application left is in the database or in a rollback directory,
\* after a restore that succeeded too, until the application starts, as long as
\* no recovery was started while the restore that it undoes was still to remove
\* its rollback directory.  The code lets it start: the lock is released before
\* that directory goes, and what the recovery moved into it goes too.
OldKept ==
  ~hasty /\ last # Absent =>
    Reads = last \/ \E s \in Script : rollback[s].exists /\ rollback[s].db = last

\* When nobody works on an existing database and it is neither what the
\* application left nor a verified backup, the recovery can undo the incident,
\* however the restore and earlier recoveries ended, under the same condition.
IncidentRecoverable ==
  ~hasty /\ holder = Nobody /\ ~Sound => CanRecover \/ (Marked /\ ~TheMarker.existed)

\* Once an incident was recorded, its plaintext is gone before its marker
\* ("the app's fail-closed incident pointer", Restore-PusulaBackup.ps1:578-581).
PlaintextResolved ==
  \A s \in incident :
    s \in candidate \union staging => Marked /\ TheMarker.of = s

\* An incident whose marker and rollback directory are whole is resolved by
\* recoveries, however often they are interrupted, unless its restore is still to
\* remove that directory.
RecoveryConverges ==
  ( /\ holder = Nobody /\ Marked /\ TheMarker.disk = "whole"
    /\ rollback[TheMarker.of].exists /\ ~Condemned(TheMarker.of) )
    ~> ~Marked

===============================================================================
