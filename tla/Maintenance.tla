----------------------------- MODULE Maintenance ------------------------------
(***************************************************************************)
(* The desktop's two locks and the update (lib.rs, updater.ts).  Requests  *)
(* read-lock the maintenance gate, imports and update preparation          *)
(* write-lock it; whoever takes a snapshot holds snapshot_lock, and who    *)
(* needs both takes that one first.  A successful preparation parks its    *)
(* write guard in a lease which the installer's end, a cancel, or a        *)
(* watchdog gives up.                                                      *)
(*                                                                         *)
(* The commands of the core outlive a reload of the renderer, and so does  *)
(* an installer.  Replacing the process starts a new one with nothing      *)
(* held.                                                                   *)
(***************************************************************************)
EXTENDS Integers, FiniteSets

CONSTANTS
  Proc,         \* commands that run at the same time
  None,         \* not a Proc
  NumLeases     \* bound: preparations that succeed in the life of a process

ASSUME MaintenanceAssumption == None \notin Proc /\ NumLeases \in Nat

Lease == 1..NumLeases
NoLease == 0

\* api_request and the other readers; import_data with and without replace;
\* prepare_for_destructive_import; prepare_for_update; backup_now and the
\* scheduler.
Kind == {"request", "replace", "merge", "recovery", "update", "backup"}
NeedsSnapshot == {"replace", "recovery", "update", "backup"}
NeedsGate == Kind \ {"backup"}
Writes == {"request", "replace", "merge"}

VARIABLES
  op,         \* of each command
  pc,         \* idle, snapshot or gate (waiting for it), copy, work
  snapshot,   \* holder of snapshot_lock
  readers,    \* of the gate
  writer,     \* of the gate: a command, a lease or nobody
  lease,      \* the lease that holds a parked guard
  leases,     \* leases ever given
  armed,      \* watchdogs that have not fired
  ui,         \* what the renderer waits for
  installer,  \* the lease whose installer runs
  fresh       \* commands, and the installer, whose snapshot equals the database

vars == <<op, pc, snapshot, readers, writer, lease, leases, armed, ui, installer, fresh>>
locks == <<snapshot, readers, writer>>
update == <<lease, leases, armed, ui, installer>>

Renderer == [phase : {"idle", "preparing", "installing", "cancelling"}, proc : Proc \union {None}]
IdleUi == [phase |-> "idle", proc |-> None]
OfProc(p) == [proc |-> p, lease |-> NoLease]
OfLease(l) == [proc |-> None, lease |-> l]
Nobody == [proc |-> None, lease |-> NoLease]
Holder == {OfProc(p) : p \in Proc} \union {OfLease(l) : l \in Lease \union {NoLease}}

\* The types, and who holds the gate: a lease exactly as long as it is the
\* active one, and a writer only alone (UpdateMaintenanceLease owns the guard).
MTypeOK ==
  /\ op \in [Proc -> Kind] /\ pc \in [Proc -> {"idle", "snapshot", "gate", "copy", "work"}]
  /\ snapshot \in Proc \union {None}
  /\ readers \subseteq Proc
  /\ writer \in Holder
  /\ lease \in Lease \union {NoLease} /\ leases \in 0..NumLeases
  /\ armed \subseteq 1..leases
  /\ ui \in Renderer
  /\ installer \in Lease \union {NoLease}
  /\ fresh \subseteq Holder
  /\ writer.lease = lease /\ (writer # Nobody => readers = {})

Init ==
  /\ op = [p \in Proc |-> "request"]
  /\ pc = [p \in Proc |-> "idle"]
  /\ snapshot = None /\ readers = {} /\ writer = Nobody
  /\ lease = NoLease /\ leases = 0 /\ armed = {}
  /\ ui = IdleUi /\ installer = NoLease
  /\ fresh = {}

-----------------------------------------------------------------------------
(* Commands. *)

Goto(p, where) == pc' = [pc EXCEPT ![p] = where]

Begin(p, k) ==
  /\ pc[p] = "idle" /\ k # "update"
  /\ op' = [op EXCEPT ![p] = k]
  /\ Goto(p, IF k \in NeedsSnapshot THEN "snapshot" ELSE "gate")
  /\ UNCHANGED <<locks, update, fresh>>

TakeSnapshotLock(p) ==
  /\ pc[p] = "snapshot" /\ snapshot = None
  /\ snapshot' = p
  /\ Goto(p, IF op[p] \in NeedsGate THEN "gate" ELSE "copy")
  /\ UNCHANGED <<op, readers, writer, update, fresh>>

\* Mutant: an import takes the gate as a request does.
TakeGateShared(p) ==
  /\ pc[p] = "gate" /\ writer = Nobody
  /\ IF op[p] \in Writes
     THEN readers' = readers \union {p} /\ writer' = writer
     ELSE readers = {} /\ writer' = OfProc(p) /\ readers' = readers
  /\ Goto(p, IF op[p] \in NeedsSnapshot THEN "copy" ELSE "work")
  /\ UNCHANGED <<op, snapshot, update, fresh>>

TakeGate(p) ==
  /\ pc[p] = "gate" /\ writer = Nobody
  /\ IF op[p] = "request"
     THEN readers' = readers \union {p} /\ writer' = writer
     ELSE readers = {} /\ writer' = OfProc(p) /\ readers' = readers
  /\ Goto(p, IF op[p] \in NeedsSnapshot THEN "copy" ELSE "work")
  /\ UNCHANGED <<op, snapshot, update, fresh>>

\* The encrypted snapshot is in the queue, its permit given up; or it failed,
\* and nothing else happens.
Copy(p) ==
  /\ pc[p] = "copy" /\ op[p] # "update"
  /\ snapshot' = None
  /\ \/ /\ op[p] = "replace"
        /\ fresh' = fresh \union {OfProc(p)}
        /\ Goto(p, "work")
        /\ writer' = writer
     \/ /\ fresh' = fresh
        /\ Goto(p, "idle")
        /\ writer' = IF writer = OfProc(p) THEN Nobody ELSE writer
  /\ UNCHANGED <<op, readers, update>>

\* The transaction of a command, which may fail or write nothing.
Work(p) ==
  /\ pc[p] = "work"
  /\ fresh' \in {fresh, {}} /\ (op[p] \notin Writes => fresh' = fresh)
  /\ readers' = readers \ {p}
  /\ writer' = IF writer = OfProc(p) THEN Nobody ELSE writer
  /\ Goto(p, "idle")
  /\ UNCHANGED <<op, snapshot, update>>

-----------------------------------------------------------------------------
(* The update. *)

\* checkForApplicationUpdate lets one attempt run at a time; a preparation that
\* finds a lease fails at once, and the renderer cancels.
Prepare(p) ==
  /\ ui.phase = "idle" /\ pc[p] = "idle"
  /\ IF lease # NoLease
     THEN /\ ui' = [IdleUi EXCEPT !.phase = "cancelling"]
          /\ UNCHANGED <<op, pc>>
     ELSE /\ ui' = [phase |-> "preparing", proc |-> p]
          /\ op' = [op EXCEPT ![p] = "update"]
          /\ Goto(p, "snapshot")
  /\ UNCHANGED <<locks, lease, leases, armed, installer, fresh>>

PrepareFails(p) ==
  /\ pc[p] = "copy" /\ op[p] = "update"
  /\ snapshot' = None /\ writer' = Nobody
  /\ Goto(p, "idle")
  /\ ui' = IF ui.proc = p THEN [IdleUi EXCEPT !.phase = "cancelling"] ELSE ui
  /\ UNCHANGED <<op, readers, lease, leases, armed, installer, fresh>>

\* Mutant: the guard is dropped with the command.
PrepareDropsGuard(p) ==
  /\ pc[p] = "copy" /\ op[p] = "update" /\ leases < NumLeases
  /\ snapshot' = None
  /\ leases' = leases + 1 /\ lease' = leases' /\ armed' = armed \union {leases'}
  /\ writer' = Nobody
  /\ Goto(p, "idle")
  /\ IF ui.proc = p
     THEN /\ ui' = [IdleUi EXCEPT !.phase = "installing"]
          /\ installer' = leases' /\ fresh' = fresh \union {OfLease(leases')}
     ELSE UNCHANGED <<ui, installer, fresh>>
  /\ UNCHANGED <<op, readers>>

\* The guard moves into a lease with a watchdog; the renderer, if it is still
\* there, starts the installer.
PrepareSucceeds(p) ==
  /\ pc[p] = "copy" /\ op[p] = "update" /\ leases < NumLeases
  /\ snapshot' = None
  /\ leases' = leases + 1 /\ lease' = leases' /\ armed' = armed \union {leases'}
  /\ writer' = OfLease(leases')
  /\ Goto(p, "idle")
  /\ IF ui.proc = p
     THEN /\ ui' = [IdleUi EXCEPT !.phase = "installing"]
          /\ installer' = leases' /\ fresh' = fresh \union {OfLease(leases')}
     ELSE UNCHANGED <<ui, installer, fresh>>
  /\ UNCHANGED <<op, readers>>

GiveUpLease ==
  /\ lease' = NoLease
  /\ writer' = IF lease # NoLease THEN Nobody ELSE writer

InstallFails ==
  /\ installer # NoLease
  /\ installer' = NoLease
  /\ fresh' = fresh \ {OfLease(installer)}
  /\ ui' = IF ui.phase = "installing" THEN [IdleUi EXCEPT !.phase = "cancelling"] ELSE ui
  /\ UNCHANGED <<op, pc, locks, lease, leases, armed>>

\* Whatever lease there is, is given up.
Cancel ==
  /\ ui.phase = "cancelling"
  /\ GiveUpLease
  /\ ui' = IdleUi
  /\ UNCHANGED <<op, pc, snapshot, readers, leases, armed, installer, fresh>>

\* Mutant: an old watchdog takes whatever lease it finds.
WatchdogTakesAny(l) ==
  /\ l \in armed
  /\ armed' = armed \ {l}
  /\ GiveUpLease
  /\ UNCHANGED <<op, pc, snapshot, readers, leases, ui, installer, fresh>>

\* Mutant: a watchdog whose renderer is gone lets the lease be.
WatchdogOfRenderer(l) ==
  /\ l \in armed
  /\ armed' = armed \ {l}
  /\ IF lease = l /\ ui # IdleUi THEN GiveUpLease ELSE UNCHANGED <<lease, writer>>
  /\ UNCHANGED <<op, pc, snapshot, readers, leases, ui, installer, fresh>>

\* A watchdog gives up its own lease only.
Watchdog(l) ==
  /\ l \in armed
  /\ armed' = armed \ {l}
  /\ IF lease = l THEN GiveUpLease ELSE UNCHANGED <<lease, writer>>
  /\ UNCHANGED <<op, pc, snapshot, readers, leases, ui, installer, fresh>>

\* The process is replaced, with whatever it was doing.
Replace ==
  /\ installer # NoLease
  /\ op' = [p \in Proc |-> "request"] /\ pc' = [p \in Proc |-> "idle"]
  /\ snapshot' = None /\ readers' = {} /\ writer' = Nobody
  /\ lease' = NoLease /\ leases' = 0 /\ armed' = {}
  /\ ui' = IdleUi /\ installer' = NoLease /\ fresh' = {}

Reload ==
  /\ ui' = IdleUi
  /\ UNCHANGED <<op, pc, locks, lease, leases, armed, installer, fresh>>

Command(p) == TakeSnapshotLock(p) \/ TakeGate(p) \/ Copy(p) \/ Work(p)
              \/ PrepareFails(p) \/ PrepareSucceeds(p)

Next ==
  \/ \E p \in Proc : Command(p) \/ Prepare(p) \/ \E k \in Kind : Begin(p, k)
  \/ \E l \in Lease : Watchdog(l)
  \/ InstallFails \/ Cancel \/ Replace \/ Reload

Spec == Init /\ [][Next]_vars

\* Both locks are first come, first served, commands and watchdogs end, and so
\* does an installer, one way or the other.
Fairness ==
  /\ \A p \in Proc : SF_vars(TakeSnapshotLock(p)) /\ SF_vars(TakeGate(p))
                     /\ WF_vars(Copy(p) \/ Work(p) \/ PrepareFails(p))
  /\ \A l \in Lease : WF_vars(Watchdog(l))
  /\ WF_vars(InstallFails \/ Replace) /\ WF_vars(Cancel)

FairSpec == Spec /\ Fairness

-----------------------------------------------------------------------------

\* No business write lands between the snapshot of an update and the
\* replacement of the process (src-tauri/src/lib.rs:481-483), for ten minutes
\* and as long as the renderer that started the installer lives: later the
\* watchdog, or the cancel of the next attempt, opens the gate.
UpdateSnapshotCurrent ==
  ui.phase = "installing" /\ installer \in armed => OfLease(installer) \in fresh

\* A destructive import replaces exactly what its recovery snapshot holds
\* (import_data, run_import_operation).
ImportRecoverable ==
  \A p \in Proc : op[p] = "replace" /\ pc[p] = "work" => OfProc(p) \in fresh

\* Every command gets its locks in the end: no two wait for each other, and a
\* lease that nobody cancels is given up (retain_guard_until).
EveryCommandEnds == \A p \in Proc : pc[p] # "idle" ~> pc[p] = "idle"

===============================================================================
