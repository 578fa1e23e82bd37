--------------------------- MODULE ComponentProofs ---------------------------
(***************************************************************************)
(* Proofs about three components that need few.  Maintenance, for any      *)
(* number of commands and leases: nobody works beside a writer of the      *)
(* gate, so that what a recovery snapshot or the snapshot of an update     *)
(* holds is what is replaced.  Schedule, for any calendar, any number of   *)
(* days and any actors: no period is skipped, and only a lost record makes *)
(* a second artifact of a period.  TokenBucket, for any capacity, refill   *)
(* time and history: the burst it admits is bounded, and what was refilled *)
(* is never lost.                                                          *)
(***************************************************************************)
EXTENDS Maintenance, Schedule, TokenBucket, TLAPS

-----------------------------------------------------------------------------
(* The maintenance gate.                                                     *)

LEMMA Holders ==
  /\ \A p, q \in Proc : OfProc(p) = OfProc(q) => p = q
  /\ \A p \in Proc : \A l : OfProc(p) # OfLease(l)
  /\ \A p \in Proc : OfProc(p) # Nobody /\ OfProc(p) \in Holder /\ OfProc(p).lease = NoLease
  /\ \A l, m : OfLease(l) = OfLease(m) => l = m
  /\ \A l : OfLease(l).lease = l
  /\ OfLease(NoLease) = Nobody /\ Nobody.lease = NoLease /\ Nobody \in Holder
  /\ \A l \in Lease \union {NoLease} : OfLease(l) \in Holder
<1>1. \A p, q \in Proc : OfProc(p) = OfProc(q) => p = q
  BY DEF OfProc
<1>2. \A p \in Proc : \A l : OfProc(p) # OfLease(l)
  BY MaintenanceAssumption DEF OfProc, OfLease
<1>3. \A p \in Proc : OfProc(p) # Nobody /\ OfProc(p).lease = NoLease
  BY MaintenanceAssumption DEF OfProc, Nobody
<1>4. \A l, m : OfLease(l) = OfLease(m) => l = m
  BY DEF OfLease
<1>5. /\ \A l : OfLease(l).lease = l
      /\ OfLease(NoLease) = Nobody /\ Nobody.lease = NoLease
  BY DEF OfLease, Nobody
<1>6. /\ \A p \in Proc : OfProc(p) \in Holder
      /\ \A l \in Lease \union {NoLease} : OfLease(l) \in Holder
  BY DEF Holder
<1> QED BY <1>1, <1>2, <1>3, <1>4, <1>5, <1>6

\* What a lock holder is known by.
LEMMA HolderIs ==
  ASSUME NEW w \in Holder
  PROVE  /\ w.lease \in Lease \union {NoLease}
         /\ (\E p \in Proc : w = OfProc(p)) \/ w = OfLease(w.lease)
         /\ w.lease # NoLease => w = OfLease(w.lease)
<1>1. CASE \E p \in Proc : w = OfProc(p)
  BY <1>1, Holders
<1>2. CASE \E l \in Lease \union {NoLease} : w = OfLease(l)
  BY <1>2, Holders
<1> QED BY <1>1, <1>2 DEF Holder

\* Who holds what.
LockInv ==
  /\ \A p \in Proc : /\ p \in readers <=> pc[p] = "work" /\ op[p] = "request"
                     /\ writer = OfProc(p) <=> \/ pc[p] = "work" /\ op[p] # "request"
                                               \/ pc[p] = "copy" /\ op[p] # "backup"
                     /\ snapshot = p <=> \/ pc[p] = "copy"
                                         \/ pc[p] = "gate" /\ op[p] \in NeedsSnapshot
                     /\ pc[p] \in {"snapshot", "copy"} => op[p] \in NeedsSnapshot
                     /\ pc[p] = "gate" => op[p] \in NeedsGate
                     /\ pc[p] = "work" => op[p] \in Writes
  /\ lease \in 0..leases /\ installer \in 0..leases

\* What a snapshot still equals.
FreshInv ==
  /\ ImportRecoverable
  /\ ui.phase = "installing" /\ installer \in armed =>
       lease = installer /\ OfLease(installer) \in fresh

Inv == MTypeOK /\ LockInv /\ FreshInv

LEMMA Kinds ==
  /\ "request" \in Kind /\ "update" \in Kind
  /\ "update" \in NeedsSnapshot /\ "update" \in NeedsGate /\ "update" \notin Writes
  /\ "request" \notin NeedsSnapshot /\ "replace" \in NeedsSnapshot /\ "replace" \in Writes
  /\ "backup" \notin NeedsGate /\ "backup" \in NeedsSnapshot /\ "backup" \notin Writes
  /\ \A k \in Kind : /\ k \notin NeedsSnapshot => k \in Writes /\ k \in NeedsGate
                     /\ k \notin NeedsGate => k = "backup"
BY DEF Kind, NeedsSnapshot, NeedsGate, Writes

LEMMA BeginKeeps == ASSUME Inv, NEW p \in Proc, NEW k \in Kind, Begin(p, k)
                    PROVE  Inv'
<1>1. /\ pc[p] = "idle" /\ k # "update" /\ op' = [op EXCEPT ![p] = k]
      /\ pc' = [pc EXCEPT ![p] = IF k \in NeedsSnapshot THEN "snapshot" ELSE "gate"]
      /\ UNCHANGED <<snapshot, readers, writer, lease, leases, armed, ui, installer, fresh>>
  BY DEF Begin, Goto, locks, update
<1>2. MTypeOK'
  BY <1>1 DEF Inv, MTypeOK
<1>3. LockInv'
  BY <1>1, Kinds DEF Inv, MTypeOK, LockInv
<1>4. FreshInv'
  BY <1>1 DEF Inv, MTypeOK, FreshInv, ImportRecoverable
<1> QED BY <1>2, <1>3, <1>4 DEF Inv

LEMMA TakeSnapshotLockKeeps == ASSUME Inv, NEW p \in Proc, TakeSnapshotLock(p)
                               PROVE  Inv'
<1>1. /\ pc[p] = "snapshot" /\ snapshot = None /\ snapshot' = p
      /\ pc' = [pc EXCEPT ![p] = IF op[p] \in NeedsGate THEN "gate" ELSE "copy"]
      /\ UNCHANGED <<op, readers, writer, lease, leases, armed, ui, installer, fresh>>
  BY DEF TakeSnapshotLock, Goto, update
<1>2. MTypeOK'
  BY <1>1 DEF Inv, MTypeOK
<1>3. LockInv'
  BY <1>1, Kinds, MaintenanceAssumption DEF Inv, MTypeOK, LockInv
<1>4. FreshInv'
  BY <1>1 DEF Inv, MTypeOK, FreshInv, ImportRecoverable
<1> QED BY <1>2, <1>3, <1>4 DEF Inv

LEMMA TakeGateKeeps == ASSUME Inv, NEW p \in Proc, TakeGate(p)
                       PROVE  Inv'
<1>1. /\ pc[p] = "gate" /\ writer = Nobody
      /\ IF op[p] = "request"
         THEN readers' = readers \union {p} /\ writer' = writer
         ELSE readers = {} /\ writer' = OfProc(p) /\ readers' = readers
      /\ pc' = [pc EXCEPT ![p] = IF op[p] \in NeedsSnapshot THEN "copy" ELSE "work"]
      /\ UNCHANGED <<op, snapshot, lease, leases, armed, ui, installer, fresh>>
  BY DEF TakeGate, Goto, update
<1>2. lease = NoLease /\ op[p] \in NeedsGate /\ op[p] \in Kind
  BY <1>1, Holders DEF Inv, MTypeOK, LockInv
<1>3. MTypeOK'
  BY <1>1, <1>2, Holders DEF Inv, MTypeOK
<1>4. LockInv'
  BY <1>1, <1>2, Kinds, Holders DEF Inv, MTypeOK, LockInv
<1>5. FreshInv'
  <2>1. ~(op[p] = "replace" /\ pc'[p] = "work")
    BY <1>1, Kinds DEF Inv, MTypeOK
  <2> QED BY <1>1, <2>1 DEF Inv, MTypeOK, FreshInv, ImportRecoverable
<1> QED BY <1>3, <1>4, <1>5 DEF Inv

LEMMA CopyKeeps == ASSUME Inv, NEW p \in Proc, Copy(p)
                   PROVE  Inv'
<1>1. /\ pc[p] = "copy" /\ op[p] # "update" /\ snapshot' = None /\ snapshot = p
      /\ UNCHANGED <<op, readers, lease, leases, armed, ui, installer>>
  BY DEF Copy, update, Inv, LockInv
<1>2. CASE /\ op[p] = "replace" /\ fresh' = fresh \union {OfProc(p)}
           /\ pc' = [pc EXCEPT ![p] = "work"] /\ writer' = writer
  <2>1. MTypeOK'
    BY <1>1, <1>2, Holders DEF Inv, MTypeOK
  <2>2. LockInv'
    BY <1>1, <1>2, Kinds, MaintenanceAssumption DEF Inv, MTypeOK, LockInv
  <2>3. FreshInv'
    BY <1>1, <1>2 DEF Inv, MTypeOK, FreshInv, ImportRecoverable
  <2> QED BY <2>1, <2>2, <2>3 DEF Inv
<1>3. CASE /\ fresh' = fresh /\ pc' = [pc EXCEPT ![p] = "idle"]
           /\ writer' = IF writer = OfProc(p) THEN Nobody ELSE writer
  <2>1. MTypeOK'
    BY <1>1, <1>3, Holders DEF Inv, MTypeOK
  <2>2. LockInv'
    BY <1>1, <1>3, Holders, MaintenanceAssumption DEF Inv, MTypeOK, LockInv
  <2>3. FreshInv'
    BY <1>1, <1>3 DEF Inv, MTypeOK, FreshInv, ImportRecoverable
  <2> QED BY <2>1, <2>2, <2>3 DEF Inv
<1> QED BY <1>2, <1>3 DEF Copy, Goto

\* Who writes has the gate, so no import has a snapshot of what it will replace,
\* and no lease is held.
LEMMA WorkKeeps == ASSUME Inv, NEW p \in Proc, Work(p)
                   PROVE  Inv'
<1>1. /\ pc[p] = "work" /\ fresh' \in {fresh, {}}
      /\ readers' = readers \ {p} /\ writer' = IF writer = OfProc(p) THEN Nobody ELSE writer
      /\ pc' = [pc EXCEPT ![p] = "idle"]
      /\ UNCHANGED <<op, snapshot, lease, leases, armed, ui, installer>>
  BY DEF Work, Goto, update
<1>2. lease = NoLease
  <2>1. p \in readers \/ writer = OfProc(p)
    BY <1>1 DEF Inv, LockInv
  <2>2. readers # {} => writer = Nobody
    BY DEF Inv, MTypeOK
  <2> QED BY <2>1, <2>2, Holders DEF Inv, MTypeOK
<1>3. MTypeOK'
  BY <1>1, Holders DEF Inv, MTypeOK
<1>4. LockInv'
  BY <1>1, Holders DEF Inv, MTypeOK, LockInv
<1>5. \A q \in Proc : q # p => ~(op[q] = "replace" /\ pc[q] = "work")
  <2> SUFFICES ASSUME NEW q \in Proc, q # p, op[q] = "replace", pc[q] = "work" PROVE FALSE
    OBVIOUS
  <2>1. writer = OfProc(q)
    BY DEF Inv, LockInv
  <2>2. p \in readers \/ writer = OfProc(p)
    BY <1>1 DEF Inv, LockInv
  <2> QED BY <2>1, <2>2, Holders DEF Inv, MTypeOK
<1>6. ~(ui.phase = "installing" /\ installer \in armed)
  BY <1>2 DEF Inv, FreshInv, MTypeOK, NoLease
<1>7. FreshInv'
  BY <1>1, <1>5, <1>6 DEF Inv, MTypeOK, FreshInv, ImportRecoverable
<1> QED BY <1>3, <1>4, <1>7 DEF Inv

LEMMA PrepareKeeps == ASSUME Inv, NEW p \in Proc, Prepare(p)
                      PROVE  Inv'
<1>1. /\ pc[p] = "idle" /\ ui' \in Renderer /\ ui'.phase # "installing"
      /\ \/ UNCHANGED <<op, pc>>
         \/ op' = [op EXCEPT ![p] = "update"] /\ pc' = [pc EXCEPT ![p] = "snapshot"]
      /\ UNCHANGED <<snapshot, readers, writer, lease, leases, armed, installer, fresh>>
  BY DEF Prepare, Goto, locks, IdleUi, Renderer
<1>2. MTypeOK'
  BY <1>1, Kinds DEF Inv, MTypeOK
<1>3. LockInv'
  BY <1>1, Kinds DEF Inv, MTypeOK, LockInv
<1>4. FreshInv'
  BY <1>1 DEF Inv, MTypeOK, FreshInv, ImportRecoverable
<1> QED BY <1>2, <1>3, <1>4 DEF Inv

LEMMA PrepareFailsKeeps == ASSUME Inv, NEW p \in Proc, PrepareFails(p)
                           PROVE  Inv'
<1>1. /\ pc[p] = "copy" /\ op[p] = "update" /\ snapshot' = None /\ snapshot = p
      /\ writer = OfProc(p) /\ writer' = Nobody /\ pc' = [pc EXCEPT ![p] = "idle"]
      /\ ui' \in Renderer /\ (ui' = ui \/ ui'.phase = "cancelling")
      /\ UNCHANGED <<op, readers, lease, leases, armed, installer, fresh>>
  BY DEF PrepareFails, Goto, IdleUi, Renderer, Inv, LockInv, MTypeOK
<1>2. MTypeOK'
  BY <1>1, Holders DEF Inv, MTypeOK
<1>3. LockInv'
  BY <1>1, Holders, MaintenanceAssumption DEF Inv, MTypeOK, LockInv
<1>4. FreshInv'
  BY <1>1 DEF Inv, MTypeOK, FreshInv, ImportRecoverable
<1> QED BY <1>2, <1>3, <1>4 DEF Inv

LEMMA PrepareSucceedsKeeps == ASSUME Inv, NEW p \in Proc, PrepareSucceeds(p)
                              PROVE  Inv'
<1> DEFINE l == leases + 1
<1>1. /\ pc[p] = "copy" /\ op[p] = "update" /\ snapshot' = None /\ snapshot = p
      /\ writer = OfProc(p) /\ writer' = OfLease(l) /\ pc' = [pc EXCEPT ![p] = "idle"]
      /\ lease = NoLease /\ lease' = l /\ leases' = l /\ armed' = armed \union {l}
      /\ l \in Lease /\ leases \in Nat /\ readers = {}
      /\ UNCHANGED <<op, readers>>
  <2>1. writer = OfProc(p) /\ snapshot = p
    BY DEF PrepareSucceeds, Inv, LockInv
  <2>2. readers = {} /\ lease = NoLease
    BY <2>1, Holders DEF Inv, MTypeOK
  <2>3. l \in Lease /\ leases \in Nat
    BY MaintenanceAssumption DEF PrepareSucceeds, Inv, MTypeOK, Lease
  <2> QED BY <2>1, <2>2, <2>3 DEF PrepareSucceeds, Goto
<1>2. \/ /\ ui' \in Renderer /\ ui'.phase = "installing"
         /\ installer' = l /\ fresh' = fresh \union {OfLease(l)}
      \/ UNCHANGED <<ui, installer, fresh>>
  BY DEF PrepareSucceeds, IdleUi, Renderer
<1>3. l \notin armed /\ installer # l
  BY <1>1 DEF Inv, MTypeOK, LockInv
<1>4. MTypeOK'
  <2>1. armed' \subseteq 1..leases' /\ leases' \in 0..NumLeases
    BY <1>1, MaintenanceAssumption DEF Inv, MTypeOK, Lease
  <2>2. writer' \in Holder /\ writer'.lease = lease'
    BY <1>1, Holders
  <2>3. ui' \in Renderer /\ installer' \in Lease \union {NoLease} /\ fresh' \subseteq Holder
    BY <1>1, <1>2, Holders DEF Inv, MTypeOK
  <2> QED BY <1>1, <2>1, <2>2, <2>3 DEF Inv, MTypeOK
<1>5. LockInv'
  <2>1. lease' \in 0..leases' /\ installer' \in 0..leases'
    BY <1>1, <1>2 DEF Inv, LockInv
  <2>2. \A q \in Proc : writer' # OfProc(q)
    BY <1>1, Holders
  <2>3. \A q \in Proc : q # p => writer # OfProc(q)
    BY <1>1, Holders
  <2> HIDE DEF l
  <2> QED BY <1>1, <2>1, <2>2, <2>3, MaintenanceAssumption DEF Inv, MTypeOK, LockInv
<1>6. FreshInv'
  <2>1. ~(ui.phase = "installing" /\ installer \in armed)
    BY <1>1 DEF Inv, FreshInv, MTypeOK, NoLease
  <2>2. ImportRecoverable'
    BY <1>1, <1>2 DEF Inv, MTypeOK, FreshInv, ImportRecoverable
  <2> HIDE DEF l
  <2> QED BY <1>1, <1>2, <1>3, <2>1, <2>2 DEF FreshInv
<1> QED BY <1>4, <1>5, <1>6 DEF Inv

LEMMA GiveUp == ASSUME Inv, GiveUpLease
                PROVE  /\ lease' = NoLease /\ writer' \in Holder /\ writer'.lease = NoLease
                       /\ \A p \in Proc : writer' = OfProc(p) <=> writer = OfProc(p)
                       /\ writer' # Nobody => writer # Nobody
<1>1. writer \in Holder /\ writer.lease = lease
  BY DEF Inv, MTypeOK
<1>2. CASE lease # NoLease
  <2>1. writer = OfLease(lease) /\ writer' = Nobody
    BY <1>1, <1>2, HolderIs DEF GiveUpLease
  <2> QED BY <2>1, Holders DEF GiveUpLease
<1>3. CASE lease = NoLease
  BY <1>1, <1>3 DEF GiveUpLease
<1> QED BY <1>2, <1>3

LEMMA CancelKeeps == Inv /\ Cancel => Inv'
<1> SUFFICES ASSUME Inv, Cancel PROVE Inv'
  OBVIOUS
<1>1. /\ GiveUpLease /\ ui' \in Renderer /\ ui'.phase = "idle"
      /\ UNCHANGED <<op, pc, snapshot, readers, leases, armed, installer, fresh>>
  BY DEF Cancel, IdleUi, Renderer
<1>2. /\ lease' = NoLease /\ writer' \in Holder /\ writer'.lease = NoLease
      /\ \A p \in Proc : writer' = OfProc(p) <=> writer = OfProc(p)
      /\ writer' # Nobody => writer # Nobody
  BY <1>1, GiveUp
<1>3. MTypeOK'
  BY <1>1, <1>2 DEF Inv, MTypeOK
<1>4. LockInv'
  BY <1>1, <1>2 DEF Inv, MTypeOK, LockInv, NoLease
<1>5. FreshInv'
  BY <1>1 DEF Inv, FreshInv, ImportRecoverable
<1> QED BY <1>3, <1>4, <1>5 DEF Inv

LEMMA WatchdogKeeps == ASSUME Inv, NEW l \in Lease, Watchdog(l)
                       PROVE  Inv'
<1>1. /\ l \in armed /\ armed' = armed \ {l}
      /\ UNCHANGED <<op, pc, snapshot, readers, leases, ui, installer, fresh>>
  BY DEF Watchdog
<1>2. CASE lease = l /\ GiveUpLease
  <2>1. /\ lease' = NoLease /\ writer' \in Holder /\ writer'.lease = NoLease
        /\ \A p \in Proc : writer' = OfProc(p) <=> writer = OfProc(p)
        /\ writer' # Nobody => writer # Nobody
    BY <1>2, GiveUp
  <2>2. MTypeOK'
    BY <1>1, <2>1 DEF Inv, MTypeOK
  <2>3. LockInv'
    BY <1>1, <2>1 DEF Inv, MTypeOK, LockInv, NoLease
  <2>4. FreshInv'
    BY <1>1, <1>2 DEF Inv, FreshInv, ImportRecoverable
  <2> QED BY <2>2, <2>3, <2>4 DEF Inv
<1>3. CASE UNCHANGED <<lease, writer>>
  <2>1. MTypeOK' /\ LockInv'
    BY <1>1, <1>3 DEF Inv, MTypeOK, LockInv
  <2>2. FreshInv'
    BY <1>1, <1>3 DEF Inv, FreshInv, ImportRecoverable
  <2> QED BY <2>1, <2>2 DEF Inv
<1> QED BY <1>2, <1>3 DEF Watchdog

LEMMA InstallFailsKeeps == Inv /\ InstallFails => Inv'
<1> SUFFICES ASSUME Inv, InstallFails PROVE Inv'
  OBVIOUS
<1>1. /\ installer # NoLease /\ installer' = NoLease /\ fresh' = fresh \ {OfLease(installer)}
      /\ ui' \in Renderer /\ ui'.phase # "installing"
      /\ UNCHANGED <<op, pc, snapshot, readers, writer, lease, leases, armed>>
  BY DEF InstallFails, locks, IdleUi, Renderer, Inv, MTypeOK
<1>2. MTypeOK'
  BY <1>1 DEF Inv, MTypeOK
<1>3. LockInv'
  BY <1>1 DEF Inv, MTypeOK, LockInv, NoLease
<1>4. FreshInv'
  BY <1>1, Holders DEF Inv, FreshInv, ImportRecoverable
<1> QED BY <1>2, <1>3, <1>4 DEF Inv

LEMMA Starts == ASSUME op = [p \in Proc |-> "request"], pc = [p \in Proc |-> "idle"],
                       snapshot = None, readers = {}, writer = Nobody, lease = NoLease,
                       leases = 0, armed = {}, ui = IdleUi, installer = NoLease, fresh = {}
                PROVE  Inv
<1>1. MTypeOK
  BY Holders, Kinds, MaintenanceAssumption DEF MTypeOK, IdleUi, Renderer
<1>2. LockInv
  BY Holders, MaintenanceAssumption DEF LockInv, NoLease
<1>3. FreshInv
  BY DEF FreshInv, ImportRecoverable
<1> QED BY <1>1, <1>2, <1>3 DEF Inv

LEMMA ReplaceKeeps == Inv /\ Replace => Inv'
<1> SUFFICES ASSUME Replace PROVE Inv'
  OBVIOUS
<1> USE DEF Replace
<1>1. MTypeOK'
  BY Holders, Kinds, MaintenanceAssumption DEF MTypeOK, IdleUi, Renderer
<1>2. LockInv'
  BY Holders, MaintenanceAssumption DEF LockInv, NoLease
<1>3. FreshInv'
  BY DEF FreshInv, ImportRecoverable
<1> QED BY <1>1, <1>2, <1>3 DEF Inv

LEMMA ReloadKeeps == Inv /\ (Reload \/ UNCHANGED vars) => Inv'
<1> SUFFICES ASSUME Inv, Reload \/ UNCHANGED vars PROVE Inv'
  OBVIOUS
<1>1. /\ ui' \in Renderer /\ (ui' = ui \/ ui'.phase = "idle")
      /\ UNCHANGED <<op, pc, snapshot, readers, writer, lease, leases, armed, installer, fresh>>
  BY DEF Reload, vars, locks, IdleUi, Renderer, Inv, MTypeOK
<1>2. MTypeOK' /\ LockInv'
  BY <1>1 DEF Inv, MTypeOK, LockInv
<1>3. FreshInv'
  BY <1>1 DEF Inv, FreshInv, ImportRecoverable
<1> QED BY <1>2, <1>3 DEF Inv

LEMMA InvKept == Inv /\ [Next]_vars => Inv'
<1> SUFFICES ASSUME Inv, [Next]_vars PROVE Inv'
  OBVIOUS
<1>1. ASSUME NEW p \in Proc, Command(p)
      PROVE  Inv'
  BY <1>1, TakeSnapshotLockKeeps, TakeGateKeeps, CopyKeeps, WorkKeeps, PrepareFailsKeeps,
     PrepareSucceedsKeeps, Zenon DEF Command
<1> QED BY <1>1, BeginKeeps, PrepareKeeps, CancelKeeps, WatchdogKeeps, InstallFailsKeeps,
           ReplaceKeeps, ReloadKeeps, Zenon DEF Next

LEMMA InvHolds == FairSpec => []Inv
<1>1. Init => Inv
  BY Starts DEF Init
<1> QED BY <1>1, InvKept, PTL DEF FairSpec, Spec

\* The types, and that the gate has one writer or readers, for any number of
\* commands and leases.
THEOREM MaintenanceTypes == FairSpec => []MTypeOK
<1>1. Inv => MTypeOK
  BY DEF Inv
<1> QED BY <1>1, InvHolds, PTL

\* Nothing is written between the snapshot of an update and the replacement of
\* the process, while its renderer lives and its watchdog is armed.
THEOREM UpdatesCurrent == FairSpec => []UpdateSnapshotCurrent
<1>1. Inv => UpdateSnapshotCurrent
  BY DEF Inv, FreshInv, UpdateSnapshotCurrent
<1> QED BY <1>1, InvHolds, PTL

\* A destructive import replaces exactly what its recovery snapshot holds.
THEOREM ImportsRecoverable == FairSpec => []ImportRecoverable
<1>1. Inv => ImportRecoverable
  BY DEF Inv, FreshInv
<1> QED BY <1>1, InvHolds, PTL

-----------------------------------------------------------------------------
(* The scheduled snapshots.                                                  *)

\* Months are counted from one and do not run backwards.
LEMMA Months ==
  ASSUME NEW d \in 1..MaxDay
  PROVE  /\ Period("daily", d) \in 1..d /\ Period("monthly", d) \in 1..d
         /\ \A e \in 1..d : \A c \in Class : Period(c, e) <= Period(c, d)
<1>1. DaysPerMonth \in Nat \ {0} /\ MaxDay \in Nat
  BY ScheduleAssumption
<1>2. \A e \in 1..d : (e - 1) \div DaysPerMonth <= (d - 1) \div DaysPerMonth
  <2> SUFFICES ASSUME NEW e \in 1..d
               PROVE  (e - 1) \div DaysPerMonth <= (d - 1) \div DaysPerMonth
    OBVIOUS
  <2>1. e - 1 \in Nat /\ d - 1 \in Nat /\ e - 1 <= d - 1
    BY <1>1
  <2> DEFINE a == e - 1
             b == d - 1
  <2>2. a \div DaysPerMonth <= b \div DaysPerMonth
    <3>1. a \in Nat /\ b \in Nat /\ a <= b
      BY <2>1
    <3> HIDE DEF a, b
    <3> QED BY <1>1, <3>1
  <2> QED BY <2>2
<1>3. (d - 1) \div DaysPerMonth \in 0..(d - 1)
  <2> DEFINE b == d - 1
  <2>1. b \in Nat
    BY <1>1
  <2>2. b \div DaysPerMonth \in Nat /\ b \div DaysPerMonth <= b
    <3> HIDE DEF b
    <3> QED BY <1>1, <2>1
  <2> QED BY <2>1, <2>2
<1>4. \A e \in 1..d : (e - 1) \div DaysPerMonth \in Int
  BY <1>1
<1> QED BY <1>1, <1>2, <1>3, <1>4 DEF Period, Class

\* The period of a class on a day is a key of the table.
LEMMA Keys ==
  ASSUME NEW c \in Class, NEW d \in 1..MaxDay
  PROVE  /\ Period(c, d) \in 1..MaxDay /\ Period(c, d) # 0 /\ Period(c, d) \in 0..MaxDay
         /\ [class |-> c, period |-> Period(c, d)] \in Key
<1>1. Period(c, d) \in 1..MaxDay
  BY Months, ScheduleAssumption DEF Class
<1> QED BY <1>1, ScheduleAssumption DEF Key

\* A run remembers.
Runs == [pc : {"idle", "list", "create", "record", "persist", "flush"}, day : 1..MaxDay,
         state : [Class -> 0..MaxDay], have : SUBSET Class, created : BOOLEAN]

TypeInv ==
  /\ day \in 1..MaxDay
  /\ state \in [Class -> 0..MaxDay]
  /\ queue \subseteq Key
  /\ made \in [Key -> 0..MaxMade]
  /\ run \in Runs /\ run.day <= day
  /\ holder \in {"none", "run", "manual", "status"}
  /\ seen \in [Class -> 0..MaxDay]
  /\ lost \in BOOLEAN
  /\ holder = "run" => run.pc = "flush"
  /\ run.pc = "record" => run.have # Class

LEMMA TypeInvSuffices == TypeInv => STypeOK
<1> SUFFICES ASSUME TypeInv PROVE STypeOK
  OBVIOUS
<1>1. run.day \in 1..day
  BY ScheduleAssumption DEF TypeInv, Runs
<1>2. run \in [pc : {"idle", "list", "create", "record", "persist", "flush"}, day : 1..day,
               state : [Class -> 0..MaxDay], have : SUBSET Class, created : BOOLEAN]
  BY <1>1 DEF TypeInv, Runs
<1> QED BY <1>2 DEF TypeInv, STypeOK

LEMMA CurrentClass == ASSUME TypeInv, run.have # Class
                      PROVE  Current \in Class /\ Current \notin run.have
BY DEF TypeInv, Runs, Current, Class

LEMMA TypesStart == SInit => TypeInv
<1> SUFFICES ASSUME SInit PROVE TypeInv
  OBVIOUS
<1>1. 1 \in 1..MaxDay /\ 0 \in 0..MaxDay /\ 0 \in 0..MaxMade
  BY ScheduleAssumption
<1>2. run \in Runs /\ run.day = 1 /\ run.pc = "idle"
  BY <1>1 DEF SInit, Idle, Runs
<1>3. made \in [Key -> 0..MaxMade] /\ state \in [Class -> 0..MaxDay] /\ seen \in [Class -> 0..MaxDay]
  BY <1>1 DEF SInit
<1>4. lost \in BOOLEAN
  BY DEF SInit
<1>5. day = 1 /\ queue = {} /\ holder = "none"
  BY DEF SInit
<1>6. day \in 1..MaxDay /\ run.day <= day
  BY <1>1, <1>2, <1>5
<1> QED BY <1>2, <1>3, <1>4, <1>5, <1>6 DEF TypeInv

LEMMA IdleRuns == Idle \in Runs /\ Idle.day = 1 /\ Idle.pc = "idle" /\ Idle.have = {}
BY ScheduleAssumption DEF Idle, Runs

LEMMA TypesKept == TypeInv /\ [SNext]_svars => TypeInv'
<1> SUFFICES ASSUME TypeInv, [SNext]_svars PROVE TypeInv'
  OBVIOUS
<1> USE ScheduleAssumption
<1>0. /\ run \in Runs /\ run.day \in 1..MaxDay /\ run.pc \in {"idle", "list", "create", "record", "persist", "flush"}
      /\ run.state \in [Class -> 0..MaxDay] /\ run.have \in SUBSET Class /\ run.created \in BOOLEAN
  BY DEF TypeInv, Runs
<1>1. CASE ReadState
  <2>1. run' \in Runs /\ run'.day = day /\ run'.pc = "list"
    BY <1>1 DEF ReadState, Idle, Runs, TypeInv
  <2> QED BY <1>1, <2>1 DEF ReadState, TypeInv
<1>2. CASE ListQueue
  <2>1. \A c \in Class : Period(c, run.day) \in 0..MaxDay
    BY <1>0, Keys
  <2>2. run' \in Runs /\ run'.day = run.day /\ run'.pc = "create"
    BY <1>0, <1>2, <2>1 DEF ListQueue, Runs
  <2> QED BY <1>2, <2>2 DEF ListQueue, TypeInv
<1>3. CASE Create
  <2>1. Current \in Class
    BY <1>3, CurrentClass DEF Create
  <2>2. KeyOf(Current) \in Key
    BY <1>0, <2>1, Keys DEF KeyOf
  <2>3. run' \in Runs /\ run'.day = run.day /\ run'.pc = "record" /\ run'.have = run.have
    BY <1>0, <1>3 DEF Create, Runs
  <2>4. made' \in [Key -> 0..MaxMade]
    BY <1>3, <2>2 DEF Create, TypeInv
  <2> QED BY <1>3, <2>2, <2>3, <2>4 DEF Create, TypeInv
<1>4. CASE Record
  <2>1. Current \in Class
    BY <1>4, CurrentClass DEF Record, TypeInv
  <2>2. Period(Current, run.day) \in 0..MaxDay
    BY <1>0, <2>1, Keys
  <2>3. run' \in Runs /\ run'.day = run.day /\ run'.pc = "create"
    BY <1>0, <1>4, <2>1, <2>2 DEF Record, Runs
  <2> QED BY <1>4, <2>1, <2>2, <2>3 DEF Record, TypeInv
<1>5. CASE RunFails
  BY <1>5, IdleRuns DEF RunFails, TypeInv
<1>6. CASE Persist
  <2>1. CASE run' = [run EXCEPT !.pc = "flush"]
    <3>1. run' \in Runs /\ run'.day = run.day /\ run'.pc = "flush"
      BY <1>0, <2>1 DEF Runs
    <3> QED BY <1>0, <1>6, <3>1 DEF Persist, TypeInv
  <2>2. CASE run' = Idle
    BY <1>0, <1>6, <2>2, IdleRuns DEF Persist, TypeInv
  <2> QED BY <1>6, <2>1, <2>2 DEF Persist
<1>7. CASE StartFlush \/ StatusReads \/ StatusWrites
  BY <1>7 DEF StartFlush, StatusReads, StatusWrites, TypeInv
<1>8. CASE \E k \in Key : Unqueue(k)
  BY <1>8 DEF Unqueue, TypeInv
<1>9. CASE EndFlush \/ Crash
  <2>1. /\ UNCHANGED <<day, state, queue, made, seen>> /\ holder' = "none"
        /\ (run' = run \/ run' = Idle) /\ lost' \in BOOLEAN
    BY <1>9 DEF EndFlush, Crash, TypeInv
  <2>2. run' \in Runs /\ run'.day <= day /\ (run'.pc = "record" => run'.have # Class)
    BY <2>1, IdleRuns DEF TypeInv
  <2> QED BY <2>1, <2>2 DEF TypeInv
<1>10. CASE NextDay
  BY <1>0, <1>10 DEF NextDay, TypeInv
<1>11. CASE UNCHANGED svars
  BY <1>11 DEF svars, TypeInv
<1> QED BY <1>1, <1>2, <1>3, <1>4, <1>5, <1>6, <1>7, <1>8, <1>9, <1>10, <1>11 DEF SNext

\* The types, and that a run holds flush_lock only while it flushes.
THEOREM ScheduleTypes == SSpec => []STypeOK
<1> QED BY TypesStart, TypesKept, TypeInvSuffices, PTL DEF SSpec

-----------------------------------------------------------------------------

\* An artifact of a period was made.
Done(c, p) == made[[class |-> c, period |-> p]] > 0

\* Whatever is believed to be done was made: by the file, by a run, by a status
\* that may write it back, and by the queue.
DoneInv ==
  /\ \A c \in Class : state[c] # 0 => Done(c, state[c])
  /\ \A c \in Class : seen[c] # 0 => Done(c, seen[c])
  /\ \A c \in Class : run.state[c] # 0 => Done(c, run.state[c])
  /\ \A k \in queue : made[k] > 0
  /\ run.pc = "record" => made[KeyOf(Current)] > 0

LEMMA DoneKept == TypeInv /\ DoneInv /\ [SNext]_svars => DoneInv'
<1> SUFFICES ASSUME TypeInv, DoneInv, [SNext]_svars PROVE DoneInv'
  OBVIOUS
<1> USE ScheduleAssumption
<1>0. /\ run \in Runs /\ run.day \in 1..MaxDay
      /\ run.state \in [Class -> 0..MaxDay] /\ run.have \in SUBSET Class
      /\ state \in [Class -> 0..MaxDay] /\ seen \in [Class -> 0..MaxDay]
  BY DEF TypeInv, Runs
<1>1. CASE ReadState
  <2>1. run'.state = state /\ run'.pc = "list"
    BY <1>1 DEF ReadState, Idle
  <2> QED BY <1>1, <2>1 DEF ReadState, DoneInv, Done
<1>2. CASE ListQueue
  <2>1. /\ run'.pc = "create"
        /\ \A c \in Class : run'.state[c] = run.state[c] \/ KeyOf(c) \in queue
    BY <1>0, <1>2 DEF ListQueue, Runs
  <2>2. \A c \in Class : KeyOf(c) \in queue => Done(c, Period(c, run.day))
    BY DEF DoneInv, Done, KeyOf
  <2>3. \A c \in Class : run'.state[c] # run.state[c] => run'.state[c] = Period(c, run.day)
    BY <1>0, <1>2 DEF ListQueue, Runs
  <2>4. \A c \in Class : run'.state[c] # 0 => Done(c, run'.state[c])
    BY <2>1, <2>2, <2>3 DEF DoneInv
  <2> QED BY <1>2, <2>1, <2>4 DEF ListQueue, DoneInv, Done
<1>3. CASE Create
  <2>1. KeyOf(Current) \in Key
    BY <1>0, <1>3, CurrentClass, Keys DEF Create, KeyOf
  <2>2. /\ made' = [made EXCEPT ![KeyOf(Current)] = @ + 1] /\ made \in [Key -> 0..MaxMade]
        /\ UNCHANGED <<state, seen>> /\ queue' = queue \union {KeyOf(Current)}
    BY <1>3 DEF Create, TypeInv
  <2>3. made'[KeyOf(Current)] > 0 /\ \A k \in Key : made[k] > 0 => made'[k] > 0
    BY <2>1, <2>2
  <2>4. \A c \in Class, p \in 0..MaxDay : p # 0 => [class |-> c, period |-> p] \in Key
    BY DEF Key
  <2>5. run'.state = run.state /\ run'.have = run.have /\ run'.day = run.day
    BY <1>0, <1>3 DEF Create, Runs
  <2>6. KeyOf(Current)' = KeyOf(Current)
    BY <2>5 DEF KeyOf, Current
  <2>7. \A k \in queue : k \in Key
    BY DEF TypeInv
  <2>8. \A c \in Class, p \in 0..MaxDay : p # 0 /\ Done(c, p) => Done(c, p)'
    BY <2>3, <2>4 DEF Done
  <2>9. /\ \A c \in Class : state'[c] # 0 => Done(c, state[c])'
        /\ \A c \in Class : seen'[c] # 0 => Done(c, seen[c])'
        /\ \A c \in Class : run'.state[c] # 0 => Done(c, run.state[c])'
    BY <1>0, <2>2, <2>5, <2>8 DEF DoneInv, Done
  <2>10. \A k \in queue' : made'[k] > 0
    BY <2>2, <2>3, <2>7 DEF DoneInv
  <2> QED BY <2>3, <2>6, <2>9, <2>10 DEF DoneInv
<1>4. CASE Record
  <2>1. Current \in Class /\ made[KeyOf(Current)] > 0
    BY <1>4, CurrentClass DEF Record, DoneInv, TypeInv
  <2>2. \A c \in Class : /\ state'[c] = state[c] \/ (c = Current /\ state'[c] = Period(c, run.day))
                         /\ run'.state[c] = run.state[c] \/ (c = Current /\ run'.state[c] = Period(c, run.day))
    BY <1>0, <1>4, <2>1 DEF Record, Runs
  <2>3. run'.pc = "create" /\ UNCHANGED <<queue, made, seen>>
    BY <1>0, <1>4 DEF Record, Runs
  <2> QED BY <2>1, <2>2, <2>3 DEF DoneInv, Done, KeyOf
<1>5. CASE RunFails \/ Crash \/ EndFlush
  <2>1. UNCHANGED <<state, queue, made, seen>> /\ (run' = run \/ run' = Idle)
    BY <1>5 DEF RunFails, Crash, EndFlush
  <2>2. CASE run' = run
    BY <2>1, <2>2 DEF DoneInv, Done, KeyOf, Current
  <2>3. CASE run' = Idle
    <3>1. run'.pc = "idle" /\ \A c \in Class : run'.state[c] = 0
      BY <2>3 DEF Idle
    <3> QED BY <2>1, <3>1 DEF DoneInv, Done
  <2> QED BY <2>1, <2>2, <2>3
<1>6. CASE Persist
  <2>1. /\ state' = run.state /\ UNCHANGED <<queue, made, seen>> /\ run'.pc # "record"
        /\ run'.state = run.state \/ \A c \in Class : run'.state[c] = 0
    BY <1>0, <1>6 DEF Persist, Idle, Runs
  <2> QED BY <2>1 DEF DoneInv, Done
<1>7. CASE StartFlush \/ StatusReads \/ StatusWrites \/ NextDay
  BY <1>7 DEF StartFlush, StatusReads, StatusWrites, NextDay, DoneInv, Done, KeyOf, Current
<1>8. CASE \E k \in Key : Unqueue(k)
  BY <1>8 DEF Unqueue, DoneInv, Done, KeyOf, Current
<1>9. CASE UNCHANGED svars
  BY <1>9 DEF svars, DoneInv, Done, KeyOf, Current
<1> QED BY <1>1, <1>2, <1>3, <1>4, <1>5, <1>6, <1>7, <1>8, <1>9 DEF SNext

\* No period is recorded as done without its artifact, whatever was lost,
\* overwritten or interrupted.
THEOREM NothingSkipped == SSpec => []NoPeriodSkipped
<1>1. SInit => DoneInv
  BY DEF SInit, DoneInv, Idle
<1>2. DoneInv => NoPeriodSkipped
  BY DEF DoneInv, Done, NoPeriodSkipped
<1> QED BY <1>1, <1>2, TypesStart, TypesKept, DoneKept, PTL DEF SSpec

-----------------------------------------------------------------------------

\* The days of a run that still writes the file.
Working == run.pc \in {"list", "create", "record"}

\* As long as no record was lost, the file is never behind what was made, but for
\* the artifact that is about to be recorded; and a run that makes something knows
\* what the file says of it.
RecordInv ==
  /\ \A c \in Class : state[c] <= Period(c, day)
  /\ Working => \A c \in Class : state[c] <= Period(c, run.day)
  /\ run.pc \in {"create", "record"} =>
       \A c \in Class : IF c \in run.have THEN run.state[c] = Period(c, run.day)
                        ELSE run.state[c] = state[c] /\ state[c] # Period(c, run.day)
  /\ run.pc = "list" => run.state = state /\ run.have = {}
  /\ \A k \in Key : /\ made[k] <= 1
                    /\ made[k] > 0 =>
                         \/ k.period <= state[k.class]
                         \/ run.pc = "record" /\ k = KeyOf(Current)

LEMMA RecordKept == TypeInv /\ (RecordInv \/ lost) /\ [SNext]_svars => (RecordInv \/ lost)'
<1> SUFFICES ASSUME TypeInv, RecordInv, ~lost, ~lost', [SNext]_svars PROVE RecordInv'
  <2>1. lost /\ [SNext]_svars => lost'
    BY DEF SNext, svars, ReadState, ListQueue, Create, Record, RunFails, Persist, StartFlush,
           EndFlush, StatusReads, StatusWrites, Unqueue, Crash, NextDay
  <2> QED BY <2>1
<1> USE ScheduleAssumption
<1>0. /\ run \in Runs /\ run.day \in 1..MaxDay /\ run.day <= day /\ day \in 1..MaxDay
      /\ run.state \in [Class -> 0..MaxDay] /\ run.have \in SUBSET Class
      /\ state \in [Class -> 0..MaxDay] /\ made \in [Key -> 0..MaxMade]
  BY DEF TypeInv, Runs
<1>p. \A c \in Class : /\ Period(c, run.day) \in Nat /\ Period(c, day) \in Nat
                       /\ Period(c, run.day) <= Period(c, day)
  <2> SUFFICES ASSUME NEW c \in Class
               PROVE  /\ Period(c, run.day) \in Nat /\ Period(c, day) \in Nat
                      /\ Period(c, run.day) <= Period(c, day)
    OBVIOUS
  <2>1. Period(c, run.day) \in 1..MaxDay /\ Period(c, day) \in 1..MaxDay
    BY <1>0, Keys
  <2>2. run.day \in 1..day
    BY <1>0
  <2>3. Period(c, run.day) <= Period(c, day)
    BY <1>0, <2>2, Months
  <2> QED BY <2>1, <2>3
<1>1. CASE ReadState
  <2>1. run'.pc = "list" /\ run'.day = day /\ run'.state = state /\ run'.have = {}
    BY <1>1 DEF ReadState, Idle
  <2>2. UNCHANGED <<day, state, made>> /\ run.pc = "idle"
    BY <1>1 DEF ReadState
  <2>3. Working'
    BY <2>1 DEF Working
  <2> QED BY <1>p, <2>1, <2>2 DEF RecordInv, Working
<1>2. CASE ListQueue
  <2>1. /\ run.pc = "list" /\ run'.pc = "create" /\ run'.day = run.day /\ UNCHANGED <<day, state, made>>
        /\ run'.have = {c \in Class : run.state[c] = Period(c, run.day) \/ KeyOf(c) \in queue}
        /\ run'.state = [c \in Class |-> IF c \in run'.have THEN Period(c, run.day) ELSE run.state[c]]
    BY <1>0, <1>2 DEF ListQueue, Runs
  <2>2. \A c \in Class : IF c \in run'.have THEN run'.state[c] = Period(c, run'.day)
                         ELSE run'.state[c] = state'[c] /\ state'[c] # Period(c, run'.day)
    BY <2>1 DEF RecordInv
  <2> QED BY <1>p, <2>1, <2>2 DEF RecordInv, Working
<1>3. CASE Create
  <2>1. /\ run.pc = "create" /\ run'.pc = "record" /\ run'.day = run.day /\ run'.state = run.state
        /\ run'.have = run.have /\ UNCHANGED <<day, state>>
        /\ made' = [made EXCEPT ![KeyOf(Current)] = @ + 1]
    BY <1>0, <1>3 DEF Create, Runs
  <2>2. Current \in Class /\ Current \notin run.have /\ KeyOf(Current) \in Key
        /\ KeyOf(Current).class = Current /\ KeyOf(Current).period = Period(Current, run.day)
    BY <1>0, <1>3, CurrentClass, Keys DEF Create, KeyOf
  <2>3. KeyOf(Current)' = KeyOf(Current)
    BY <2>1 DEF KeyOf, Current
  <2>4. state[Current] < Period(Current, run.day)
    BY <1>0, <1>p, <2>1, <2>2 DEF RecordInv, Working
  <2>5. made[KeyOf(Current)] = 0
    BY <1>0, <1>p, <2>1, <2>2, <2>4 DEF RecordInv
  <2>6. \A k \in Key : /\ made'[k] <= 1
                       /\ made'[k] > 0 => k.period <= state[k.class] \/ k = KeyOf(Current)
    BY <1>0, <2>1, <2>2, <2>5 DEF RecordInv
  <2> QED BY <2>1, <2>3, <2>6 DEF RecordInv, Working
<1>4. CASE Record
  <2>1. /\ run.pc = "record" /\ run'.pc = "create" /\ run'.day = run.day /\ UNCHANGED <<day, made>>
        /\ state' = [state EXCEPT ![Current] = Period(Current, run.day)]
        /\ run'.have = run.have \union {Current}
        /\ run'.state = [run.state EXCEPT ![Current] = Period(Current, run.day)]
    BY <1>0, <1>4 DEF Record, Runs
  <2>2. Current \in Class /\ Current \notin run.have
        /\ KeyOf(Current).class = Current /\ KeyOf(Current).period = Period(Current, run.day)
    BY <1>4, CurrentClass DEF Record, TypeInv, KeyOf
  <2>3. \A c \in Class : IF c = Current THEN state'[c] = Period(c, run.day) /\ run'.state[c] = state'[c]
                         ELSE state'[c] = state[c] /\ run'.state[c] = run.state[c]
    BY <1>0, <2>1, <2>2
  <2>4. \A c \in Class : state'[c] <= Period(c, run.day) /\ state[c] <= state'[c] /\ state'[c] \in Nat
    BY <1>0, <1>p, <2>1, <2>3 DEF RecordInv, Working
  <2>5. \A c \in Class : IF c \in run'.have THEN run'.state[c] = Period(c, run'.day)
                         ELSE run'.state[c] = state'[c] /\ state'[c] # Period(c, run'.day)
    BY <2>1, <2>2, <2>3 DEF RecordInv
  <2>6. \A k \in Key : k.class \in Class /\ k.period \in Nat
    BY DEF Key
  <2>7. \A k \in Key : made'[k] <= 1 /\ (made'[k] > 0 => k.period <= state'[k.class])
    BY <1>0, <2>1, <2>2, <2>3, <2>4, <2>6 DEF RecordInv
  <2>8. \A c \in Class : state'[c] <= Period(c, day)
    BY <1>p, <2>4
  <2> QED BY <2>1, <2>4, <2>5, <2>7, <2>8 DEF RecordInv, Working
<1>5. CASE RunFails \/ Crash \/ EndFlush
  <2>1. UNCHANGED <<day, state, made>> /\ (run' = run \/ (run' = Idle /\ run.pc # "record"))
    BY <1>5 DEF RunFails, Crash, EndFlush, TypeInv
  <2>2. CASE run' = run
    BY <2>1, <2>2 DEF RecordInv, Working, KeyOf, Current
  <2>3. CASE run' = Idle /\ run.pc # "record"
    BY <2>1, <2>3, IdleRuns DEF RecordInv, Working
  <2> QED BY <2>1, <2>2, <2>3
<1>6. CASE Persist
  <2>1. /\ run.pc = "create" /\ run.have = Class /\ state' = run.state /\ UNCHANGED <<day, made>>
        /\ run'.pc \in {"idle", "flush"}
    BY <1>0, <1>6 DEF Persist, Idle, Runs
  <2>2. \A c \in Class : state'[c] = Period(c, run.day) /\ state[c] <= state'[c] /\ state[c] \in Nat
    BY <1>0, <1>p, <2>1 DEF RecordInv, Working
  <2>3. \A k \in Key : k.class \in Class /\ k.period \in Nat
    BY DEF Key
  <2>4. \A k \in Key : made'[k] <= 1 /\ (made'[k] > 0 => k.period <= state'[k.class])
    BY <1>p, <2>1, <2>2, <2>3 DEF RecordInv
  <2> QED BY <1>p, <2>1, <2>2, <2>4 DEF RecordInv, Working
<1>7. CASE StartFlush \/ StatusReads \/ StatusWrites
  <2>1. UNCHANGED <<day, state, made, run>>
    BY <1>7 DEF StartFlush, StatusReads, StatusWrites, TypeInv
  <2> QED BY <2>1 DEF RecordInv, Working, KeyOf, Current
<1>8. CASE \E k \in Key : Unqueue(k)
  <2>1. UNCHANGED <<day, state, made, run>>
    BY <1>8 DEF Unqueue
  <2> QED BY <2>1 DEF RecordInv, Working, KeyOf, Current
<1>9. CASE NextDay
  <2>1. day' = day + 1 /\ day' \in 1..MaxDay /\ UNCHANGED <<state, made, run>>
    BY <1>0, <1>9 DEF NextDay
  <2>2. \A c \in Class : Period(c, day) <= Period(c, day') /\ Period(c, day') \in Nat
    <3> SUFFICES ASSUME NEW c \in Class
                 PROVE  Period(c, day) <= Period(c, day') /\ Period(c, day') \in Nat
      OBVIOUS
    <3>1. Period(c, day') \in 1..MaxDay /\ day \in 1..day'
      <4>1. day' \in 1..MaxDay /\ day \in 1..day'
        BY <1>0, <2>1
      <4> QED BY <4>1, Keys
    <3>2. Period(c, day) <= Period(c, day')
      BY <2>1, <3>1, Months
    <3> QED BY <3>1, <3>2
  <2>3. \A c \in Class : state'[c] <= Period(c, day')
    BY <1>0, <1>p, <2>1, <2>2 DEF RecordInv
  <2> QED BY <2>1, <2>3 DEF RecordInv, Working, KeyOf, Current
<1>10. CASE UNCHANGED svars
  BY <1>10 DEF svars, RecordInv, Working, KeyOf, Current
<1> QED BY <1>1, <1>2, <1>3, <1>4, <1>5, <1>6, <1>7, <1>8, <1>9, <1>10 DEF SNext

\* Neither manual flushes nor failures make a second artifact of a period, unless
\* the record of the first one was lost.
THEOREM DuplicatesByLossOnly == SSpec => []OnlyLossDuplicates
<1>1. SInit => RecordInv
  <2> SUFFICES ASSUME SInit PROVE RecordInv
    OBVIOUS
  <2>1. \A c \in Class : Period(c, 1) \in Nat
    <3>1. 1 \in 1..MaxDay
      BY ScheduleAssumption
    <3>2. \A c \in Class : Period(c, 1) \in 1..MaxDay
      BY <3>1, Keys
    <3> QED BY <3>2
  <2> QED BY <2>1, IdleRuns DEF SInit, RecordInv, Working
<1>2. RecordInv \/ lost => OnlyLossDuplicates
  BY DEF RecordInv, OnlyLossDuplicates, OnePerPeriod
<1> QED BY <1>1, <1>2, TypesStart, TypesKept, RecordKept, PTL DEF SSpec

-----------------------------------------------------------------------------
(* The token bucket.                                                         *)

\* What was admitted since the i-th admission and what is left together never
\* exceed a full bucket and the refill until the level was stored.
Spent(i) == (Len(admitted) - i + 1) * Refill

LevelInv ==
  \A i \in 1..Len(admitted) :
    Spent(i) + credit <= Full + (updated - admitted[i])

\* Everything that was refilled since the last admission is still there, as
\* far as the bucket holds it.
RefillInv ==
  LET last == admitted[Len(admitted)]
  IN Len(admitted) > 0 => /\ last \in Nat /\ last <= updated
                          /\ credit = Full \/ credit >= updated - last

BucketInv == BucketAssumption /\ BTypeOK /\ LevelInv /\ BurstBounded /\ RefillInv

LEMMA FullIsNat ==
  ASSUME BucketAssumption
  PROVE  Full \in Nat /\ Refill \in Nat /\ Full >= Refill
<1>1. /\ Capacity \in Nat /\ Capacity >= 1 /\ Refill \in Nat
      /\ Capacity * Refill \in Nat
  BY SMT DEF BucketAssumption
<1>2. Capacity * Refill >= 1 * Refill
  BY <1>1, SMT
<1> QED BY <1>1, <1>2 DEF Full

LEMMA OneMore ==
  ASSUME BucketAssumption
  PROVE  \A k \in Int : (k + 1) * Refill = k * Refill + Refill /\ k * Refill \in Int
  BY SMT DEF BucketAssumption

LEMMA AvailableBounds ==
  ASSUME BucketAssumption, BTypeOK
  PROVE  Available \in 0..Full /\ Available <= credit + (now - updated)
<1>1. Full \in Nat
  BY FullIsNat
<1> HIDE DEF Full
<1> QED BY <1>1 DEF BTypeOK, Available, Capped

LEMMA BucketInit == BucketAssumption /\ BInit => BucketInv
  BY FullIsNat DEF BInit, BucketInv, BTypeOK, LevelInv, BurstBounded, RefillInv

LEMMA AdmitKeeps == ASSUME BucketInv, Admit PROVE BucketInv'
<1>0. PICK n \in Nat : n = Len(admitted)
  BY DEF BucketInv, BTypeOK
<1>1. /\ BTypeOK /\ LevelInv /\ BurstBounded
      /\ Refill \in Nat
      /\ Full \in Nat
      /\ BucketAssumption
  BY FullIsNat DEF BucketInv, BTypeOK
<1>2. /\ credit' = Available - Refill /\ updated' = now /\ now' = now
      /\ Available >= Refill
      /\ Available \in 0..Full
      /\ Available <= credit + (now - updated)
  BY <1>1, AvailableBounds DEF Admit
<1>3. /\ Len(admitted') = n + 1
      /\ admitted' \in Seq(Nat)
      /\ admitted'[n + 1] = now
      /\ \A i \in 1..n : admitted'[i] = admitted[i] /\ admitted[i] \in Nat
  BY <1>0, <1>1 DEF Admit, BTypeOK
<1>4. BTypeOK'
  BY <1>1, <1>2, <1>3 DEF BTypeOK
<1>5. ASSUME NEW i \in 1..n
      PROVE  /\ (n - i + 1) * Refill \in Int
             /\ (n + 1 - i + 1) * Refill = (n - i + 1) * Refill + Refill
             /\ (n - i + 1) * Refill + credit <= Full + (updated - admitted[i])
  <2>1. n - i + 1 \in Int /\ n + 1 - i + 1 = (n - i + 1) + 1
    BY <1>1
  <2>2. Spent(i) + credit <= Full + (updated - admitted[i])
    BY <1>0, <1>1 DEF LevelInv
  <2> QED BY <1>0, <1>1, <2>1, <2>2, OneMore DEF Spent
<1>6. LevelInv'
  <2>1. Spent(n + 1)' = Refill
    <3>1. Spent(n + 1)' = (n + 1 - (n + 1) + 1) * Refill
      BY <1>3 DEF Spent
    <3> QED BY <1>1, <3>1
  <2>2. ASSUME NEW i \in 1..n
        PROVE  (Spent(i) + credit <= Full + (updated - admitted[i]))'
    <3>1. Spent(i)' = (n + 1 - i + 1) * Refill
      BY <1>3 DEF Spent
    <3>2. /\ (n - i + 1) * Refill \in Int
          /\ (n - i + 1) * Refill + credit <= Full + (updated - admitted[i])
          /\ Spent(i)' = (n - i + 1) * Refill + Refill
      BY <1>5, <3>1
    <3>3. credit \in Int /\ updated \in Int /\ now \in Int /\ admitted[i] \in Int
      BY <1>1, <1>3 DEF BTypeOK
    <3>4. Full' = Full /\ admitted'[i] = admitted[i]
      BY <1>3 DEF Full
    <3> HIDE DEF Full, Spent
    <3> QED BY <1>1, <1>2, <3>2, <3>3, <3>4
  <2>3. (Spent(n + 1) + credit <= Full + (updated - admitted[n + 1]))'
    BY <1>1, <1>2, <1>3, <2>1 DEF Full, BTypeOK
  <2> QED BY <1>1, <1>3, <2>2, <2>3 DEF LevelInv
<1>7. BurstBounded'
  <2>1. SUFFICES ASSUME NEW i \in 1..(n + 1), NEW j \in 1..(n + 1), i <= j
                 PROVE  (j - i + 1) * Refill <= Full + (admitted'[j] - admitted'[i])
    BY <1>3 DEF BurstBounded, Full
  <2>2. CASE j \in 1..n
    <3>1. i \in 1..Len(admitted) /\ j \in 1..Len(admitted)
      BY <1>0, <2>1, <2>2
    <3>2. (j - i + 1) * Refill <= Full + (admitted[j] - admitted[i])
      BY <1>1, <2>1, <3>1 DEF BurstBounded
    <3>3. admitted'[j] = admitted[j] /\ admitted'[i] = admitted[i]
      BY <1>0, <1>3, <3>1
    <3> QED BY <3>2, <3>3
  <2>3. CASE j = n + 1 /\ i \in 1..n
    <3>1. (j - i + 1) * Refill = (n - i + 1) * Refill + Refill
      BY <1>5, <2>3
    <3>2. (n - i + 1) * Refill \in Int
      BY <1>5, <2>3
    <3>3. (n - i + 1) * Refill + credit <= Full + (updated - admitted[i])
      BY <1>5, <2>3
    <3>4. credit \in Int /\ updated \in Int /\ now \in Int /\ admitted[i] \in Int
      BY <1>1, <1>3, <2>3 DEF BTypeOK
    <3>5. admitted'[j] = now /\ admitted'[i] = admitted[i]
      BY <1>3, <2>3
    <3>6. credit + (now - updated) >= Refill
      BY <1>1, <1>2, <3>4
    <3> HIDE DEF Full
    <3> QED BY <1>1, <3>1, <3>2, <3>3, <3>4, <3>5, <3>6
  <2>4. CASE j = n + 1 /\ i = n + 1
    <3>1. (j - i + 1) * Refill = Refill
      BY <1>1, <2>4
    <3> QED BY <1>1, <1>2, <1>3, <2>4, <3>1 DEF BTypeOK
  <2> QED BY <1>1, <2>1, <2>2, <2>3, <2>4
<1>8. RefillInv'
  <2>1. /\ admitted'[Len(admitted')] = now /\ updated' = now
        /\ credit' \in Nat /\ now \in Nat
    BY <1>1, <1>2, <1>3 DEF BTypeOK
  <2> QED BY <2>1 DEF RefillInv
<1> QED BY <1>1, <1>4, <1>6, <1>7, <1>8 DEF BucketInv

LEMMA BucketStep == BucketInv /\ [BNext]_bvars => BucketInv'
<1> SUFFICES ASSUME BucketInv, [BNext]_bvars PROVE BucketInv'
  OBVIOUS
<1>1. CASE Admit
  BY <1>1, AdmitKeeps
<1>2. CASE Refuse
  <2>1. /\ BTypeOK' /\ BurstBounded' /\ credit' = Available /\ updated' = now
        /\ admitted' = admitted
    BY <1>2, FullIsNat, AvailableBounds DEF Refuse, BucketInv, BTypeOK, BurstBounded, Full
  <2>2. ASSUME NEW i \in 1..Len(admitted)
        PROVE  (Spent(i) + credit <= Full + (updated - admitted[i]))'
    <3>1. Spent(i) + credit <= Full + (updated - admitted[i])
      BY DEF BucketInv, LevelInv
    <3>2. Spent(i) \in Int
      BY OneMore DEF BucketInv, BTypeOK, Spent
    <3>3. Spent(i)' = Spent(i) /\ admitted'[i] = admitted[i]
      BY <2>1 DEF Spent
    <3>4. /\ Full \in Nat /\ Available \in Int /\ credit \in Int
          /\ Available <= credit + (now - updated)
      BY FullIsNat, AvailableBounds DEF BucketInv, BTypeOK
    <3>5. updated \in Int /\ now \in Int /\ admitted[i] \in Int
      BY DEF BucketInv, BTypeOK
    <3>6. Spent(i) + Available <= Full + (now - admitted[i])
      BY <3>1, <3>2, <3>4, <3>5
    <3>7. Full' = Full
      BY DEF Full
    <3> QED BY <2>1, <3>3, <3>6, <3>7
  <2>3. RefillInv'
    <3>1. SUFFICES ASSUME Len(admitted) > 0
                   PROVE  /\ admitted[Len(admitted)] \in Nat
                          /\ admitted[Len(admitted)] <= now
                          /\ \/ Available = Full
                             \/ Available >= now - admitted[Len(admitted)]
      BY <2>1 DEF RefillInv, Full
    <3> DEFINE last == admitted[Len(admitted)]
    <3>2. /\ last \in Nat /\ last <= updated
          /\ credit = Full \/ credit >= updated - last
      BY <3>1 DEF BucketInv, RefillInv
    <3>3. /\ Full \in Nat /\ credit \in 0..Full /\ updated \in 0..now /\ now \in Nat
      BY FullIsNat DEF BucketInv, BTypeOK
    <3> HIDE DEF last, Full
    <3>4. last \in Nat /\ last <= now /\ (Available = Full \/ Available >= now - last)
      BY <3>2, <3>3 DEF Available, Capped
    <3> QED BY <3>4 DEF last
  <2> QED BY <2>1, <2>2, <2>3 DEF BucketInv, LevelInv
<1>3. CASE Restart
  BY <1>3, FullIsNat
     DEF Restart, BucketInv, BTypeOK, LevelInv, BurstBounded, RefillInv, Full
<1>4. CASE Advance \/ UNCHANGED bvars
  <2>1. /\ credit' = credit /\ updated' = updated /\ admitted' = admitted
        /\ now \in Nat => now' \in Nat /\ now <= now'
    BY <1>4 DEF Advance, bvars, BucketInv, BTypeOK
  <2>2. BTypeOK'
    BY <2>1 DEF BucketInv, BTypeOK, Full
  <2>3. LevelInv' /\ BurstBounded' /\ RefillInv'
    BY <2>1 DEF BucketInv, LevelInv, BurstBounded, RefillInv, Spent, Full
  <2> QED BY <2>2, <2>3 DEF BucketInv
<1> QED BY <1>1, <1>2, <1>3, <1>4 DEF BNext

-----------------------------------------------------------------------------

LEMMA BucketAlways == BucketAssumption /\ BSpec => []BucketInv
  BY BucketInit, BucketStep, PTL DEF BSpec

\* The bucket's level and times keep their ranges: the database's
\* CHECK(upload_tokens >= 0.0) never fails.
THEOREM BucketTypeCorrect == BucketAssumption /\ BSpec => []BTypeOK
<1>1. BucketInv => BTypeOK
  BY DEF BucketInv
<1> QED BY <1>1, BucketAlways, PTL

\* No interval admits more than a full bucket and its own refill.
THEOREM BurstsBounded == BucketAssumption /\ BSpec => []BurstBounded
<1>1. BucketInv => BurstBounded
  BY DEF BucketInv
<1> QED BY <1>1, BucketAlways, PTL

\* However often a caller was refused since its last admission, it is admitted
\* as soon as one token was refilled (AggregateRateLimiter::try_admit stores
\* the refilled level before it refuses).
THEOREM RefusalsCostNothing == BucketAssumption /\ BSpec => []RefusalsAreFree
<1>1. ASSUME BucketInv PROVE RefusalsAreFree
  <2> DEFINE last == admitted[Len(admitted)]
  <2>1. SUFFICES ASSUME Len(admitted) > 0, now >= last + Refill
                 PROVE  Available >= Refill
    BY DEF RefusalsAreFree
  <2>2. /\ last \in Nat /\ last <= updated
        /\ credit = Full \/ credit >= updated - last
    BY <1>1, <2>1 DEF BucketInv, RefillInv
  <2>3. /\ Full \in Nat /\ Refill \in Nat /\ Full >= Refill
        /\ credit \in 0..Full /\ updated \in 0..now /\ now \in Nat
    BY <1>1, FullIsNat DEF BucketInv, BTypeOK
  <2> HIDE DEF last, Full
  <2> QED BY <2>1, <2>2, <2>3 DEF Available, Capped
<1> QED BY <1>1, BucketAlways, PTL
=============================================================================
