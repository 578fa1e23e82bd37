------------------------------- MODULE Schedule -------------------------------
(***************************************************************************)
(* The scheduled snapshots (backup.rs run_scheduled_at): every six hours a *)
(* run sees to one daily and one monthly artifact of the current periods,  *)
(* as recorded in backup-state.json or as found in the queue.  The state   *)
(* file is also read and written by status(), which waits for the network  *)
(* in between, and the queue is emptied by whoever holds flush_lock.       *)
(*                                                                         *)
(* Only the two periods of the state file are modelled; whether a retry is *)
(* due is left open, since hours do not count here.  The business date     *)
(* does not run backwards.                                                 *)
(***************************************************************************)
EXTENDS Integers

CONSTANTS
  Actors,         \* of "manual" (backup_now), "status", "crash" (or a failed write)
  DaysPerMonth,
  MaxDay,         \* bound: the business date
  MaxMade         \* bound: artifacts made of one class and period

Class == {"daily", "monthly"}

ASSUME ScheduleAssumption ==
  /\ Actors \subseteq {"manual", "status", "crash"}
  /\ DaysPerMonth \in Nat \ {0} /\ MaxDay \in Nat \ {0} /\ MaxMade \in Nat \ {0}

VARIABLES
  day,
  state,    \* last_daily_period, last_monthly_period; 0 is None
  queue,    \* class and period of the scheduled artifacts in the queue
  made,     \* history: how many artifacts were made of each
  run,      \* run_scheduled_at, which holds snapshot_lock up to Persist
  holder,   \* of flush_lock
  seen,     \* what status() read
  lost      \* history: an artifact was made whose record was lost

svars == <<day, state, queue, made, run, holder, seen, lost>>

Period(c, d) == IF c = "daily" THEN d ELSE (d - 1) \div DaysPerMonth + 1

Key == [class : Class, period : 1..MaxDay]
KeyOf(c) == [class |-> c, period |-> Period(c, run.day)]

Idle == [pc |-> "idle", day |-> 1, state |-> [c \in Class |-> 0], have |-> {},
         created |-> FALSE]

\* The types, and that the flush of a run ends with the run (flush_existing_queue
\* holds flush_lock in a guard).
STypeOK ==
  /\ day \in 1..MaxDay
  /\ state \in [Class -> 0..MaxDay]
  /\ queue \subseteq Key
  /\ made \in [Key -> 0..MaxMade]
  /\ run \in [pc : {"idle", "list", "create", "record", "persist", "flush"}, day : 1..day,
              state : [Class -> 0..MaxDay], have : SUBSET Class, created : BOOLEAN]
  /\ holder \in {"none", "run", "manual", "status"}
  /\ seen \in [Class -> 0..MaxDay]
  /\ lost \in BOOLEAN
  /\ holder = "run" => run.pc = "flush"

SInit ==
  /\ day = 1
  /\ state = [c \in Class |-> 0]
  /\ queue = {}
  /\ made = [k \in Key |-> 0]
  /\ run = Idle
  /\ holder = "none"
  /\ seen = [c \in Class |-> 0]
  /\ lost = FALSE

-----------------------------------------------------------------------------
(* A scheduled run. *)

ReadState ==
  /\ run.pc = "idle"
  /\ run' = [Idle EXCEPT !.pc = "list", !.day = day, !.state = state]
  /\ UNCHANGED <<day, state, queue, made, holder, seen, lost>>

\* Mutant: only the queue tells what was made.
ListQueueAlone ==
  LET have == {c \in Class : KeyOf(c) \in queue}
  IN /\ run.pc = "list"
     /\ run' = [run EXCEPT !.have = have, !.pc = "create",
                           !.state = [c \in Class |-> IF c \in have THEN Period(c, run.day)
                                                      ELSE run.state[c]]]
     /\ UNCHANGED <<day, state, queue, made, holder, seen, lost>>

\* A class needs nothing if its period is recorded or its artifact is queued.
ListQueue ==
  LET have == {c \in Class : run.state[c] = Period(c, run.day) \/ KeyOf(c) \in queue}
  IN /\ run.pc = "list"
     /\ run' = [run EXCEPT !.have = have, !.pc = "create",
                           !.state = [c \in Class |-> IF c \in have THEN Period(c, run.day)
                                                      ELSE run.state[c]]]
     /\ UNCHANGED <<day, state, queue, made, holder, seen, lost>>

\* The daily artifact is made and recorded before the monthly one.
Current == IF "daily" \notin run.have THEN "daily" ELSE "monthly"

\* Mutant: the period is recorded when the snapshot is only begun.
CreateRecordsFirst ==
  /\ run.pc = "create" /\ run.have # Class
  /\ made[KeyOf(Current)] < MaxMade
  /\ IF state[Current] # Period(Current, run.day)
     THEN /\ state' = [state EXCEPT ![Current] = Period(Current, run.day)]
          /\ UNCHANGED <<made, queue, run>>
     ELSE /\ made' = [made EXCEPT ![KeyOf(Current)] = @ + 1]
          /\ queue' = queue \union {KeyOf(Current)}
          /\ run' = [run EXCEPT !.pc = "record"]
          /\ state' = state
  /\ UNCHANGED <<day, holder, seen, lost>>

Create ==
  /\ run.pc = "create" /\ run.have # Class
  /\ made[KeyOf(Current)] < MaxMade
  /\ made' = [made EXCEPT ![KeyOf(Current)] = @ + 1]
  /\ queue' = queue \union {KeyOf(Current)}
  /\ run' = [run EXCEPT !.pc = "record"]
  /\ UNCHANGED <<day, state, holder, seen, lost>>

\* record_snapshot reads and writes the file under state_lock.
Record ==
  /\ run.pc = "record"
  /\ state' = [state EXCEPT ![Current] = Period(Current, run.day)]
  /\ run' = [run EXCEPT !.pc = "create", !.have = @ \union {Current}, !.created = TRUE,
                        !.state[Current] = Period(Current, run.day)]
  /\ UNCHANGED <<day, queue, made, holder, seen, lost>>

\* A snapshot that fails ends the run, and so does a state file that cannot be
\* written.
RunFails ==
  /\ run.pc = "create" \/ (run.pc = "record" /\ "crash" \in Actors)
  /\ run.have # Class
  /\ run' = Idle
  /\ lost' = (lost \/ run.pc = "record")
  /\ UNCHANGED <<day, state, queue, made, holder, seen>>

\* Then the lock is given up, and the queue flushed if anything was made or a
\* retry is due.
Persist ==
  /\ run.pc = "create" /\ run.have = Class
  /\ state' = run.state
  /\ \/ run' = [run EXCEPT !.pc = "flush"]
     \/ ~run.created /\ run' = Idle
  /\ UNCHANGED <<day, queue, made, holder, seen, lost>>

-----------------------------------------------------------------------------
(* The holders of flush_lock. *)

StartFlush ==
  /\ holder = "none"
  /\ \/ "manual" \in Actors /\ holder' = "manual"
     \/ run.pc = "flush" /\ holder' = "run"
  /\ UNCHANGED <<day, state, queue, made, run, seen, lost>>

\* An artifact is uploaded or pruned.
Unqueue(k) ==
  /\ holder \in {"run", "manual"} /\ k \in queue
  /\ queue' = queue \ {k}
  /\ UNCHANGED <<day, state, made, run, holder, seen, lost>>

EndFlush ==
  /\ holder \in {"run", "manual"}
  /\ run' = IF holder = "run" THEN Idle ELSE run
  /\ holder' = "none"
  /\ UNCHANGED <<day, state, queue, made, seen, lost>>

StatusReads ==
  /\ "status" \in Actors
  /\ holder = "none"
  /\ holder' = "status" /\ seen' = state
  /\ UNCHANGED <<day, state, queue, made, run, lost>>

\* After the gateway answered, or refused the token, the whole state goes back.
StatusWrites ==
  /\ holder = "status"
  /\ state' \in {seen, state}
  /\ holder' = "none"
  /\ lost' = (lost \/ state' # state)
  /\ UNCHANGED <<day, queue, made, run, seen>>

\* Mutant: a lock that outlives its process.
CrashKeepsLock ==
  /\ "crash" \in Actors
  /\ run' = Idle
  /\ lost' = (lost \/ run.pc = "record")
  /\ UNCHANGED <<day, state, queue, made, holder, seen>>

Crash ==
  /\ "crash" \in Actors
  /\ run' = Idle /\ holder' = "none"
  /\ lost' = (lost \/ run.pc = "record")
  /\ UNCHANGED <<day, state, queue, made, seen>>

NextDay ==
  /\ day < MaxDay
  /\ day' = day + 1
  /\ UNCHANGED <<state, queue, made, run, holder, seen, lost>>

SNext ==
  \/ ReadState \/ ListQueue \/ Create \/ Record \/ RunFails \/ Persist
  \/ StartFlush \/ EndFlush \/ StatusReads \/ StatusWrites
  \/ \E k \in Key : Unqueue(k)
  \/ Crash \/ NextDay

SSpec == SInit /\ [][SNext]_svars

-----------------------------------------------------------------------------

\* A period that is recorded as done has its artifact, whatever was lost,
\* overwritten or interrupted: the scheduler may do too much, never too little.
NoPeriodSkipped ==
  \A c \in Class : state[c] # 0 => made[[class |-> c, period |-> state[c]]] > 0

\* No period gets a second artifact, also when the first one was uploaded long
\* ago ("require no duplicate artifacts", docs/OFFLINE_ACCEPTANCE_TEST.md:86-88).
OnePerPeriod == \A k \in Key : made[k] <= 1

\* Only a record that was lost makes a second artifact: neither the manual
\* flushes nor the failures before and after a record do.
OnlyLossDuplicates == OnePerPeriod \/ lost

===============================================================================
