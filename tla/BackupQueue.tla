----------------------------- MODULE BackupQueue ------------------------------
(***************************************************************************)
(* The desktop's queue of encrypted snapshots and the flush that moves it  *)
(* to the gateway (backup.rs).  One lane creates snapshots, under          *)
(* snapshot_lock; another prunes and flushes, under flush_lock, and is the *)
(* only one that binds, removes or sets aside an artifact.  The gateway is *)
(* the environment: its rows take the steps of GatewayContract.            *)
(*                                                                         *)
(* An artifact is a snapshot's pair of files, numbered in the order of     *)
(* created_at; its kind is in the name of the file and survives the loss   *)
(* of the sidecar.  Times, the state file and the periods of scheduled     *)
(* snapshots are in module Schedule.                                       *)
(***************************************************************************)
EXTENDS Integers, FiniteSets

CONSTANTS
  NumArtifacts,   \* bound: snapshots ever begun
  NumBackups,     \* bound: reservations ever made
  KindOf,         \* rolling, daily, monthly or local (recovery before an import)
  Limit,          \* pending_limit of a class, LOCAL_RECOVERY_LIMIT
  NumDevices,     \* bound: enrollments
  MaxLate,        \* bound: abandoned requests under way at the same time
  Faults          \* of "crash", "cipher", "sidecar", "revoke", "retire"

Artifact == 1..NumArtifacts
Backup == 1..NumBackups
Device == 1..NumDevices
Kind == {"rolling", "daily", "monthly", "local"}
NoBackup == 0
BadBackup == -1     \* a binding that is not a backup id any more
NoDevice == 0

ASSUME QueueAssumption ==
  /\ {NumArtifacts, NumBackups, NumDevices, MaxLate} \subseteq Nat
  /\ KindOf \in [Artifact -> Kind]
  /\ Limit \in [Kind -> Nat \ {0}]
  /\ Faults \subseteq {"crash", "cipher", "sidecar", "revoke", "retire"}

(* What the gateway identifies by size, hash, device and class. *)
Ciphertext == [artifact : Artifact, whole : BOOLEAN, device : Device]
NoCiphertext == [artifact |-> 0, whole |-> FALSE, device |-> NoDevice]
LaneOfCiphertext == [c \in Ciphertext |-> <<c.device, KindOf[c.artifact]>>]

VARIABLES
  cipher,     \* the .sqlite3.age file of each artifact
  sidecar,    \* its QueueMetadata: the hash it names and the binding
  making,     \* the artifact between its sidecar and its ciphertext, or 0
  flush,      \* the holder of flush_lock
  token,      \* the device of the token in the credential store
  hurt,       \* history: artifacts that were damaged on disk
  \* the gateway
  copy, art, acked,   \* GatewayContract
  published,  \* reserved backups whose object is on disk already
  enrolled,   \* devices ever enrolled
  revoked,
  late        \* requests nobody waits for that the gateway may still see

desktop == <<cipher, sidecar, making, flush, token, hurt>>
gateway == <<copy, art, acked, published, enrolled, revoked>>
vars == <<desktop, gateway, late>>

Gateway == INSTANCE GatewayContract
  WITH Artifact <- Ciphertext, Lane <- Device \X Kind, LaneOf <- LaneOfCiphertext,
       NoArtifact <- NoCiphertext

NoSidecar == [whole |-> FALSE, backup |-> NoBackup, readable |-> FALSE]
FreshSidecar(whole) == [whole |-> whole, backup |-> NoBackup, readable |-> TRUE]

Ops == {"reserve", "complete", "relay"}
Request == [op : Ops, text : Ciphertext, backup : Backup \union {NoBackup}]

\* A response: a reservation's id, or what completion_probe_response and
\* ensure_success make of the status code.
Answer ==
  [is : {"none", "completed", "absent", "unbound", "denied", "failed"}, backup : {NoBackup}]
    \union [is : {"reserved"}, backup : Backup]
Says(what) == [is |-> what, backup |-> NoBackup]

IdleFlush == [pc |-> "idle", uploads |-> FALSE, todo |-> {}, artifact |-> 0,
              backup |-> NoBackup, resets |-> 0, answer |-> Says("none")]

QTypeOK ==
  /\ cipher \in [Artifact -> {"none", "whole", "damaged", "aside", "gone"}]
  /\ sidecar \in [Artifact -> [whole : BOOLEAN, readable : BOOLEAN,
                               backup : Backup \union {NoBackup, BadBackup}]]
  /\ making \in Artifact \union {0}
  /\ flush \in [pc : {"idle", "prune", "pruned", "take", "aside", "tidy"} \union Ops,
                uploads : BOOLEAN, todo : SUBSET Artifact,
                artifact : Artifact \union {0}, backup : Backup \union {NoBackup},
                resets : 0..1, answer : Answer]
  /\ token \in Device \union {NoDevice}
  /\ hurt \subseteq Artifact
  /\ Gateway!CTypeOK
  /\ published \subseteq Backup
  /\ revoked \subseteq enrolled /\ enrolled \subseteq Device
  /\ late \subseteq Request

Init ==
  /\ cipher = [a \in Artifact |-> "none"]
  /\ sidecar = [a \in Artifact |-> NoSidecar]
  /\ making = 0
  /\ flush = IdleFlush
  /\ token = NoDevice
  /\ hurt = {}
  /\ Gateway!CInit
  /\ published = {} /\ enrolled = {} /\ revoked = {}
  /\ late = {}

-----------------------------------------------------------------------------
(* The files of the queue. *)

Queued == {a \in Artifact : cipher[a] \in {"whole", "damaged"}}
Local(a) == KindOf[a] = "local"
NewerOfKind(a, S) == {c \in S : c > a /\ KindOf[c] = KindOf[a]}
OlderOfKind(a, S) == {c \in S : c < a /\ KindOf[c] = KindOf[a]}
Oldest(S) == CHOOSE a \in S : \A c \in S : a <= c

\* list_queue: a sidecar that is missing or malformed is made anew from the
\* ciphertext as it is, without a binding.
Repaired ==
  [a \in Artifact |-> IF a \in Queued /\ ~sidecar[a].readable
                      THEN FreshSidecar(cipher[a] = "whole") ELSE sidecar[a]]

\* Mutant: local recovery artifacts are counted with the rolling ones.
VictimsWithLocal ==
  LET Class(a) == IF Local(a) THEN "rolling" ELSE KindOf[a]
  IN {a \in Queued :
        Cardinality({c \in Queued : c > a /\ Class(c) = Class(a)}) >= Limit[Class(a)]}

\* Mutant: one artifact less of each class is kept.
VictimsOneMore ==
  {a \in Queued : Cardinality(NewerOfKind(a, Queued)) >= Limit[KindOf[a]] - 1}

\* prune_queue: all but the newest of each class.
Victims == {a \in Queued : Cardinality(NewerOfKind(a, Queued)) >= Limit[KindOf[a]]}

Verified(a) == (cipher[a] = "whole") = sidecar[a].whole

\* Snapshots: the sidecar is there before the scanner can see the ciphertext.
BeginSnapshot ==
  LET free == {a \in Artifact : cipher[a] = "none" /\ ~sidecar[a].readable}
  IN /\ making = 0 /\ free # {}
     /\ making' = Oldest(free)
     /\ sidecar' = [sidecar EXCEPT ![making'] = FreshSidecar(TRUE)]
     /\ UNCHANGED <<cipher, flush, token, hurt, gateway, late>>

PublishSnapshot ==
  /\ making # 0
  /\ cipher' = [cipher EXCEPT ![making] = "whole"]
  /\ making' = 0
  /\ UNCHANGED <<sidecar, flush, token, hurt, gateway, late>>

FailSnapshot ==
  /\ making # 0
  /\ sidecar' = [sidecar EXCEPT ![making] = NoSidecar]
  /\ making' = 0
  /\ UNCHANGED <<cipher, flush, token, hurt, gateway, late>>

\* Damage on disk that is found by a later scan.
Damage(a) ==
  /\ flush.pc = "idle" /\ a \in Queued
  /\ \/ /\ "cipher" \in Faults
        /\ cipher' = [cipher EXCEPT ![a] = "damaged"] /\ sidecar' = sidecar
     \/ /\ "sidecar" \in Faults
        /\ sidecar' \in {[sidecar EXCEPT ![a] = NoSidecar],
                         [sidecar EXCEPT ![a].backup = BadBackup]}
        /\ cipher' = cipher
  /\ hurt' = hurt \union {a}
  /\ UNCHANGED <<making, flush, token, gateway, late>>

-----------------------------------------------------------------------------
(* The gateway, as far as the desktop can tell. *)

Bound(q) == /\ copy[q.backup] \in {"reserved", "stored"}
            /\ art[q.backup].device = q.text.device

GatewayIdle == UNCHANGED gateway

Reserve(q, ans) ==
  /\ q.op = "reserve" /\ ans.is = "reserved"
  /\ \/ /\ Gateway!Reserved(ans.backup) /\ art[ans.backup] = q.text
        /\ GatewayIdle
     \/ /\ \A b \in Backup : copy[b] = "none" => ans.backup <= b
        /\ Gateway!OpenReservation(q.text, ans.backup)
        /\ UNCHANGED <<published, enrolled, revoked>>

Complete(q, ans) ==
  /\ q.op \in {"complete", "relay"} /\ Bound(q)
  /\ ans = Says("completed") /\ acked' = acked \union {q.backup}
  /\ \/ /\ Gateway!Acknowledge(q.backup)
        /\ published' = published
     \/ /\ q.backup \in published \/ (q.op = "relay" /\ art[q.backup] = q.text)
        /\ Gateway!StoreBackup(q.backup)
        /\ published' = published \ {q.backup}
  /\ UNCHANGED <<enrolled, revoked>>

\* The relay dies between the hard link and its commit.
PublishOnly(q, ans) ==
  /\ q.op = "relay" /\ Bound(q) /\ Gateway!Reserved(q.backup) /\ art[q.backup] = q.text
  /\ ans = Says("failed")
  /\ published' = published \union {q.backup}
  /\ UNCHANGED <<copy, art, acked, enrolled, revoked>>

Absent(q, ans) ==
  /\ q.op = "complete" /\ Bound(q)
  /\ Gateway!Reserved(q.backup) /\ q.backup \notin published
  /\ ans = Says("absent")
  /\ GatewayIdle

Unbound(q, ans) ==
  /\ q.op \in {"complete", "relay"} /\ ~Bound(q)
  /\ ans = Says("unbound")
  /\ GatewayIdle

\* Admission, overload, storage errors: nothing happens.
Fail(q, ans) == ans = Says("failed") /\ GatewayIdle

Handle(q, ans) ==
  IF q.text.device \in revoked
  THEN ans = Says("denied") /\ GatewayIdle
  ELSE \/ Reserve(q, ans) \/ Complete(q, ans) \/ PublishOnly(q, ans)
       \/ Absent(q, ans) \/ Unbound(q, ans) \/ Fail(q, ans)

\* Expired reservations and old backups are retired one by one.
RetireBackup(b) ==
  /\ "retire" \in Faults
  /\ Gateway!Retire({b})
  /\ published' = published \ {b}
  /\ UNCHANGED <<enrolled, revoked, desktop, late>>

Revoke(d) ==
  /\ "revoke" \in Faults
  /\ d \in enrolled \ revoked
  /\ revoked' = revoked \union {d}
  /\ UNCHANGED <<copy, art, acked, published, enrolled, desktop, late>>

-----------------------------------------------------------------------------
(* The flush lane. *)

Text(a) == [artifact |-> a, whole |-> sidecar[a].whole, device |-> token]
Waiting == flush.pc \in Ops
CurrentRequest ==
  [op |-> flush.pc, text |-> Text(flush.artifact), backup |-> flush.backup]

\* A flush, or only a prune when nobody holds the lock (before an update or a
\* destructive import).
StartFlush(uploads) ==
  /\ flush.pc = "idle"
  /\ sidecar' = Repaired
  /\ flush' = [IdleFlush EXCEPT !.pc = "prune", !.uploads = uploads, !.todo = Victims]
  /\ UNCHANGED <<cipher, making, token, hurt, gateway, late>>

Prune(a) ==
  /\ flush.pc = "prune" /\ a \in flush.todo /\ OlderOfKind(a, flush.todo) = {}
  /\ cipher' = [cipher EXCEPT ![a] = "gone"]
  /\ flush' = [flush EXCEPT !.pc = "pruned", !.artifact = a, !.todo = @ \ {a}]
  /\ UNCHANGED <<sidecar, making, token, hurt, gateway, late>>

StartUploads ==
  /\ flush.pc = "prune" /\ flush.todo = {}
  /\ IF flush.uploads /\ token # NoDevice
     THEN /\ sidecar' = Repaired
          /\ flush' = [flush EXCEPT !.pc = "take", !.todo = {a \in Queued : ~Local(a)}]
     ELSE flush' = IdleFlush /\ sidecar' = sidecar
  /\ UNCHANGED <<cipher, making, token, hurt, gateway, late>>

SetAside ==
  LET a == Oldest(flush.todo)
  IN /\ flush.pc = "take" /\ flush.todo # {} /\ ~Verified(a)
     /\ cipher' = [cipher EXCEPT ![a] = "aside"]
     /\ flush' = [flush EXCEPT !.pc = "aside", !.artifact = a, !.todo = @ \ {a}]
     /\ UNCHANGED <<sidecar, making, token, hurt, gateway, late>>

\* Mutant: a bound artifact is taken to be under way already.
TakeUnbound ==
  LET a == Oldest(flush.todo)
  IN /\ flush.pc = "take" /\ flush.todo # {} /\ Verified(a)
     /\ flush' = IF sidecar[a].backup \in Backup THEN [flush EXCEPT !.todo = @ \ {a}]
                 ELSE [flush EXCEPT !.pc = "reserve", !.artifact = a, !.backup = NoBackup,
                                    !.resets = 0, !.todo = @ \ {a}]
     /\ UNCHANGED <<cipher, sidecar, making, token, hurt, gateway, late>>

Take ==
  LET a == Oldest(flush.todo)
      b == IF sidecar[a].backup = BadBackup THEN NoBackup ELSE sidecar[a].backup
  IN /\ flush.pc = "take" /\ flush.todo # {} /\ Verified(a)
     /\ sidecar' = [sidecar EXCEPT ![a].backup = b]
     /\ flush' = [flush EXCEPT !.pc = IF b = NoBackup THEN "reserve" ELSE "complete",
                               !.artifact = a, !.backup = b, !.resets = 0,
                               !.todo = @ \ {a}]
     /\ UNCHANGED <<cipher, making, token, hurt, gateway, late>>

FinishFlush ==
  /\ flush.pc = "take" /\ flush.todo = {}
  /\ flush' = IdleFlush
  /\ UNCHANGED <<cipher, sidecar, making, token, hurt, gateway, late>>

\* The binding is durable before a byte of the ciphertext is sent.
Bind ==
  /\ flush.pc = "reserve" /\ flush.answer.is = "reserved"
  /\ sidecar' = [sidecar EXCEPT ![flush.artifact].backup = flush.answer.backup]
  /\ flush' = [flush EXCEPT !.pc = "complete", !.backup = flush.answer.backup,
                            !.answer = Says("none")]
  /\ UNCHANGED <<cipher, making, token, hurt, gateway, late>>

Relay ==
  /\ flush.pc = "complete" /\ flush.answer.is = "absent"
  /\ flush' = [flush EXCEPT !.pc = "relay", !.answer = Says("none")]
  /\ UNCHANGED <<cipher, sidecar, making, token, hurt, gateway, late>>

\* Mutant: an object that is not there counts as one that is.
UnqueueOnAnyAnswer ==
  /\ Waiting /\ flush.answer.is \in {"completed", "absent"}
  /\ cipher' = [cipher EXCEPT ![flush.artifact] = "gone"]
  /\ flush' = [flush EXCEPT !.pc = "tidy", !.answer = Says("none")]
  /\ UNCHANGED <<sidecar, making, token, hurt, gateway, late>>

\* Mutant: the sidecar is removed before the ciphertext.
UnqueueSidecarFirst ==
  /\ Waiting /\ flush.answer.is = "completed"
  /\ IF sidecar[flush.artifact].readable
     THEN /\ sidecar' = [sidecar EXCEPT ![flush.artifact] = NoSidecar]
          /\ UNCHANGED <<cipher, flush>>
     ELSE /\ cipher' = [cipher EXCEPT ![flush.artifact] = "gone"]
          /\ flush' = [flush EXCEPT !.pc = "tidy", !.answer = Says("none")]
          /\ UNCHANGED sidecar
  /\ UNCHANGED <<making, token, hurt, gateway, late>>

\* remove_queued_backup, first the ciphertext.
Unqueue ==
  /\ Waiting /\ flush.answer.is = "completed"
  /\ cipher' = [cipher EXCEPT ![flush.artifact] = "gone"]
  /\ flush' = [flush EXCEPT !.pc = "tidy", !.answer = Says("none")]
  /\ UNCHANGED <<sidecar, making, token, hurt, gateway, late>>

\* The sidecar follows its ciphertext, out of the queue or into quarantine.
Tidy ==
  /\ flush.pc \in {"pruned", "aside", "tidy"}
  /\ sidecar' = [sidecar EXCEPT ![flush.artifact] = NoSidecar]
  /\ flush' = [flush EXCEPT !.pc = IF @ = "pruned" THEN "prune" ELSE "take",
                            !.artifact = 0, !.backup = NoBackup]
  /\ UNCHANGED <<cipher, making, token, hurt, gateway, late>>

\* Mutant: one flush reserves anew as often as it is told.
UnbindWithoutLimit ==
  /\ Waiting /\ flush.answer.is = "unbound"
  /\ sidecar' = [sidecar EXCEPT ![flush.artifact].backup = NoBackup]
  /\ flush' = [flush EXCEPT !.pc = "reserve", !.backup = NoBackup, !.resets = @ + 1,
                            !.answer = Says("none")]
  /\ UNCHANGED <<cipher, making, token, hurt, gateway, late>>

\* The gateway does not know the binding (any more): reserve once again.
Unbind ==
  /\ Waiting /\ flush.answer.is = "unbound"
  /\ sidecar' = [sidecar EXCEPT ![flush.artifact].backup = NoBackup]
  /\ flush' = IF flush.resets = 1 THEN IdleFlush
              ELSE [flush EXCEPT !.pc = "reserve", !.backup = NoBackup, !.resets = 1,
                                 !.answer = Says("none")]
  /\ UNCHANGED <<cipher, making, token, hurt, gateway, late>>

Abort ==
  /\ Waiting /\ flush.answer.is = "failed"
  /\ flush' = IdleFlush
  /\ UNCHANGED <<cipher, sidecar, making, token, hurt, gateway, late>>

\* 401 or 403, to the flush or to status(): the token is worthless.
DropToken ==
  /\ \/ Waiting /\ flush.answer.is = "denied"
     \/ flush.pc = "idle" /\ token \in revoked
  /\ token' = NoDevice
  /\ flush' = IdleFlush
  /\ UNCHANGED <<cipher, sidecar, making, hurt, gateway, late>>

\* enroll holds flush_lock; a lost response leaves a device without a desktop.
Enroll(d) ==
  /\ flush.pc = "idle"
  /\ d \notin enrolled /\ \A c \in Device : c < d => c \in enrolled
  /\ enrolled' = enrolled \union {d}
  /\ token' \in {d, token}
  /\ UNCHANGED <<cipher, sidecar, making, flush, hurt, copy, art, acked, published,
                 revoked, late>>

-----------------------------------------------------------------------------
(* Requests, time-outs and crashes. *)

ServeFlush ==
  /\ Waiting /\ flush.answer.is = "none"
  /\ \E ans \in Answer : Handle(CurrentRequest, ans)
                         /\ flush' = [flush EXCEPT !.answer = ans]
  /\ UNCHANGED <<cipher, sidecar, making, token, hurt, late>>

\* A request that was given up reaches the gateway after all, or never.
ServeLate(q) ==
  /\ late' = late \ {q}
  /\ GatewayIdle \/ \E ans \in Answer : Handle(q, ans)
  /\ UNCHANGED desktop

Abandon ==
  \/ late' = late
  \/ /\ Waiting /\ flush.answer.is = "none" /\ Cardinality(late) < MaxLate
     /\ late' = late \union {CurrentRequest}

\* A time-out or a connection error, before or after the gateway answered.
GiveUp ==
  /\ Waiting
  /\ Abandon
  /\ flush' = IdleFlush
  /\ UNCHANGED <<cipher, sidecar, making, token, hurt, gateway>>

Crash ==
  /\ "crash" \in Faults
  /\ flush.pc # "idle" \/ making # 0
  /\ Abandon
  /\ flush' = IdleFlush /\ making' = 0
  /\ UNCHANGED <<cipher, sidecar, token, hurt, gateway>>

FlushStep ==
  \/ \E a \in Artifact : Prune(a)
  \/ StartUploads \/ SetAside \/ Take \/ FinishFlush \/ Bind \/ Relay \/ Unqueue
  \/ Tidy \/ Unbind \/ Abort

Next ==
  \/ BeginSnapshot \/ PublishSnapshot \/ FailSnapshot
  \/ \E uploads \in BOOLEAN : StartFlush(uploads)
  \/ FlushStep \/ DropToken
  \/ \E d \in Device : Enroll(d) \/ Revoke(d)
  \/ \E a \in Artifact : Damage(a)
  \/ \E b \in Backup : RetireBackup(b)
  \/ \E q \in late : ServeLate(q)
  \/ ServeFlush \/ GiveUp \/ Crash

Spec == Init /\ [][Next]_vars

\* The flush lane never waits for anything but a response, every request ends,
\* and the scheduler asks for flush_lock, which is fair, every six hours.
Fairness ==
  /\ WF_vars(FlushStep) /\ WF_vars(ServeFlush) /\ WF_vars(DropToken)
  /\ SF_vars(StartFlush(TRUE))

FairSpec == Spec /\ Fairness

-----------------------------------------------------------------------------

\* However responses are lost, delayed or repeated, the gateway never stores an
\* intact artifact twice for the same device (docs/BACKUP_RESTORE_RUNBOOK.md:58-64).
NoSecondObject ==
  \A b, c \in Backup :
    /\ Gateway!Stored(b) /\ Gateway!Stored(c) /\ art[b] = art[c]
    /\ art[b].artifact \notin hurt
    => b = c

\* Once a snapshot of a class was made, one of that class is intact in the
\* queue or stored by the gateway, whatever is pruned, retired, set aside,
\* revoked or interrupted; unless as many were damaged on disk as the queue
\* keeps of the class, or a damaged one was sent: with its sidecar an artifact
\* loses the hash that would tell (reconstruct_queue_metadata).
SomethingRecoverable ==
  (\A b \in Backup : copy[b] # "none" => art[b].whole) =>
  \A k \in Kind \ {"local"} :
    LET made == {a \in Artifact : KindOf[a] = k /\ cipher[a] # "none"}
    IN Cardinality(made \intersect hurt) < Limit[k] /\ made # {} /\ ~(made \subseteq hurt) =>
         \/ \E a \in made : cipher[a] = "whole"
         \/ \E b \in Backup :
              Gateway!Stored(b) /\ art[b].whole /\ KindOf[art[b].artifact] = k

Outage == GiveUp \/ Crash \/ (ServeFlush /\ flush'.answer.is = "failed")

Settled == /\ <>[][~Outage]_vars
           /\ <>[](token # NoDevice /\ token \notin revoked)

\* With a valid token and a gateway that answers, every intact artifact leaves
\* the queue in the end, whatever reservations and devices it was bound to
\* before (docs/OFFLINE_ACCEPTANCE_TEST.md:67-71).
QueueDrains ==
  Settled => \A a \in Artifact :
    cipher[a] = "whole" /\ ~Local(a) ~> cipher[a] # "whole"

==============================================================================
