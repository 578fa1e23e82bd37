--------------------------- MODULE BackupQueueProofs ---------------------------
(***************************************************************************)
(* Proofs about BackupQueue for any number of artifacts, reservations,     *)
(* devices and late requests: its types, that the gateway never stores an  *)
(* intact artifact twice, and that the queue implements OffsiteBackup.     *)
(*                                                                         *)
(* The argument turns on the backups that may still be stored.  A          *)
(* reservation becomes one when the desktop binds it, and nobody asks for  *)
(* the completion of a reservation that was never bound.  Of the           *)
(* ciphertext of a queued artifact only its own binding is storable; it is *)
(* dropped only after the gateway said that it is bound to nothing, and    *)
(* only an unbound artifact is bound.                                      *)
(***************************************************************************)
EXTENDS QueueRefinement, FiniteSetTheorems, WellFoundedInduction, TLAPS

\* Somebody may ask for the completion of b, or its object is there already.
Named(b) == \/ b \in published
            \/ \E a \in Artifact : sidecar[a].backup = b
            \/ \E q \in late : q.op # "reserve" /\ q.backup = b

\* b is stored, or may be without a new binding.
Storable(b) == Gateway!Stored(b) \/ (Gateway!Reserved(b) /\ Named(b))

\* The files agree with each other and with the gateway.
FilesInv ==
  /\ making # 0 => cipher[making] = "none" /\ sidecar[making] = FreshSidecar(TRUE)
  /\ \A a \in Artifact : cipher[a] = "none" => sidecar[a].backup = NoBackup
  /\ \A a \in Queued \ hurt : cipher[a] = "whole" /\ sidecar[a].whole /\ sidecar[a].readable
                              /\ sidecar[a].backup # BadBackup
  /\ \A a \in Artifact, b \in Backup : sidecar[a].backup = b =>
       copy[b] # "none" /\ art[b].artifact = a /\ art[b].whole = sidecar[a].whole

\* What the flush remembers of the files, and what an answer means.
FlushInv ==
  /\ flush.todo \subseteq Queued /\ flush.artifact \notin flush.todo
  /\ flush.pc \in {"prune", "pruned"} =>
       \A a \in flush.todo : Cardinality(NewerOfKind(a, Queued)) >= Limit[KindOf[a]]
  /\ flush.pc \in {"take", "aside", "tidy"} \union Ops =>
       token # NoDevice /\ \A a \in flush.todo : ~Local(a)
  /\ flush.pc \in {"pruned", "aside", "tidy"} =>
       flush.artifact \in Artifact /\ cipher[flush.artifact] \in {"gone", "aside"}
  /\ flush.pc \in {"prune", "take"} => flush.artifact = 0
  /\ ~Waiting => flush.answer = Says("none")
  /\ Waiting =>
       /\ flush.artifact \in Queued /\ ~Local(flush.artifact)
       /\ flush.backup = sidecar[flush.artifact].backup /\ flush.backup # BadBackup
       /\ flush.pc = "reserve" <=> flush.backup = NoBackup
       /\ flush.answer.is = "reserved" =>
            /\ flush.pc = "reserve" /\ copy[flush.answer.backup] # "none"
            /\ art[flush.answer.backup] = Text(flush.artifact)
       /\ flush.answer.is = "completed" => flush.backup \in acked
       /\ flush.answer.is = "unbound" /\ flush.artifact \notin hurt =>
            \A b \in Backup : Storable(b) => art[b] # Text(flush.artifact)

\* Reservations and late requests are about artifacts that exist.
GatewayInv ==
  /\ token \in enrolled \union {NoDevice}
  /\ acked \union published \subseteq {b \in Backup : copy[b] # "none"}
  /\ \A b \in Backup : copy[b] # "none" =>
       /\ art[b] \in Ciphertext /\ art[b].device \in enrolled
       /\ cipher[art[b].artifact] # "none" /\ ~Local(art[b].artifact)
  /\ \A q \in late :
       /\ q.text.device \in enrolled
       /\ cipher[q.text.artifact] # "none" /\ ~Local(q.text.artifact)
       /\ q.op # "reserve" => q.backup \in Backup /\ copy[q.backup] # "none"

\* The storable backups of an intact artifact are its binding, or one.
UniqueInv ==
  /\ \A a \in Queued \ hurt, b \in Backup :
       Storable(b) /\ art[b] = Text(a) => sidecar[a].backup = b
  /\ \A b, c \in Backup :
       /\ Storable(b) /\ Storable(c) /\ art[b] = art[c]
       /\ art[b].artifact \notin hurt
       => b = c

Sidecar == [whole : BOOLEAN, readable : BOOLEAN, backup : Backup \union {NoBackup, BadBackup}]
Pc == {"idle", "prune", "pruned", "take", "aside", "tidy"} \union Ops
Flush == [pc : Pc, uploads : BOOLEAN, todo : SUBSET Artifact,
          artifact : Artifact \union {0}, backup : Backup \union {NoBackup},
          resets : 0..1, answer : Answer]

TypeInv ==
  /\ cipher \in [Artifact -> {"none", "whole", "damaged", "aside", "gone"}]
  /\ sidecar \in [Artifact -> Sidecar]
  /\ making \in Artifact \union {0}
  /\ flush \in Flush
  /\ token \in Device \union {NoDevice}
  /\ hurt \subseteq Artifact
  /\ copy \in [Backup -> {"none", "reserved", "stored", "gone"}]
  /\ art \in [Backup -> Ciphertext \union {NoCiphertext}]
  /\ acked \subseteq Backup /\ published \subseteq Backup
  /\ revoked \subseteq enrolled /\ enrolled \subseteq Device
  /\ late \subseteq Request

\* The type invariant, with the records of the state folded.
LEMMA TypeInvIs == TypeInv <=> QTypeOK
BY DEF TypeInv, QTypeOK, Sidecar, Flush, Pc, Gateway!CTypeOK

\* The numbers of artifacts, backups and devices, and the marks for none.
LEMMA Numbers ==
  /\ Artifact \subseteq Nat /\ Backup \subseteq Nat /\ Device \subseteq Nat
  /\ 0 \notin Artifact /\ NoBackup \notin Backup /\ BadBackup \notin Backup
  /\ NoDevice \notin Device /\ NoBackup # BadBackup
BY QueueAssumption DEF Artifact, Backup, Device, NoBackup, BadBackup, NoDevice

\* A set of numbers has a smallest one: the initial segments are ordered by
\* inclusion.
LEMMA OldestIs ==
  ASSUME NEW S \in SUBSET Artifact, S # {}
  PROVE  Oldest(S) \in S /\ \A c \in S : Oldest(S) <= c
<1> DEFINE T == {1..c : c \in S}
<1>1. S \subseteq Nat
  BY Numbers
<1>2. T # {} /\ T \subseteq FiniteSubsetsOf(Nat)
  <2>1. \A c \in S : IsFiniteSet(1..c) /\ 1..c \subseteq Nat
    BY <1>1, FS_Interval
  <2> QED BY <2>1 DEF FiniteSubsetsOf
<1>3. PICK t \in T : \A u \in T : ~(<<u, t>> \in StrictSubsetOrdering(Nat))
  <2> HIDE DEF T
  <2> QED BY <1>2, FS_StrictSubsetOrderingWellFounded, WFMin, Zenon
<1>4. PICK a \in S : t = 1..a
  BY <1>3
<1>5. \A c \in S : a <= c
  <2> SUFFICES ASSUME NEW c \in S, ~(a <= c) PROVE FALSE
    OBVIOUS
  <2>1. a \in Nat /\ c \in Nat /\ c < a
    BY <1>1
  <2>2. 1..c \subseteq 1..a /\ 1..c # 1..a
    BY <2>1
  <2>3. 1..c \subseteq Nat /\ 1..a \subseteq Nat
    BY <2>1
  <2>4. <<1..c, 1..a>> \in StrictSubsetOrdering(Nat)
    BY <2>2, <2>3 DEF StrictSubsetOrdering
  <2> QED BY <1>3, <1>4, <2>4
<1> QED BY <1>5 DEF Oldest

LEMMA Answers ==
  /\ \A b \in Backup : [is |-> "reserved", backup |-> b] \in Answer
  /\ \A what \in {"none", "completed", "absent", "unbound", "denied", "failed"} :
        Says(what) \in Answer /\ Says(what).is = what
  /\ \A ans \in Answer : ans.is = "reserved" => ans.backup \in Backup
BY DEF Answer, Says

LEMMA Texts ==
  ASSUME NEW a \in Artifact, NEW w \in BOOLEAN, NEW d \in Device
  PROVE  [artifact |-> a, whole |-> w, device |-> d] \in Ciphertext
BY DEF Ciphertext

LEMMA FlushFields ==
  ASSUME flush \in Flush
  PROVE  /\ flush.pc \in Pc /\ flush.uploads \in BOOLEAN /\ flush.todo \subseteq Artifact
         /\ flush.artifact \in Artifact \union {0} /\ flush.backup \in Backup \union {NoBackup}
         /\ flush.resets \in 0..1 /\ flush.answer \in Answer
         /\ IdleFlush \in Flush
BY Answers DEF Flush, IdleFlush, Pc

LEMMA FlushSteps ==
  ASSUME NEW f \in Flush
  PROVE  /\ \A w \in Answer : [f EXCEPT !.answer = w] \in Flush
         /\ \A p \in Pc, u \in BOOLEAN, t \in SUBSET Artifact :
              [f EXCEPT !.pc = p, !.uploads = u, !.todo = t] \in Flush
         /\ \A p \in Pc, t \in SUBSET Artifact, a \in Artifact \union {0} :
              [f EXCEPT !.pc = p, !.artifact = a, !.todo = t] \in Flush
         /\ \A p \in Pc, t \in SUBSET Artifact : [f EXCEPT !.pc = p, !.todo = t] \in Flush
         /\ \A p \in Pc, a \in Artifact \union {0}, b \in Backup \union {NoBackup}, r \in 0..1,
               t \in SUBSET Artifact :
              [f EXCEPT !.pc = p, !.artifact = a, !.backup = b, !.resets = r, !.todo = t] \in Flush
         /\ \A p \in Pc, b \in Backup \union {NoBackup}, w \in Answer :
              [f EXCEPT !.pc = p, !.backup = b, !.answer = w] \in Flush
         /\ \A p \in Pc, w \in Answer : [f EXCEPT !.pc = p, !.answer = w] \in Flush
         /\ \A p \in Pc, a \in Artifact \union {0}, b \in Backup \union {NoBackup} :
              [f EXCEPT !.pc = p, !.artifact = a, !.backup = b] \in Flush
         /\ \A p \in Pc, b \in Backup \union {NoBackup}, r \in 0..1, w \in Answer :
              [f EXCEPT !.pc = p, !.backup = b, !.resets = r, !.answer = w] \in Flush
BY DEF Flush

-----------------------------------------------------------------------------
(* Types. *)

LEMMA FlushTypes ==
  ASSUME TypeInv
  PROVE  /\ flush \in Flush /\ IdleFlush \in Flush
         /\ flush.pc \in Pc /\ flush.uploads \in BOOLEAN /\ flush.todo \subseteq Artifact
         /\ flush.artifact \in Artifact \union {0} /\ flush.backup \in Backup \union {NoBackup}
         /\ flush.resets \in 0..1 /\ flush.answer \in Answer
         /\ flush.answer.is = "reserved" => flush.answer.backup \in Backup
         /\ Queued \subseteq Artifact /\ Victims \subseteq Artifact
BY FlushFields, Answers DEF TypeInv, Queued, Victims

LEMMA SidecarTypes ==
  /\ NoSidecar \in Sidecar /\ \A w \in BOOLEAN : FreshSidecar(w) \in Sidecar
  /\ \A s \in Sidecar, b \in Backup \union {NoBackup, BadBackup} :
       [s EXCEPT !.backup = b] \in Sidecar
  /\ \A s \in Sidecar : /\ s.whole \in BOOLEAN /\ s.readable \in BOOLEAN
                        /\ s.backup \in Backup \union {NoBackup, BadBackup}
BY DEF NoSidecar, FreshSidecar, Sidecar

LEMMA RepairedTypes == ASSUME TypeInv PROVE Repaired \in [Artifact -> Sidecar]
BY SidecarTypes DEF TypeInv, Repaired

\* Text(a), and what is sent of it.
LEMMA RequestTypes ==
  ASSUME TypeInv, Waiting, token # NoDevice, flush.artifact \in Artifact
  PROVE  /\ Text(flush.artifact) \in Ciphertext
         /\ CurrentRequest \in Request /\ CurrentRequest.text = Text(flush.artifact)
         /\ CurrentRequest.op = flush.pc /\ CurrentRequest.backup = flush.backup
<1>1. /\ sidecar[flush.artifact] \in Sidecar /\ token \in Device
      /\ flush.backup \in Backup \union {NoBackup} /\ flush.pc \in Ops
  BY FlushTypes DEF TypeInv, Waiting
<1>2. Text(flush.artifact) \in Ciphertext
  BY <1>1, Texts, SidecarTypes DEF Text
<1> QED BY <1>1, <1>2 DEF CurrentRequest, Request

LEMMA RequestFields ==
  ASSUME NEW q \in Request
  PROVE  /\ q.op \in Ops /\ q.text \in Ciphertext /\ q.backup \in Backup \union {NoBackup}
         /\ q.text.artifact \in Artifact /\ q.text.whole \in BOOLEAN /\ q.text.device \in Device
BY DEF Request, Ciphertext

\* What the gateway does to itself: nothing, a new reservation, an object on
\* disk, or a completion.
LEMMA HandleIs ==
  ASSUME NEW q, NEW ans, Handle(q, ans)
  PROVE  /\ UNCHANGED <<enrolled, revoked>>
         /\ \/ GatewayIdle
            \/ /\ q.op = "reserve" /\ ans.is = "reserved"
               /\ Gateway!OpenReservation(q.text, ans.backup) /\ published' = published
            \/ /\ q.op # "reserve" /\ ans.is \in {"completed", "failed"} /\ Bound(q)
               /\ art' = art
               /\ acked' \in {acked, acked \union {q.backup}}
               /\ \/ copy' = copy
                  \/ copy' = [copy EXCEPT ![q.backup] = "stored"]
               /\ published' \subseteq published \union {q.backup}
               /\ published' # published => Gateway!Reserved(q.backup)
         /\ ans.is = "completed" => q.op # "reserve" /\ q.backup \in acked'
         /\ ans.is = "reserved" =>
              /\ q.op = "reserve"
              /\ \/ copy[ans.backup] = "reserved" /\ art[ans.backup] = q.text /\ GatewayIdle
                 \/ Gateway!OpenReservation(q.text, ans.backup)
         /\ ans.is = "unbound" => q.op # "reserve" /\ ~Bound(q) /\ GatewayIdle
<1> USE DEF Says, GatewayIdle, gateway
<1>1. CASE q.text.device \in revoked
  BY <1>1 DEF Handle
<1>2. CASE Reserve(q, ans)
  BY <1>2 DEF Reserve, Gateway!Reserved, Gateway!OpenReservation
<1>3. CASE Complete(q, ans)
  BY <1>3 DEF Complete, Gateway!Reserved, Gateway!Acknowledge, Gateway!StoreBackup
<1>4. CASE PublishOnly(q, ans)
  BY <1>4 DEF PublishOnly, Gateway!Reserved
<1>5. CASE Absent(q, ans) \/ Unbound(q, ans) \/ Fail(q, ans)
  BY <1>5 DEF Absent, Unbound, Fail
<1> QED BY <1>1, <1>2, <1>3, <1>4, <1>5 DEF Handle

GatewayTypes ==
  /\ copy \in [Backup -> {"none", "reserved", "stored", "gone"}]
  /\ art \in [Backup -> Ciphertext \union {NoCiphertext}]
  /\ acked \subseteq Backup /\ published \subseteq Backup
  /\ revoked \subseteq enrolled /\ enrolled \subseteq Device

LEMMA HandleTypes ==
  ASSUME TypeInv, NEW q \in Request, q.op # "reserve" => q.backup \in Backup,
         NEW ans \in Answer, Handle(q, ans)
  PROVE  GatewayTypes'
<1>1. q.text \in Ciphertext /\ (ans.is = "reserved" => ans.backup \in Backup)
  BY RequestFields, Answers
<1>2. GatewayTypes
  BY DEF TypeInv, GatewayTypes
<1>3. CASE GatewayIdle
  BY <1>2, <1>3 DEF GatewayIdle, gateway, GatewayTypes
<1>4. CASE /\ q.op = "reserve" /\ ans.is = "reserved"
           /\ Gateway!OpenReservation(q.text, ans.backup) /\ published' = published
  BY <1>1, <1>2, <1>4, HandleIs DEF GatewayTypes, Gateway!OpenReservation
<1>5. CASE /\ q.op # "reserve" /\ ans.is \in {"completed", "failed"} /\ Bound(q)
           /\ art' = art
           /\ acked' \in {acked, acked \union {q.backup}}
           /\ \/ copy' = copy
              \/ copy' = [copy EXCEPT ![q.backup] = "stored"]
           /\ published' \subseteq published \union {q.backup}
           /\ published' # published => Gateway!Reserved(q.backup)
  <2>1. q.backup \in Backup /\ UNCHANGED <<enrolled, revoked>>
    BY <1>5, HandleIs
  <2> QED BY <1>2, <1>5, <2>1 DEF GatewayTypes
<1> QED BY <1>3, <1>4, <1>5, HandleIs

-----------------------------------------------------------------------------
(* What keeps each part of the invariant. *)

QInv == TypeInv /\ FilesInv /\ FlushInv /\ GatewayInv /\ UniqueInv

LEMMA GatewayKept ==
  ASSUME GatewayInv, UNCHANGED <<copy, art, acked, published, enrolled>>,
         \A a \in Artifact : cipher[a] # "none" => cipher'[a] # "none",
         \A b \in Backup : copy[b] # "none" => art[b].artifact \in Artifact,
         token' \in enrolled \union {NoDevice}, late \subseteq Request,
         \A q \in late' \ late :
           /\ q.text.device \in enrolled
           /\ cipher'[q.text.artifact] # "none" /\ ~Local(q.text.artifact)
           /\ q.op # "reserve" => q.backup \in Backup /\ copy[q.backup] # "none"
  PROVE  GatewayInv'
<1>1. \A q \in late : q.text.artifact \in Artifact
  BY RequestFields
<1> QED BY <1>1 DEF GatewayInv, Local

\* A binding that is dropped, and a request that is repeated, store nothing new.
LEMMA StorableKept ==
  ASSUME UNCHANGED <<copy, published>>,
         \A a \in Artifact, b \in Backup : sidecar'[a].backup = b => sidecar[a].backup = b,
         \A q \in late' \ late :
           q.op # "reserve" => \E a \in Artifact : sidecar[a].backup = q.backup
  PROVE  \A b \in Backup : Storable(b)' => Storable(b)
BY DEF Storable, Named, Gateway!Stored, Gateway!Reserved

LEMMA UniqueKept ==
  ASSUME UniqueInv, hurt \subseteq hurt',
         \A b \in Backup : Storable(b)' => Storable(b) /\ art'[b] = art[b],
         \A a \in Queued' \ hurt', b \in Backup :
           Storable(b)' /\ art'[b] = Text(a)' =>
             a \in Queued /\ Text(a)' = Text(a)
             /\ (sidecar[a].backup = b => sidecar'[a].backup = b)
  PROVE  UniqueInv'
<1>1. ASSUME NEW a \in Queued', a \notin hurt', NEW b \in Backup, Storable(b)', art'[b] = Text(a)'
      PROVE  sidecar'[a].backup = b
  <2>1. /\ a \in Queued /\ Text(a)' = Text(a) /\ Storable(b) /\ art'[b] = art[b]
        /\ sidecar[a].backup = b => sidecar'[a].backup = b
    BY <1>1
  <2> QED BY <1>1, <2>1 DEF UniqueInv
<1>2. ASSUME NEW b \in Backup, NEW c \in Backup, Storable(b)', Storable(c)', art'[b] = art'[c],
             art'[b].artifact \notin hurt'
      PROVE  b = c
  <2>1. Storable(b) /\ Storable(c) /\ art'[b] = art[b] /\ art'[c] = art[c]
    BY <1>2
  <2> QED BY <1>2, <2>1 DEF UniqueInv
<1> QED BY <1>1, <1>2 DEF UniqueInv

\* A class has no more newer artifacts in a smaller queue.
LEMMA NewerKept ==
  ASSUME NEW S \in SUBSET Artifact, NEW T \in SUBSET S, NEW a
  PROVE  /\ Cardinality(NewerOfKind(a, T)) \in Nat /\ Cardinality(NewerOfKind(a, S)) \in Nat
         /\ Cardinality(NewerOfKind(a, T)) <= Cardinality(NewerOfKind(a, S))
<1>1. IsFiniteSet(Artifact)
  BY QueueAssumption, FS_Interval DEF Artifact
<1>2. NewerOfKind(a, T) \subseteq NewerOfKind(a, S) /\ NewerOfKind(a, S) \subseteq Artifact
  BY DEF NewerOfKind
<1>3. IsFiniteSet(NewerOfKind(a, S))
  BY <1>1, <1>2, FS_Subset
<1>4. IsFiniteSet(NewerOfKind(a, T)) /\ Cardinality(NewerOfKind(a, T)) <= Cardinality(NewerOfKind(a, S))
  BY <1>2, <1>3, FS_Subset
<1> QED BY <1>3, <1>4, FS_CardinalityType

\* Whoever is not the flush leaves it its files and its answer.
LEMMA FlushKept ==
  ASSUME TypeInv, FlushInv, flush' = flush, token' = token \/ flush.pc = "idle",
         Queued \subseteq Queued', Queued' \subseteq Artifact,
         \A a \in Artifact : cipher[a] \in {"gone", "aside"} => cipher'[a] = cipher[a],
         Waiting => sidecar'[flush.artifact] = sidecar[flush.artifact],
         \A b \in Backup : copy[b] # "none" => copy'[b] # "none" /\ art'[b] = art[b],
         acked \subseteq acked', hurt \subseteq hurt',
         \A b \in Backup : Storable(b)' => Storable(b) /\ art'[b] = art[b]
  PROVE  FlushInv'
<1> USE FlushTypes
<1>1. /\ flush.todo \subseteq Queued' /\ flush.artifact \notin flush.todo
      /\ flush.pc \in {"take", "aside", "tidy"} \union Ops =>
           token' # NoDevice /\ \A a \in flush.todo : ~Local(a)
      /\ flush.pc \in {"pruned", "aside", "tidy"} =>
           flush.artifact \in Artifact /\ cipher'[flush.artifact] \in {"gone", "aside"}
      /\ ~Waiting => flush.answer = Says("none")
  BY DEF FlushInv, Ops
<1>2. flush.pc \in {"prune", "pruned"} =>
        \A a \in flush.todo : Cardinality(NewerOfKind(a, Queued)') >= Limit[KindOf[a]]
  <2> SUFFICES ASSUME flush.pc \in {"prune", "pruned"}, NEW a \in flush.todo
               PROVE  Cardinality(NewerOfKind(a, Queued)') >= Limit[KindOf[a]]
    OBVIOUS
  <2>1. Cardinality(NewerOfKind(a, Queued)) >= Limit[KindOf[a]]
    BY DEF FlushInv
  <2>2. Limit[KindOf[a]] \in Nat
    BY QueueAssumption
  <2>3. NewerOfKind(a, Queued)' = NewerOfKind(a, Queued')
    BY DEF NewerOfKind
  <2>4. Cardinality(NewerOfKind(a, Queued)) \in Nat /\ Cardinality(NewerOfKind(a, Queued')) \in Nat
        /\ Cardinality(NewerOfKind(a, Queued)) <= Cardinality(NewerOfKind(a, Queued'))
    BY NewerKept
  <2> QED BY <2>1, <2>2, <2>3, <2>4
<1>3. ASSUME Waiting
      PROVE  /\ flush.artifact \in Queued' /\ ~Local(flush.artifact)
             /\ flush.backup = sidecar'[flush.artifact].backup /\ flush.backup # BadBackup
             /\ flush.pc = "reserve" <=> flush.backup = NoBackup
             /\ flush.answer.is = "reserved" =>
                  /\ flush.pc = "reserve" /\ copy'[flush.answer.backup] # "none"
                  /\ art'[flush.answer.backup] = Text(flush.artifact)'
             /\ flush.answer.is = "completed" => flush.backup \in acked'
             /\ flush.answer.is = "unbound" /\ flush.artifact \notin hurt' =>
                  \A b \in Backup : Storable(b)' => art'[b] # Text(flush.artifact)'
  <2>1. Text(flush.artifact)' = Text(flush.artifact)
    BY <1>3 DEF Text, Waiting, Ops
  <2>2. flush.answer.is = "reserved" =>
          /\ flush.pc = "reserve" /\ copy'[flush.answer.backup] # "none"
          /\ art'[flush.answer.backup] = Text(flush.artifact)
    BY <1>3 DEF FlushInv
  <2>3. flush.answer.is = "unbound" /\ flush.artifact \notin hurt' =>
          \A b \in Backup : Storable(b)' => art'[b] # Text(flush.artifact)
    BY <1>3 DEF FlushInv
  <2> QED BY <1>3, <2>1, <2>2, <2>3 DEF FlushInv
<1> QED BY <1>1, <1>2, <1>3 DEF FlushInv, Waiting, Local

-----------------------------------------------------------------------------
(* Snapshots and damage. *)

LEMMA ArtOfBackup == ASSUME GatewayInv
                     PROVE  \A b \in Backup : copy[b] # "none" => art[b].artifact \in Artifact
BY DEF GatewayInv, Ciphertext

LEMMA BeginSnapshotKeeps == QInv /\ BeginSnapshot => QInv'
<1> SUFFICES ASSUME QInv, BeginSnapshot PROVE QInv'
  OBVIOUS
<1> DEFINE free == {a \in Artifact : cipher[a] = "none" /\ ~sidecar[a].readable}
<1>1. /\ making = 0 /\ making' = Oldest(free) /\ free # {}
      /\ sidecar' = [sidecar EXCEPT ![making'] = FreshSidecar(TRUE)]
      /\ UNCHANGED <<cipher, flush, token, hurt, copy, art, acked, published, enrolled, revoked, late>>
  BY DEF BeginSnapshot, gateway
<1>2. making' \in Artifact /\ cipher[making'] = "none" /\ making' \notin Queued /\ making' # 0
  <2>1. Oldest(free) \in free
    BY <1>1, OldestIs
  <2> QED BY <1>1, <2>1, Numbers DEF Queued
<1> HIDE DEF free
<1>3. /\ Queued' = Queued
      /\ \A a \in Artifact : a # making' => sidecar'[a] = sidecar[a]
      /\ sidecar'[making'] = FreshSidecar(TRUE) /\ sidecar'[making'].backup = NoBackup
      /\ \A a \in Queued : sidecar'[a] = sidecar[a]
  BY <1>1, <1>2, FlushTypes DEF QInv, TypeInv, Queued, FreshSidecar
<1>4. \A b \in Backup : Storable(b)' => Storable(b) /\ art'[b] = art[b]
  BY <1>1, <1>2, <1>3, StorableKept, Numbers
<1>5. TypeInv'
  BY <1>1, <1>2, SidecarTypes DEF QInv, TypeInv
<1>6. FilesInv'
  <2>1. making' # 0 => cipher'[making'] = "none" /\ sidecar'[making'] = FreshSidecar(TRUE)
    BY <1>1, <1>2, <1>3
  <2>2. \A c \in Artifact : cipher'[c] = "none" => sidecar'[c].backup = NoBackup
    <3>1. \A c \in Artifact : cipher[c] = "none" => sidecar[c].backup = NoBackup
      BY DEF QInv, FilesInv
    <3>2. cipher' = cipher
      BY <1>1
    <3> QED BY <1>3, <3>1, <3>2
  <2>3. \A c \in Queued' \ hurt' : cipher'[c] = "whole" /\ sidecar'[c].whole /\ sidecar'[c].readable
                                   /\ sidecar'[c].backup # BadBackup
    BY <1>1, <1>3 DEF QInv, FilesInv
  <2>4. ASSUME NEW c \in Artifact, NEW b \in Backup, sidecar'[c].backup = b
        PROVE  copy'[b] # "none" /\ art'[b].artifact = c /\ art'[b].whole = sidecar'[c].whole
    <3>1. c # making' /\ sidecar'[c] = sidecar[c]
      BY <1>3, <2>4, Numbers
    <3> QED BY <1>1, <2>4, <3>1 DEF QInv, FilesInv
  <2> QED BY <2>1, <2>2, <2>3, <2>4 DEF FilesInv
<1>7. FlushInv'
  <2>1. Waiting => flush.artifact \in Queued
    BY DEF QInv, FlushInv
  <2> QED BY <1>1, <1>3, <1>4, <2>1, FlushKept, FlushTypes DEF QInv
<1>8. GatewayInv'
  BY <1>1, ArtOfBackup, GatewayKept DEF QInv, GatewayInv, TypeInv
<1>9. UniqueInv'
  <2>1. \A a \in Queued : Text(a)' = Text(a) /\ sidecar'[a] = sidecar[a]
    BY <1>1, <1>3 DEF Text
  <2> QED BY <1>1, <1>3, <1>4, <2>1, UniqueKept DEF QInv
<1> QED BY <1>5, <1>6, <1>7, <1>8, <1>9 DEF QInv

LEMMA PublishSnapshotKeeps == QInv /\ PublishSnapshot => QInv'
<1> SUFFICES ASSUME QInv, PublishSnapshot PROVE QInv'
  OBVIOUS
<1>1. /\ making # 0 /\ making' = 0 /\ cipher' = [cipher EXCEPT ![making] = "whole"]
      /\ UNCHANGED <<sidecar, flush, token, hurt, copy, art, acked, published, enrolled, revoked, late>>
  BY DEF PublishSnapshot, gateway
<1>2. /\ making \in Artifact /\ cipher[making] = "none" /\ making \notin Queued
      /\ sidecar[making] = FreshSidecar(TRUE)
  BY <1>1 DEF QInv, TypeInv, FilesInv, Queued
<1>3. /\ Queued' = Queued \union {making} /\ Queued' \subseteq Artifact
      /\ cipher'[making] = "whole" /\ \A a \in Artifact : a # making => cipher'[a] = cipher[a]
  BY <1>1, <1>2 DEF QInv, TypeInv, Queued
<1>4. \A b \in Backup : Storable(b)' => Storable(b) /\ art'[b] = art[b]
  BY <1>1, StorableKept
<1>5. TypeInv'
  BY <1>1, <1>2 DEF QInv, TypeInv
<1>6. FilesInv'
  BY <1>1, <1>2, <1>3, Numbers DEF QInv, FilesInv, FreshSidecar
<1>7. FlushInv'
  BY <1>1, <1>2, <1>3, <1>4, FlushKept DEF QInv
<1>8. GatewayInv'
  BY <1>1, <1>3, ArtOfBackup, GatewayKept DEF QInv, GatewayInv, TypeInv
<1>9. UniqueInv'
  <2>1. \A a \in Artifact : Text(a)' = Text(a)
    BY <1>1 DEF Text
  <2>2. \A b \in Backup : Storable(b) => art[b].artifact # making
    BY <1>2 DEF QInv, GatewayInv, Storable, Gateway!Stored, Gateway!Reserved
  <2>3. Text(making).artifact = making
    BY DEF Text
  <2> QED BY <1>1, <1>3, <1>4, <2>1, <2>2, <2>3, UniqueKept DEF QInv
<1> QED BY <1>5, <1>6, <1>7, <1>8, <1>9 DEF QInv

LEMMA FailSnapshotKeeps == QInv /\ FailSnapshot => QInv'
<1> SUFFICES ASSUME QInv, FailSnapshot PROVE QInv'
  OBVIOUS
<1>1. /\ making # 0 /\ making' = 0 /\ sidecar' = [sidecar EXCEPT ![making] = NoSidecar]
      /\ UNCHANGED <<cipher, flush, token, hurt, copy, art, acked, published, enrolled, revoked, late>>
  BY DEF FailSnapshot, gateway
<1>2. making \in Artifact /\ cipher[making] = "none" /\ making \notin Queued
  BY <1>1 DEF QInv, TypeInv, FilesInv, Queued
<1>3. /\ Queued' = Queued
      /\ \A a \in Artifact : a # making => sidecar'[a] = sidecar[a]
      /\ sidecar'[making] = NoSidecar /\ NoSidecar.backup = NoBackup
      /\ \A a \in Queued : sidecar'[a] = sidecar[a]
  BY <1>1, <1>2, FlushTypes DEF QInv, TypeInv, Queued, NoSidecar
<1>4. \A b \in Backup : Storable(b)' => Storable(b) /\ art'[b] = art[b]
  BY <1>1, <1>2, <1>3, StorableKept, Numbers
<1>5. TypeInv'
  BY <1>1, <1>2, SidecarTypes DEF QInv, TypeInv
<1>6. FilesInv'
  <2>1. making' # 0 => cipher'[making'] = "none" /\ sidecar'[making'] = FreshSidecar(TRUE)
    BY <1>1, <1>2, <1>3
  <2>2. \A c \in Artifact : cipher'[c] = "none" => sidecar'[c].backup = NoBackup
    <3>1. \A c \in Artifact : cipher[c] = "none" => sidecar[c].backup = NoBackup
      BY DEF QInv, FilesInv
    <3>2. cipher' = cipher
      BY <1>1
    <3> QED BY <1>3, <3>1, <3>2
  <2>3. \A c \in Queued' \ hurt' : cipher'[c] = "whole" /\ sidecar'[c].whole /\ sidecar'[c].readable
                                   /\ sidecar'[c].backup # BadBackup
    BY <1>1, <1>3 DEF QInv, FilesInv
  <2>4. ASSUME NEW c \in Artifact, NEW b \in Backup, sidecar'[c].backup = b
        PROVE  copy'[b] # "none" /\ art'[b].artifact = c /\ art'[b].whole = sidecar'[c].whole
    <3>1. c # making /\ sidecar'[c] = sidecar[c]
      BY <1>3, <2>4, Numbers
    <3> QED BY <1>1, <2>4, <3>1 DEF QInv, FilesInv
  <2> QED BY <2>1, <2>2, <2>3, <2>4 DEF FilesInv
<1>7. FlushInv'
  <2>1. Waiting => flush.artifact \in Queued
    BY DEF QInv, FlushInv
  <2> QED BY <1>1, <1>3, <1>4, <2>1, FlushKept, FlushTypes DEF QInv
<1>8. GatewayInv'
  BY <1>1, ArtOfBackup, GatewayKept DEF QInv, GatewayInv, TypeInv
<1>9. UniqueInv'
  <2>1. \A a \in Queued : Text(a)' = Text(a) /\ sidecar'[a] = sidecar[a]
    BY <1>1, <1>3 DEF Text
  <2> QED BY <1>1, <1>3, <1>4, <2>1, UniqueKept DEF QInv
<1> QED BY <1>5, <1>6, <1>7, <1>8, <1>9 DEF QInv

LEMMA DamageKeeps == ASSUME QInv, NEW a \in Artifact, Damage(a)
                     PROVE  QInv'
<1>1. /\ flush.pc = "idle" /\ a \in Queued /\ hurt' = hurt \union {a}
      /\ \/ cipher' = [cipher EXCEPT ![a] = "damaged"] /\ sidecar' = sidecar
         \/ /\ cipher' = cipher
            /\ \/ sidecar' = [sidecar EXCEPT ![a] = NoSidecar]
               \/ sidecar' = [sidecar EXCEPT ![a].backup = BadBackup]
      /\ UNCHANGED <<making, flush, token, copy, art, acked, published, enrolled, revoked, late>>
  BY DEF Damage, gateway
<1>2. /\ Queued' = Queued /\ Queued \subseteq Artifact /\ cipher[a] # "none"
      /\ \A c \in Artifact : c # a => cipher'[c] = cipher[c] /\ sidecar'[c] = sidecar[c]
      /\ cipher'[a] \in {"whole", "damaged"}
      /\ sidecar'[a] = sidecar[a] \/ sidecar'[a].backup \in {NoBackup, BadBackup}
      /\ making # a
  <2>1. sidecar[a] \in Sidecar /\ \A b : [sidecar[a] EXCEPT !.backup = b].backup = b
    BY DEF QInv, TypeInv, Sidecar
  <2>2. sidecar'[a] = sidecar[a] \/ sidecar'[a].backup \in {NoBackup, BadBackup}
    <3>1. sidecar \in [Artifact -> Sidecar] /\ NoSidecar.backup = NoBackup
      BY DEF QInv, TypeInv, NoSidecar
    <3>2. CASE sidecar' = [sidecar EXCEPT ![a].backup = BadBackup]
      BY <2>1, <3>1, <3>2
    <3> QED BY <1>1, <3>1, <3>2
  <2>3. \A c \in Artifact : c # a => cipher'[c] = cipher[c] /\ sidecar'[c] = sidecar[c]
    BY <1>1 DEF QInv, TypeInv
  <2>4. cipher[a] \in {"whole", "damaged"} /\ cipher'[a] \in {"whole", "damaged"}
    BY <1>1 DEF QInv, TypeInv, Queued
  <2>5. making # a
    <3>1. making # 0 => cipher[making] = "none"
      BY DEF QInv, FilesInv
    <3> QED BY <2>4, <3>1, Numbers
  <2>6. Queued' = Queued /\ Queued \subseteq Artifact
    BY <2>3, <2>4, FlushTypes DEF QInv, Queued
  <2> QED BY <2>2, <2>3, <2>4, <2>5, <2>6
<1>3. \A b \in Backup : Storable(b)' => Storable(b) /\ art'[b] = art[b]
  BY <1>1, <1>2, StorableKept, Numbers
<1>4. TypeInv'
  <2>1. cipher' \in [Artifact -> {"none", "whole", "damaged", "aside", "gone"}]
    BY <1>1 DEF QInv, TypeInv
  <2>2. sidecar' \in [Artifact -> Sidecar]
    <3>1. sidecar[a] \in Sidecar /\ sidecar \in [Artifact -> Sidecar]
      BY DEF QInv, TypeInv
    <3>2. [sidecar[a] EXCEPT !.backup = BadBackup] \in Sidecar /\ NoSidecar \in Sidecar
      BY <3>1, SidecarTypes
    <3> QED BY <1>1, <3>1, <3>2
  <2> QED BY <1>1, <2>1, <2>2 DEF QInv, TypeInv
<1>5. FilesInv'
  <2>1. making' # 0 => cipher'[making'] = "none" /\ sidecar'[making'] = FreshSidecar(TRUE)
    BY <1>1, <1>2 DEF QInv, TypeInv, FilesInv
  <2>2. \A c \in Artifact : cipher'[c] = "none" => sidecar'[c].backup = NoBackup
    BY <1>1, <1>2 DEF QInv, FilesInv
  <2>3. \A c \in Queued' \ hurt' : cipher'[c] = "whole" /\ sidecar'[c].whole /\ sidecar'[c].readable
                                   /\ sidecar'[c].backup # BadBackup
    BY <1>1, <1>2 DEF QInv, FilesInv
  <2>4. \A c \in Artifact, b \in Backup : sidecar'[c].backup = b =>
          copy'[b] # "none" /\ art'[b].artifact = c /\ art'[b].whole = sidecar'[c].whole
    BY <1>1, <1>2, Numbers DEF QInv, FilesInv
  <2> QED BY <2>1, <2>2, <2>3, <2>4 DEF FilesInv
<1>6. FlushInv'
  <2>1. ~Waiting
    BY <1>1 DEF Waiting, Ops
  <2>2. \A c \in Artifact : cipher[c] \in {"gone", "aside"} => cipher'[c] = cipher[c]
    BY <1>1, <1>2 DEF Queued
  <2> QED BY <1>1, <1>2, <1>3, <2>1, <2>2, FlushKept DEF QInv
<1>7. GatewayInv'
  BY <1>1, <1>2, ArtOfBackup, GatewayKept DEF QInv, GatewayInv, TypeInv
<1>8. UniqueInv'
  <2>1. \A c \in Queued' \ hurt' : Text(c)' = Text(c) /\ sidecar'[c] = sidecar[c]
    BY <1>1, <1>2 DEF Text
  <2> QED BY <1>1, <1>2, <1>3, <2>1, UniqueKept DEF QInv
<1> QED BY <1>4, <1>5, <1>6, <1>7, <1>8 DEF QInv

-----------------------------------------------------------------------------
(* The gateway. *)

\* A request the gateway may serve: of a device and an artifact that exist, and
\* about a backup that somebody knows.
Served(q) ==
  /\ q \in Request
  /\ q.text.device \in enrolled
  /\ cipher[q.text.artifact] # "none" /\ ~Local(q.text.artifact)
  /\ q.op # "reserve" => q.backup \in Backup /\ copy[q.backup] # "none" /\ Named(q.backup)

LEMMA LateServed == ASSUME QInv, NEW q \in late PROVE Served(q)
<1>1. q \in Request
  BY DEF QInv, TypeInv
<1>2. q.op # "reserve" => Named(q.backup)
  BY DEF Named
<1> QED BY <1>1, <1>2 DEF QInv, GatewayInv, Served

LEMMA NamedKnown ==
  ASSUME QInv, NEW b \in Backup, Named(b)
  PROVE  copy[b] # "none"
<1>1. CASE b \in published
  BY <1>1 DEF QInv, GatewayInv
<1>2. CASE \E a \in Artifact : sidecar[a].backup = b
  BY <1>2 DEF QInv, FilesInv
<1>3. CASE \E q \in late : q.op # "reserve" /\ q.backup = b
  BY <1>3 DEF QInv, GatewayInv
<1> QED BY <1>1, <1>2, <1>3 DEF Named

GatewayGrows ==
  /\ \A b \in Backup : copy[b] # "none" => copy'[b] # "none" /\ art'[b] = art[b]
  /\ acked \subseteq acked'
  /\ \A b \in Backup : Storable(b)' => Storable(b) /\ art'[b] = art[b]

\* The gateway loses no reservation and makes no backup storable.
LEMMA HandleGrows ==
  ASSUME QInv, NEW q, Served(q), NEW ans \in Answer, Handle(q, ans),
         UNCHANGED <<sidecar, cipher, token>>, late' \subseteq late
  PROVE  GatewayGrows /\ GatewayInv' /\ GatewayTypes'
<1>0. /\ q \in Request /\ UNCHANGED <<enrolled, revoked>> /\ GatewayTypes'
      /\ copy \in [Backup -> {"none", "reserved", "stored", "gone"}]
      /\ art \in [Backup -> Ciphertext \union {NoCiphertext}]
      /\ q.text \in Ciphertext
  BY HandleIs, HandleTypes, RequestFields DEF Served, QInv, TypeInv
<1>1. \A b \in Backup : Named(b)' => Named(b) \/ b \in published'
  BY DEF Named
<1>2. CASE GatewayIdle
  <2>1. UNCHANGED <<copy, art, acked, published>>
    BY <1>2 DEF GatewayIdle, gateway
  <2>2. GatewayGrows
    BY <1>1, <2>1 DEF GatewayGrows, Storable, Named, Gateway!Stored, Gateway!Reserved
  <2> QED BY <1>0, <2>1, <2>2 DEF QInv, GatewayInv
<1>3. CASE /\ q.op = "reserve" /\ ans.is = "reserved"
           /\ Gateway!OpenReservation(q.text, ans.backup) /\ published' = published
  <2> DEFINE c == ans.backup
  <2>1. /\ c \in Backup /\ copy[c] = "none" /\ acked' = acked
        /\ copy' = [copy EXCEPT ![c] = "reserved"] /\ art' = [art EXCEPT ![c] = q.text]
    BY <1>3, Answers DEF Gateway!OpenReservation
  <2> HIDE DEF c
  <2>2. /\ copy'[c] = "reserved" /\ art'[c] = q.text
        /\ \A b \in Backup : b # c => copy'[b] = copy[b] /\ art'[b] = art[b]
    BY <1>0, <2>1
  <2>3. ~Storable(c)'
    <3>1. ~Named(c)'
      BY <1>1, <1>3, <2>1, NamedKnown DEF Named
    <3> QED BY <2>2, <3>1 DEF Storable, Gateway!Stored
  <2>4. GatewayGrows
    <3>1. ASSUME NEW b \in Backup, Storable(b)'
          PROVE  Storable(b) /\ art'[b] = art[b]
      <4>1. b # c /\ copy'[b] = copy[b] /\ art'[b] = art[b]
        BY <2>2, <2>3, <3>1
      <4>2. Named(b)' => Named(b)
        BY <1>1, <1>3 DEF Named
      <4> QED BY <3>1, <4>1, <4>2 DEF Storable, Gateway!Stored, Gateway!Reserved
    <3> QED BY <2>1, <2>2, <3>1 DEF GatewayGrows
  <2>5. GatewayInv'
    BY <1>0, <1>3, <2>1, <2>2 DEF QInv, GatewayInv, Served, Local
  <2> QED BY <1>0, <2>4, <2>5
<1>4. CASE /\ q.op # "reserve" /\ ans.is \in {"completed", "failed"} /\ Bound(q)
           /\ art' = art
           /\ acked' \in {acked, acked \union {q.backup}}
           /\ \/ copy' = copy
              \/ copy' = [copy EXCEPT ![q.backup] = "stored"]
           /\ published' \subseteq published \union {q.backup}
           /\ published' # published => Gateway!Reserved(q.backup)
  <2> DEFINE c == q.backup
  <2>1. /\ c \in Backup /\ copy[c] \in {"reserved", "stored"} /\ Named(c)
    BY <1>4 DEF Served, Bound
  <2>2. /\ copy'[c] # "none" /\ \A b \in Backup : b # c => copy'[b] = copy[b]
    BY <1>0, <1>4, <2>1
  <2>3. Storable(c)
    BY <2>1 DEF Storable, Gateway!Stored, Gateway!Reserved
  <2> HIDE DEF c
  <2>4. GatewayGrows
    <3>1. ASSUME NEW b \in Backup, Storable(b)', b # c
          PROVE  Storable(b)
      <4>1. copy'[b] = copy[b] /\ (Named(b)' => Named(b))
        BY <1>1, <1>4, <2>2, <3>1 DEF Named, c
      <4> QED BY <3>1, <4>1 DEF Storable, Gateway!Stored, Gateway!Reserved
    <3> QED BY <1>4, <2>2, <2>3, <3>1 DEF GatewayGrows
  <2>5. GatewayInv'
    BY <1>0, <1>4, <2>1, <2>2 DEF QInv, GatewayInv, c
  <2> QED BY <1>0, <2>4, <2>5
<1> QED BY <1>2, <1>3, <1>4, HandleIs

LEMMA FilesKept ==
  ASSUME FilesInv, UNCHANGED <<cipher, sidecar, making, hurt>>,
         \A b \in Backup : copy[b] # "none" => copy'[b] # "none" /\ art'[b] = art[b]
  PROVE  FilesInv'
<1>1. Queued' = Queued
  BY DEF Queued
<1>2. \A a \in Artifact, b \in Backup : sidecar'[a].backup = b =>
        copy'[b] # "none" /\ art'[b].artifact = a /\ art'[b].whole = sidecar'[a].whole
  BY DEF FilesInv
<1> QED BY <1>1, <1>2 DEF FilesInv

LEMMA UniqueGrows ==
  ASSUME QInv, GatewayGrows, UNCHANGED <<cipher, sidecar, token, hurt>>
  PROVE  UniqueInv'
<1>1. Queued' = Queued /\ \A a \in Artifact : Text(a)' = Text(a)
  BY DEF Queued, Text
<1> QED BY <1>1, FlushTypes, UniqueKept DEF GatewayGrows, QInv

LEMMA ServeLateKeeps == ASSUME QInv, NEW q \in late, ServeLate(q)
                        PROVE  QInv'
<1>1. /\ UNCHANGED <<cipher, sidecar, making, flush, token, hurt>> /\ late' = late \ {q}
      /\ GatewayIdle \/ \E ans \in Answer : Handle(q, ans)
  BY DEF ServeLate, desktop
<1>2. GatewayGrows /\ GatewayInv' /\ GatewayTypes'
  <2>1. CASE GatewayIdle
    <3>1. UNCHANGED <<copy, art, acked, published, enrolled, revoked>>
      BY <2>1 DEF GatewayIdle, gateway
    <3>2. \A b \in Backup : Storable(b)' => Storable(b)
      BY <1>1, <3>1, StorableKept
    <3>3. GatewayGrows
      BY <3>1, <3>2 DEF GatewayGrows
    <3>4. GatewayInv'
      BY <1>1, <3>1 DEF QInv, GatewayInv
    <3> QED BY <3>1, <3>3, <3>4 DEF QInv, TypeInv, GatewayTypes
  <2>2. CASE \E ans \in Answer : Handle(q, ans)
    BY <1>1, <2>2, LateServed, HandleGrows
  <2> QED BY <1>1, <2>1, <2>2
<1>3. TypeInv'
  BY <1>1, <1>2 DEF QInv, TypeInv, GatewayTypes
<1>4. FilesInv'
  BY <1>1, <1>2, FilesKept DEF QInv, GatewayGrows
<1>5. FlushInv'
  <2>1. Queued' = Queued /\ Queued \subseteq Artifact
    BY <1>1, FlushTypes DEF QInv, Queued
  <2> QED BY <1>1, <1>2, <2>1, FlushKept DEF QInv, GatewayGrows
<1>6. UniqueInv'
  BY <1>1, <1>2, UniqueGrows
<1> QED BY <1>2, <1>3, <1>4, <1>5, <1>6 DEF QInv

\* What the flush asks for is a request the gateway may serve.
LEMMA CurrentServed ==
  ASSUME QInv, Waiting
  PROVE  /\ Served(CurrentRequest) /\ CurrentRequest.text = Text(flush.artifact)
         /\ CurrentRequest.op = flush.pc /\ CurrentRequest.backup = flush.backup
         /\ flush.artifact \in Queued /\ token \in Device
         /\ flush.pc # "reserve" => \E a \in Artifact : sidecar[a].backup = flush.backup
<1>1. /\ flush.artifact \in Queued /\ flush.artifact \in Artifact /\ token # NoDevice
      /\ ~Local(flush.artifact)
  BY FlushTypes DEF QInv, FlushInv, Waiting
<1>2. token \in Device /\ token \in enrolled
  BY <1>1 DEF QInv, TypeInv, GatewayInv
<1>3. /\ CurrentRequest \in Request /\ CurrentRequest.text = Text(flush.artifact)
      /\ CurrentRequest.op = flush.pc /\ CurrentRequest.backup = flush.backup
  BY <1>1, RequestTypes DEF QInv
<1>4. flush.pc # "reserve" =>
        /\ flush.backup \in Backup /\ sidecar[flush.artifact].backup = flush.backup
    BY FlushTypes DEF QInv, FlushInv
<1>5. flush.pc # "reserve" => copy[flush.backup] # "none"
  BY <1>1, <1>4 DEF QInv, FilesInv
<1>6. Text(flush.artifact).artifact = flush.artifact /\ Text(flush.artifact).device = token
  BY DEF Text
<1>7. cipher[flush.artifact] # "none"
  BY <1>1 DEF Queued
<1> QED BY <1>1, <1>2, <1>3, <1>4, <1>5, <1>6, <1>7 DEF Served, Named

-----------------------------------------------------------------------------
(* Answers, time-outs and crashes. *)

LEMMA ServeFlushKeeps == QInv /\ ServeFlush => QInv'
<1> SUFFICES ASSUME QInv, ServeFlush PROVE QInv'
  OBVIOUS
<1>1. /\ Waiting /\ flush.answer.is = "none"
      /\ UNCHANGED <<cipher, sidecar, making, token, hurt, late>>
  BY DEF ServeFlush
<1>2. PICK ans \in Answer : /\ Handle(CurrentRequest, ans)
                            /\ flush' = [flush EXCEPT !.answer = ans]
  BY DEF ServeFlush
<1>3. /\ Served(CurrentRequest) /\ CurrentRequest.text = Text(flush.artifact)
      /\ CurrentRequest.op = flush.pc /\ CurrentRequest.backup = flush.backup
      /\ flush.artifact \in Queued /\ token \in Device
  BY <1>1, CurrentServed
<1>4. GatewayGrows /\ GatewayInv' /\ GatewayTypes'
  BY <1>1, <1>2, <1>3, HandleGrows
<1>5. /\ flush' \in Flush /\ flush'.answer = ans
      /\ flush'.pc = flush.pc /\ flush'.todo = flush.todo /\ flush'.artifact = flush.artifact
      /\ flush'.backup = flush.backup
  <2>1. flush \in Flush
    BY DEF QInv, TypeInv
  <2>2. flush' \in Flush
    BY <1>2, <2>1, FlushSteps, Zenon
  <2> QED BY <1>2, <2>1, <2>2 DEF Flush
<1>6. TypeInv'
  BY <1>1, <1>4, <1>5 DEF QInv, TypeInv, GatewayTypes
<1>7. FilesInv'
  BY <1>1, <1>4, FilesKept DEF QInv, GatewayGrows
<1>8. UniqueInv'
  BY <1>1, <1>4, UniqueGrows
<1>9. FlushInv'
  <2> DEFINE text == Text(flush.artifact)
  <2>1. text' = text /\ Waiting' /\ Queued' = Queued
    BY <1>1, <1>5 DEF Text, Waiting, Queued
  <2>2. ans.is = "reserved" => /\ flush.pc = "reserve" /\ copy'[ans.backup] # "none"
                               /\ art'[ans.backup] = text
    <3> SUFFICES ASSUME ans.is = "reserved"
                 PROVE  /\ flush.pc = "reserve" /\ copy'[ans.backup] # "none"
                        /\ art'[ans.backup] = text
      OBVIOUS
    <3>1. /\ flush.pc = "reserve"
          /\ \/ copy[ans.backup] = "reserved" /\ art[ans.backup] = text /\ GatewayIdle
             \/ Gateway!OpenReservation(text, ans.backup)
      BY <1>2, <1>3, HandleIs
    <3>2. CASE copy[ans.backup] = "reserved" /\ art[ans.backup] = text /\ GatewayIdle
      BY <3>1, <3>2 DEF GatewayIdle, gateway
    <3>3. CASE Gateway!OpenReservation(text, ans.backup)
      BY <3>1, <3>3, Answers DEF Gateway!OpenReservation, QInv, TypeInv
    <3> QED BY <3>1, <3>2, <3>3
  <2>3. ans.is = "completed" => flush.backup \in acked'
    BY <1>2, <1>3, HandleIs
  <2>4. ans.is = "unbound" /\ flush.artifact \notin hurt =>
          \A b \in Backup : Storable(b)' => art'[b] # text
    <3> SUFFICES ASSUME ans.is = "unbound", flush.artifact \notin hurt,
                        NEW b \in Backup, Storable(b)', art'[b] = text
                 PROVE  FALSE
      OBVIOUS
    <3>1. Storable(b) /\ art[b] = text
      BY <1>4 DEF GatewayGrows
    <3>2. sidecar[flush.artifact].backup = b
      BY <1>3, <3>1 DEF QInv, UniqueInv
    <3>3. flush.backup = b
      BY <1>1, <3>2 DEF QInv, FlushInv
    <3>4. ~Bound(CurrentRequest)
      BY <1>2, HandleIs
    <3>5. copy[b] \in {"reserved", "stored"} /\ text.device = token
      BY <3>1 DEF Storable, Gateway!Stored, Gateway!Reserved, Text
    <3> QED BY <1>3, <3>1, <3>3, <3>4, <3>5 DEF Bound
  <2> HIDE DEF text
  <2>5. /\ flush.artifact \in Queued /\ ~Local(flush.artifact)
        /\ flush.backup = sidecar[flush.artifact].backup /\ flush.backup # BadBackup
        /\ flush.pc = "reserve" <=> flush.backup = NoBackup
        /\ flush.todo \subseteq Queued /\ flush.artifact \notin flush.todo
        /\ token # NoDevice /\ \A a \in flush.todo : ~Local(a)
    BY <1>1 DEF QInv, FlushInv, Waiting
  <2>6. flush'.pc \notin {"prune", "pruned", "take", "aside", "tidy"}
    BY <1>1, <1>5 DEF Waiting, Ops
  <2> QED BY <1>1, <1>5, <2>1, <2>2, <2>3, <2>4, <2>5, <2>6 DEF FlushInv, Local, text
<1> QED BY <1>4, <1>6, <1>7, <1>8, <1>9 DEF QInv

LEMMA IdleKeepsFlush == flush' = IdleFlush => FlushInv'
<1> SUFFICES ASSUME flush' = IdleFlush PROVE FlushInv'
  OBVIOUS
<1>1. /\ flush'.pc = "idle" /\ flush'.todo = {} /\ flush'.artifact = 0
      /\ flush'.answer = Says("none") /\ ~Waiting'
  BY DEF IdleFlush, Waiting, Ops
<1> QED BY <1>1 DEF FlushInv, Ops

\* A request that is given up may still be under way.
LEMMA AbandonKeeps ==
  ASSUME QInv, Abandon, flush' = IdleFlush, making' \in {making, 0},
         UNCHANGED <<cipher, sidecar, token, hurt, copy, art, acked, published, enrolled, revoked>>
  PROVE  QInv'
<1>1. \A q \in late' \ late : /\ q \in Request /\ Served(q)
                              /\ q.op # "reserve" => \E a \in Artifact : sidecar[a].backup = q.backup
  <2> SUFFICES ASSUME NEW q \in late' \ late
               PROVE  /\ q \in Request /\ Served(q)
                      /\ q.op # "reserve" => \E a \in Artifact : sidecar[a].backup = q.backup
    OBVIOUS
  <2>1. Waiting /\ q = CurrentRequest
    BY DEF Abandon
  <2> QED BY <2>1, CurrentServed DEF Served
<1>2. TypeInv'
  BY <1>1, FlushTypes DEF QInv, TypeInv, Abandon
<1>3. FilesInv'
  <2>1. Queued' = Queued
    BY DEF Queued
  <2>2. making' # 0 => cipher'[making'] = "none" /\ sidecar'[making'] = FreshSidecar(TRUE)
    BY DEF QInv, FilesInv
  <2> QED BY <2>1, <2>2 DEF QInv, FilesInv
<1>4. \A b \in Backup : Storable(b)' => Storable(b)
  BY <1>1, StorableKept
<1>5. GatewayInv'
  <2>1. \A q \in late' \ late :
          /\ q.text.device \in enrolled
          /\ cipher'[q.text.artifact] # "none" /\ ~Local(q.text.artifact)
          /\ q.op # "reserve" => q.backup \in Backup /\ copy[q.backup] # "none"
    BY <1>1 DEF Served
  <2> QED BY <2>1, ArtOfBackup, GatewayKept DEF QInv, GatewayInv, TypeInv
<1>6. UniqueInv'
  BY <1>4, UniqueGrows DEF GatewayGrows
<1> QED BY <1>2, <1>3, <1>4, <1>5, <1>6, IdleKeepsFlush DEF QInv

LEMMA GiveUpKeeps == QInv /\ (GiveUp \/ Crash) => QInv'
BY AbandonKeeps DEF GiveUp, Crash, gateway

LEMMA DropTokenKeeps == QInv /\ DropToken => QInv'
<1> SUFFICES ASSUME QInv, DropToken PROVE QInv'
  OBVIOUS
<1>1. /\ token' = NoDevice /\ flush' = IdleFlush
      /\ UNCHANGED <<cipher, sidecar, making, hurt, copy, art, acked, published, enrolled, revoked, late>>
  BY DEF DropToken, gateway
<1>2. TypeInv'
  BY <1>1, FlushTypes DEF QInv, TypeInv
<1>3. FilesInv'
  BY <1>1, FilesKept DEF QInv
<1>4. GatewayInv'
  BY <1>1, ArtOfBackup, GatewayKept DEF QInv, TypeInv
<1>5. \A b \in Backup : Storable(b)' => Storable(b)
  BY <1>1, StorableKept
<1>6. UniqueInv'
  <2>1. \A a : Text(a)'.device = NoDevice
    BY <1>1 DEF Text
  <2>2. \A b \in Backup : Storable(b) => art[b].device \in Device
    BY DEF QInv, GatewayInv, Storable, Gateway!Stored, Gateway!Reserved, Ciphertext
  <2>3. \A a \in Artifact, b \in Backup : Storable(b)' => art'[b] # Text(a)'
    BY <1>1, <1>5, <2>1, <2>2, Numbers
  <2>4. Queued' = Queued /\ Queued \subseteq Artifact
    BY <1>1, FlushTypes DEF QInv, Queued
  <2> QED BY <1>1, <1>5, <2>3, <2>4, UniqueKept DEF QInv
<1> QED BY <1>1, <1>2, <1>3, <1>4, <1>6, IdleKeepsFlush DEF QInv

LEMMA EnrollKeeps == ASSUME QInv, NEW d \in Device, Enroll(d)
                     PROVE  QInv'
<1>1. /\ flush.pc = "idle" /\ d \notin enrolled /\ enrolled' = enrolled \union {d}
      /\ token' \in {d, token}
      /\ UNCHANGED <<cipher, sidecar, making, flush, hurt, copy, art, acked, published, revoked, late>>
  BY DEF Enroll
<1>2. TypeInv'
  BY <1>1 DEF QInv, TypeInv
<1>3. FilesInv'
  BY <1>1, FilesKept DEF QInv
<1>4. GatewayInv'
  BY <1>1 DEF QInv, GatewayInv, Local
<1>5. \A b \in Backup : Storable(b)' => Storable(b)
  BY <1>1, StorableKept
<1>6. Queued' = Queued /\ Queued \subseteq Artifact
  BY <1>1, FlushTypes DEF QInv, Queued
<1>7. FlushInv'
  BY <1>1, <1>5, <1>6, FlushKept DEF QInv
<1>8. UniqueInv'
  <2>1. CASE token' = token
    BY <1>1, <1>5, <2>1, UniqueGrows DEF GatewayGrows
  <2>2. CASE token' = d
    <3>1. \A a : Text(a)'.device = d
      BY <2>2 DEF Text
    <3>2. \A b \in Backup : Storable(b) => art[b].device \in enrolled
      BY DEF QInv, GatewayInv, Storable, Gateway!Stored, Gateway!Reserved
    <3>3. \A a \in Artifact, b \in Backup : Storable(b)' => art'[b] # Text(a)'
      BY <1>1, <1>5, <3>1, <3>2
    <3> QED BY <1>1, <1>5, <1>6, <3>3, UniqueKept DEF QInv
  <2> QED BY <1>1, <2>1, <2>2
<1> QED BY <1>2, <1>3, <1>4, <1>7, <1>8 DEF QInv

LEMMA RevokeKeeps == ASSUME QInv, NEW d \in Device, Revoke(d)
                     PROVE  QInv'
<1>1. /\ d \in enrolled /\ revoked' = revoked \union {d}
      /\ UNCHANGED <<cipher, sidecar, making, flush, token, hurt, copy, art, acked, published,
                     enrolled, late>>
  BY DEF Revoke, desktop
<1>2. TypeInv'
  BY <1>1 DEF QInv, TypeInv
<1>3. FilesInv'
  BY <1>1, FilesKept DEF QInv
<1>4. GatewayInv'
  BY <1>1 DEF QInv, GatewayInv, Local
<1>5. \A b \in Backup : Storable(b)' => Storable(b)
  BY <1>1, StorableKept
<1>6. Queued' = Queued /\ Queued \subseteq Artifact
  BY <1>1, FlushTypes DEF QInv, Queued
<1>7. FlushInv'
  BY <1>1, <1>5, <1>6, FlushKept DEF QInv
<1>8. UniqueInv'
  BY <1>1, <1>5, UniqueGrows DEF GatewayGrows
<1> QED BY <1>2, <1>3, <1>4, <1>7, <1>8 DEF QInv

LEMMA RetireBackupKeeps == ASSUME QInv, NEW c \in Backup, RetireBackup(c)
                           PROVE  QInv'
<1>1. /\ copy' = [b \in Backup |-> IF b \in {c} THEN "gone" ELSE copy[b]]
      /\ published' = published \ {c}
      /\ UNCHANGED <<cipher, sidecar, making, flush, token, hurt, art, acked, enrolled, revoked, late>>
  BY DEF RetireBackup, desktop, Gateway!Retire
<1>2. copy'[c] = "gone" /\ copy[c] # "none" /\ \A b \in Backup : b # c => copy'[b] = copy[b]
  BY <1>1 DEF RetireBackup, Gateway!Retire, Gateway!Reserved, Gateway!Stored
<1>3. TypeInv'
  BY <1>1 DEF QInv, TypeInv
<1>4. FilesInv'
  BY <1>1, <1>2, FilesKept DEF QInv
<1>5. GatewayInv'
  BY <1>1, <1>2 DEF QInv, GatewayInv, Local
<1>6. \A b \in Backup : Storable(b)' => Storable(b)
  BY <1>1, <1>2 DEF Storable, Named, Gateway!Stored, Gateway!Reserved
<1>7. Queued' = Queued /\ Queued \subseteq Artifact
  BY <1>1, FlushTypes DEF QInv, Queued
<1>8. FlushInv'
  BY <1>1, <1>2, <1>6, <1>7, FlushKept DEF QInv
<1>9. UniqueInv'
  BY <1>1, <1>2, <1>6, UniqueGrows DEF GatewayGrows
<1> QED BY <1>3, <1>4, <1>5, <1>8, <1>9 DEF QInv

-----------------------------------------------------------------------------
(* The flush lane. *)

\* A sidecar is made anew only for an artifact that was damaged.
LEMMA RepairKeeps ==
  ASSUME QInv, sidecar' = Repaired,
         UNCHANGED <<cipher, making, token, hurt, copy, art, acked, published, enrolled, revoked, late>>
  PROVE  /\ FilesInv' /\ GatewayInv' /\ UniqueInv' /\ Queued' = Queued
         /\ sidecar' \in [Artifact -> Sidecar]
<1>1. \A a \in Artifact : \/ sidecar'[a] = sidecar[a]
                          \/ a \in Queued /\ a \in hurt /\ sidecar'[a].backup = NoBackup
  BY DEF Repaired, FreshSidecar, QInv, FilesInv
<1>2. Queued' = Queued /\ Queued \subseteq Artifact
  BY FlushTypes DEF Queued, QInv
<1>3. FilesInv'
  <2>1. \A a \in Queued' \ hurt' : sidecar'[a] = sidecar[a]
    BY <1>1, <1>2
  <2>2. making' # 0 => cipher'[making'] = "none" /\ sidecar'[making'] = FreshSidecar(TRUE)
    <3>1. making # 0 => cipher[making] = "none" /\ sidecar[making] = FreshSidecar(TRUE)
                        /\ making \notin Queued /\ making \in Artifact
      BY DEF QInv, FilesInv, TypeInv, Queued
    <3> QED BY <1>1, <3>1
  <2>3. \A a \in Artifact : cipher'[a] = "none" => sidecar'[a].backup = NoBackup
    BY <1>1 DEF QInv, FilesInv
  <2>4. ASSUME NEW a \in Artifact, NEW b \in Backup, sidecar'[a].backup = b
        PROVE  copy'[b] # "none" /\ art'[b].artifact = a /\ art'[b].whole = sidecar'[a].whole
    <3>1. sidecar'[a] = sidecar[a]
      BY <1>1, <2>4, Numbers
    <3>2. copy[b] # "none" /\ art[b].artifact = a /\ art[b].whole = sidecar[a].whole
      BY <2>4, <3>1 DEF QInv, FilesInv
    <3> QED BY <3>1, <3>2
  <2>5. \A a \in Queued' \ hurt' : cipher'[a] = "whole" /\ sidecar'[a].whole /\ sidecar'[a].readable
                                   /\ sidecar'[a].backup # BadBackup
    BY <1>2, <2>1 DEF QInv, FilesInv
  <2> QED BY <2>2, <2>3, <2>4, <2>5 DEF FilesInv
<1>4. \A b \in Backup : Storable(b)' => Storable(b)
  BY <1>1, StorableKept, Numbers
<1>5. GatewayInv'
  BY ArtOfBackup, GatewayKept DEF QInv, GatewayInv, TypeInv
<1>6. UniqueInv'
  <2>1. \A a \in Queued' \ hurt' : sidecar'[a] = sidecar[a] /\ Text(a)' = Text(a)
    BY <1>1, <1>2 DEF Text
  <2> QED BY <1>2, <1>4, <2>1, UniqueKept DEF QInv
<1> QED BY <1>2, <1>3, <1>5, <1>6, RepairedTypes DEF QInv

\* An artifact that leaves the queue, its sidecar still there.
LEMMA LeaveKeeps ==
  ASSUME QInv, NEW a \in Queued, NEW v \in {"gone", "aside"},
         cipher' = [cipher EXCEPT ![a] = v],
         UNCHANGED <<sidecar, making, token, hurt, copy, art, acked, published, enrolled, revoked, late>>
  PROVE  /\ FilesInv' /\ GatewayInv' /\ UniqueInv' /\ Queued' = Queued \ {a}
         /\ cipher' \in [Artifact -> {"none", "whole", "damaged", "aside", "gone"}]
         /\ cipher'[a] = v /\ a \in Artifact
<1>1. /\ a \in Artifact /\ cipher[a] \in {"whole", "damaged"}
      /\ cipher' \in [Artifact -> {"none", "whole", "damaged", "aside", "gone"}]
      /\ cipher'[a] = v /\ \A c \in Artifact : c # a => cipher'[c] = cipher[c]
  BY DEF QInv, TypeInv, Queued
<1>2. Queued' = Queued \ {a} /\ Queued' \subseteq Artifact
  BY <1>1 DEF Queued
<1>3. FilesInv'
  <2>1. making' # 0 => cipher'[making'] = "none" /\ sidecar'[making'] = FreshSidecar(TRUE)
    <3>1. making # 0 => cipher[making] = "none" /\ sidecar[making] = FreshSidecar(TRUE)
                        /\ making \in Artifact
      BY DEF QInv, FilesInv, TypeInv
    <3> QED BY <1>1, <3>1
  <2>2. \A c \in Artifact : cipher'[c] = "none" => sidecar'[c].backup = NoBackup
    BY <1>1 DEF QInv, FilesInv
  <2>3. \A c \in Queued' \ hurt' : cipher'[c] = "whole" /\ sidecar'[c].whole /\ sidecar'[c].readable
                                   /\ sidecar'[c].backup # BadBackup
    BY <1>1, <1>2 DEF QInv, FilesInv
  <2> QED BY <2>1, <2>2, <2>3 DEF QInv, FilesInv
<1>4. \A b \in Backup : Storable(b)' => Storable(b)
  BY StorableKept
<1>5. GatewayInv'
  BY <1>1, ArtOfBackup, GatewayKept DEF QInv, GatewayInv, TypeInv
<1>6. UniqueInv'
  <2>1. \A c \in Artifact : Text(c)' = Text(c)
    BY DEF Text
  <2> QED BY <1>2, <1>4, <2>1, UniqueKept DEF QInv
<1> QED BY <1>1, <1>2, <1>3, <1>5, <1>6

LEMMA StartFlushKeeps == ASSUME QInv, NEW uploads \in BOOLEAN, StartFlush(uploads)
                         PROVE  QInv'
<1>1. /\ sidecar' = Repaired
      /\ flush' = [IdleFlush EXCEPT !.pc = "prune", !.uploads = uploads, !.todo = Victims]
      /\ UNCHANGED <<cipher, making, token, hurt, copy, art, acked, published, enrolled, revoked, late>>
  BY DEF StartFlush, gateway
<1>2. /\ FilesInv' /\ GatewayInv' /\ UniqueInv' /\ Queued' = Queued
      /\ sidecar' \in [Artifact -> Sidecar]
  BY <1>1, RepairKeeps
<1>3. /\ flush'.pc = "prune" /\ flush'.todo = Victims /\ flush'.artifact = 0
      /\ flush'.answer = Says("none") /\ flush' \in Flush
  <2>1. IdleFlush \in Flush /\ Victims \in SUBSET Artifact /\ "prune" \in Pc
    BY FlushTypes DEF QInv, Pc
  <2>2. flush' \in Flush
    BY <1>1, <2>1, FlushSteps, Zenon
  <2> QED BY <1>1, <2>2 DEF IdleFlush
<1>4. TypeInv'
  BY <1>1, <1>2, <1>3 DEF QInv, TypeInv
<1>5. FlushInv'
  <2>1. Victims \subseteq Queued /\ 0 \notin Victims /\ ~Waiting'
    BY <1>3, FlushTypes, Numbers DEF Victims, Waiting, Ops, QInv
  <2>2. \A a \in Victims : Cardinality(NewerOfKind(a, Queued)) >= Limit[KindOf[a]]
    BY DEF Victims
  <2>3. \A a : NewerOfKind(a, Queued)' = NewerOfKind(a, Queued)
    BY <1>2 DEF NewerOfKind
  <2> QED BY <1>2, <1>3, <2>1, <2>2, <2>3 DEF FlushInv, Ops
<1> QED BY <1>2, <1>4, <1>5 DEF QInv

LEMMA PruneKeeps == ASSUME QInv, NEW a \in Artifact, Prune(a)
                    PROVE  QInv'
<1>1. /\ flush.pc = "prune" /\ a \in flush.todo /\ OlderOfKind(a, flush.todo) = {}
      /\ cipher' = [cipher EXCEPT ![a] = "gone"]
      /\ flush' = [flush EXCEPT !.pc = "pruned", !.artifact = a, !.todo = @ \ {a}]
      /\ UNCHANGED <<sidecar, making, token, hurt, copy, art, acked, published, enrolled, revoked, late>>
  BY DEF Prune, gateway
<1>2. a \in Queued /\ flush.todo \subseteq Queued /\ ~Waiting
  BY <1>1 DEF QInv, FlushInv, Waiting, Ops
<1>3. /\ FilesInv' /\ GatewayInv' /\ UniqueInv' /\ Queued' = Queued \ {a}
      /\ cipher' \in [Artifact -> {"none", "whole", "damaged", "aside", "gone"}]
      /\ cipher'[a] = "gone"
  BY <1>1, <1>2, LeaveKeeps
<1>4. /\ flush'.pc = "pruned" /\ flush'.todo = flush.todo \ {a} /\ flush'.artifact = a
      /\ flush'.answer = flush.answer /\ flush' \in Flush
  <2>1. flush \in Flush /\ flush.todo \ {a} \in SUBSET Artifact /\ "pruned" \in Pc
    BY FlushTypes DEF QInv, Pc
  <2>2. flush' = [flush EXCEPT !.pc = "pruned", !.artifact = a, !.todo = flush.todo \ {a}]
    BY <1>1, <2>1 DEF Flush
  <2>3. flush' \in Flush
    BY <2>1, <2>2, FlushSteps, Zenon
  <2> QED BY <2>1, <2>2, <2>3 DEF Flush
<1>5. TypeInv'
  BY <1>1, <1>3, <1>4 DEF QInv, TypeInv
<1>6. FlushInv'
  <2>1. \A c \in flush'.todo : Cardinality(NewerOfKind(c, Queued)') >= Limit[KindOf[c]]
    <3> SUFFICES ASSUME NEW c \in flush.todo, c # a
                 PROVE  Cardinality(NewerOfKind(c, Queued)') >= Limit[KindOf[c]]
      BY <1>4
    <3>1. Cardinality(NewerOfKind(c, Queued)) >= Limit[KindOf[c]]
      BY <1>1 DEF QInv, FlushInv
    <3>2. a \notin NewerOfKind(c, Queued)
      BY <1>1 DEF OlderOfKind, NewerOfKind
    <3>3. NewerOfKind(c, Queued)' = NewerOfKind(c, Queued)
      BY <1>3, <3>2 DEF NewerOfKind
    <3> QED BY <3>1, <3>3
  <2>2. ~Waiting' /\ flush.answer = Says("none")
    BY <1>2, <1>4 DEF QInv, FlushInv, Waiting, Ops
  <2> QED BY <1>2, <1>3, <1>4, <2>1, <2>2 DEF FlushInv, Ops
<1> QED BY <1>3, <1>5, <1>6 DEF QInv

LEMMA StartUploadsKeeps == QInv /\ StartUploads => QInv'
<1> SUFFICES ASSUME QInv, StartUploads PROVE QInv'
  OBVIOUS
<1>1. /\ flush.pc = "prune" /\ flush.todo = {}
      /\ UNCHANGED <<cipher, making, token, hurt, copy, art, acked, published, enrolled, revoked, late>>
  BY DEF StartUploads, gateway
<1>2. CASE /\ token # NoDevice /\ sidecar' = Repaired
           /\ flush' = [flush EXCEPT !.pc = "take", !.todo = {a \in Queued : ~Local(a)}]
  <2> DEFINE todo == {a \in Queued : ~Local(a)}
  <2>1. /\ FilesInv' /\ GatewayInv' /\ UniqueInv' /\ Queued' = Queued
        /\ sidecar' \in [Artifact -> Sidecar]
    BY <1>1, <1>2, RepairKeeps
  <2>2. flush \in Flush /\ todo \in SUBSET Artifact /\ "take" \in Pc
    BY FlushTypes DEF QInv, Pc
  <2>3. /\ flush' \in Flush
    <3> HIDE DEF todo
    <3> QED BY <1>2, <2>2, FlushSteps, Zenon DEF todo
  <2>4. /\ flush'.pc = "take" /\ flush'.todo = todo /\ flush'.artifact = flush.artifact
        /\ flush'.answer = flush.answer
    BY <1>2, <2>2 DEF Flush
  <2>5. TypeInv'
    BY <1>1, <2>1, <2>3 DEF QInv, TypeInv
  <2>6. FlushInv'
    <3>1. ~Waiting' /\ flush.answer = Says("none")
      BY <1>1, <2>4 DEF QInv, FlushInv, Waiting, Ops
    <3>2. flush.artifact = 0 /\ flush.artifact \notin todo
      BY <1>1, <2>2, Numbers DEF QInv, FlushInv
    <3> QED BY <1>1, <1>2, <2>1, <2>4, <3>1, <3>2 DEF FlushInv, Ops, Local
  <2> QED BY <2>1, <2>5, <2>6 DEF QInv
<1>3. CASE flush' = IdleFlush /\ sidecar' = sidecar
  <2>1. TypeInv'
    BY <1>1, <1>3, FlushTypes DEF QInv, TypeInv
  <2>2. FilesInv'
    BY <1>1, <1>3, FilesKept DEF QInv
  <2>3. GatewayInv'
    BY <1>1, ArtOfBackup, GatewayKept DEF QInv, GatewayInv, TypeInv
  <2>4. \A b \in Backup : Storable(b)' => Storable(b)
    BY <1>1, <1>3, StorableKept
  <2>5. UniqueInv'
    BY <1>1, <1>3, <2>4, UniqueGrows DEF GatewayGrows
  <2> QED BY <1>3, <2>1, <2>2, <2>3, <2>5, IdleKeepsFlush DEF QInv
<1> QED BY <1>2, <1>3 DEF StartUploads

-----------------------------------------------------------------------------
(* One artifact at a time. *)

\* A step of the flush that touches no file.
LEMMA StillKeeps ==
  ASSUME QInv, flush' \in Flush,
         UNCHANGED <<cipher, sidecar, making, token, hurt, copy, art, acked, published, enrolled,
                     revoked, late>>
  PROVE  TypeInv' /\ FilesInv' /\ GatewayInv' /\ UniqueInv' /\ Queued' = Queued
<1>1. TypeInv'
  BY DEF QInv, TypeInv
<1>2. FilesInv'
  BY FilesKept DEF QInv
<1>3. GatewayInv'
  BY ArtOfBackup, GatewayKept DEF QInv, GatewayInv, TypeInv
<1>4. \A b \in Backup : Storable(b)' => Storable(b)
  BY StorableKept
<1>5. UniqueInv'
  BY <1>4, UniqueGrows DEF GatewayGrows
<1> QED BY <1>1, <1>2, <1>3, <1>5 DEF Queued

LEMMA FinishKeeps == QInv /\ (FinishFlush \/ Abort) => QInv'
<1> SUFFICES ASSUME QInv, FinishFlush \/ Abort PROVE QInv'
  OBVIOUS
<1>1. flush' = IdleFlush
      /\ UNCHANGED <<cipher, sidecar, making, token, hurt, copy, art, acked, published, enrolled,
                     revoked, late>>
  BY DEF FinishFlush, Abort, gateway
<1> QED BY <1>1, StillKeeps, IdleKeepsFlush, FlushTypes DEF QInv

LEMMA RelayKeeps == QInv /\ Relay => QInv'
<1> SUFFICES ASSUME QInv, Relay PROVE QInv'
  OBVIOUS
<1>1. /\ flush.pc = "complete" /\ flush' = [flush EXCEPT !.pc = "relay", !.answer = Says("none")]
      /\ UNCHANGED <<cipher, sidecar, making, token, hurt, copy, art, acked, published, enrolled,
                     revoked, late>>
  BY DEF Relay, gateway
<1>2. /\ flush' \in Flush /\ flush'.pc = "relay" /\ flush'.answer = Says("none")
      /\ flush'.todo = flush.todo /\ flush'.artifact = flush.artifact /\ flush'.backup = flush.backup
  <2>1. flush \in Flush /\ "relay" \in Pc /\ Says("none") \in Answer
    BY FlushTypes, Answers DEF QInv, Pc, Ops
  <2>2. flush' \in Flush
    BY <1>1, <2>1, FlushSteps, Zenon
  <2> QED BY <1>1, <2>1, <2>2 DEF Flush
<1>3. TypeInv' /\ FilesInv' /\ GatewayInv' /\ UniqueInv' /\ Queued' = Queued
  BY <1>1, <1>2, StillKeeps
<1>4. FlushInv'
  <2>1. Waiting /\ Waiting' /\ Says("none").is = "none"
    BY <1>1, <1>2, Answers DEF Waiting, Ops
  <2>2. /\ flush.artifact \in Queued /\ ~Local(flush.artifact)
        /\ flush.backup = sidecar[flush.artifact].backup /\ flush.backup # BadBackup
        /\ flush.backup # NoBackup
        /\ flush.todo \subseteq Queued /\ flush.artifact \notin flush.todo
        /\ token # NoDevice /\ \A a \in flush.todo : ~Local(a)
    BY <1>1, <2>1 DEF QInv, FlushInv, Ops
  <2> QED BY <1>1, <1>2, <1>3, <2>1, <2>2 DEF FlushInv, Ops, Local
<1> QED BY <1>3, <1>4 DEF QInv

LEMMA TodoOldest ==
  ASSUME QInv, flush.pc = "take", flush.todo # {}
  PROVE  /\ Oldest(flush.todo) \in flush.todo /\ flush.todo \subseteq Queued
         /\ Oldest(flush.todo) \in Artifact /\ Oldest(flush.todo) \in Queued
         /\ \A a \in flush.todo : ~Local(a)
         /\ token # NoDevice /\ flush.artifact = 0 /\ flush.answer = Says("none") /\ ~Waiting
BY FlushTypes, OldestIs DEF QInv, FlushInv, Waiting, Ops

LEMMA SetAsideKeeps == QInv /\ SetAside => QInv'
<1> SUFFICES ASSUME QInv, SetAside PROVE QInv'
  OBVIOUS
<1> DEFINE a == Oldest(flush.todo)
<1>1. /\ flush.pc = "take" /\ flush.todo # {} /\ cipher' = [cipher EXCEPT ![a] = "aside"]
      /\ flush' = [flush EXCEPT !.pc = "aside", !.artifact = a, !.todo = flush.todo \ {a}]
      /\ UNCHANGED <<sidecar, making, token, hurt, copy, art, acked, published, enrolled, revoked, late>>
  <2>1. flush \in Flush
    BY DEF QInv, TypeInv
  <2> QED BY <2>1 DEF SetAside, gateway, Flush
<1>2. /\ a \in flush.todo /\ flush.todo \subseteq Queued /\ a \in Artifact /\ a \in Queued
      /\ \A c \in flush.todo : ~Local(c)
      /\ token # NoDevice /\ flush.answer = Says("none")
  BY <1>1, TodoOldest
<1> HIDE DEF a
<1>3. /\ FilesInv' /\ GatewayInv' /\ UniqueInv' /\ Queued' = Queued \ {a}
      /\ cipher' \in [Artifact -> {"none", "whole", "damaged", "aside", "gone"}]
      /\ cipher'[a] = "aside"
  BY <1>1, <1>2, LeaveKeeps
<1>4. /\ flush'.pc = "aside" /\ flush'.todo = flush.todo \ {a} /\ flush'.artifact = a
      /\ flush'.answer = flush.answer /\ flush' \in Flush
  <2>1. flush \in Flush /\ flush.todo \ {a} \in SUBSET Artifact /\ "aside" \in Pc
        /\ a \in Artifact \union {0}
    BY <1>2, FlushTypes DEF QInv, Pc
  <2>2. flush' \in Flush
    BY <1>1, <2>1, FlushSteps, Zenon
  <2> QED BY <1>1, <2>1, <2>2 DEF Flush
<1>5. TypeInv'
  BY <1>1, <1>3, <1>4 DEF QInv, TypeInv
<1>6. FlushInv'
  <2>1. ~Waiting'
    BY <1>4 DEF Waiting, Ops
  <2> QED BY <1>1, <1>2, <1>3, <1>4, <2>1 DEF FlushInv, Ops, Local
<1> QED BY <1>3, <1>5, <1>6 DEF QInv

LEMMA UnqueueKeeps == QInv /\ Unqueue => QInv'
<1> SUFFICES ASSUME QInv, Unqueue PROVE QInv'
  OBVIOUS
<1> DEFINE a == flush.artifact
<1>1. /\ Waiting /\ cipher' = [cipher EXCEPT ![a] = "gone"]
      /\ flush' = [flush EXCEPT !.pc = "tidy", !.answer = Says("none")]
      /\ UNCHANGED <<sidecar, making, token, hurt, copy, art, acked, published, enrolled, revoked, late>>
  BY DEF Unqueue, gateway
<1>2. /\ a \in Queued /\ flush.todo \subseteq Queued /\ a \notin flush.todo
      /\ \A c \in flush.todo : ~Local(c)
      /\ token # NoDevice
  BY <1>1 DEF QInv, FlushInv, Waiting
<1>3. /\ FilesInv' /\ GatewayInv' /\ UniqueInv' /\ Queued' = Queued \ {a}
      /\ cipher' \in [Artifact -> {"none", "whole", "damaged", "aside", "gone"}]
      /\ cipher'[a] = "gone" /\ a \in Artifact
  BY <1>1, <1>2, LeaveKeeps
<1>4. /\ flush'.pc = "tidy" /\ flush'.todo = flush.todo /\ flush'.artifact = a
      /\ flush'.answer = Says("none") /\ flush' \in Flush
  <2>1. flush \in Flush /\ "tidy" \in Pc /\ Says("none") \in Answer
    BY FlushTypes, Answers DEF QInv, Pc
  <2>2. flush' \in Flush
    BY <1>1, <2>1, FlushSteps, Zenon
  <2> QED BY <1>1, <2>1, <2>2 DEF Flush
<1>5. TypeInv'
  BY <1>1, <1>3, <1>4 DEF QInv, TypeInv
<1>6. FlushInv'
  <2>1. ~Waiting'
    BY <1>4 DEF Waiting, Ops
  <2> HIDE DEF a
  <2> QED BY <1>1, <1>2, <1>3, <1>4, <2>1 DEF FlushInv, Ops, Local
<1> QED BY <1>3, <1>5, <1>6 DEF QInv

-----------------------------------------------------------------------------
(* Bindings. *)

\* A binding that is dropped when nothing is left of it, and a sidecar that is
\* removed after its ciphertext.
LEMMA DroppedKeeps ==
  ASSUME QInv, NEW a \in Artifact, cipher[a] # "none",
         sidecar' \in [Artifact -> Sidecar],
         \A c \in Artifact : c # a => sidecar'[c] = sidecar[c],
         \/ a \notin Queued /\ sidecar'[a] = NoSidecar
         \/ /\ sidecar'[a].whole = sidecar[a].whole /\ sidecar'[a].readable = sidecar[a].readable
            /\ \/ sidecar'[a].backup = sidecar[a].backup
               \/ /\ sidecar'[a].backup = NoBackup
                  /\ a \notin hurt => \A b \in Backup : Storable(b) => art[b] # Text(a),
         UNCHANGED <<cipher, making, token, hurt, copy, art, acked, published, enrolled, revoked, late>>
  PROVE  FilesInv' /\ GatewayInv' /\ UniqueInv' /\ Queued' = Queued
<1>1. Queued' = Queued /\ Queued \subseteq Artifact /\ NoSidecar.backup = NoBackup
  BY FlushTypes DEF Queued, QInv, NoSidecar
<1>2. making # 0 => making \in Artifact /\ making # a
  BY DEF QInv, TypeInv, FilesInv
<1>3. \A c \in Artifact, b \in Backup : sidecar'[c].backup = b =>
        sidecar[c].backup = b /\ sidecar'[c].whole = sidecar[c].whole
  BY <1>1, Numbers
<1>4. \A b \in Backup : Storable(b)' => Storable(b)
  BY <1>3, StorableKept
<1>5. FilesInv'
  <2>1. making' # 0 => cipher'[making'] = "none" /\ sidecar'[making'] = FreshSidecar(TRUE)
    BY <1>2 DEF QInv, FilesInv
  <2>2. \A c \in Artifact : cipher'[c] = "none" => sidecar'[c].backup = NoBackup
    BY DEF QInv, FilesInv
  <2>3. \A c \in Queued' \ hurt' : cipher'[c] = "whole" /\ sidecar'[c].whole /\ sidecar'[c].readable
                                   /\ sidecar'[c].backup # BadBackup
    <3>1. \A c \in Queued \ hurt : cipher[c] = "whole" /\ sidecar[c].whole /\ sidecar[c].readable
                                   /\ sidecar[c].backup # BadBackup
      BY DEF QInv, FilesInv
    <3> QED BY <1>1, <3>1, Numbers
  <2>4. ASSUME NEW c \in Artifact, NEW b \in Backup, sidecar'[c].backup = b
        PROVE  copy'[b] # "none" /\ art'[b].artifact = c /\ art'[b].whole = sidecar'[c].whole
    <3>1. sidecar[c].backup = b /\ sidecar'[c].whole = sidecar[c].whole
      BY <1>3, <2>4
    <3>2. copy[b] # "none" /\ art[b].artifact = c /\ art[b].whole = sidecar[c].whole
      BY <3>1 DEF QInv, FilesInv
    <3> QED BY <3>1, <3>2
  <2> QED BY <2>1, <2>2, <2>3, <2>4 DEF FilesInv
<1>6. GatewayInv'
  BY ArtOfBackup, GatewayKept DEF QInv, GatewayInv, TypeInv
<1>7. UniqueInv'
  <2>1. ASSUME NEW c \in Queued' \ hurt', NEW b \in Backup, Storable(b)', art'[b] = Text(c)'
        PROVE  /\ c \in Queued /\ Text(c)' = Text(c)
               /\ sidecar[c].backup = b => sidecar'[c].backup = b
    <3>1. c \in Queued /\ c \in Artifact /\ c \notin hurt
      BY <1>1, <2>1
    <3>2. sidecar'[c].whole = sidecar[c].whole
      BY <3>1
    <3>3. Text(c)' = Text(c)
      BY <3>2 DEF Text
    <3>4. Storable(b) /\ art[b] = Text(c)
      BY <1>4, <2>1, <3>3
    <3>5. c = a => sidecar'[c].backup = sidecar[c].backup
      BY <3>1, <3>4
    <3> QED BY <3>1, <3>3, <3>5
  <2>2. \A b \in Backup : Storable(b)' => Storable(b) /\ art'[b] = art[b]
    BY <1>4
  <2> QED BY <2>1, <2>2, UniqueKept DEF QInv
<1> QED BY <1>1, <1>5, <1>6, <1>7

LEMMA TakeKeeps == QInv /\ Take => QInv'
<1> SUFFICES ASSUME QInv, Take PROVE QInv'
  OBVIOUS
<1> DEFINE a == Oldest(flush.todo)
           b == IF sidecar[a].backup = BadBackup THEN NoBackup ELSE sidecar[a].backup
           p == IF b = NoBackup THEN "reserve" ELSE "complete"
<1>1. /\ flush.pc = "take" /\ flush.todo # {} /\ sidecar' = [sidecar EXCEPT ![a].backup = b]
      /\ flush' = [flush EXCEPT !.pc = p, !.artifact = a, !.backup = b, !.resets = 0,
                                !.todo = flush.todo \ {a}]
      /\ UNCHANGED <<cipher, making, token, hurt, copy, art, acked, published, enrolled, revoked, late>>
  <2>1. flush \in Flush
    BY DEF QInv, TypeInv
  <2> QED BY <2>1 DEF Take, gateway, Flush
<1>2. /\ a \in flush.todo /\ flush.todo \subseteq Queued /\ a \in Artifact /\ a \in Queued
      /\ \A c \in flush.todo : ~Local(c)
      /\ token # NoDevice /\ flush.answer = Says("none")
  BY <1>1, TodoOldest
<1>3. /\ sidecar \in [Artifact -> Sidecar] /\ sidecar[a] \in Sidecar
      /\ b \in Backup \union {NoBackup} /\ p \in Pc /\ p \in Ops
      /\ p = "reserve" <=> b = NoBackup
      /\ a \notin hurt => b = sidecar[a].backup
      /\ b = sidecar[a].backup \/ (b = NoBackup /\ a \in hurt)
  <2>1. sidecar \in [Artifact -> Sidecar] /\ sidecar[a] \in Sidecar
    BY <1>2 DEF QInv, TypeInv
  <2>2. a \notin hurt => sidecar[a].backup # BadBackup
    BY <1>2 DEF QInv, FilesInv
  <2>3. sidecar[a].backup \in Backup \union {NoBackup, BadBackup}
    BY <2>1, SidecarTypes
  <2>4. b \in Backup \union {NoBackup} /\ (b = sidecar[a].backup \/ (b = NoBackup /\ a \in hurt))
    BY <2>2, <2>3
  <2>5. p \in Ops /\ p \in Pc /\ (p = "reserve" <=> b = NoBackup)
    BY DEF Pc, Ops
  <2> HIDE DEF a, b, p
  <2>6. a \notin hurt => b = sidecar[a].backup
    BY <2>4
  <2> QED BY <2>1, <2>4, <2>5, <2>6
<1> HIDE DEF a, b, p
<1>4. /\ sidecar' \in [Artifact -> Sidecar]
      /\ \A c \in Artifact : c # a => sidecar'[c] = sidecar[c]
      /\ sidecar'[a].whole = sidecar[a].whole /\ sidecar'[a].readable = sidecar[a].readable
      /\ sidecar'[a].backup = b
  <2>1. [sidecar[a] EXCEPT !.backup = b] \in Sidecar
    BY <1>3, SidecarTypes
  <2>2. sidecar'[a] = [sidecar[a] EXCEPT !.backup = b]
    BY <1>1, <1>2, <1>3
  <2>3. sidecar'[a].whole = sidecar[a].whole /\ sidecar'[a].readable = sidecar[a].readable
        /\ sidecar'[a].backup = b
    BY <1>3, <2>2 DEF Sidecar
  <2> QED BY <1>1, <1>2, <1>3, <2>1, <2>3
<1>5. FilesInv' /\ GatewayInv' /\ UniqueInv' /\ Queued' = Queued
  <2>1. cipher[a] # "none"
    BY <1>2 DEF Queued
  <2> QED BY <1>1, <1>2, <1>3, <1>4, <2>1, DroppedKeeps
<1>6. /\ flush' \in Flush /\ flush'.pc = p /\ flush'.artifact = a /\ flush'.backup = b
      /\ flush'.todo = flush.todo \ {a} /\ flush'.answer = Says("none")
  <2>1. flush \in Flush /\ flush.todo \ {a} \in SUBSET Artifact /\ a \in Artifact \union {0}
        /\ 0 \in 0..1
    BY <1>2, FlushTypes DEF QInv
  <2>2. flush' \in Flush
    BY <1>1, <1>3, <2>1, FlushSteps, Zenon
  <2> QED BY <1>1, <1>2, <2>1, <2>2 DEF Flush
<1>7. TypeInv'
  BY <1>1, <1>4, <1>6 DEF QInv, TypeInv
<1>8. FlushInv'
  <2>1. Waiting' /\ p \notin {"prune", "pruned", "take", "aside", "tidy"} /\ Says("none").is = "none"
    BY <1>3, <1>6, Answers DEF Waiting, Ops
  <2>2. b # BadBackup /\ ~Local(a)
    BY <1>2, <1>3, Numbers
  <2> QED BY <1>1, <1>2, <1>3, <1>4, <1>5, <1>6, <2>1, <2>2 DEF FlushInv, Ops, Local
<1> QED BY <1>5, <1>7, <1>8 DEF QInv

LEMMA TidyKeeps == QInv /\ Tidy => QInv'
<1> SUFFICES ASSUME QInv, Tidy PROVE QInv'
  OBVIOUS
<1> DEFINE a == flush.artifact
           p == IF flush.pc = "pruned" THEN "prune" ELSE "take"
<1>1. /\ flush.pc \in {"pruned", "aside", "tidy"} /\ sidecar' = [sidecar EXCEPT ![a] = NoSidecar]
      /\ flush' = [flush EXCEPT !.pc = p, !.artifact = 0, !.backup = NoBackup]
      /\ UNCHANGED <<cipher, making, token, hurt, copy, art, acked, published, enrolled, revoked, late>>
  <2>1. flush \in Flush
    BY DEF QInv, TypeInv
  <2> QED BY <2>1 DEF Tidy, gateway, Flush
<1>2. /\ a \in Artifact /\ cipher[a] \in {"gone", "aside"} /\ a \notin Queued /\ ~Waiting
      /\ flush.todo \subseteq Queued /\ flush.answer = Says("none")
      /\ flush.pc = "pruned" =>
           \A c \in flush.todo : Cardinality(NewerOfKind(c, Queued)) >= Limit[KindOf[c]]
      /\ flush.pc \in {"aside", "tidy"} => token # NoDevice /\ \A c \in flush.todo : ~Local(c)
  BY <1>1 DEF QInv, FlushInv, Queued, Waiting, Ops
<1>3. /\ sidecar' \in [Artifact -> Sidecar] /\ sidecar'[a] = NoSidecar
      /\ \A c \in Artifact : c # a => sidecar'[c] = sidecar[c]
  BY <1>1, <1>2, SidecarTypes DEF QInv, TypeInv
<1>4. p \in {"prune", "take"} /\ p \in Pc /\ (p = "prune" <=> flush.pc = "pruned")
  BY DEF Pc
<1>5. /\ flush' \in Flush /\ flush'.pc = p /\ flush'.artifact = 0
      /\ flush'.todo = flush.todo /\ flush'.answer = Says("none")
  <2> HIDE DEF p
  <2>1. flush \in Flush /\ 0 \in Artifact \union {0} /\ NoBackup \in Backup \union {NoBackup}
    BY DEF QInv, TypeInv
  <2>2. flush' \in Flush
    BY <1>1, <1>4, <2>1, FlushSteps, Zenon
  <2> QED BY <1>1, <1>2, <2>1, <2>2 DEF Flush
<1> HIDE DEF a, p
<1>6. FilesInv' /\ GatewayInv' /\ UniqueInv' /\ Queued' = Queued
  BY <1>1, <1>2, <1>3, DroppedKeeps
<1>7. TypeInv'
  BY <1>1, <1>3, <1>5 DEF QInv, TypeInv
<1>8. FlushInv'
  <2>1. ~Waiting' /\ 0 \notin flush.todo
    BY <1>2, <1>4, <1>5, FlushTypes, Numbers DEF Waiting, Ops, QInv
  <2>2. \A c : NewerOfKind(c, Queued)' = NewerOfKind(c, Queued)
    BY <1>6 DEF NewerOfKind
  <2> QED BY <1>1, <1>2, <1>4, <1>5, <1>6, <2>1, <2>2 DEF FlushInv, Ops, Local
<1> QED BY <1>6, <1>7, <1>8 DEF QInv

LEMMA UnbindKeeps == QInv /\ Unbind => QInv'
<1> SUFFICES ASSUME QInv, Unbind PROVE QInv'
  OBVIOUS
<1> DEFINE a == flush.artifact
<1>1. /\ Waiting /\ flush.answer.is = "unbound"
      /\ sidecar' = [sidecar EXCEPT ![a].backup = NoBackup]
      /\ UNCHANGED <<cipher, making, token, hurt, copy, art, acked, published, enrolled, revoked, late>>
      /\ \/ flush' = IdleFlush
         \/ flush' = [flush EXCEPT !.pc = "reserve", !.backup = NoBackup, !.resets = 1,
                                   !.answer = Says("none")]
  BY DEF Unbind, gateway
<1>2. /\ a \in Queued /\ a \in Artifact /\ ~Local(a) /\ cipher[a] # "none"
      /\ flush.todo \subseteq Queued /\ a \notin flush.todo
      /\ token # NoDevice /\ \A c \in flush.todo : ~Local(c)
      /\ a \notin hurt => \A b \in Backup : Storable(b) => art[b] # Text(a)
  BY <1>1, FlushTypes DEF QInv, FlushInv, Waiting, Queued
<1> HIDE DEF a
<1>3. /\ sidecar' \in [Artifact -> Sidecar]
      /\ \A c \in Artifact : c # a => sidecar'[c] = sidecar[c]
      /\ sidecar'[a].whole = sidecar[a].whole /\ sidecar'[a].readable = sidecar[a].readable
      /\ sidecar'[a].backup = NoBackup
  <2>1. sidecar \in [Artifact -> Sidecar] /\ sidecar[a] \in Sidecar
    BY <1>2 DEF QInv, TypeInv
  <2>2. [sidecar[a] EXCEPT !.backup = NoBackup] \in Sidecar
    BY <2>1, SidecarTypes
  <2>3. sidecar'[a] = [sidecar[a] EXCEPT !.backup = NoBackup]
    BY <1>1, <1>2, <2>1
  <2>4. sidecar'[a].whole = sidecar[a].whole /\ sidecar'[a].readable = sidecar[a].readable
        /\ sidecar'[a].backup = NoBackup
    BY <2>1, <2>3 DEF Sidecar
  <2> QED BY <1>1, <1>2, <2>1, <2>2, <2>4
<1>4. FilesInv' /\ GatewayInv' /\ UniqueInv' /\ Queued' = Queued
  BY <1>1, <1>2, <1>3, DroppedKeeps
<1>5. CASE flush' = IdleFlush
  <2>1. TypeInv'
    BY <1>1, <1>3, <1>5, FlushTypes DEF QInv, TypeInv
  <2> QED BY <1>4, <1>5, <2>1, IdleKeepsFlush DEF QInv
<1>6. CASE flush' = [flush EXCEPT !.pc = "reserve", !.backup = NoBackup, !.resets = 1,
                                  !.answer = Says("none")]
  <2>1. /\ flush' \in Flush /\ flush'.pc = "reserve" /\ flush'.artifact = a
        /\ flush'.backup = NoBackup /\ flush'.todo = flush.todo /\ flush'.answer = Says("none")
    <3>1. /\ flush \in Flush /\ "reserve" \in Pc /\ NoBackup \in Backup \union {NoBackup}
          /\ 1 \in 0..1 /\ Says("none") \in Answer
      BY Answers DEF QInv, TypeInv, Pc, Ops
    <3>2. flush' \in Flush
      BY <1>6, <3>1, FlushSteps, Zenon
    <3> QED BY <1>6, <3>1, <3>2 DEF Flush, a
  <2>2. TypeInv'
    BY <1>1, <1>3, <2>1 DEF QInv, TypeInv
  <2>3. Waiting' /\ Says("none").is = "none" /\ NoBackup # BadBackup
    BY <2>1, Answers, Numbers DEF Waiting, Ops
  <2>4. FlushInv'
    BY <1>1, <1>2, <1>3, <1>4, <2>1, <2>3 DEF FlushInv, Ops, Local
  <2> QED BY <1>4, <2>2, <2>4 DEF QInv
<1> QED BY <1>1, <1>5, <1>6

-----------------------------------------------------------------------------
(* The new binding. *)

\* The binding of a reservation makes it storable, and nothing else of its
\* ciphertext is: the artifact was unbound until now.
LEMMA BindKeeps == QInv /\ Bind => QInv'
<1> SUFFICES ASSUME QInv, Bind PROVE QInv'
  OBVIOUS
<1> DEFINE a == flush.artifact
           n == flush.answer.backup
<1>1. /\ flush.pc = "reserve" /\ flush.answer.is = "reserved"
      /\ sidecar' = [sidecar EXCEPT ![a].backup = n]
      /\ flush' = [flush EXCEPT !.pc = "complete", !.backup = n, !.answer = Says("none")]
      /\ UNCHANGED <<cipher, making, token, hurt, copy, art, acked, published, enrolled, revoked, late>>
  BY DEF Bind, gateway
<1>2. /\ a \in Queued /\ a \in Artifact /\ ~Local(a) /\ cipher[a] # "none"
      /\ flush.todo \subseteq Queued /\ a \notin flush.todo
      /\ token # NoDevice /\ \A c \in flush.todo : ~Local(c)
      /\ n \in Backup /\ copy[n] # "none" /\ art[n] = Text(a)
      /\ sidecar[a].backup = NoBackup
  BY <1>1, FlushTypes DEF QInv, FlushInv, Waiting, Queued, Ops
<1>3. /\ flush' \in Flush /\ flush'.pc = "complete" /\ flush'.artifact = a
      /\ flush'.backup = n /\ flush'.todo = flush.todo /\ flush'.answer = Says("none")
  <2>1. /\ flush \in Flush /\ "complete" \in Pc /\ n \in Backup \union {NoBackup}
        /\ Says("none") \in Answer
    BY <1>2, Answers DEF QInv, TypeInv, Pc, Ops
  <2>2. flush' \in Flush
    BY <1>1, <2>1, FlushSteps, Zenon
  <2> QED BY <1>1, <2>1, <2>2 DEF Flush
<1> HIDE DEF a, n
<1>4. /\ sidecar' \in [Artifact -> Sidecar]
      /\ \A c \in Artifact : c # a => sidecar'[c] = sidecar[c]
      /\ sidecar'[a].whole = sidecar[a].whole /\ sidecar'[a].readable = sidecar[a].readable
      /\ sidecar'[a].backup = n
  <2>1. sidecar \in [Artifact -> Sidecar] /\ sidecar[a] \in Sidecar
    BY <1>2 DEF QInv, TypeInv
  <2>2. [sidecar[a] EXCEPT !.backup = n] \in Sidecar
    BY <1>2, <2>1, SidecarTypes
  <2>3. sidecar'[a] = [sidecar[a] EXCEPT !.backup = n]
    BY <1>1, <1>2, <2>1
  <2>4. sidecar'[a].whole = sidecar[a].whole /\ sidecar'[a].readable = sidecar[a].readable
        /\ sidecar'[a].backup = n
    BY <2>1, <2>3 DEF Sidecar
  <2> QED BY <1>1, <1>2, <2>1, <2>2, <2>4
<1>5. TypeInv'
  BY <1>1, <1>3, <1>4 DEF QInv, TypeInv
<1>6. Queued' = Queued /\ Queued \subseteq Artifact
  BY <1>1, FlushTypes DEF Queued, QInv
<1>7. FilesInv'
  <2>1. making' # 0 => cipher'[making'] = "none" /\ sidecar'[making'] = FreshSidecar(TRUE)
    <3>1. making # 0 => /\ making \in Artifact /\ making # a
                        /\ cipher[making] = "none" /\ sidecar[making] = FreshSidecar(TRUE)
      BY <1>2 DEF QInv, TypeInv, FilesInv
    <3> QED BY <1>1, <1>4, <3>1
  <2>2. \A c \in Artifact : cipher'[c] = "none" => sidecar'[c].backup = NoBackup
    <3>1. \A c \in Artifact : cipher[c] = "none" => sidecar[c].backup = NoBackup
      BY DEF QInv, FilesInv
    <3> QED BY <1>1, <1>2, <1>4, <3>1
  <2>3. \A c \in Queued' \ hurt' : cipher'[c] = "whole" /\ sidecar'[c].whole /\ sidecar'[c].readable
                                   /\ sidecar'[c].backup # BadBackup
    <3>1. \A c \in Queued \ hurt : cipher[c] = "whole" /\ sidecar[c].whole /\ sidecar[c].readable
                                   /\ sidecar[c].backup # BadBackup
      BY DEF QInv, FilesInv
    <3>2. n # BadBackup
      BY <1>2, Numbers
    <3> QED BY <1>1, <1>4, <1>6, <3>1, <3>2
  <2>4. ASSUME NEW c \in Artifact, NEW b \in Backup, sidecar'[c].backup = b
        PROVE  copy'[b] # "none" /\ art'[b].artifact = c /\ art'[b].whole = sidecar'[c].whole
    <3>1. CASE c = a
      <4>1. Text(a).artifact = a /\ Text(a).whole = sidecar[a].whole
        BY DEF Text
      <4> QED BY <1>1, <1>2, <1>4, <2>4, <3>1, <4>1
    <3>2. CASE c # a
      <4>1. sidecar[c].backup = b /\ sidecar'[c].whole = sidecar[c].whole
        BY <1>4, <2>4, <3>2
      <4>2. copy[b] # "none" /\ art[b].artifact = c /\ art[b].whole = sidecar[c].whole
        BY <4>1 DEF QInv, FilesInv
      <4> QED BY <1>1, <4>1, <4>2
    <3> QED BY <3>1, <3>2
  <2> QED BY <2>1, <2>2, <2>3, <2>4 DEF FilesInv
<1>8. FlushInv'
  <2>1. Waiting' /\ Says("none").is = "none" /\ n # BadBackup /\ n # NoBackup
    BY <1>2, <1>3, Answers, Numbers DEF Waiting, Ops
  <2> QED BY <1>1, <1>2, <1>3, <1>4, <1>6, <2>1 DEF FlushInv, Ops, Local
<1>9. GatewayInv'
  BY <1>1, ArtOfBackup, GatewayKept DEF QInv, GatewayInv, TypeInv
<1>10. UniqueInv'
  <2>1. \A b \in Backup : Storable(b)' => Storable(b) \/ b = n
    <3>1. ASSUME NEW b \in Backup, Named(b)', b # n
          PROVE  Named(b)
      <4>1. \A c \in Artifact : sidecar'[c].backup = b => sidecar[c].backup = b
        BY <1>4, <3>1
      <4> QED BY <1>1, <3>1, <4>1 DEF Named
    <3> QED BY <1>1, <3>1 DEF Storable, Gateway!Stored, Gateway!Reserved
  <2>2. \A c \in Artifact : Text(c)' = Text(c)
    BY <1>1, <1>4 DEF Text
  <2>3. Text(a).artifact = a
    BY DEF Text
  <2>4. a \notin hurt => \A b \in Backup : Storable(b) => art[b] # Text(a)
    BY <1>2, Numbers DEF QInv, UniqueInv
  <2>5. ASSUME NEW c \in Queued' \ hurt', NEW b \in Backup, Storable(b)', art'[b] = Text(c)'
        PROVE  sidecar'[c].backup = b
    <3>1. c \in Queued \ hurt /\ c \in Artifact /\ art[b] = Text(c)
      BY <1>1, <1>6, <2>2, <2>5
    <3>2. CASE b = n
      <4>1. c = a
        BY <1>2, <2>3, <3>1, <3>2 DEF Text
      <4> QED BY <1>4, <3>2, <4>1
    <3>3. CASE b # n
      <4>1. Storable(b)
        BY <2>1, <2>5, <3>3
      <4>2. c # a
        BY <2>4, <3>1, <4>1
      <4>3. sidecar[c].backup = b
        BY <3>1, <4>1 DEF QInv, UniqueInv
      <4> QED BY <1>4, <3>1, <4>2, <4>3
    <3> QED BY <3>2, <3>3
  <2>6. ASSUME NEW b \in Backup, NEW c \in Backup, Storable(b)', Storable(c)', art'[b] = art'[c],
               art'[b].artifact \notin hurt'
        PROVE  b = c
    <3>1. art[b] = art[c] /\ art[b].artifact \notin hurt
      BY <1>1, <2>6
    <3>2. CASE b = n \/ c = n
      <4>1. art[b] = Text(a) /\ art[c] = Text(a) /\ a \notin hurt
        BY <1>2, <2>3, <3>1, <3>2
      <4> QED BY <2>1, <2>4, <2>6, <4>1
    <3>3. CASE b # n /\ c # n
      <4>1. Storable(b) /\ Storable(c)
        BY <2>1, <2>6, <3>3
      <4> QED BY <3>1, <4>1 DEF QInv, UniqueInv
    <3> QED BY <3>2, <3>3
  <2> QED BY <2>5, <2>6 DEF UniqueInv
<1> QED BY <1>5, <1>7, <1>8, <1>9, <1>10 DEF QInv

-----------------------------------------------------------------------------
(* The invariant. *)

LEMMA InitInv == Init => QInv
<1> SUFFICES ASSUME Init PROVE QInv
  OBVIOUS
<1>1. /\ cipher = [a \in Artifact |-> "none"] /\ sidecar = [a \in Artifact |-> NoSidecar]
      /\ making = 0 /\ flush = IdleFlush /\ token = NoDevice /\ hurt = {}
      /\ copy = [b \in Backup |-> "none"] /\ art = [b \in Backup |-> NoCiphertext]
      /\ acked = {} /\ published = {} /\ enrolled = {} /\ revoked = {} /\ late = {}
  BY DEF Init, Gateway!CInit
<1>2. /\ IdleFlush.pc = "idle" /\ IdleFlush.todo = {} /\ IdleFlush.artifact = 0
      /\ IdleFlush.answer = Says("none") /\ ~Waiting /\ Queued = {}
  BY <1>1 DEF IdleFlush, Waiting, Ops, Queued
<1>3. TypeInv
  <2>1. IdleFlush \in Flush
    BY Answers DEF IdleFlush, Flush, Pc
  <2> QED BY <1>1, <2>1, SidecarTypes DEF TypeInv
<1>4. FilesInv
  <2>1. \A a \in Artifact : sidecar[a].backup = NoBackup
    BY <1>1 DEF NoSidecar
  <2> QED BY <1>1, <1>2, <2>1, Numbers DEF FilesInv
<1>5. FlushInv
  BY <1>1, <1>2 DEF FlushInv, Ops
<1>6. GatewayInv
  BY <1>1 DEF GatewayInv
<1>7. UniqueInv
  BY <1>1 DEF UniqueInv, Storable, Gateway!Stored, Gateway!Reserved
<1> QED BY <1>3, <1>4, <1>5, <1>6, <1>7 DEF QInv

LEMMA NextInv == QInv /\ [Next]_vars => QInv'
<1> SUFFICES ASSUME QInv, [Next]_vars PROVE QInv'
  OBVIOUS
<1>1. CASE BeginSnapshot \/ PublishSnapshot \/ FailSnapshot
  BY <1>1, BeginSnapshotKeeps, PublishSnapshotKeeps, FailSnapshotKeeps
<1>2. CASE \E uploads \in BOOLEAN : StartFlush(uploads)
  BY <1>2, StartFlushKeeps
<1>3. CASE FlushStep
  <2>1. CASE \E a \in Artifact : Prune(a)
    BY <2>1, PruneKeeps
  <2>2. CASE StartUploads \/ SetAside \/ Take \/ FinishFlush \/ Bind \/ Relay
    BY <2>2, StartUploadsKeeps, SetAsideKeeps, TakeKeeps, FinishKeeps, BindKeeps, RelayKeeps
  <2>3. CASE Unqueue \/ Tidy \/ Unbind \/ Abort
    BY <2>3, UnqueueKeeps, TidyKeeps, UnbindKeeps, FinishKeeps
  <2> QED BY <1>3, <2>1, <2>2, <2>3 DEF FlushStep
<1>4. CASE DropToken \/ ServeFlush \/ GiveUp \/ Crash
  BY <1>4, DropTokenKeeps, ServeFlushKeeps, GiveUpKeeps
<1>5. CASE \E d \in Device : Enroll(d) \/ Revoke(d)
  BY <1>5, EnrollKeeps, RevokeKeeps
<1>6. CASE \E a \in Artifact : Damage(a)
  BY <1>6, DamageKeeps
<1>7. CASE \E b \in Backup : RetireBackup(b)
  BY <1>7, RetireBackupKeeps
<1>8. CASE \E q \in late : ServeLate(q)
  BY <1>8, ServeLateKeeps
<1>9. CASE UNCHANGED vars
  <2>1. UNCHANGED <<cipher, sidecar, making, flush, token, hurt, copy, art, acked, published,
                    enrolled, revoked, late>>
    BY <1>9 DEF vars, desktop, gateway
  <2>2. flush \in Flush
    BY DEF QInv, TypeInv
  <2>3. TypeInv' /\ FilesInv' /\ GatewayInv' /\ UniqueInv' /\ Queued' = Queued
    BY <2>1, <2>2, StillKeeps
  <2>4. \A b \in Backup : Storable(b)' => Storable(b)
    BY <2>1, StorableKept
  <2>5. FlushInv'
    BY <2>1, <2>3, <2>4, FlushKept, FlushTypes DEF QInv
  <2> QED BY <2>3, <2>5 DEF QInv
<1> QED BY <1>1, <1>2, <1>3, <1>4, <1>5, <1>6, <1>7, <1>8, <1>9 DEF Next

LEMMA QueueInv == Spec => []QInv
BY InitInv, NextInv, PTL DEF Spec

\* Every variable of the queue, the flush and the gateway keeps its type, for
\* any number of artifacts, reservations, devices and late requests.
THEOREM QueueTypes == Spec => []QTypeOK
<1>1. QInv => QTypeOK
  BY TypeInvIs DEF QInv
<1> QED BY <1>1, QueueInv, PTL

\* However responses are lost, delayed or repeated, the gateway never stores an
\* intact artifact twice for the same device: what it stores is storable, and no
\* two storable backups have the ciphertext of an unhurt artifact.
THEOREM NothingTwice == Spec => []NoSecondObject
<1>1. QInv => NoSecondObject
  BY DEF QInv, UniqueInv, NoSecondObject, Storable
<1> QED BY <1>1, QueueInv, PTL

-----------------------------------------------------------------------------
(* The refinement. *)

Place == [a \in Artifact |-> PlaceOf(a)]

\* The abstract specification counts as the queue does.
LEMMA SameCount == \A S : Offsite!Cardinality(S) = Cardinality(S)
BY Zenon DEF Offsite!Cardinality, Cardinality

\* So does what it counts.
LEMMA NewerSame == \A a : Offsite!NewerQueued(a) = NewerOfKind(a, Queued)
<1> TAKE a
<1>1. \A c \in Artifact : Place[c] = "queue" <=> c \in Queued
  BY DEF Place, PlaceOf, Queued
<1>2. Offsite!NewerQueued(a)
        = {c \in Artifact : c > a /\ KindOf[c] = KindOf[a] /\ Place[c] = "queue"}
  BY DEF Offsite!NewerQueued, Place
<1>3. {c \in Artifact : c > a /\ KindOf[c] = KindOf[a] /\ Place[c] = "queue"}
        = {c \in Queued : c > a /\ KindOf[c] = KindOf[a]}
  BY <1>1 DEF Queued
<1> QED BY <1>2, <1>3 DEF NewerOfKind

\* A step that touches no ciphertext, no object and no damage.
LEMMA Stutters ==
  ASSUME UNCHANGED <<cipher, hurt, acked, art>>
  PROVE  UNCHANGED Offsite!ovars
<1>1. UNCHANGED <<Place, AcknowledgedIntact>>
  BY DEF Place, PlaceOf, Queued, AcknowledgedIntact
<1> QED BY <1>1 DEF Offsite!ovars, Place

\* An artifact may leave the queue once it is acknowledged or damaged, or when
\* newer ones fill the queue.
LEMMA Leaves ==
  ASSUME QInv, NEW a \in Queued, NEW v \in {"gone", "aside"},
         cipher' = [cipher EXCEPT ![a] = v], UNCHANGED <<hurt, acked, art>>,
         \/ a \in AcknowledgedIntact \/ a \in hurt
         \/ Cardinality(NewerOfKind(a, Queued)) >= Limit[KindOf[a]]
  PROVE  Offsite!ONext
<1>1. /\ a \in Artifact /\ Queued' = Queued \ {a} /\ cipher'[a] = v
      /\ \A c \in Artifact : c # a => cipher'[c] = cipher[c]
  BY DEF QInv, TypeInv, Queued
<1>2. Place[a] = "queue" /\ Place' = [Place EXCEPT ![a] = "left"]
  <2>1. PlaceOf(a) = "queue" /\ PlaceOf(a)' = "left"
    BY <1>1 DEF PlaceOf, Queued
  <2>2. \A c \in Artifact : c # a => PlaceOf(c)' = PlaceOf(c)
    BY <1>1 DEF PlaceOf
  <2> QED BY <1>1, <2>1, <2>2 DEF Place
<1>3. AcknowledgedIntact' = AcknowledgedIntact
  BY DEF AcknowledgedIntact
<1>4. Offsite!Leave(a)
  BY <1>1, <1>2, <1>3, NewerSame, SameCount DEF Offsite!Leave, Place
<1> QED BY <1>1, <1>4 DEF Offsite!ONext

\* The gateway acknowledges an artifact, or none.
LEMMA Answered ==
  ASSUME QInv, NEW q, Served(q), NEW ans \in Answer, Handle(q, ans), UNCHANGED <<cipher, hurt>>
  PROVE  [Offsite!ONext]_(Offsite!ovars)
<1>1. CASE GatewayIdle
  BY <1>1, Stutters DEF GatewayIdle, gateway
<1>2. CASE Gateway!OpenReservation(q.text, ans.backup)
  <2> DEFINE n == ans.backup
  <2>1. acked' = acked /\ n \notin acked /\ art' = [art EXCEPT ![n] = q.text]
    BY <1>2 DEF Gateway!OpenReservation, QInv, GatewayInv
  <2> HIDE DEF n
  <2>2. \A b \in acked : art'[b] = art[b]
    BY <2>1 DEF QInv, TypeInv
  <2>3. UNCHANGED <<Place, AcknowledgedIntact>>
    BY <2>1, <2>2 DEF Place, PlaceOf, Queued, AcknowledgedIntact
  <2> QED BY <2>3 DEF Offsite!ovars, Place
<1>3. CASE /\ q.op # "reserve" /\ Bound(q) /\ art' = art
           /\ acked' \in {acked, acked \union {q.backup}}
  <2> DEFINE n == q.backup
             a == art[n].artifact
  <2>1. /\ n \in Backup /\ copy[n] # "none"
    BY <1>3 DEF Served
  <2>2. a \in Artifact /\ cipher[a] # "none" /\ ~Local(a) /\ art[n].whole \in BOOLEAN
    BY <2>1 DEF QInv, GatewayInv, Ciphertext
  <2>3. Place' = Place
    BY DEF Place, PlaceOf, Queued
  <2>4. AcknowledgedIntact' \in {AcknowledgedIntact, AcknowledgedIntact \union {a}}
    BY <1>3, <2>1, <2>2 DEF AcknowledgedIntact
  <2> HIDE DEF n, a
  <2>5. CASE AcknowledgedIntact' = AcknowledgedIntact
    BY <2>3, <2>5 DEF Offsite!ovars, Place
  <2>6. CASE AcknowledgedIntact' = AcknowledgedIntact \union {a}
    <3>1. Place[a] # "none" /\ KindOf[a] # "local"
      BY <2>2 DEF Place, PlaceOf, Local
    <3>2. Offsite!Acknowledged(a)
      BY <2>2, <2>3, <2>6, <3>1 DEF Offsite!Acknowledged, Place
    <3> QED BY <2>2, <3>2 DEF Offsite!ONext
  <2> QED BY <2>4, <2>5, <2>6
<1> QED BY <1>1, <1>2, <1>3, HandleIs

LEMMA UnqueueLeaves == QInv /\ Unqueue => Offsite!ONext
<1> SUFFICES ASSUME QInv, Unqueue PROVE Offsite!ONext
  OBVIOUS
<1> DEFINE a == flush.artifact
           b == flush.backup
<1>1. /\ Waiting /\ flush.answer.is = "completed"
      /\ cipher' = [cipher EXCEPT ![a] = "gone"] /\ UNCHANGED <<hurt, acked, art>>
  BY DEF Unqueue, gateway
<1>2. a \in Queued /\ a \in Artifact /\ b \in acked /\ sidecar[a].backup = b
  BY <1>1, FlushTypes DEF QInv, FlushInv, Waiting
<1>3. b \in Backup
  BY <1>2 DEF QInv, TypeInv
<1> HIDE DEF a, b
<1>4. art[b].artifact = a /\ art[b].whole = sidecar[a].whole
  BY <1>2, <1>3 DEF QInv, FilesInv
<1>5. a \notin hurt => sidecar[a].whole
  BY <1>2 DEF QInv, FilesInv
<1>6. a \in AcknowledgedIntact \/ a \in hurt
  BY <1>2, <1>4, <1>5 DEF AcknowledgedIntact
<1> QED BY <1>1, <1>2, <1>6, Leaves

LEMMA SetAsideLeaves == QInv /\ SetAside => Offsite!ONext
<1> SUFFICES ASSUME QInv, SetAside PROVE Offsite!ONext
  OBVIOUS
<1> DEFINE a == Oldest(flush.todo)
<1>1. /\ flush.pc = "take" /\ flush.todo # {} /\ ~Verified(a)
      /\ cipher' = [cipher EXCEPT ![a] = "aside"] /\ UNCHANGED <<hurt, acked, art>>
  BY DEF SetAside, gateway
<1>2. a \in Queued
  BY <1>1, TodoOldest
<1> HIDE DEF a
<1>3. a \in hurt
  BY <1>1, <1>2 DEF Verified, QInv, FilesInv
<1> QED BY <1>1, <1>2, <1>3, Leaves

LEMMA PruneLeaves == ASSUME QInv, NEW a \in Artifact, Prune(a) PROVE Offsite!ONext
<1>1. /\ flush.pc = "prune" /\ a \in flush.todo
      /\ cipher' = [cipher EXCEPT ![a] = "gone"] /\ UNCHANGED <<hurt, acked, art>>
  BY DEF Prune, gateway
<1>2. a \in Queued /\ Cardinality(NewerOfKind(a, Queued)) >= Limit[KindOf[a]]
  BY <1>1 DEF QInv, FlushInv
<1> QED BY <1>1, <1>2, Leaves

LEMMA PublishMakes == QInv /\ PublishSnapshot => Offsite!ONext
<1> SUFFICES ASSUME QInv, PublishSnapshot PROVE Offsite!ONext
  OBVIOUS
<1>1. /\ making # 0 /\ cipher' = [cipher EXCEPT ![making] = "whole"]
      /\ UNCHANGED <<hurt, acked, art>>
  BY DEF PublishSnapshot, gateway
<1>2. PICK m \in Artifact :
        /\ m = making /\ cipher[m] = "none" /\ cipher'[m] = "whole"
        /\ \A c \in Artifact : c # m => cipher'[c] = cipher[c]
  BY <1>1 DEF QInv, TypeInv, FilesInv
<1>3. Place[m] = "none" /\ Place' = [Place EXCEPT ![m] = "queue"]
  <2>1. PlaceOf(m) = "none" /\ PlaceOf(m)' = "queue"
    BY <1>2 DEF PlaceOf, Queued
  <2>2. \A c \in Artifact : c # m => PlaceOf(c)' = PlaceOf(c)
    BY <1>2 DEF PlaceOf, Queued
  <2> QED BY <1>2, <2>1, <2>2 DEF Place
<1>4. AcknowledgedIntact' = AcknowledgedIntact
  BY <1>1 DEF AcknowledgedIntact
<1>5. Offsite!Make(m)
  BY <1>1, <1>3, <1>4 DEF Offsite!Make, Place
<1> QED BY <1>2, <1>5 DEF Offsite!ONext

LEMMA DamageSpoils == ASSUME QInv, NEW a \in Artifact, Damage(a) PROVE Offsite!ONext
<1>1. /\ a \in Queued /\ hurt' = hurt \union {a} /\ UNCHANGED <<acked, art>>
      /\ cipher' \in {cipher, [cipher EXCEPT ![a] = "damaged"]}
  BY DEF Damage, gateway
<1>2. Place[a] = "queue" /\ Place' = Place /\ AcknowledgedIntact' = AcknowledgedIntact
  <2>1. \A c \in Artifact : PlaceOf(c)' = PlaceOf(c)
    BY <1>1 DEF PlaceOf, Queued, QInv, TypeInv
  <2> QED BY <1>1, <2>1 DEF Place, PlaceOf, Queued, AcknowledgedIntact
<1>3. Offsite!Spoil(a)
  BY <1>1, <1>2 DEF Offsite!Spoil, Place
<1> QED BY <1>3 DEF Offsite!ONext

LEMMA InitOffsite == Init => Offsite!OInit
<1> SUFFICES ASSUME Init PROVE Offsite!OInit
  OBVIOUS
<1>1. cipher = [a \in Artifact |-> "none"] /\ acked = {} /\ hurt = {}
  BY DEF Init, Gateway!CInit
<1> QED BY <1>1 DEF Offsite!OInit, PlaceOf, AcknowledgedIntact

LEMMA NextOffsite == QInv /\ [Next]_vars => [Offsite!ONext]_(Offsite!ovars)
<1> SUFFICES ASSUME QInv, [Next]_vars PROVE [Offsite!ONext]_(Offsite!ovars)
  OBVIOUS
<1>1. CASE PublishSnapshot \/ SetAside \/ Unqueue
  BY <1>1, PublishMakes, SetAsideLeaves, UnqueueLeaves
<1>2. CASE \E a \in Artifact : Damage(a) \/ Prune(a)
  BY <1>2, DamageSpoils, PruneLeaves
<1>3. CASE ServeFlush
  <2>1. Served(CurrentRequest)
    BY <1>3, CurrentServed DEF ServeFlush
  <2> QED BY <1>3, <2>1, Answered DEF ServeFlush
<1>4. CASE \E q \in late : ServeLate(q)
  <2>1. PICK q \in late : ServeLate(q)
    BY <1>4
  <2>2. Served(q) /\ UNCHANGED <<cipher, hurt>>
    BY <2>1, LateServed DEF ServeLate, desktop
  <2>3. CASE GatewayIdle
    BY <2>2, <2>3, Stutters DEF GatewayIdle, gateway
  <2>4. CASE \E ans \in Answer : Handle(q, ans)
    BY <2>2, <2>4, Answered
  <2> QED BY <2>1, <2>3, <2>4 DEF ServeLate
<1>5. CASE \/ BeginSnapshot \/ FailSnapshot \/ \E uploads \in BOOLEAN : StartFlush(uploads)
           \/ StartUploads \/ Take \/ FinishFlush \/ Bind \/ Relay \/ Tidy \/ Unbind \/ Abort
           \/ DropToken \/ GiveUp \/ Crash
  <2>1. UNCHANGED <<cipher, hurt, acked, art>>
    BY <1>5 DEF BeginSnapshot, FailSnapshot, StartFlush, StartUploads, Take, FinishFlush, Bind,
                Relay, Tidy, Unbind, Abort, DropToken, GiveUp, Crash, gateway
  <2> QED BY <2>1, Stutters
<1>6. CASE (\E d \in Device : Enroll(d) \/ Revoke(d)) \/ \E b \in Backup : RetireBackup(b)
  <2>1. UNCHANGED <<cipher, hurt, acked, art>>
    BY <1>6 DEF Enroll, Revoke, RetireBackup, desktop, Gateway!Retire
  <2> QED BY <2>1, Stutters
<1>7. CASE UNCHANGED vars
  BY <1>7, Stutters DEF vars, desktop, gateway
<1> QED BY <1>1, <1>2, <1>3, <1>4, <1>5, <1>6, <1>7 DEF Next, FlushStep

\* The queue and its flush implement what the desktop promises of a snapshot:
\* none leaves the queue before the gateway acknowledged it, except when newer
\* ones of its class fill the queue or it turned out damaged.
THEOREM QueueImplements == Spec => ImplementsOffsiteBackup
BY InitOffsite, NextOffsite, QueueInv, PTL DEF Spec, ImplementsOffsiteBackup, Offsite!OSpec

-----------------------------------------------------------------------------
(* What remains of a class. *)

\* The gateway keeps a backup of each device and class it acknowledged one of.
LaneInv ==
  \A b \in acked : \E c \in Backup :
    Gateway!Stored(c) /\ LaneOfCiphertext[art[c]] = LaneOfCiphertext[art[b]]

Made == {a \in Artifact : Place[a] # "none"}

\* An artifact left undamaged because it was acknowledged, or crowded out.
LeftInv ==
  \A a \in Artifact \ hurt : Place[a] = "left" =>
    a \in AcknowledgedIntact \/ Cardinality(NewerOfKind(a, Made)) >= Limit[KindOf[a]]

\* What is stored stays stored, and what is acknowledged is stored.
LEMMA HandleStores ==
  ASSUME QInv, NEW q, Served(q), NEW ans \in Answer, Handle(q, ans)
  PROVE  /\ \A b \in Backup : Gateway!Stored(b) => Gateway!Stored(b)' /\ art'[b] = art[b]
         /\ \A b \in acked' : b \in Backup /\ (b \notin acked => copy'[b] = "stored")
         /\ \A b \in acked : art'[b] = art[b]
<1>1. /\ copy \in [Backup -> {"none", "reserved", "stored", "gone"}]
      /\ art \in [Backup -> Ciphertext \union {NoCiphertext}] /\ acked \subseteq Backup
      /\ \A b \in acked : copy[b] # "none"
  BY DEF QInv, TypeInv, GatewayInv
<1>2. CASE GatewayIdle
  BY <1>1, <1>2 DEF GatewayIdle, gateway, Gateway!Stored
<1>3. CASE Reserve(q, ans) /\ ~GatewayIdle
  <2>1. Gateway!OpenReservation(q.text, ans.backup)
    BY <1>3 DEF Reserve
  <2> QED BY <1>1, <2>1 DEF Gateway!OpenReservation, Gateway!Stored
<1>4. CASE Complete(q, ans) \/ PublishOnly(q, ans)
  <2>1. q.backup \in Backup
    BY <1>4 DEF Served, Complete, PublishOnly
  <2> QED BY <1>1, <1>4, <2>1 DEF Complete, PublishOnly, Gateway!Acknowledge, Gateway!StoreBackup,
                                  Gateway!Stored, Gateway!Reserved
<1> QED BY <1>2, <1>3, <1>4 DEF Handle, Absent, Unbound, Fail

LEMMA LaneGrows ==
  ASSUME LaneInv, \A b \in acked' \ acked : b \in Backup /\ copy'[b] = "stored",
         \A b \in acked : art'[b] = art[b],
         \A b \in Backup : Gateway!Stored(b) => Gateway!Stored(b)' /\ art'[b] = art[b]
  PROVE  LaneInv'
<1> SUFFICES ASSUME NEW b \in acked'
             PROVE  \E c \in Backup :
                      copy'[c] = "stored" /\ LaneOfCiphertext[art'[c]] = LaneOfCiphertext[art'[b]]
  BY DEF LaneInv, Gateway!Stored, LaneOfCiphertext
<1>1. CASE b \in acked
  <2>1. PICK c \in Backup :
          Gateway!Stored(c) /\ LaneOfCiphertext[art[c]] = LaneOfCiphertext[art[b]]
    BY <1>1 DEF LaneInv
  <2>2. copy'[c] = "stored" /\ art'[c] = art[c] /\ art'[b] = art[b]
    BY <1>1, <2>1 DEF Gateway!Stored
  <2> QED BY <2>1, <2>2
<1>2. CASE b \notin acked
  BY <1>2
<1> QED BY <1>1, <1>2

LEMMA LaneSame == ASSUME LaneInv, UNCHANGED <<copy, art, acked>> PROVE LaneInv'
BY LaneGrows DEF Gateway!Stored

LEMMA LaneKept == QInv /\ LaneInv /\ [Next]_vars => LaneInv'
<1> SUFFICES ASSUME QInv, LaneInv, [Next]_vars PROVE LaneInv'
  OBVIOUS
<1>1. CASE ServeFlush
  <2>1. Served(CurrentRequest)
    BY <1>1, CurrentServed DEF ServeFlush
  <2>2. PICK ans \in Answer : Handle(CurrentRequest, ans)
    BY <1>1 DEF ServeFlush
  <2> QED BY <2>1, <2>2, HandleStores, LaneGrows
<1>2. CASE \E q \in late : ServeLate(q)
  <2>1. PICK q \in late : ServeLate(q)
    BY <1>2
  <2>2. CASE GatewayIdle
    BY <2>2, LaneSame DEF GatewayIdle, gateway
  <2>3. CASE \E ans \in Answer : Handle(q, ans)
    BY <2>3, LateServed, HandleStores, LaneGrows
  <2> QED BY <2>1, <2>2, <2>3 DEF ServeLate
<1>3. CASE \E n \in Backup : RetireBackup(n)
  <2>1. PICK n \in Backup : RetireBackup(n)
    BY <1>3
  <2>2. /\ UNCHANGED <<art, acked>>
        /\ copy' = [b \in Backup |-> IF b \in {n} THEN "gone" ELSE copy[b]]
        /\ copy[n] = "stored" =>
             \E c \in Backup : /\ c # n /\ copy[c] = "stored"
                               /\ LaneOfCiphertext[art[c]] = LaneOfCiphertext[art[n]]
    BY <2>1 DEF RetireBackup, Gateway!Retire, Gateway!Stored
  <2>3. ASSUME NEW b \in acked
        PROVE  \E c \in Backup : /\ copy'[c] = "stored"
                                 /\ LaneOfCiphertext[art[c]] = LaneOfCiphertext[art[b]]
    <3>1. PICK c \in Backup :
            copy[c] = "stored" /\ LaneOfCiphertext[art[c]] = LaneOfCiphertext[art[b]]
      BY DEF LaneInv, Gateway!Stored
    <3>2. CASE c # n
      BY <2>2, <3>1, <3>2
    <3>3. CASE c = n
      BY <2>2, <3>1, <3>3
    <3> QED BY <3>2, <3>3
  <2>4. \A b \in acked' : \E c \in Backup : /\ copy'[c] = "stored"
                                          /\ LaneOfCiphertext[art'[c]] = LaneOfCiphertext[art'[b]]
    BY <2>2, <2>3
  <2> QED BY <2>4 DEF LaneInv, Gateway!Stored, LaneOfCiphertext
<1>4. CASE FlushStep
  <2>1. UNCHANGED gateway
    BY <1>4 DEF FlushStep, Prune, StartUploads, SetAside, Take, FinishFlush, Bind, Relay, Unqueue,
                Tidy, Unbind, Abort
  <2> QED BY <2>1, LaneSame DEF gateway
<1>5. CASE \/ BeginSnapshot \/ PublishSnapshot \/ FailSnapshot
           \/ \E uploads \in BOOLEAN : StartFlush(uploads)
           \/ \E a \in Artifact : Damage(a)
           \/ DropToken \/ GiveUp \/ Crash
  <2>1. UNCHANGED gateway
    BY <1>5 DEF BeginSnapshot, PublishSnapshot, FailSnapshot, StartFlush, Damage, DropToken,
                GiveUp, Crash
  <2> QED BY <2>1, LaneSame DEF gateway
<1>6. CASE \E d \in Device : Enroll(d) \/ Revoke(d)
  BY <1>6, LaneSame DEF Enroll, Revoke
<1>7. CASE UNCHANGED vars
  BY <1>7, LaneSame DEF vars, gateway
<1> QED BY <1>1, <1>2, <1>3, <1>4, <1>5, <1>6, <1>7 DEF Next

\* What OffsiteBackup lets leave.
LEMMA LeftKept == ASSUME QInv, LeftInv, [Offsite!ONext]_(Offsite!ovars) PROVE LeftInv'
<1>1. /\ \A a \in Artifact : Place[a] # "none" => Place'[a] # "none"
      /\ hurt \subseteq hurt' /\ AcknowledgedIntact \subseteq AcknowledgedIntact'
      /\ \A a \in Artifact : Place'[a] = "left" =>
           \/ Place[a] = "left" \/ a \in AcknowledgedIntact \/ a \in hurt
           \/ Cardinality(NewerOfKind(a, Queued)) >= Limit[KindOf[a]]
  <2>1. CASE UNCHANGED Offsite!ovars
    BY <2>1 DEF Offsite!ovars, Place
  <2>2. CASE \E a \in Artifact : Offsite!Make(a) \/ Offsite!Acknowledged(a) \/ Offsite!Spoil(a)
    BY <2>2 DEF Offsite!Make, Offsite!Acknowledged, Offsite!Spoil, Place
  <2>3. ASSUME NEW a \in Artifact, Offsite!Leave(a)
        PROVE  <1>1
    <3>1. /\ Place[a] = "queue" /\ Place' = [Place EXCEPT ![a] = "left"]
          /\ a \in AcknowledgedIntact \/ a \in hurt
             \/ Cardinality(NewerOfKind(a, Queued)) >= Limit[KindOf[a]]
          /\ UNCHANGED <<AcknowledgedIntact, hurt>>
      BY <2>3, SameCount, NewerSame DEF Offsite!Leave, Place
    <3>2. \A c \in Artifact : c # a => Place'[c] = Place[c]
      BY <3>1 DEF Place
    <3>3. Place'[a] = "left"
      BY <3>1 DEF Place
    <3> QED BY <3>1, <3>2, <3>3
  <2> QED BY <2>1, <2>2, <2>3 DEF Offsite!ONext
<1>2. Made' \in SUBSET Artifact /\ Made \in SUBSET Made' /\ Queued \in SUBSET Made
  BY <1>1 DEF Made, Place, PlaceOf, Queued
<1>3. ASSUME NEW a \in Artifact \ hurt', Place'[a] = "left"
      PROVE  a \in AcknowledgedIntact' \/ Cardinality(NewerOfKind(a, Made')) >= Limit[KindOf[a]]
  <2>1. /\ Cardinality(NewerOfKind(a, Made)) \in Nat /\ Cardinality(NewerOfKind(a, Made')) \in Nat
        /\ Cardinality(NewerOfKind(a, Made)) <= Cardinality(NewerOfKind(a, Made'))
    BY <1>2, NewerKept
  <2>2. /\ Cardinality(NewerOfKind(a, Queued)) \in Nat
        /\ Cardinality(NewerOfKind(a, Queued)) <= Cardinality(NewerOfKind(a, Made))
    BY <1>2, NewerKept
  <2>3. Limit[KindOf[a]] \in Nat
    BY QueueAssumption
  <2>4. \/ a \in AcknowledgedIntact
        \/ Cardinality(NewerOfKind(a, Queued)) >= Limit[KindOf[a]]
        \/ Cardinality(NewerOfKind(a, Made)) >= Limit[KindOf[a]]
    BY <1>1, <1>3 DEF LeftInv
  <2> QED BY <1>1, <2>1, <2>2, <2>3, <2>4
<1>4. \A a : NewerOfKind(a, Made)' = NewerOfKind(a, Made')
  BY DEF NewerOfKind
<1> QED BY <1>3, <1>4 DEF LeftInv

\* A set of artifacts has a newest one.
LEMMA NewestIs ==
  ASSUME NEW S \in SUBSET Artifact, S # {}
  PROVE  \E a \in S : \A c \in S : c <= a
<1> DEFINE T == {c..NumArtifacts : c \in S}
<1>1. S \subseteq Nat /\ NumArtifacts \in Nat /\ \A c \in S : c <= NumArtifacts
  BY QueueAssumption DEF Artifact
<1>2. T # {} /\ T \subseteq FiniteSubsetsOf(Nat)
  <2>1. \A c \in S : IsFiniteSet(c..NumArtifacts) /\ c..NumArtifacts \subseteq Nat
    BY <1>1, FS_Interval
  <2> QED BY <2>1 DEF FiniteSubsetsOf
<1>3. PICK t \in T : \A u \in T : ~(<<u, t>> \in StrictSubsetOrdering(Nat))
  <2> HIDE DEF T
  <2> QED BY <1>2, FS_StrictSubsetOrderingWellFounded, WFMin, Zenon
<1>4. PICK a \in S : t = a..NumArtifacts
  BY <1>3
<1>5. \A c \in S : c <= a
  <2> SUFFICES ASSUME NEW c \in S, ~(c <= a) PROVE FALSE
    OBVIOUS
  <2>1. a \in Nat /\ c \in Nat /\ a < c /\ a <= NumArtifacts
    BY <1>1
  <2>2. c..NumArtifacts \subseteq a..NumArtifacts /\ c..NumArtifacts # a..NumArtifacts
    BY <1>1, <2>1
  <2>3. c..NumArtifacts \subseteq Nat /\ a..NumArtifacts \subseteq Nat
    BY <1>1, <2>1
  <2>4. <<c..NumArtifacts, a..NumArtifacts>> \in StrictSubsetOrdering(Nat)
    BY <2>2, <2>3 DEF StrictSubsetOrdering
  <2> QED BY <1>3, <1>4, <2>4
<1> QED BY <1>5

\* The newest undamaged artifact of a class is in the queue, or the gateway
\* acknowledged it and keeps one of its class.
LEMMA Recoverable == QInv /\ LaneInv /\ LeftInv => SomethingRecoverable
<1> SUFFICES ASSUME QInv, LaneInv, LeftInv,
                    \A b \in Backup : copy[b] # "none" => art[b].whole,
                    NEW k \in Kind \ {"local"}
             PROVE  LET made == {a \in Artifact : KindOf[a] = k /\ cipher[a] # "none"}
                    IN Cardinality(made \intersect hurt) < Limit[k] /\ made # {} /\ ~(made \subseteq hurt) =>
                         \/ \E a \in made : cipher[a] = "whole"
                         \/ \E b \in Backup :
                              Gateway!Stored(b) /\ art[b].whole /\ KindOf[art[b].artifact] = k
  BY DEF SomethingRecoverable
<1> DEFINE made == {a \in Artifact : KindOf[a] = k /\ cipher[a] # "none"}
           sound == made \ hurt
<1> SUFFICES ASSUME Cardinality(made \intersect hurt) < Limit[k], sound # {}
             PROVE  \/ \E a \in made : cipher[a] = "whole"
                    \/ \E b \in Backup :
                         Gateway!Stored(b) /\ art[b].whole /\ KindOf[art[b].artifact] = k
  OBVIOUS
<1>1. PICK m \in sound : \A c \in sound : c <= m
  BY NewestIs
<1>2. ~(Cardinality(NewerOfKind(m, Made)) >= Limit[KindOf[m]])
  <2>1. NewerOfKind(m, Made) \subseteq made \intersect hurt
    <3> SUFFICES ASSUME NEW c \in NewerOfKind(m, Made) PROVE c \in made \intersect hurt
      OBVIOUS
    <3>1. c \in Artifact /\ Place[c] # "none" /\ c > m /\ KindOf[c] = KindOf[m]
      BY DEF NewerOfKind, Made
    <3>2. c \in made
      BY <3>1 DEF Place, PlaceOf
    <3>3. c \notin sound
      BY <1>1, <3>1, Numbers
    <3> QED BY <3>2, <3>3
  <2>2. IsFiniteSet(Artifact)
    BY QueueAssumption, FS_Interval DEF Artifact
  <2>3. IsFiniteSet(made \intersect hurt)
    BY <2>2, FS_Subset
  <2>4. /\ Cardinality(NewerOfKind(m, Made)) <= Cardinality(made \intersect hurt)
        /\ Cardinality(NewerOfKind(m, Made)) \in Nat /\ Cardinality(made \intersect hurt) \in Nat
    BY <2>1, <2>3, FS_Subset, FS_CardinalityType
  <2>5. Limit[k] \in Nat /\ KindOf[m] = k
    BY QueueAssumption
  <2> HIDE DEF made, sound
  <2> QED BY <2>4, <2>5
<1>3. CASE m \in Queued
  BY <1>3 DEF QInv, FilesInv
<1>4. CASE m \notin Queued
  <2>1. m \in Artifact /\ m \notin hurt /\ Place[m] = "left" /\ KindOf[m] = k
    BY <1>4 DEF Place, PlaceOf
  <2>2. PICK b \in acked : art[b].artifact = m
    BY <1>2, <2>1 DEF LeftInv, AcknowledgedIntact
  <2>3. PICK c \in Backup :
          Gateway!Stored(c) /\ LaneOfCiphertext[art[c]] = LaneOfCiphertext[art[b]]
    BY DEF LaneInv
  <2>4. /\ copy[c] # "none" /\ art[c].whole /\ art[c] \in Ciphertext /\ art[b] \in Ciphertext
    BY <2>3 DEF QInv, GatewayInv, Gateway!Stored
  <2>5. KindOf[art[c].artifact] = KindOf[art[b].artifact]
    BY <2>3, <2>4 DEF LaneOfCiphertext
  <2> QED BY <2>1, <2>2, <2>3, <2>4, <2>5
<1> QED BY <1>3, <1>4

\* Once a snapshot of a class was made, one of that class is intact in the
\* queue or stored by the gateway, whatever is pruned, retired, set aside,
\* revoked or interrupted, as long as fewer are damaged than the queue keeps of
\* the class and no damaged one was sent.
THEOREM NotEverythingLost == Spec => []SomethingRecoverable
<1>1. Init => LaneInv /\ LeftInv
  BY DEF Init, Gateway!CInit, LaneInv, LeftInv, Place, PlaceOf
<1>2. QInv /\ LaneInv /\ LeftInv /\ [Next]_vars => (LaneInv /\ LeftInv)'
  BY LaneKept, LeftKept, NextOffsite
<1> QED BY <1>1, <1>2, Recoverable, QueueInv, PTL DEF Spec

================================================================================
