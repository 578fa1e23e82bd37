--------------------------- MODULE GatewayContract ---------------------------
(***************************************************************************)
(* What the gateway promises a desktop, one backup at a time: a ciphertext *)
(* has at most one open reservation, a reservation is stored once or       *)
(* given up, only a stored backup is acknowledged, and the last stored     *)
(* backup of a device and class is never retired.                          *)
(*                                                                         *)
(* BackupGateway implements this module (GatewayRefinement).  The gateway  *)
(* that BackupQueue talks to keeps the same promises for one lane, with    *)
(* the protocol around them.                                               *)
(***************************************************************************)
EXTENDS Integers

CONSTANTS
  Backup,       \* reservations ever made
  Artifact,     \* ciphertexts of one size, hash, device and class
  Lane,         \* (device, class)
  LaneOf,
  NoArtifact

VARIABLES
  copy,   \* none, reserved, stored or gone
  art,    \* the ciphertext a backup was reserved for
  acked   \* backups a response reported as completed

cvars == <<copy, art, acked>>

CTypeOK ==
  /\ copy \in [Backup -> {"none", "reserved", "stored", "gone"}]
  /\ art \in [Backup -> Artifact \union {NoArtifact}]
  /\ acked \subseteq Backup

Reserved(b) == copy[b] = "reserved"
Stored(b) == copy[b] = "stored"

CInit ==
  /\ copy = [b \in Backup |-> "none"]
  /\ art = [b \in Backup |-> NoArtifact]
  /\ acked = {}

\* A new reservation; asking for an open one again changes nothing.
OpenReservation(a, b) ==
  /\ \A c \in Backup : ~(Reserved(c) /\ art[c] = a)
  /\ copy[b] = "none"
  /\ copy' = [copy EXCEPT ![b] = "reserved"]
  /\ art' = [art EXCEPT ![b] = a]
  /\ acked' = acked

\* The completion of b commits; the response may be lost.
StoreBackup(b) ==
  /\ Reserved(b)
  /\ copy' = [copy EXCEPT ![b] = "stored"]
  /\ acked' \in {acked, acked \union {b}}
  /\ art' = art

Acknowledge(b) ==
  /\ Stored(b)
  /\ acked' = acked \union {b}
  /\ UNCHANGED <<copy, art>>

\* A cleanup retires the backups D together.
Retire(D) ==
  /\ \A b \in D : Reserved(b) \/ Stored(b)
  /\ \A b \in D : Stored(b) =>
       \E c \in Backup \ D : Stored(c) /\ LaneOf[art[c]] = LaneOf[art[b]]
  /\ copy' = [b \in Backup |-> IF b \in D THEN "gone" ELSE copy[b]]
  /\ UNCHANGED <<art, acked>>

CNext ==
  \/ \E a \in Artifact, b \in Backup : OpenReservation(a, b)
  \/ \E b \in Backup : StoreBackup(b) \/ Acknowledge(b)
  \/ \E D \in SUBSET Backup : Retire(D)

CSpec == CInit /\ [][CNext]_cvars

\* A ciphertext has at most one open reservation, however often a lost response
\* makes the desktop reserve it again (reserve_or_reuse_backup).
OneReservation ==
  \A b, c \in Backup : Reserved(b) /\ Reserved(c) /\ art[b] = art[c] => b = c

\* Once a backup of a device and class was acknowledged, some backup of that
\* device and class is stored, whatever is retired later
\* (gateway/README.md:69-71).
LaneNeverEmpty ==
  \A b \in acked : \E c \in Backup : Stored(c) /\ LaneOf[art[c]] = LaneOf[art[b]]

==============================================================================
