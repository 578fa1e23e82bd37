---------------------------- MODULE OffsiteBackup -----------------------------
(***************************************************************************)
(* What the desktop promises of a snapshot: once made it stays in the      *)
(* queue until the gateway acknowledged it, or newer ones of its class     *)
(* fill the queue, or it turned out damaged.                               *)
(***************************************************************************)
EXTENDS Integers, FiniteSets

CONSTANTS
  Snapshot,     \* numbers, in the order they are made
  ClassOf,
  Kept          \* how many of a class the queue keeps

VARIABLES
  place,        \* none, queue or left
  offsite,      \* snapshots the gateway acknowledged
  spoiled       \* snapshots damaged on disk

ovars == <<place, offsite, spoiled>>

NewerQueued(a) ==
  {c \in Snapshot : c > a /\ ClassOf[c] = ClassOf[a] /\ place[c] = "queue"}

OInit == place = [a \in Snapshot |-> "none"] /\ offsite = {} /\ spoiled = {}

Make(a) ==
  /\ place[a] = "none"
  /\ place' = [place EXCEPT ![a] = "queue"]
  /\ UNCHANGED <<offsite, spoiled>>

Acknowledged(a) ==
  /\ place[a] # "none" /\ ClassOf[a] # "local"
  /\ offsite' = offsite \union {a}
  /\ UNCHANGED <<place, spoiled>>

Spoil(a) ==
  /\ place[a] = "queue"
  /\ spoiled' = spoiled \union {a}
  /\ UNCHANGED <<place, offsite>>

Leave(a) ==
  /\ place[a] = "queue"
  /\ a \in offsite \/ a \in spoiled \/ Cardinality(NewerQueued(a)) >= Kept[ClassOf[a]]
  /\ place' = [place EXCEPT ![a] = "left"]
  /\ UNCHANGED <<offsite, spoiled>>

ONext == \E a \in Snapshot : Make(a) \/ Acknowledged(a) \/ Spoil(a) \/ Leave(a)

OSpec == OInit /\ [][ONext]_ovars

==============================================================================
