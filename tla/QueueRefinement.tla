--------------------------- MODULE QueueRefinement ----------------------------
(* The queue and its flush implement what the desktop promises of a snapshot. *)
EXTENDS BackupQueue

PlaceOf(a) == IF cipher[a] = "none" THEN "none"
              ELSE IF a \in Queued THEN "queue" ELSE "left"

AcknowledgedIntact == {a \in Artifact : \E b \in acked : art[b].artifact = a /\ art[b].whole}

Offsite == INSTANCE OffsiteBackup
  WITH Snapshot <- Artifact, ClassOf <- KindOf, Kept <- Limit,
       place <- [a \in Artifact |-> PlaceOf(a)], offsite <- AcknowledgedIntact,
       spoiled <- hurt

\* No artifact leaves the queue before the gateway acknowledged it, except when
\* newer ones fill the queue or it is damaged, and none that is only for local
\* recovery ever reaches the gateway (flush_queue, prune_queue).
ImplementsOffsiteBackup == Offsite!OSpec

==============================================================================
