-------------------------- MODULE GatewayRefinement --------------------------
(* The object lifecycle implements the gateway's contract as long as no       *)
(* handler is dropped while one of its jobs runs on.                          *)
EXTENDS BackupGateway

CopyOf(b) ==
  IF row[b].status = "unused" THEN "none"
  ELSE IF Pending(b) /\ ~Claimed(b) THEN "reserved"
  ELSE IF Recoverable(b) THEN "stored"
  ELSE "gone"

Contract == INSTANCE GatewayContract
  WITH copy <- [b \in Backup |-> CopyOf(b)], art <- [b \in Backup |-> row[b].art]

\* Every step of the gateway is a step the contract allows, or none of its
\* business (reserve_or_reuse_backup, claim_storage_purges and
\* mark_backup_completed together).
ImplementsContract == Contract!CSpec

==============================================================================
