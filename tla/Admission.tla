------------------------------ MODULE Admission ------------------------------
(***************************************************************************)
(* What the gateway lets a device reserve and relay: the reservations that *)
(* may be open, the cadence of the scheduled classes, the bytes of any     *)
(* 24 hours and the device's token bucket.  A refused transaction is       *)
(* rolled back and changes nothing; every restart finds all of it in the   *)
(* database.  Each transaction takes the write lock first (Immediate), so  *)
(* it is one action.                                                       *)
(*                                                                         *)
(* Cleanup of old backups, completion and the objects are in module        *)
(* BackupGateway; here they only change the status of a row.               *)
(***************************************************************************)
EXTENDS Integers, FiniteSets, FiniteSetsExt, SequencesExt

CONSTANTS
  Device,
  Item,           \* ciphertexts a desktop asks for
  ClassOf,        \* their retention class
  SizeOf,
  MinInterval,    \* of each class; 0 for rolling, which has no cadence
  MaxPending,
  Quota,          \* bytes per Day
  Day,
  Capacity, Refill,
  CleanupLimit,   \* authorizations one transaction deletes
  NumRows,        \* bound: reservations ever inserted
  NumCharges,     \* bound: admissions ever granted
  MaxTime         \* bound: the clock

ASSUME AdmissionAssumption ==
  /\ IsFiniteSet(Device) /\ Item # {}
  /\ SizeOf \in [Item -> Nat \ {0}]
  /\ MinInterval \in [{ClassOf[i] : i \in Item} -> Nat]
  /\ {MaxPending, Quota, Day, Capacity, Refill, CleanupLimit} \subseteq Nat \ {0}
  /\ {NumRows, NumCharges, MaxTime} \subseteq Nat

VARIABLES
  now,
  row,       \* table backups
  charges,   \* history: every admission ever granted, in order
  ledger,    \* table upload_authorizations: the admissions it still holds
  credit,    \* devices.upload_tokens, in units of 1/Refill token
  updated,   \* devices.upload_tokens_updated_at
  admitted   \* history: the times each device was charged

books == <<charges, ledger, credit, updated, admitted>>
vars == <<now, row, books>>

Row == 1..NumRows
NoRow == [dev |-> "none", item |-> "none", status |-> "unused", claimed |-> FALSE,
          created |-> 0]

TypeOK ==
  /\ now \in 0..MaxTime
  /\ \A b \in Row :
       \/ row[b] = NoRow
       \/ /\ row[b].dev \in Device /\ row[b].item \in Item
          /\ row[b].status \in {"pending", "completed", "deleted"}
          /\ row[b].claimed \in BOOLEAN /\ row[b].created \in 0..now
  /\ \A k \in DOMAIN charges :
       charges[k].dev \in Device /\ charges[k].size > 0 /\ charges[k].at \in 0..now
  /\ ledger \subseteq DOMAIN charges
  /\ credit \in [Device -> 0..Capacity * Refill]
  /\ updated \in [Device -> 0..now]
  /\ \A d \in Device : \A k \in DOMAIN admitted[d] : admitted[d][k] \in 0..now

Init ==
  /\ now = 0
  /\ row = [b \in Row |-> NoRow]
  /\ charges = <<>>
  /\ ledger = {}
  /\ credit = [d \in Device |-> Capacity * Refill]
  /\ updated = [d \in Device |-> 0]
  /\ admitted = [d \in Device |-> <<>>]

-----------------------------------------------------------------------------
(* The conditions of an admission. *)

Live(b) == row[b].status \in {"pending", "completed"} /\ ~row[b].claimed

ReusableRows(d, i) ==
  {b \in Row : Live(b) /\ row[b].status = "pending" /\ row[b].dev = d /\ row[b].item = i}

\* Open reservations of d, of whatever class.
PendingRows(d) ==
  {b \in Row : Live(b) /\ row[b].status = "pending" /\ row[b].dev = d}

\* Mutant: only open reservations count.
CadenceOfPending(d, i) ==
  \A b \in Row :
    /\ Live(b) /\ row[b].status = "pending"
    /\ row[b].dev = d /\ ClassOf[row[b].item] = ClassOf[i]
    => now >= row[b].created + MinInterval[ClassOf[i]]

CadenceAllows(d, i) ==
  \A b \in Row :
    Live(b) /\ row[b].dev = d /\ ClassOf[row[b].item] = ClassOf[i]
    => now >= row[b].created + MinInterval[ClassOf[i]]

ChargedBytes(d, K) ==
  MapThenSumSet(LAMBDA k : charges[k].size, {k \in K : charges[k].dev = d})

InWindow == {k \in DOMAIN charges : charges[k].at > now - Day}

QuotaAllows(d, size) == ChargedBytes(d, ledger \intersect InWindow) + size <= Quota

\* Mutant: the refilled level is not capped.
LevelUncapped(d) == credit[d] + (now - updated[d])

Level(d) == LET l == credit[d] + (now - updated[d])
            IN IF l < Capacity * Refill THEN l ELSE Capacity * Refill

\* Mutant: the ledger forgets what is older than half a window.
ForgettableEarly == {k \in ledger : charges[k].at <= now - Day \div 2}

\* The oldest authorizations that left the window, as many as one transaction
\* deletes, whichever device they are of.
Forgettable ==
  LET old == {k \in ledger : charges[k].at <= now - Day}
      Before(k, m) == \/ charges[k].at < charges[m].at
                      \/ charges[k].at = charges[m].at /\ k < m
  IN {k \in old : Cardinality({m \in old : Before(m, k)}) < CleanupLimit}

\* Mutant: the ledger is never cleaned.
ChargeWithoutCleanup(d, size) ==
  /\ Len(charges) < NumCharges
  /\ QuotaAllows(d, size)
  /\ Level(d) >= Refill
  /\ credit' = [credit EXCEPT ![d] = Level(d) - Refill]
  /\ updated' = [updated EXCEPT ![d] = now]
  /\ charges' = Append(charges, [dev |-> d, size |-> size, at |-> now])
  /\ admitted' = [admitted EXCEPT ![d] = Append(@, now)]
  /\ ledger' = ledger \union {Len(charges) + 1}

\* Mutant: a reservation is granted from the level as it was stored.
ChargeStoredLevel(d, size) ==
  /\ Len(charges) < NumCharges
  /\ QuotaAllows(d, size)
  /\ Level(d) >= Refill
  /\ credit' = [credit EXCEPT ![d] = Level(d) - Refill]
  /\ updated' = updated
  /\ charges' = Append(charges, [dev |-> d, size |-> size, at |-> now])
  /\ admitted' = [admitted EXCEPT ![d] = Append(@, now)]
  /\ ledger' = (ledger \ Forgettable) \union {Len(charges) + 1}

\* Mutant: the time of the refill is stored, and the level without it.
ChargeForgetsRefill(d, size) ==
  /\ Len(charges) < NumCharges
  /\ QuotaAllows(d, size)
  /\ Level(d) >= Refill
  /\ credit' = [credit EXCEPT ![d] = @ - Refill]
  /\ updated' = [updated EXCEPT ![d] = now]
  /\ charges' = Append(charges, [dev |-> d, size |-> size, at |-> now])
  /\ admitted' = [admitted EXCEPT ![d] = Append(@, now)]
  /\ ledger' = (ledger \ Forgettable) \union {Len(charges) + 1}

\* One token and size bytes are taken, or nothing happens at all.
Charge(d, size) ==
  /\ Len(charges) < NumCharges
  /\ QuotaAllows(d, size)
  /\ Level(d) >= Refill
  /\ credit' = [credit EXCEPT ![d] = Level(d) - Refill]
  /\ updated' = [updated EXCEPT ![d] = now]
  /\ charges' = Append(charges, [dev |-> d, size |-> size, at |-> now])
  /\ admitted' = [admitted EXCEPT ![d] = Append(@, now)]
  /\ ledger' = (ledger \ Forgettable) \union {Len(charges) + 1}

-----------------------------------------------------------------------------

\* reserve_or_reuse_backup: an open reservation of the same ciphertext is
\* refreshed without looking at ceiling and cadence, but charged again.
Reserve(d, i) ==
  /\ Charge(d, SizeOf[i])
  /\ \/ ReusableRows(d, i) # {} /\ row' = row
     \/ /\ ReusableRows(d, i) = {}
        /\ Cardinality(PendingRows(d)) < MaxPending
        /\ CadenceAllows(d, i)
        /\ \E b \in Row :
             /\ row[b] = NoRow /\ \A c \in Row : row[c] = NoRow => b <= c
             /\ row' = [row EXCEPT ![b] = [dev |-> d, item |-> i, status |-> "pending",
                                           claimed |-> FALSE, created |-> now]]
  /\ now' = now

\* begin_relay_attempt: every attempt is charged like a reservation.
BeginRelay(b) ==
  /\ row[b].status = "pending"
  /\ Charge(row[b].dev, SizeOf[row[b].item])
  /\ UNCHANGED <<now, row>>

\* mark_backup_completed, claim_storage_purges and finish_storage_purge as far
\* as admission can tell.
Complete(b) ==
  /\ row[b].status = "pending" /\ ~row[b].claimed
  /\ row' = [row EXCEPT ![b].status = "completed"]
  /\ UNCHANGED <<now, books>>

ClaimRow(b) ==
  /\ Live(b)
  /\ row' = [row EXCEPT ![b].claimed = TRUE]
  /\ UNCHANGED <<now, books>>

ForgetRow(b) ==
  /\ row[b].status = "pending" /\ row[b].claimed
  /\ row' = [row EXCEPT ![b].status = "deleted"]
  /\ UNCHANGED <<now, books>>

Tick ==
  /\ now < MaxTime
  /\ now' = now + 1
  /\ UNCHANGED <<row, books>>

Next ==
  \/ \E d \in Device, i \in Item : Reserve(d, i)
  \/ \E b \in Row : BeginRelay(b) \/ Complete(b) \/ ClaimRow(b) \/ ForgetRow(b)
  \/ Tick

Spec == Init /\ [][Next]_vars

-----------------------------------------------------------------------------

\* In no 24 hours is a device charged more than its quota, although the ledger
\* the quota is computed from is cleaned all the time and rows it refers to
\* disappear ("byte quota ... independently bounded", gateway/README.md:48-50).
QuotaKept == \A d \in Device : ChargedBytes(d, InWindow) <= Quota

\* Two daily or two monthly backups of a device that both still count are at
\* least the interval apart, whatever was refreshed, completed or retired in
\* between ("one admitted snapshot per day", gateway/README.md:66-67).
CadenceKept ==
  \A b, c \in Row :
    /\ b # c /\ Live(b) /\ Live(c)
    /\ row[b].dev = row[c].dev /\ ClassOf[row[b].item] = ClassOf[row[c].item]
    /\ row[b].created <= row[c].created
    => row[c].created - row[b].created >= MinInterval[ClassOf[row[b].item]]

\* The ledger never outgrows the busiest day: each admission that adds a line
\* deletes at least one that left the window, if there is one.
LedgerBounded ==
  Cardinality(ledger) <= Cardinality(Device) * (Quota \div Min({SizeOf[i] : i \in Item}))

\* Reservations and relay attempts of a device share one token bucket.
Bucket(d) == INSTANCE TokenBucket WITH
  credit <- credit[d], updated <- updated[d], admitted <- admitted[d], InMemory <- FALSE

\* A device is charged again as soon as one token was refilled since its last
\* charge, whatever it was refused and others were granted in between (the
\* device_upload_rate branches of both transactions, db.rs).
RefusalsAreFree == \A d \in Device : Bucket(d)!RefusalsAreFree

\* The charges of each device are the admissions of a token bucket of its own,
\* whichever request took the token, and no device touches another's bucket
\* (reserve_or_reuse_backup and begin_relay_attempt, db.rs).
BucketsKept ==
  /\ \A d \in Device : Bucket(d)!BInit
  /\ [][\A d \in Device : Bucket(d)!BNext \/ UNCHANGED Bucket(d)!bvars]_vars

==============================================================================
