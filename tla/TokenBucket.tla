----------------------------- MODULE TokenBucket -----------------------------
(***************************************************************************)
(* The token bucket of the gateway.  It exists twice with the same         *)
(* arithmetic: per device in the database, where a refused request leaves  *)
(* the row as it was (db.rs), and once for all requests in memory, where a *)
(* refusal stores the refilled level and a restart fills the bucket        *)
(* (api.rs AggregateRateLimiter).                                          *)
(*                                                                         *)
(* A level of x tokens is the integer x * Refill, so one unit of credit is *)
(* what one unit of time refills; the rounding of the code's f64 is left   *)
(* out.  The clock does not run backwards.                                 *)
(***************************************************************************)
EXTENDS Integers, Sequences

CONSTANTS
  Capacity,       \* tokens
  Refill,         \* time per token
  InMemory,       \* the aggregate limiter rather than a device's row
  MaxTime         \* bound: the clock

\* Admission, which instantiates this module, assumes it of its constants.
BucketAssumption ==
  /\ Capacity \in Nat \ {0}
  /\ Refill \in Nat \ {0}
  /\ InMemory \in BOOLEAN
  /\ MaxTime \in Nat

VARIABLES
  now,
  credit,         \* the stored level
  updated,        \* when it was stored
  admitted        \* history: times of the admissions since the last restart

bvars == <<now, credit, updated, admitted>>

Full == Capacity * Refill

BTypeOK ==
  /\ now \in Nat
  /\ credit \in 0..Full
  /\ updated \in 0..now
  /\ admitted \in Seq(Nat)

Capped(level) == IF level < Full THEN level ELSE Full
Available == Capped(credit + (now - updated))

BInit ==
  /\ now = 0
  /\ credit = Full
  /\ updated = 0
  /\ admitted = <<>>

Admit ==
  /\ Available >= Refill
  /\ credit' = Available - Refill
  /\ updated' = now
  /\ admitted' = Append(admitted, now)
  /\ now' = now

Refuse ==
  /\ Available < Refill
  /\ InMemory
  /\ credit' = Available /\ updated' = now
  /\ UNCHANGED <<now, admitted>>

Restart ==
  /\ InMemory
  /\ credit' = Full /\ updated' = now
  /\ admitted' = <<>>
  /\ now' = now

Advance ==
  /\ now < MaxTime
  /\ now' = now + 1
  /\ UNCHANGED <<credit, updated, admitted>>

BNext == Admit \/ Refuse \/ Restart \/ Advance

BSpec == BInit /\ [][BNext]_bvars

-----------------------------------------------------------------------------

\* Between any two admissions lie no more than a full bucket and what was
\* refilled in the meantime, however they are spread and however many
\* requests are refused between them.
BurstBounded ==
  \A i, j \in 1..Len(admitted) :
    i <= j => (j - i + 1) * Refill <= Full + (admitted[j] - admitted[i])

\* Refusals cost nothing: a caller that knocks all the time is admitted as
\* soon as one that waits.
RefusalsAreFree ==
  LET last == admitted[Len(admitted)]
  IN Len(admitted) > 0 /\ now >= last + Refill => Available >= Refill

=============================================================================
