--------------------------- MODULE AdmissionProofs ---------------------------
(***************************************************************************)
(* Proofs about Admission for any number of devices, ciphertexts, charges  *)
(* and days: its types, the cadence of the scheduled classes, the bytes of *)
(* 24 hours, the length of the ledger and the buckets of the devices.      *)
(***************************************************************************)
EXTENDS Admission, FiniteSums

-----------------------------------------------------------------------------
(* Types.                                                                    *)

\* What the type invariant says of single rows and lines, as functions and
\* sequences.
Sizes == {SizeOf[i] : i \in Item}
Status == {"unused", "pending", "completed", "deleted"}
Reservation == [dev : Device \union {"none"}, item : Item \union {"none"}, status : Status,
                claimed : BOOLEAN, created : Nat]
Line == [dev : Device, size : Sizes, at : Nat]

Shape ==
  /\ row \in [Row -> Reservation]
  /\ charges \in Seq(Line)
  /\ admitted \in [Device -> Seq(Nat)]

TypeInv == TypeOK /\ Shape

LEMMA Numbers ==
  /\ SizeOf \in [Item -> Nat \ {0}] /\ Sizes \subseteq Nat \ {0}
  /\ \A i \in Item : MinInterval[ClassOf[i]] \in Nat
  /\ {MaxPending, Quota, Day, Capacity, Refill, CleanupLimit} \subseteq Nat \ {0}
  /\ {NumRows, NumCharges, MaxTime} \subseteq Nat
BY AdmissionAssumption DEF Sizes

LEMMA FullBucket ==
  /\ Capacity * Refill \in Nat /\ Refill \in Nat \ {0} /\ Refill <= Capacity * Refill
<1>1. Capacity \in Nat /\ Capacity >= 1 /\ Refill \in Nat \ {0}
  BY Numbers
<1>2. Capacity * Refill \in Nat
  BY <1>1, SMT
<1>3. Capacity * Refill >= 1 * Refill
  BY <1>1, SMT
<1> QED BY <1>1, <1>2, <1>3

LEMMA LevelIs ==
  ASSUME TypeInv, NEW d \in Device
  PROVE  /\ Level(d) \in 0..(Capacity * Refill)
         /\ Level(d) <= credit[d] + (now - updated[d])
         /\ Level(d) = Capacity * Refill \/ Level(d) = credit[d] + (now - updated[d])
<1> DEFINE F == Capacity * Refill
<1>1. F \in Nat
  BY FullBucket
<1>2. credit[d] \in 0..F /\ updated[d] \in 0..now /\ now \in Nat
  BY Numbers DEF TypeInv, TypeOK
<1>3. Level(d) = IF credit[d] + (now - updated[d]) < F THEN credit[d] + (now - updated[d]) ELSE F
  BY DEF Level
<1> HIDE DEF F
<1>4. /\ Level(d) \in 0..F
      /\ Level(d) <= credit[d] + (now - updated[d])
      /\ Level(d) = F \/ Level(d) = credit[d] + (now - updated[d])
  BY <1>1, <1>2, <1>3
<1> QED BY <1>4 DEF F

\* What a charge does to the books.
LEMMA ChargeEffect ==
  ASSUME TypeInv, NEW d \in Device, NEW size \in Sizes, Charge(d, size)
  PROVE  /\ charges' \in Seq(Line) /\ Len(charges') = Len(charges) + 1
         /\ Len(charges) \in Nat
         /\ DOMAIN charges = 1..Len(charges)
         /\ DOMAIN charges' = 1..(Len(charges) + 1)
         /\ \A k \in 1..Len(charges) : charges'[k] = charges[k] /\ charges[k] \in Line
         /\ charges'[Len(charges) + 1] = [dev |-> d, size |-> size, at |-> now]
<1>1. charges \in Seq(Line) /\ [dev |-> d, size |-> size, at |-> now] \in Line
  BY Numbers DEF TypeInv, TypeOK, Shape, Line
<1>2. charges' = Append(charges, [dev |-> d, size |-> size, at |-> now])
  BY DEF Charge
<1> HIDE DEF Line
<1>3. PICK e \in Line : e = [dev |-> d, size |-> size, at |-> now]
  BY <1>1
<1>4. charges' = Append(charges, e)
  BY <1>2, <1>3
<1>5. /\ charges' \in Seq(Line) /\ Len(charges') = Len(charges) + 1
      /\ Len(charges) \in Nat
      /\ DOMAIN charges = 1..Len(charges)
      /\ DOMAIN charges' = 1..(Len(charges) + 1)
      /\ \A k \in 1..Len(charges) : charges'[k] = charges[k] /\ charges[k] \in Line
      /\ charges'[Len(charges) + 1] = e
  BY <1>1, <1>4
<1> QED BY <1>5, <1>3

\* The types of the books, and of the rows.
BooksOK ==
  /\ \A k \in DOMAIN charges :
       charges[k].dev \in Device /\ charges[k].size > 0 /\ charges[k].at \in 0..now
  /\ ledger \subseteq DOMAIN charges
  /\ credit \in [Device -> 0..Capacity * Refill]
  /\ updated \in [Device -> 0..now]
  /\ \A d \in Device : \A k \in DOMAIN admitted[d] : admitted[d][k] \in 0..now
  /\ charges \in Seq(Line)
  /\ admitted \in [Device -> Seq(Nat)]

RowOK(b) ==
  \/ row[b] = NoRow
  \/ /\ row[b].dev \in Device /\ row[b].item \in Item
     /\ row[b].status \in {"pending", "completed", "deleted"}
     /\ row[b].claimed \in BOOLEAN /\ row[b].created \in 0..now

LEMMA TypeParts ==
  TypeInv <=> /\ now \in 0..MaxTime /\ BooksOK
              /\ row \in [Row -> Reservation] /\ \A b \in Row : RowOK(b)
BY DEF TypeInv, TypeOK, Shape, BooksOK, RowOK

LEMMA ChargeTypes ==
  ASSUME TypeInv, NEW d \in Device, NEW size \in Sizes, Charge(d, size), now' = now
  PROVE  BooksOK'
<1>0. BooksOK /\ now \in Nat
  BY TypeParts, Numbers
<1> DEFINE F == Capacity * Refill
<1>1. Level(d) \in 0..F /\ Level(d) >= Refill /\ F \in Nat /\ Refill \in Nat
  BY LevelIs, FullBucket DEF Charge
<1>2. (credit \in [Device -> 0..Capacity * Refill])'
  <2>1. credit' = [credit EXCEPT ![d] = Level(d) - Refill] /\ credit \in [Device -> 0..F]
    BY <1>0 DEF Charge, BooksOK
  <2>2. Level(d) - Refill \in 0..F
    <3> HIDE DEF F
    <3> QED BY <1>1
  <2> QED BY <2>1, <2>2
<1>3. (updated \in [Device -> 0..now])'
  BY <1>0 DEF Charge, BooksOK
<1>4. /\ (\A k \in DOMAIN charges :
            charges[k].dev \in Device /\ charges[k].size > 0 /\ charges[k].at \in 0..now)'
      /\ (charges \in Seq(Line))'
  <2> SUFFICES ASSUME NEW k \in 1..(Len(charges) + 1)
               PROVE  charges'[k].dev \in Device /\ charges'[k].size > 0 /\ charges'[k].at \in 0..now
    BY ChargeEffect
  <2>1. CASE k = Len(charges) + 1
    <3>1. size > 0
      BY Numbers
    <3>2. now' = now /\ now \in 0..now
      BY <1>0
    <3>3. charges'[k] = [dev |-> d, size |-> size, at |-> now]
      BY <2>1, ChargeEffect
    <3> QED BY <3>1, <3>2, <3>3
  <2>2. CASE k \in 1..Len(charges)
    BY <2>2, <1>0, ChargeEffect DEF BooksOK
  <2> QED BY <2>1, <2>2, ChargeEffect
<1>5. (ledger \subseteq DOMAIN charges)'
  <2>1. ledger' \subseteq ledger \union {Len(charges) + 1}
    BY DEF Charge
  <2>2. ledger \subseteq DOMAIN charges
    BY <1>0 DEF BooksOK
  <2>3. /\ DOMAIN charges = 1..Len(charges) /\ Len(charges) \in Nat
        /\ DOMAIN charges' = 1..(Len(charges) + 1)
    BY ChargeEffect
  <2>4. \A k \in ledger' : k \in 1..(Len(charges) + 1)
    BY <2>1, <2>2, <2>3
  <2> QED BY <2>3, <2>4
<1>6. /\ (admitted \in [Device -> Seq(Nat)])'
      /\ (\A c \in Device : \A k \in DOMAIN admitted[c] : admitted[c][k] \in 0..now)'
  <2>1. admitted' = [admitted EXCEPT ![d] = Append(admitted[d], now)]
    BY DEF Charge
  <2>2. admitted \in [Device -> Seq(Nat)] /\ Append(admitted[d], now) \in Seq(Nat)
    BY <1>0 DEF BooksOK
  <2>3. \A k \in DOMAIN Append(admitted[d], now) : Append(admitted[d], now)[k] \in 0..now
    BY <1>0, <2>2 DEF BooksOK
  <2>4. admitted' \in [Device -> Seq(Nat)]
    BY <2>1, <2>2
  <2>5. \A c \in Device : admitted'[c] = IF c = d THEN Append(admitted[d], now) ELSE admitted[c]
    BY <2>1, <2>2
  <2> QED BY <1>0, <2>3, <2>4, <2>5 DEF BooksOK
<1> QED BY <1>2, <1>3, <1>4, <1>5, <1>6 DEF BooksOK

\* A new reservation of d for i.
Fresh(d, i) == [dev |-> d, item |-> i, status |-> "pending", claimed |-> FALSE, created |-> now]

\* A reservation is an old one, or a new row that the cadence allows.
LEMMA ReserveEffect ==
  ASSUME NEW d \in Device, NEW i \in Item, Reserve(d, i)
  PROVE  /\ Charge(d, SizeOf[i]) /\ now' = now
         /\ \/ row' = row
            \/ /\ CadenceAllows(d, i)
               /\ \E b \in Row : row[b] = NoRow /\ row' = [row EXCEPT ![b] = Fresh(d, i)]
BY Zenon DEF Reserve, Fresh

LEMMA ReserveTypes ==
  ASSUME TypeInv, NEW d \in Device, NEW i \in Item, Reserve(d, i)
  PROVE  TypeInv'
<1>1. Charge(d, SizeOf[i]) /\ now' = now /\ SizeOf[i] \in Sizes
  BY ReserveEffect DEF Sizes
<1>2. BooksOK'
  BY <1>1, ChargeTypes
<1>3. now \in 0..MaxTime /\ now \in Nat /\ row \in [Row -> Reservation] /\ \A b \in Row : RowOK(b)
  BY TypeParts, Numbers
<1>4. row' \in [Row -> Reservation] /\ \A b \in Row : RowOK(b)'
  <2>1. CASE row' = row
    BY <1>1, <1>3, <2>1 DEF RowOK, NoRow
  <2>2. ASSUME NEW b \in Row, row' = [row EXCEPT ![b] = Fresh(d, i)]
        PROVE  row' \in [Row -> Reservation] /\ \A c \in Row : RowOK(c)'
    <3>1. Fresh(d, i) \in Reservation /\ Fresh(d, i).created \in 0..now
      BY <1>3 DEF Fresh, Reservation, Status
    <3>2. row'[b] = Fresh(d, i) /\ row' \in [Row -> Reservation]
      BY <1>3, <2>2, <3>1
    <3>3. RowOK(b)'
      BY <1>1, <3>1, <3>2 DEF RowOK, Fresh
    <3>4. ASSUME NEW c \in Row \ {b} PROVE RowOK(c)'
      BY <1>1, <1>3, <2>2 DEF RowOK
    <3> QED BY <3>2, <3>3, <3>4
  <2>3. row' = row \/ \E b \in Row : row' = [row EXCEPT ![b] = Fresh(d, i)]
    BY ReserveEffect, Zenon
  <2> QED BY <2>1, <2>2, <2>3, Zenon
<1> QED BY <1>1, <1>2, <1>3, <1>4 DEF TypeInv, TypeOK, Shape, BooksOK, RowOK

\* A row that is pending is of a device and an item.
LEMMA PendingRow ==
  ASSUME TypeInv, NEW b \in Row, row[b].status # "unused"
  PROVE  /\ row[b].dev \in Device /\ row[b].item \in Item /\ row[b].created \in 0..now
         /\ row[b].claimed \in BOOLEAN
BY DEF TypeInv, TypeOK, NoRow

LEMMA RelayTypes ==
  ASSUME TypeInv, NEW b \in Row, BeginRelay(b)
  PROVE  TypeInv'
<1>1. /\ Charge(row[b].dev, SizeOf[row[b].item]) /\ now' = now /\ row' = row
      /\ row[b].dev \in Device /\ row[b].item \in Item
  BY PendingRow DEF BeginRelay
<1>2. BooksOK'
  BY <1>1, ChargeTypes DEF Sizes
<1>3. now \in 0..MaxTime /\ row \in [Row -> Reservation] /\ \A c \in Row : RowOK(c)
  BY TypeParts
<1>4. \A c \in Row : RowOK(c)'
  BY <1>1, <1>3 DEF RowOK
<1> QED BY <1>1, <1>2, <1>3, <1>4 DEF TypeInv, TypeOK, Shape, BooksOK, RowOK

\* Completion and cleanup change a row only.
Retire(b) == Complete(b) \/ ClaimRow(b) \/ ForgetRow(b)

LEMMA RetireEffect ==
  ASSUME TypeInv, NEW b \in Row, Retire(b)
  PROVE  /\ UNCHANGED <<now, charges, ledger, credit, updated, admitted>>
         /\ row[b].status # "unused"
         /\ row' \in [Row -> Reservation]
         /\ \A c \in Row \ {b} : row'[c] = row[c]
         /\ row'[b].dev = row[b].dev /\ row'[b].item = row[b].item
         /\ row'[b].created = row[b].created
         /\ row'[b].status # "unused" /\ row'[b].status \in Status /\ row'[b].claimed \in BOOLEAN
         /\ Live(b)' => Live(b)
<1>1. PICK r \in Reservation : r = row[b]
  BY DEF TypeInv, Shape
<1>2. row \in [Row -> Reservation] /\ r.status \in Status /\ r.claimed \in BOOLEAN
  BY <1>1 DEF TypeInv, Shape, Reservation
<1>3. \E q \in Reservation :
        /\ row' = [row EXCEPT ![b] = q] /\ UNCHANGED <<now, books>>
        /\ r.status # "unused" /\ q.status # "unused"
        /\ q.dev = r.dev /\ q.item = r.item /\ q.created = r.created
        /\ q.status \in {"pending", "completed"} /\ ~q.claimed
             => r.status \in {"pending", "completed"} /\ ~r.claimed
  <2>1. CASE Complete(b)
    <3>1. [r EXCEPT !.status = "completed"] \in Reservation
      BY <1>1, <1>2 DEF Reservation, Status
    <3>2. row' = [row EXCEPT ![b] = [r EXCEPT !.status = "completed"]]
      BY <2>1, <1>1, <1>2 DEF Complete
    <3> QED BY <2>1, <3>1, <3>2, <1>1 DEF Complete, Reservation
  <2>2. CASE ClaimRow(b)
    <3>1. [r EXCEPT !.claimed = TRUE] \in Reservation
      BY <1>1, <1>2 DEF Reservation
    <3>2. row' = [row EXCEPT ![b] = [r EXCEPT !.claimed = TRUE]]
      BY <2>2, <1>1, <1>2 DEF ClaimRow
    <3> QED BY <2>2, <3>1, <3>2, <1>1 DEF ClaimRow, Live, Reservation
  <2>3. CASE ForgetRow(b)
    <3>1. [r EXCEPT !.status = "deleted"] \in Reservation
      BY <1>1, <1>2 DEF Reservation, Status
    <3>2. row' = [row EXCEPT ![b] = [r EXCEPT !.status = "deleted"]]
      BY <2>3, <1>1, <1>2 DEF ForgetRow
    <3> QED BY <2>3, <3>1, <3>2, <1>1 DEF ForgetRow, Reservation
  <2> QED BY <2>1, <2>2, <2>3 DEF Retire
<1>4. PICK q \in Reservation :
        /\ row' = [row EXCEPT ![b] = q] /\ UNCHANGED <<now, books>>
        /\ r.status # "unused" /\ q.status # "unused"
        /\ q.dev = r.dev /\ q.item = r.item /\ q.created = r.created
        /\ q.status \in {"pending", "completed"} /\ ~q.claimed
             => r.status \in {"pending", "completed"} /\ ~r.claimed
  BY <1>3
<1>5. row' \in [Row -> Reservation] /\ row'[b] = q /\ \A c \in Row \ {b} : row'[c] = row[c]
  BY <1>2, <1>4
<1>6. q.status \in Status /\ q.claimed \in BOOLEAN
  BY DEF Reservation
<1>7. Live(b)' => Live(b)
  BY <1>1, <1>4, <1>5 DEF Live
<1> QED BY <1>1, <1>4, <1>5, <1>6, <1>7 DEF books

LEMMA RetireTypes ==
  ASSUME TypeInv, NEW b \in Row, Retire(b)
  PROVE  TypeInv'
<1>1. now \in 0..MaxTime /\ BooksOK /\ \A c \in Row : RowOK(c)
  BY TypeParts
<1>2. BooksOK'
  BY <1>1, RetireEffect DEF BooksOK
<1>3. RowOK(b)'
  BY <1>1, RetireEffect, PendingRow DEF RowOK, Status
<1>4. \A c \in Row : RowOK(c)'
  BY <1>1, <1>3, RetireEffect DEF RowOK
<1> QED BY <1>1, <1>2, <1>4, RetireEffect DEF TypeInv, TypeOK, Shape, BooksOK, RowOK

LEMMA TickTypes ==
  ASSUME TypeInv, Tick
  PROVE  TypeInv'
<1>1. /\ now \in 0..MaxTime /\ MaxTime \in Nat
      /\ BooksOK /\ row \in [Row -> Reservation] /\ \A c \in Row : RowOK(c)
  BY TypeParts, Numbers
<1>2. /\ UNCHANGED <<row, charges, ledger, credit, updated, admitted>>
      /\ now' \in 0..MaxTime /\ \A t \in 0..now : t \in 0..now'
  BY <1>1 DEF Tick, books
<1>3. BooksOK'
  BY <1>1, <1>2 DEF BooksOK
<1>4. \A c \in Row : RowOK(c)'
  BY <1>1, <1>2 DEF RowOK
<1> QED BY <1>1, <1>2, <1>3, <1>4 DEF TypeInv, TypeOK, Shape, BooksOK, RowOK

LEMMA TypesStart == Init => TypeInv
<1> SUFFICES ASSUME Init PROVE TypeInv
  OBVIOUS
<1>1. NoRow \in Reservation /\ row \in [Row -> Reservation] /\ \A b \in Row : RowOK(b)
  BY DEF Init, NoRow, Reservation, Status, RowOK
<1>2. BooksOK /\ now \in 0..MaxTime
  BY FullBucket, Numbers DEF Init, BooksOK
<1> QED BY <1>1, <1>2, TypeParts

\* What a step is.
LEMMA StepIs ==
  Next => \/ \E d \in Device, i \in Item : Reserve(d, i)
          \/ \E b \in Row : BeginRelay(b) \/ Retire(b)
          \/ Tick
BY DEF Next, Retire

LEMMA TypesKept == TypeInv /\ [Next]_vars => TypeInv'
<1> SUFFICES ASSUME TypeInv, [Next]_vars PROVE TypeInv'
  OBVIOUS
<1>1. CASE UNCHANGED vars
  <2>1. UNCHANGED <<now, row, charges, ledger, credit, updated, admitted>>
    BY <1>1 DEF vars, books
  <2> QED BY <2>1 DEF TypeInv, TypeOK, Shape
<1>2. CASE Next
  BY <1>2, StepIs, ReserveTypes, RelayTypes, RetireTypes, TickTypes
<1> QED BY <1>1, <1>2

THEOREM TypeCorrect == Spec => []TypeOK
<1>1. TypeInv => TypeOK
  BY DEF TypeInv
<1> QED BY <1>1, TypesStart, TypesKept, PTL DEF Spec

-----------------------------------------------------------------------------
(* The cadence.                                                              *)

LEMMA CadenceStart == Init => CadenceKept
  BY DEF Init, CadenceKept, Live, NoRow

LEMMA CadenceStep == TypeInv /\ CadenceKept /\ [Next]_vars => CadenceKept'
<1> SUFFICES ASSUME TypeInv, CadenceKept, [Next]_vars PROVE CadenceKept'
  OBVIOUS
<1>1. CASE row' = row
  BY <1>1 DEF CadenceKept, Live
<1>2. ASSUME NEW d \in Device, NEW i \in Item, Reserve(d, i), row' # row
      PROVE  CadenceKept'
  <2>1. PICK n \in Row : row[n] = NoRow /\ row' = [row EXCEPT ![n] = Fresh(d, i)]
    BY <1>2, ReserveEffect, Zenon
  <2>2. CadenceAllows(d, i)
    BY <1>2, ReserveEffect, Zenon
  <2>3. row \in [Row -> Reservation] /\ now \in Nat
    BY Numbers DEF TypeInv, TypeOK, Shape
  <2>4. /\ row'[n] = Fresh(d, i)
        /\ \A b \in Row \ {n} : row'[b] = row[b]
    BY <2>1, <2>3
  <2>5. \A b \in Row \ {n} : Live(b)' => Live(b) /\ row[b].created \in 0..now
    BY <2>4, PendingRow DEF Live
  <2>6. MinInterval[ClassOf[i]] \in Nat
    BY Numbers
  <2> SUFFICES ASSUME NEW b \in Row, NEW c \in Row, b # c, Live(b)', Live(c)',
                      row'[b].dev = row'[c].dev,
                      ClassOf[row'[b].item] = ClassOf[row'[c].item],
                      row'[b].created <= row'[c].created
               PROVE  row'[c].created - row'[b].created >= MinInterval[ClassOf[row'[b].item]]
    BY DEF CadenceKept
  <2>7. CASE b # n /\ c # n
    BY <2>4, <2>5, <2>7 DEF CadenceKept
  <2>8. CASE c = n
    <3>1. Live(b) /\ row[b].dev = d /\ ClassOf[row[b].item] = ClassOf[i] /\ row[b].created \in 0..now
      BY <2>4, <2>5, <2>8 DEF Fresh
    <3>2. now >= row[b].created + MinInterval[ClassOf[i]]
      BY <2>2, <3>1 DEF CadenceAllows
    <3> QED BY <2>3, <2>4, <2>6, <2>8, <3>1, <3>2 DEF Fresh
  <2>9. CASE b = n
    <3>1. Live(c) /\ row[c].dev = d /\ ClassOf[row[c].item] = ClassOf[i] /\ row[c].created \in 0..now
      BY <2>4, <2>5, <2>9 DEF Fresh
    <3>2. now >= row[c].created + MinInterval[ClassOf[i]]
      BY <2>2, <3>1 DEF CadenceAllows
    <3>3. now <= row[c].created
      BY <2>4, <2>9 DEF Fresh
    <3> QED BY <2>3, <2>4, <2>6, <2>9, <3>1, <3>2, <3>3 DEF Fresh
  <2> QED BY <2>7, <2>8, <2>9
<1>3. ASSUME NEW n \in Row, Retire(n)
      PROVE  CadenceKept'
  <2>1. \A b \in Row : Live(b)' => Live(b)
    BY <1>3, RetireEffect DEF Live
  <2>2. \A b \in Row : /\ row'[b].dev = row[b].dev /\ row'[b].item = row[b].item
                       /\ row'[b].created = row[b].created
    BY <1>3, RetireEffect
  <2> QED BY <2>1, <2>2 DEF CadenceKept
<1>4. CASE Next
  BY <1>1, <1>2, <1>3, <1>4, StepIs DEF BeginRelay, Tick
<1> QED BY <1>1, <1>4 DEF vars

\* Two backups of a device that count and are of one scheduled class are at
\* least the interval apart, however many were reserved, refreshed, completed
\* and retired in between (reserve_or_reuse_backup).
THEOREM CadenceAlwaysKept == Spec => []CadenceKept
  BY TypesStart, TypesKept, CadenceStart, CadenceStep, PTL DEF Spec

-----------------------------------------------------------------------------
(* The buckets.                                                              *)

\* Everything that was refilled since the last charge is still there, as far as
\* the bucket holds it.
Refilled(d) ==
  LET last == admitted[d][Len(admitted[d])]
  IN Len(admitted[d]) > 0 => /\ last \in 0..updated[d]
                             /\ \/ credit[d] = Capacity * Refill
                                \/ credit[d] >= updated[d] - last

BucketInv == \A d \in Device : Refilled(d)

LEMMA BucketStart == Init => BucketInv
  BY DEF Init, BucketInv, Refilled

\* A charge is of one device.
LEMMA ChargeOfOne ==
  ASSUME TypeInv, NEW d \in Device, NEW size \in Sizes, Charge(d, size)
  PROVE  /\ Level(d) >= Refill
         /\ credit'[d] = Level(d) - Refill /\ updated'[d] = now
         /\ admitted'[d] = Append(admitted[d], now)
         /\ \A c \in Device \ {d} : /\ credit'[c] = credit[c] /\ updated'[c] = updated[c]
                                     /\ admitted'[c] = admitted[c]
BY DEF Charge, TypeInv, TypeOK, Shape

\* What a step does to the books.
LEMMA BooksStep ==
  ASSUME TypeInv, [Next]_vars
  PROVE  \/ \E d \in Device, size \in Sizes : Charge(d, size) /\ now' = now
         \/ UNCHANGED books /\ now' = now
         \/ Tick
<1>1. ASSUME NEW d \in Device, NEW i \in Item, Reserve(d, i)
      PROVE  Charge(d, SizeOf[i]) /\ now' = now /\ SizeOf[i] \in Sizes
  BY <1>1, ReserveEffect DEF Sizes
<1>2. ASSUME NEW b \in Row, BeginRelay(b)
      PROVE  /\ Charge(row[b].dev, SizeOf[row[b].item]) /\ now' = now
             /\ row[b].dev \in Device /\ SizeOf[row[b].item] \in Sizes
  BY <1>2, PendingRow DEF BeginRelay, Sizes
<1>3. ASSUME NEW b \in Row, Retire(b)
      PROVE  UNCHANGED books /\ now' = now
  BY <1>3 DEF Retire, Complete, ClaimRow, ForgetRow
<1>4. CASE UNCHANGED vars
  BY <1>4 DEF vars
<1>5. CASE Next
  BY <1>1, <1>2, <1>3, <1>5, StepIs
<1> QED BY <1>4, <1>5

LEMMA BucketStep == TypeInv /\ BucketInv /\ [Next]_vars => BucketInv'
<1> SUFFICES ASSUME TypeInv, BucketInv, [Next]_vars PROVE BucketInv'
  OBVIOUS
<1>1. CASE UNCHANGED <<credit, updated, admitted>>
  BY <1>1 DEF BucketInv, Refilled
<1>2. ASSUME NEW d \in Device, NEW size \in Sizes, Charge(d, size), now' = now
      PROVE  BucketInv'
  <2>1. \A c \in Device \ {d} : Refilled(c)'
    BY <1>2, ChargeOfOne DEF BucketInv, Refilled
  <2>2. /\ Len(admitted'[d]) > 0
        /\ admitted'[d][Len(admitted'[d])] = now
        /\ updated'[d] = now /\ now \in Nat
        /\ credit'[d] >= 0
    <3>1. admitted[d] \in Seq(Nat) /\ now \in Nat
      BY Numbers DEF TypeInv, TypeOK, Shape
    <3>2. admitted'[d] = Append(admitted[d], now) /\ updated'[d] = now /\ credit'[d] = Level(d) - Refill
          /\ Level(d) >= Refill
      BY <1>2, ChargeOfOne
    <3>3. Level(d) \in Int /\ Refill \in Int
      BY LevelIs, FullBucket
    <3> QED BY <3>1, <3>2, <3>3
  <2>3. Refilled(d)'
    <3>1. now - now = 0
      BY <2>2
    <3> QED BY <2>2, <3>1 DEF Refilled
  <2> QED BY <2>1, <2>3 DEF BucketInv
<1> QED BY <1>1, <1>2, BooksStep DEF books, Tick

\* The level of the bucket is the level that the transaction computes.
LEMMA BucketLevel ==
  ASSUME NEW d \in Device
  PROVE  Bucket(d)!Available = Level(d) /\ Bucket(d)!Full = Capacity * Refill
BY DEF Bucket!Available, Bucket!Capped, Bucket!Full, Level

\* A device is charged again as soon as one token was refilled since its last
\* charge: what it was refused in between changed nothing (the
\* device_upload_rate branches of both transactions).
THEOREM RefusalsCostNothing == Spec => []RefusalsAreFree
<1>1. TypeInv /\ BucketInv => RefusalsAreFree
  <2> SUFFICES ASSUME TypeInv, BucketInv, NEW d \in Device, Len(admitted[d]) > 0,
                      now >= admitted[d][Len(admitted[d])] + Refill
               PROVE  Level(d) >= Refill
    BY BucketLevel DEF RefusalsAreFree, Bucket!RefusalsAreFree
  <2> DEFINE last == admitted[d][Len(admitted[d])]
             F == Capacity * Refill
  <2>1. last \in 0..updated[d] /\ (credit[d] = F \/ credit[d] >= updated[d] - last)
    BY DEF BucketInv, Refilled
  <2>2. /\ F \in Nat /\ Refill \in Nat /\ F >= Refill
        /\ credit[d] \in 0..F /\ updated[d] \in 0..now /\ now \in Nat
    BY FullBucket, Numbers DEF TypeInv, TypeOK
  <2>3. Level(d) = F \/ Level(d) = credit[d] + (now - updated[d])
    BY LevelIs
  <2>4. now >= last + Refill
    OBVIOUS
  <2> HIDE DEF F, last
  <2> QED BY <2>1, <2>2, <2>3, <2>4
<1> QED BY <1>1, TypesStart, TypesKept, BucketStart, BucketStep, PTL DEF Spec

\* Each charge of a device takes a token of its own bucket, and no other step
\* touches it: the charges of every device implement TokenBucket.
THEOREM BucketsAlwaysKept == Spec => BucketsKept
<1>1. Init => \A d \in Device : Bucket(d)!BInit
  BY DEF Init, Bucket!BInit, Bucket!Full
<1>2. TypeInv /\ [Next]_vars => [\A d \in Device : Bucket(d)!BNext \/ UNCHANGED Bucket(d)!bvars]_vars
  <2> SUFFICES ASSUME TypeInv, [Next]_vars, NEW d \in Device
               PROVE  Bucket(d)!BNext \/ UNCHANGED Bucket(d)!bvars
    OBVIOUS
  <2>1. ASSUME NEW c \in Device, NEW size \in Sizes, Charge(c, size), now' = now
        PROVE  Bucket(d)!BNext \/ UNCHANGED Bucket(d)!bvars
    <3>1. CASE c = d
      <4>1. Bucket(d)!Admit
        BY <2>1, <3>1, ChargeOfOne, BucketLevel DEF Bucket!Admit
      <4> QED BY <4>1 DEF Bucket!BNext
    <3>2. CASE c # d
      BY <2>1, <3>2, ChargeOfOne DEF Bucket!bvars
    <3> QED BY <3>1, <3>2
  <2>2. CASE UNCHANGED books /\ now' = now
    BY <2>2 DEF books, Bucket!bvars
  <2>3. CASE Tick
    BY <2>3 DEF Tick, books, Bucket!Advance, Bucket!BNext
  <2> QED BY <2>1, <2>2, <2>3, BooksStep
<1> QED BY <1>1, <1>2, TypesStart, TypesKept, PTL DEF Spec, BucketsKept

-----------------------------------------------------------------------------
(* The bytes of 24 hours.                                                    *)

SizesAt(c) == [k \in DOMAIN c |-> c[k].size]
Mine(c, d, K) == {k \in K : c[k].dev = d}
BytesOf(c, d, K) == MapThenSumSet(LAMBDA k : c[k].size, Mine(c, d, K))

SizeStep(c, s, g) == IF s = {} THEN 0 ELSE c[Pick(s)].size + g[s \ {Pick(s)}]

LEMMA BytesAreTotal ==
  ASSUME NEW c, NEW d, NEW K, K \subseteq DOMAIN c, IsFiniteSet(K)
  PROVE  BytesOf(c, d, K) = Total(SizesAt(c), Mine(c, d, K))
<1> DEFINE S == Mine(c, d, K)
           f == SizesAt(c)
           P(g) == g = [s \in SUBSET S |-> SizeStep(c, s, g)]
<1>1. BytesOf(c, d, K) = (CHOOSE g : P(g))[S]
  BY DEF BytesOf, MapThenSumSet, MapThenFoldSet, SizeStep, Pick
<1>2. S \subseteq DOMAIN c /\ IsFiniteSet(S)
  BY FS_Subset DEF Mine
<1> HIDE DEF S
<1>3. \A s \in SUBSET S : \A g : SizeStep(c, s, g) = Step(f, s, g)
  <2> SUFFICES ASSUME NEW s \in SUBSET S, NEW g, s # {}
               PROVE  c[Pick(s)].size = f[Pick(s)]
    BY DEF SizeStep, Step
  <2>1. Pick(s) \in s
    BY DEF Pick
  <2> QED BY <1>2, <2>1 DEF SizesAt
<1>4. \A g : P(g) <=> IsFold(f, S, g)
  <2> SUFFICES ASSUME NEW g PROVE P(g) <=> IsFold(f, S, g)
    OBVIOUS
  <2>1. [s \in SUBSET S |-> SizeStep(c, s, g)] = [s \in SUBSET S |-> Step(f, s, g)]
    BY <1>3
  <2> QED BY <2>1 DEF IsFold
<1>5. IsFold(f, S, Fold(f, S))
  BY <1>2, FoldExists
<1> HIDE DEF P, f
<1>6. IsFold(f, S, CHOOSE g : P(g))
  BY <1>4, <1>5
<1>7. (CHOOSE g : P(g))[S] = Fold(f, S)[S]
  BY <1>2, <1>5, <1>6, FoldUnique
<1> QED BY <1>1, <1>7, TotalIsFold DEF S, f

\* The lines of a device, and what they sum up to.
LEMMA BytesType ==
  ASSUME NEW c \in Seq(Line), NEW d, NEW K, K \subseteq DOMAIN c
  PROVE  /\ IsFiniteSet(K) /\ IsFiniteSet(Mine(c, d, K))
         /\ BytesOf(c, d, K) = Total(SizesAt(c), Mine(c, d, K))
         /\ \A k \in DOMAIN c : SizesAt(c)[k] = c[k].size /\ SizesAt(c)[k] \in Sizes
                               /\ SizesAt(c)[k] \in Nat
         /\ BytesOf(c, d, K) \in Nat
<1>1. DOMAIN c = 1..Len(c) /\ Len(c) \in Nat
  OBVIOUS
<1>2. IsFiniteSet(DOMAIN c)
  BY <1>1, FS_Interval
<1>3. IsFiniteSet(K)
  BY <1>2, FS_Subset
<1>4. Mine(c, d, K) \subseteq K /\ IsFiniteSet(Mine(c, d, K))
  BY <1>3, FS_Subset DEF Mine
<1>5. \A k \in DOMAIN c : c[k] \in Line
  BY <1>1
<1>6. \A k \in DOMAIN c : SizesAt(c)[k] = c[k].size /\ SizesAt(c)[k] \in Sizes
                          /\ SizesAt(c)[k] \in Nat
  BY <1>5, Numbers DEF SizesAt, Line
<1>7. BytesOf(c, d, K) = Total(SizesAt(c), Mine(c, d, K))
  BY <1>3, BytesAreTotal
<1> QED BY <1>3, <1>4, <1>6, <1>7, TotalType

\* Bytes of fewer lines are no more, and one line more is its bytes more.
LEMMA BytesSubset ==
  ASSUME NEW c \in Seq(Line), NEW d, NEW K, K \subseteq DOMAIN c, NEW L, L \subseteq K
  PROVE  BytesOf(c, d, L) <= BytesOf(c, d, K)
<1>1. Mine(c, d, L) \in SUBSET Mine(c, d, K) /\ Mine(c, d, K) \subseteq DOMAIN c /\ L \subseteq DOMAIN c
  BY DEF Mine
<1>2. IsFiniteSet(Mine(c, d, K)) /\ \A k \in Mine(c, d, K) : SizesAt(c)[k] \in Nat
  BY <1>1, BytesType
<1>3. Total(SizesAt(c), Mine(c, d, L)) <= Total(SizesAt(c), Mine(c, d, K))
  BY <1>1, <1>2, TotalSubset
<1> QED BY <1>1, <1>3, BytesType

LEMMA BytesAdd ==
  ASSUME NEW c \in Seq(Line), NEW e \in Seq(Line), NEW d, NEW K, K \subseteq DOMAIN c,
         NEW n, n \in DOMAIN e, n \notin DOMAIN c, DOMAIN c \subseteq DOMAIN e,
         \A k \in DOMAIN c : e[k] = c[k]
  PROVE  BytesOf(e, d, K \union {n}) = IF e[n].dev = d THEN BytesOf(c, d, K) + e[n].size
                                       ELSE BytesOf(c, d, K)
<1> DEFINE S == Mine(c, d, K)
           T == Mine(e, d, K \union {n})
<1>1. /\ S \subseteq DOMAIN c /\ n \notin S /\ K \union {n} \subseteq DOMAIN e
      /\ T = IF e[n].dev = d THEN S \union {n} ELSE S
  BY DEF Mine
<1>2. /\ IsFiniteSet(S) /\ IsFiniteSet(T)
      /\ \A k \in S : SizesAt(e)[k] = SizesAt(c)[k]
      /\ \A k \in T : SizesAt(e)[k] \in Nat
      /\ SizesAt(e)[n] = e[n].size
      /\ T \subseteq DOMAIN e
  <2>1. T \subseteq DOMAIN e
    BY <1>1
  <2>2. \A k \in S : SizesAt(e)[k] = SizesAt(c)[k]
    BY <1>1, BytesType
  <2> QED BY <1>1, <2>1, <2>2, BytesType
<1>3. Total(SizesAt(e), S) = Total(SizesAt(c), S)
  BY <1>2, TotalSame
<1>4. BytesOf(e, d, K \union {n}) = Total(SizesAt(e), T) /\ BytesOf(c, d, K) = Total(SizesAt(c), S)
  BY <1>1, BytesType
<1>5. CASE e[n].dev = d
  <2>1. n \in T /\ T \ {n} = S
    BY <1>1, <1>5
  <2>2. Total(SizesAt(e), T) = SizesAt(e)[n] + Total(SizesAt(e), S)
    <3> HIDE DEF T, S
    <3> QED BY <1>2, <2>1, TotalRemove
  <2>3. Total(SizesAt(c), S) \in Nat /\ SizesAt(e)[n] \in Nat
    BY <1>2, <1>4, <2>1, BytesType
  <2> HIDE DEF T, S
  <2> QED BY <1>2, <1>3, <1>4, <1>5, <2>2, <2>3
<1>6. CASE e[n].dev # d
  BY <1>1, <1>3, <1>4, <1>6
<1> QED BY <1>5, <1>6

\* Everything of the last 24 hours is still in the ledger.
QuotaInv == InWindow \subseteq ledger /\ QuotaKept

LEMMA QuotaStart == Init => QuotaInv
<1> SUFFICES ASSUME Init PROVE QuotaInv
  OBVIOUS
<1>1. InWindow = {}
  BY DEF Init, InWindow
<1> SUFFICES ASSUME NEW d \in Device PROVE ChargedBytes(d, {}) <= Quota
  BY <1>1 DEF QuotaInv, QuotaKept
<1>2. ChargedBytes(d, {}) = BytesOf(charges, d, {})
  BY DEF ChargedBytes, BytesOf, Mine
<1>3. BytesOf(charges, d, {}) = Total(SizesAt(charges), {})
  BY BytesAreTotal, FS_EmptySet DEF Mine
<1> QED BY <1>1, <1>2, <1>3, TotalEmpty, Numbers

\* What a charge does to the window.
LEMMA ChargeWindow ==
  ASSUME TypeInv, QuotaInv, NEW d \in Device, NEW size \in Sizes, Charge(d, size), now' = now
  PROVE  /\ InWindow' = InWindow \union {Len(charges) + 1}
         /\ InWindow' \subseteq ledger'
         /\ InWindow \subseteq 1..Len(charges)
<1>0. /\ Len(charges) \in Nat
      /\ DOMAIN charges = 1..Len(charges)
      /\ DOMAIN charges' = 1..(Len(charges) + 1)
      /\ \A k \in 1..Len(charges) : charges'[k] = charges[k] /\ charges[k].at \in Nat
      /\ charges'[Len(charges) + 1].at = now
  <2>1. \A k \in 1..Len(charges) : charges'[k] = charges[k] /\ charges[k] \in Line
    BY ChargeEffect
  <2>2. \A e \in Line : e.at \in Nat
    BY DEF Line
  <2>3. charges'[Len(charges) + 1] = [dev |-> d, size |-> size, at |-> now]
    BY ChargeEffect
  <2>4. charges'[Len(charges) + 1].at = now
    BY <2>3
  <2> QED BY <2>1, <2>2, <2>4, ChargeEffect
<1>1. now \in Nat /\ Day \in Nat /\ Day > 0
  BY Numbers DEF TypeInv, TypeOK
<1>2. InWindow \subseteq 1..Len(charges)
  BY <1>0 DEF InWindow
<1>3. InWindow' = InWindow \union {Len(charges) + 1}
  <2>1. InWindow' = {k \in 1..(Len(charges) + 1) : charges'[k].at > now - Day}
    BY <1>0 DEF InWindow
  <2>2. InWindow = {k \in 1..Len(charges) : charges[k].at > now - Day}
    BY <1>0 DEF InWindow
  <2>3. charges'[Len(charges) + 1].at > now - Day
    BY <1>0, <1>1
  <2>4. \A k \in 1..(Len(charges) + 1) : k = Len(charges) + 1 \/ k \in 1..Len(charges)
    BY <1>0
  <2>5. \A k \in 1..Len(charges) : charges'[k].at = charges[k].at /\ k \in 1..(Len(charges) + 1)
    BY <1>0
  <2>6. Len(charges) + 1 \in 1..(Len(charges) + 1)
    BY <1>0
  <2> QED BY <2>1, <2>2, <2>3, <2>4, <2>5, <2>6
<1>4. InWindow \intersect Forgettable = {}
  <2> SUFFICES ASSUME NEW k \in InWindow, charges[k].at <= now - Day PROVE FALSE
    BY DEF Forgettable
  <2>1. charges[k].at \in Int /\ charges[k].at > now - Day
    BY <1>0, <1>2 DEF InWindow
  <2> QED BY <1>1, <2>1
<1>5. InWindow' \subseteq ledger'
  <2>1. ledger' = (ledger \ Forgettable) \union {Len(charges) + 1}
    BY DEF Charge
  <2>2. InWindow \subseteq ledger
    BY DEF QuotaInv
  <2> QED BY <1>3, <1>4, <2>1, <2>2
<1> QED BY <1>2, <1>3, <1>5

LEMMA QuotaStep == TypeInv /\ QuotaInv /\ [Next]_vars => QuotaInv'
<1> SUFFICES ASSUME TypeInv, QuotaInv, [Next]_vars PROVE QuotaInv'
  OBVIOUS
<1>0. /\ \A c \in Device : BytesOf(charges, c, InWindow) <= Quota
      /\ \A c \in Device : ChargedBytes(c, InWindow)' = BytesOf(charges', c, InWindow')
      /\ InWindow \subseteq DOMAIN charges /\ charges \in Seq(Line) /\ Quota \in Nat
  <2>1. \A c \in Device : ChargedBytes(c, InWindow) = BytesOf(charges, c, InWindow)
    BY DEF ChargedBytes, BytesOf, Mine
  <2>2. \A c \in Device : ChargedBytes(c, InWindow)' = BytesOf(charges', c, InWindow')
    BY DEF ChargedBytes, BytesOf, Mine, MapThenSumSet, MapThenFoldSet
  <2> QED BY <2>1, <2>2, Numbers DEF QuotaInv, QuotaKept, TypeInv, Shape, InWindow
<1>1. CASE UNCHANGED books /\ now' = now
  <2>1. charges' = charges /\ ledger' = ledger /\ InWindow' = InWindow
    BY <1>1 DEF books, InWindow
  <2> QED BY <1>0, <2>1 DEF QuotaInv, QuotaKept
<1>2. CASE Tick
  <2>1. charges' = charges /\ ledger' = ledger /\ now' = now + 1
    BY <1>2 DEF Tick, books
  <2>2. now \in Nat /\ Day \in Nat /\ \A k \in DOMAIN charges : charges[k].at \in Nat
    BY <1>0, Numbers DEF TypeInv, TypeOK
  <2>3. InWindow' \subseteq InWindow
    BY <2>1, <2>2 DEF InWindow
  <2>4. ASSUME NEW c \in Device PROVE ChargedBytes(c, InWindow)' <= Quota
    <3>1. PICK W : W = InWindow'
      OBVIOUS
    <3>2. BytesOf(charges, c, W) <= BytesOf(charges, c, InWindow)
      BY <1>0, <2>3, <3>1, BytesSubset
    <3>3. BytesOf(charges, c, W) \in Nat /\ BytesOf(charges, c, InWindow) \in Nat
      BY <1>0, <2>3, <3>1, BytesType
    <3> QED BY <1>0, <2>1, <3>1, <3>2, <3>3
  <2> QED BY <2>1, <2>3, <2>4 DEF QuotaInv, QuotaKept
<1>3. ASSUME NEW d \in Device, NEW size \in Sizes, Charge(d, size), now' = now
      PROVE  QuotaInv'
  <2> DEFINE n == Len(charges) + 1
  <2>0. /\ charges' \in Seq(Line) /\ DOMAIN charges = 1..Len(charges) /\ DOMAIN charges' = 1..n
        /\ \A k \in 1..Len(charges) : charges'[k] = charges[k]
        /\ charges'[n] = [dev |-> d, size |-> size, at |-> now]
        /\ Len(charges) \in Nat
    BY <1>3, ChargeEffect
  <2>1. /\ charges' \in Seq(Line) /\ DOMAIN charges = 1..Len(charges) /\ DOMAIN charges' = 1..n
        /\ n \in 1..n /\ n \notin 1..Len(charges) /\ 1..Len(charges) \subseteq 1..n
        /\ \A k \in 1..Len(charges) : charges'[k] = charges[k]
        /\ charges'[n].dev = d /\ charges'[n].size = size
    BY <2>0
  <2>2. InWindow' = InWindow \union {n} /\ InWindow' \subseteq ledger'
    BY <1>3, ChargeWindow
  <2>3. BytesOf(charges, d, InWindow) + size <= Quota
    <3>1. QuotaAllows(d, size)
      BY <1>3 DEF Charge
    <3>2. ledger \intersect InWindow = InWindow
      BY DEF QuotaInv
    <3>3. ChargedBytes(d, ledger \intersect InWindow) = BytesOf(charges, d, ledger \intersect InWindow)
      BY DEF ChargedBytes, BytesOf, Mine
    <3> QED BY <3>1, <3>2, <3>3 DEF QuotaAllows
  <2> HIDE DEF n
  <2>4. ASSUME NEW c \in Device PROVE ChargedBytes(c, InWindow)' <= Quota
    <3>1. PICK e : e = charges'
      OBVIOUS
    <3>2. BytesOf(e, c, InWindow \union {n}) = IF e[n].dev = c THEN BytesOf(charges, c, InWindow) + e[n].size
                                               ELSE BytesOf(charges, c, InWindow)
      BY <1>0, <2>1, <3>1, BytesAdd
    <3>3. BytesOf(charges', c, InWindow') <= Quota
      BY <1>0, <2>1, <2>2, <2>3, <3>1, <3>2
    <3> QED BY <1>0, <3>3
  <2> QED BY <2>2, <2>4 DEF QuotaInv, QuotaKept
<1> QED BY <1>1, <1>2, <1>3, BooksStep

\* In no 24 hours is a device charged more than its quota, although the ledger
\* that the quota is computed from forgets lines all the time: what it forgets
\* is older (reserve_or_reuse_backup and begin_relay_attempt).
THEOREM QuotaAlwaysKept == Spec => []QuotaKept
<1>1. QuotaInv => QuotaKept
  BY DEF QuotaInv
<1> QED BY <1>1, TypesStart, TypesKept, QuotaStart, QuotaStep, PTL DEF Spec

-----------------------------------------------------------------------------
(* The length of the ledger.                                                 *)

MinSize == Min(Sizes)
LinesOfADay == Quota \div MinSize

LEMMA SmallestSize ==
  MinSize \in Nat \ {0} /\ \A z \in Sizes : MinSize <= z
<1>1. Sizes \subseteq Nat \ {0} /\ Sizes # {}
  BY Numbers, AdmissionAssumption DEF Sizes
<1>2. PICK x \in Sizes : \A y \in Sizes : x <= y
  <2> DEFINE T == {1..y : y \in Sizes}
  <2>1. T # {} /\ T \subseteq FiniteSubsetsOf(Nat)
    <3>1. \A y \in Sizes : IsFiniteSet(1..y) /\ 1..y \subseteq Nat
      BY <1>1, FS_Interval
    <3> QED BY <1>1, <3>1 DEF FiniteSubsetsOf
  <2>2. PICK t \in T : \A u \in T : ~(<<u, t>> \in StrictSubsetOrdering(Nat))
    <3> HIDE DEF T
    <3> QED BY <2>1, FS_StrictSubsetOrderingWellFounded, WFMin, Zenon
  <2>3. PICK x \in Sizes : t = 1..x
    OBVIOUS
  <2>4. ASSUME NEW y \in Sizes, ~(x <= y) PROVE FALSE
    <3>1. 1..y \subseteq 1..x /\ 1..y # 1..x /\ 1..y \subseteq Nat /\ 1..x \subseteq Nat
      BY <1>1, <2>4
    <3>2. <<1..y, t>> \in StrictSubsetOrdering(Nat) /\ 1..y \in T
      BY <2>3, <3>1 DEF StrictSubsetOrdering
    <3> QED BY <2>2, <3>2
  <2> QED BY <2>4
<1>4. MinSize \in Sizes /\ \A y \in Sizes : MinSize <= y
  BY <1>2 DEF MinSize, Min
<1> QED BY <1>1, <1>4

\* Products with the smallest size.
LEMMA Products ==
  ASSUME NEW m \in Nat, NEW a \in Nat
  PROVE  a * m \in Nat /\ (a + 1) * m = a * m + m
BY SMT

LEMMA Quotients ==
  /\ LinesOfADay \in Nat
  /\ \A a \in Nat : a * MinSize <= Quota => a <= LinesOfADay
<1>1. MinSize \in Nat /\ MinSize > 0 /\ Quota \in Nat
  BY SmallestSize, Numbers
<1>2. \A q, m \in Nat : m > 0 => q \div m \in Nat /\ q < (q \div m + 1) * m
  BY SMT
<1>3. \A a, b, m \in Nat : b <= a => b * m <= a * m
  BY SMT
<1>4. LinesOfADay \in Nat /\ Quota < (LinesOfADay + 1) * MinSize
  BY <1>1, <1>2 DEF LinesOfADay
<1>5. ASSUME NEW a \in Nat, a * MinSize <= Quota, ~(a <= LinesOfADay)
      PROVE  FALSE
  <2>1. LinesOfADay + 1 <= a /\ LinesOfADay + 1 \in Nat
    BY <1>4, <1>5
  <2>2. (LinesOfADay + 1) * MinSize <= a * MinSize
    BY <1>1, <1>3, <2>1
  <2>3. a * MinSize \in Nat /\ (LinesOfADay + 1) * MinSize \in Nat
    BY <1>1, <2>1, Products
  <2> QED BY <1>1, <1>4, <1>5, <2>2, <2>3
<1> QED BY <1>4, <1>5

\* A sum of numbers none of which is below m.
LEMMA TotalAtLeast ==
  ASSUME NEW f, NEW S, IsFiniteSet(S), NEW m \in Nat,
         \A x \in S : f[x] \in Nat /\ m <= f[x]
  PROVE  Cardinality(S) * m <= Total(f, S)
<1> DEFINE G == {s \in SUBSET S : Cardinality(s) * m <= Total(f, s)}
<1>1. {} \in G
  BY TotalEmpty, FS_EmptySet
<1>2. ASSUME NEW s \in SUBSET S, s # {}, \A x \in s : s \ {x} \in G
      PROVE  s \in G
  <2>1. PICK x : x \in s
    BY <1>2
  <2> DEFINE u == s \ {x}
  <2>2. IsFiniteSet(s) /\ IsFiniteSet(u)
    BY FS_Subset
  <2>3. Cardinality(s) = Cardinality(u) + 1 /\ Cardinality(u) \in Nat
    <3>1. Cardinality(s) \in Nat /\ Cardinality(u) \in Nat
      BY <2>2, FS_CardinalityType
    <3>2. Cardinality(u) = Cardinality(s) - 1
      BY <2>1, <2>2, FS_RemoveElement
    <3> QED BY <3>1, <3>2
  <2>4. Total(f, s) = f[x] + Total(f, u)
    BY <2>1, <2>2, TotalRemove
  <2>5. Total(f, u) \in Nat /\ f[x] \in Nat /\ m <= f[x]
    BY <2>1, <2>2, TotalType
  <2>6. Cardinality(u) * m <= Total(f, u)
    BY <1>2, <2>1
  <2>7. Cardinality(u) * m \in Nat /\ (Cardinality(u) + 1) * m = Cardinality(u) * m + m
    BY <2>3, Products
  <2>8. Cardinality(s) * m <= Total(f, s)
    <3> HIDE DEF u
    <3> QED BY <2>3, <2>4, <2>5, <2>6, <2>7
  <2> QED BY <2>8
<1> HIDE DEF G
<1>3. S \in G
  BY <1>1, <1>2, SetInduction
<1> QED BY <1>3 DEF G

\* A device has no more lines in its bytes of a day.
LEMMA FewOfADevice ==
  ASSUME NEW c \in Seq(Line), NEW d, NEW K, K \subseteq DOMAIN c, BytesOf(c, d, K) <= Quota
  PROVE  /\ IsFiniteSet(Mine(c, d, K)) /\ Cardinality(Mine(c, d, K)) \in Nat
         /\ Cardinality(Mine(c, d, K)) <= LinesOfADay
<1> DEFINE S == Mine(c, d, K)
<1>1. IsFiniteSet(S) /\ Cardinality(S) \in Nat
  BY BytesType, FS_CardinalityType
<1>2. \A k \in S : SizesAt(c)[k] \in Nat /\ MinSize <= SizesAt(c)[k]
  <2>1. S \subseteq DOMAIN c
    BY DEF Mine
  <2> QED BY <2>1, BytesType, SmallestSize
<1>3. MinSize \in Nat /\ Quota \in Nat
  BY SmallestSize, Numbers
<1> HIDE DEF S
<1>4. Cardinality(S) * MinSize <= Total(SizesAt(c), S)
  BY <1>1, <1>2, <1>3, TotalAtLeast
<1>5. Cardinality(S) * MinSize \in Nat /\ Total(SizesAt(c), S) \in Nat
  BY <1>1, <1>2, <1>3, Products, TotalType
<1>6. Total(SizesAt(c), S) <= Quota
  BY BytesType DEF S
<1>7. Cardinality(S) * MinSize <= Quota
  BY <1>3, <1>4, <1>5, <1>6
<1> QED BY <1>1, <1>7, Quotients DEF S

\* Nor have all of them together.
LEMMA FewOfAll ==
  ASSUME NEW c \in Seq(Line), NEW K, K \subseteq DOMAIN c,
         \A d \in Device : BytesOf(c, d, K) <= Quota
  PROVE  IsFiniteSet(K) /\ Cardinality(K) <= Cardinality(Device) * LinesOfADay
<1> DEFINE Of(s) == {k \in K : c[k].dev \in s}
           G == {s \in SUBSET Device : Cardinality(Of(s)) <= Cardinality(s) * LinesOfADay}
<1>0. IsFiniteSet(K) /\ IsFiniteSet(Device)
  BY BytesType, AdmissionAssumption
<1>1. {} \in G
  <2>1. Of({}) = {}
    OBVIOUS
  <2>2. PICK z : z = Cardinality({})
    OBVIOUS
  <2>3. z = 0 /\ z * LinesOfADay = 0
    <3>1. z = 0
      BY <2>2, FS_EmptySet
    <3>2. 0 * LinesOfADay = 0
      BY Quotients
    <3> QED BY <3>1, <3>2
  <2>4. z <= z * LinesOfADay
    BY <2>3
  <2>5. Cardinality(Of({})) <= Cardinality({}) * LinesOfADay
    <3> HIDE DEF Of
    <3> QED BY <2>1, <2>2, <2>4
  <2> QED BY <2>5
<1>2. ASSUME NEW s \in SUBSET Device, s # {}, \A x \in s : s \ {x} \in G
      PROVE  s \in G
  <2>1. PICK x : x \in s
    BY <1>2
  <2> DEFINE u == s \ {x}
  <2>2. Of(s) = Of(u) \union Mine(c, x, K)
    BY <2>1 DEF Mine
  <2>3. /\ IsFiniteSet(Of(u)) /\ Cardinality(Of(u)) \in Nat
        /\ IsFiniteSet(Mine(c, x, K)) /\ Cardinality(Mine(c, x, K)) \in Nat
        /\ Cardinality(Mine(c, x, K)) <= LinesOfADay
    <3>1. IsFiniteSet(Of(u))
      BY <1>0, FS_Subset
    <3> QED BY <2>1, <3>1, FewOfADevice, FS_CardinalityType
  <2>4. Cardinality(Of(s)) <= Cardinality(Of(u)) + Cardinality(Mine(c, x, K))
    <3> DEFINE A == Of(u)
               B == Mine(c, x, K)
    <3> HIDE DEF A, B, Of
    <3>1. IsFiniteSet(A) /\ IsFiniteSet(B) /\ Cardinality(A) \in Nat /\ Cardinality(B) \in Nat
      BY <2>3 DEF A, B
    <3>2. Cardinality(A \union B) = Cardinality(A) + Cardinality(B) - Cardinality(A \intersect B)
      BY <3>1, FS_Union
    <3>3. Cardinality(A \intersect B) \in Nat
      BY <3>1, FS_Intersection, FS_CardinalityType
    <3>4. Cardinality(A \union B) <= Cardinality(A) + Cardinality(B)
      BY <3>1, <3>2, <3>3
    <3> QED BY <2>2, <3>4 DEF A, B
  <2>5. Cardinality(s) = Cardinality(u) + 1 /\ Cardinality(u) \in Nat
    <3>1. IsFiniteSet(s) /\ IsFiniteSet(u)
      BY <1>0, FS_Subset
    <3>2. Cardinality(s) \in Nat /\ Cardinality(u) \in Nat
      BY <3>1, FS_CardinalityType
    <3>3. Cardinality(u) = Cardinality(s) - 1
      BY <2>1, <3>1, FS_RemoveElement
    <3> QED BY <3>2, <3>3
  <2>6. Cardinality(Of(u)) <= Cardinality(u) * LinesOfADay
    BY <1>2, <2>1
  <2>7. /\ Cardinality(u) * LinesOfADay \in Nat /\ LinesOfADay \in Nat
        /\ (Cardinality(u) + 1) * LinesOfADay = Cardinality(u) * LinesOfADay + LinesOfADay
    BY <2>5, Quotients, Products
  <2>8. Cardinality(Of(s)) \in Nat
    <3>1. IsFiniteSet(Of(s))
      BY <1>0, FS_Subset
    <3> QED BY <3>1, FS_CardinalityType
  <2>9. Cardinality(Of(s)) <= Cardinality(s) * LinesOfADay
    <3> HIDE DEF u, Of
    <3> QED BY <2>3, <2>4, <2>5, <2>6, <2>7, <2>8
  <2> QED BY <2>9
<1>3. Of(Device) = K
  <2>1. \A k \in DOMAIN c : c[k].dev \in Device
    <3>1. \A e \in Line : e.dev \in Device
      BY DEF Line
    <3>2. \A k \in DOMAIN c : c[k] \in Line
      OBVIOUS
    <3> QED BY <3>1, <3>2
  <2> QED BY <2>1
<1> HIDE DEF G
<1>4. Device \in G
  BY <1>0, <1>1, <1>2, SetInduction
<1> QED BY <1>0, <1>3, <1>4 DEF G

\* The lines that left the window, and those of them that go first.
Old == {k \in ledger : charges[k].at <= now - Day}
Sooner(k, m) == charges[k].at < charges[m].at \/ (charges[k].at = charges[m].at /\ k < m)
SoonerOld(k) == {m \in Old : Sooner(m, k)}

LEMMA ForgettableIs ==
  Forgettable = {k \in Old : Cardinality(SoonerOld(k)) < CleanupLimit}
BY DEF Forgettable, Old, SoonerOld, Sooner

LEMMA OldLines ==
  ASSUME TypeInv
  PROVE  /\ ledger \subseteq Nat /\ IsFiniteSet(ledger) /\ Old \subseteq ledger
         /\ \A k \in ledger : charges[k].at \in Nat
<1>1. DOMAIN charges \subseteq Nat /\ IsFiniteSet(DOMAIN charges)
  <2>1. charges \in Seq(Line)
    BY DEF TypeInv, Shape
  <2>2. DOMAIN charges = 1..Len(charges) /\ Len(charges) \in Nat
    BY <2>1
  <2> QED BY <2>2, FS_Interval
<1> QED BY <1>1, FS_Subset DEF TypeInv, TypeOK, Old

\* Where something left the window, something is forgotten.
LEMMA SomethingForgotten ==
  ASSUME TypeInv, Old # {}
  PROVE  Forgettable # {}
<1> DEFINE T == {SoonerOld(k) : k \in Old}
<1>1. T # {} /\ T \subseteq FiniteSubsetsOf(ledger)
  <2>1. \A k \in Old : SoonerOld(k) \subseteq ledger /\ IsFiniteSet(SoonerOld(k))
    BY OldLines, FS_Subset DEF SoonerOld
  <2> QED BY <2>1 DEF FiniteSubsetsOf
<1>2. PICK t \in T : \A u \in T : ~(<<u, t>> \in StrictSubsetOrdering(ledger))
  <2> HIDE DEF T
  <2> QED BY <1>1, FS_StrictSubsetOrderingWellFounded, WFMin, Zenon
<1>3. PICK k \in Old : t = SoonerOld(k)
  BY <1>2
<1>4. SoonerOld(k) = {}
  <2> SUFFICES ASSUME NEW m \in SoonerOld(k) PROVE FALSE
    OBVIOUS
  <2>1. m \in Old /\ Sooner(m, k)
    BY DEF SoonerOld
  <2>2. \A n \in Old : /\ Sooner(n, m) => Sooner(n, k)
                       /\ ~Sooner(m, m)
    BY <2>1, OldLines DEF Sooner
  <2>3. SoonerOld(m) \subseteq SoonerOld(k) /\ SoonerOld(m) # SoonerOld(k)
    BY <2>1, <2>2 DEF SoonerOld
  <2>4. SoonerOld(k) \subseteq ledger /\ SoonerOld(m) \in T
    BY <2>1, OldLines DEF SoonerOld
  <2>5. <<SoonerOld(m), t>> \in StrictSubsetOrdering(ledger)
    BY <1>3, <2>3, <2>4 DEF StrictSubsetOrdering
  <2> QED BY <1>2, <2>4, <2>5
<1>5. Cardinality(SoonerOld(k)) < CleanupLimit
  BY <1>4, FS_EmptySet, Numbers
<1> QED BY <1>5, ForgettableIs

Longest == Cardinality(Device) * LinesOfADay

LEMMA LongestIs == /\ LedgerBounded <=> Cardinality(ledger) <= Longest
                   /\ Longest \in Nat
<1>1. Cardinality(Device) \in Nat
  BY AdmissionAssumption, FS_CardinalityType
<1> QED BY <1>1, Quotients, Products DEF LedgerBounded, Longest, LinesOfADay, MinSize, Sizes

LEMMA LedgerStart == Init => LedgerBounded
  BY LongestIs, FS_EmptySet DEF Init

\* All lines of the ledger are of the last 24 hours, after a charge that had
\* nothing to forget; and those are few.
LEMMA WindowFew ==
  ASSUME TypeInv', QuotaInv'
  PROVE  IsFiniteSet(InWindow') /\ Cardinality(InWindow') <= Longest
<1>1. PICK c : c = charges'
  OBVIOUS
<1>2. PICK K : K = InWindow'
  OBVIOUS
<1>3. c \in Seq(Line) /\ K \subseteq DOMAIN c
  BY <1>1, <1>2 DEF TypeInv, Shape, InWindow
<1>4. \A d \in Device : BytesOf(c, d, K) <= Quota
  <2>1. \A d \in Device : ChargedBytes(d, InWindow)' = BytesOf(charges', d, InWindow')
    BY DEF ChargedBytes, BytesOf, Mine, MapThenSumSet, MapThenFoldSet
  <2> QED BY <1>1, <1>2, <2>1 DEF QuotaInv, QuotaKept
<1> QED BY <1>2, <1>3, <1>4, FewOfAll DEF Longest

LEMMA LedgerStep ==
  TypeInv /\ TypeInv' /\ QuotaInv /\ QuotaInv' /\ LedgerBounded /\ [Next]_vars => LedgerBounded'
<1> SUFFICES ASSUME TypeInv, TypeInv', QuotaInv, QuotaInv', LedgerBounded, [Next]_vars
             PROVE  Cardinality(ledger') <= Longest
  BY LongestIs DEF LedgerBounded, Longest, LinesOfADay, MinSize, Sizes
<1>1. CASE ledger' = ledger
  BY <1>1, LongestIs
<1>2. ASSUME NEW d \in Device, NEW size \in Sizes, Charge(d, size), now' = now
      PROVE  Cardinality(ledger') <= Longest
  <2> DEFINE n == Len(charges) + 1
             kept == ledger \ Forgettable
  <2>1. ledger' = kept \union {n}
    BY <1>2 DEF Charge
  <2>2. IsFiniteSet(ledger) /\ IsFiniteSet(kept) /\ Cardinality(ledger) \in Nat /\ Cardinality(kept) \in Nat
    BY OldLines, FS_Subset, FS_CardinalityType
  <2>3. CASE Old = {}
    <3>1. ledger \subseteq InWindow
      <4> SUFFICES ASSUME NEW k \in ledger PROVE k \in InWindow
        OBVIOUS
      <4>1. ~(charges[k].at <= now - Day) /\ charges[k].at \in Nat /\ k \in DOMAIN charges
        BY <2>3, OldLines DEF Old, TypeInv, TypeOK
      <4>2. now \in Nat /\ Day \in Nat
        BY Numbers DEF TypeInv, TypeOK
      <4> QED BY <4>1, <4>2 DEF InWindow
    <3>2. ledger' \subseteq InWindow'
      BY <1>2, <2>1, <3>1, ChargeWindow
    <3>3. IsFiniteSet(InWindow') /\ Cardinality(InWindow') <= Longest
      BY WindowFew
    <3>4. PICK K : K = InWindow'
      OBVIOUS
    <3>5. PICK l : l = ledger'
      OBVIOUS
    <3>6. Cardinality(l) <= Cardinality(K) /\ Cardinality(l) \in Nat /\ Cardinality(K) \in Nat
      <4>1. l \in SUBSET K /\ IsFiniteSet(K)
        BY <3>2, <3>3, <3>4, <3>5
      <4>2. IsFiniteSet(l) /\ Cardinality(l) <= Cardinality(K)
        BY <4>1, FS_Subset
      <4> QED BY <4>1, <4>2, FS_CardinalityType
    <3> QED BY <3>3, <3>4, <3>5, <3>6, LongestIs
  <2>4. CASE Old # {}
    <3>1. PICK k : k \in Forgettable
      BY <2>4, SomethingForgotten
    <3>2. k \in ledger
      BY <3>1, ForgettableIs, OldLines
    <3>3. kept \in SUBSET (ledger \ {k}) /\ IsFiniteSet(ledger \ {k})
      BY <2>2, <3>1, FS_Subset
    <3>4. Cardinality(kept) <= Cardinality(ledger \ {k})
      BY <3>3, FS_Subset
    <3>5. Cardinality(ledger \ {k}) = Cardinality(ledger) - 1
      BY <2>2, <3>2, FS_RemoveElement
    <3> HIDE DEF kept, n
    <3>6. Cardinality(kept \union {n}) <= Cardinality(kept) + 1
      <4>1. Cardinality(kept \union {n}) = IF n \in kept THEN Cardinality(kept) ELSE Cardinality(kept) + 1
        BY <2>2, FS_AddElement
      <4> QED BY <2>2, <4>1
    <3>7. Cardinality(kept \union {n}) \in Nat
      BY <2>2, FS_AddElement, FS_CardinalityType
    <3>8. Cardinality(ledger) <= Longest
      BY LongestIs
    <3> QED BY <2>1, <2>2, <3>4, <3>5, <3>6, <3>7, <3>8, LongestIs
  <2> QED BY <2>3, <2>4
<1> QED BY <1>1, <1>2, BooksStep DEF books, Tick

\* The ledger never holds more than the lines of the busiest day of all devices:
\* each admission that adds a line deletes one that left the window, if there is
\* one (the DELETE ... LIMIT of both transactions).
THEOREM LedgerAlwaysBounded == Spec => []LedgerBounded
  BY TypesStart, TypesKept, QuotaStart, QuotaStep, LedgerStart, LedgerStep, PTL DEF Spec
==============================================================================
