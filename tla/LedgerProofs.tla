----------------------------- MODULE LedgerProofs -----------------------------
(***************************************************************************)
(* Proofs about Ledger for any number of rows, days, keys and imports, and *)
(* for any files and orders: the screen opens over verified imports only,  *)
(* a replayed collection is entered once, and whatever requests and        *)
(* imports led to it, the ledger can be exported and its paid dates say    *)
(* what its payments say.                                                  *)
(***************************************************************************)
EXTENDS Ledger, FiniteSums

-----------------------------------------------------------------------------
(* Steps.                                                                    *)

\* What the requests of the page other than collections leave alone.
LEMMA Requests ==
  ASSUME CustomerRequest \/ SaleRequest \/ InstallmentRequest
         \/ \E p \in Ids(ledger.payments) :
              DeletePayment(p) \/ \E m \in Money, d \in Day : UpdatePayment(p, m, d)
  PROVE  \E l : Request(l)
<1>1. CASE CustomerRequest
  BY <1>1, Zenon DEF CustomerRequest, CreateCustomer, DeleteCustomer
<1>2. CASE SaleRequest
  <2>1. ASSUME NEW c \in ledger.customers, NEW o \in Orders, NEW k \in SaleKey, CreateSale(c, o, k)
        PROVE  \E l : Request(l)
    BY <2>1, Zenon DEF CreateSale
  <2>2. ASSUME NEW s \in Ids(ledger.sales), DeleteSale(s)
        PROVE  \E l : Request(l)
    BY <2>2, Zenon DEF DeleteSale
  <2>3. ASSUME NEW s \in Ids(ledger.sales), NEW c \in ledger.customers, NEW m \in Money,
               UpdateSale(s, c, m)
        PROVE  \E l : Request(l)
    BY <2>3, Zenon DEF UpdateSale
  <2> QED BY <1>2, <2>1, <2>2, <2>3, Zenon DEF SaleRequest
<1>3. CASE InstallmentRequest
  <2>1. ASSUME NEW s \in Ids(ledger.sales), NEW m \in Money, NEW d \in {today, None},
               CreateInstallment(s, m, d)
        PROVE  \E l : Request(l)
    BY <2>1, Zenon DEF CreateInstallment
  <2>2. ASSUME NEW i \in Ids(ledger.installments), DeleteInstallment(i)
        PROVE  \E l : Request(l)
    BY <2>2, Zenon DEF DeleteInstallment
  <2>3. ASSUME NEW i \in Ids(ledger.installments), NEW m \in Money,
               NEW paid \in {"keep", "paid", "unpaid"}, UpdateInstallment(i, m, paid, today)
        PROVE  \E l : Request(l)
    BY <2>3, Zenon DEF UpdateInstallment
  <2> QED BY <1>3, <2>1, <2>2, <2>3, Zenon DEF InstallmentRequest
<1>4. ASSUME NEW p \in Ids(ledger.payments), DeletePayment(p)
      PROVE  \E l : Request(l)
  BY <1>4, Zenon DEF DeletePayment
<1>5. ASSUME NEW p \in Ids(ledger.payments), NEW m \in Money, NEW d \in Day, UpdatePayment(p, m, d)
      PROVE  \E l : Request(l)
  BY <1>5, Zenon DEF UpdatePayment
<1> QED BY <1>1, <1>2, <1>3, <1>4, <1>5, Zenon

\* A step of the page and the core, or of the window, or an import.
Serve(c) == Replay(c) \/ Collect(c) \/ Refuse(c)

LEMMA Steps ==
  ASSUME Next
  PROVE  \/ \E l : Request(l)
         \/ \E i \in Ids(ledger.installments), m \in Money : Submit(i, m)
         \/ \E c \in calls : Serve(c)
         \/ \E b \in Bundles : StartImport(b)
         \/ HoldGate \/ ImportFails \/ ImportCommits \/ VerifyImport
         \/ Startup \/ EmptyStart \/ Reload \/ Crash \/ NewDay
<1>1. CASE PaymentRequest
  <2>1. \/ \E i \in Ids(ledger.installments), m \in Money : Submit(i, m)
        \/ \E c \in calls : Serve(c)
        \/ \E p \in Ids(ledger.payments) :
             DeletePayment(p) \/ \E m \in Money, d \in Day : UpdatePayment(p, m, d)
    BY <1>1, Zenon DEF PaymentRequest, Serve
  <2> QED BY <2>1, Requests, Zenon
<1> QED BY <1>1, Requests, Zenon DEF Next, Transfer, Window

\* What a served collection leaves alone.
LEMMA ServeFrame ==
  ASSUME NEW c \in calls, Serve(c)
  PROVE  /\ GateFree
         /\ calls' = calls \ {c}
         /\ UNCHANGED <<onboarded, pending, job, imports, page, today, keys>>
<1>1. \E outcome : Answer(c, outcome)
  BY Zenon DEF Serve, Replay, Collect, Refuse
<1> QED BY <1>1 DEF Answer

-----------------------------------------------------------------------------
(* The screen and the import.                                                *)

\* Without a reload during an import, the page that asked for it waits for it,
\* and nothing is entered before it is verified.
NoReloads == ReloadAnytime = FALSE

ScreenInv ==
  /\ page \in {"working", "firstrun", "importing"} => pending = {}
  /\ job # {} => page = "importing"
  /\ \A j \in job : j.awaited

LEMMA ScreenStart == Init => ScreenInv
BY DEF Init, ScreenInv

LEMMA ScreenKept == NoReloads /\ ScreenInv /\ [Next]_vars => ScreenInv'
<1> SUFFICES ASSUME NoReloads, ScreenInv, [Next]_vars PROVE ScreenInv'
  OBVIOUS
<1>1. ASSUME NEW l, Request(l) PROVE ScreenInv'
  BY <1>1 DEF ScreenInv, Request
<1>2. ASSUME NEW i, NEW m, Submit(i, m) PROVE ScreenInv'
  BY <1>2 DEF ScreenInv, Submit, data
<1>3. ASSUME NEW c \in calls, Serve(c) PROVE ScreenInv'
  BY <1>3, ServeFrame DEF ScreenInv
<1>4. ASSUME NEW b \in Bundles, StartImport(b) PROVE ScreenInv'
  BY <1>4 DEF ScreenInv, StartImport
<1>5. CASE HoldGate
  <2>1. ASSUME NEW j \in job PROVE [j EXCEPT !.holds = TRUE].awaited
    <3>1. j.awaited
      BY DEF ScreenInv
    <3> QED BY <3>1
  <2> QED BY <1>5, <2>1 DEF ScreenInv, HoldGate
<1>6. CASE ImportFails
  BY <1>6 DEF ScreenInv, ImportFails
<1>7. CASE ImportCommits
  BY <1>7 DEF ScreenInv, ImportCommits
<1>8. CASE VerifyImport
  BY <1>8 DEF ScreenInv, VerifyImport
<1>9. CASE Startup \/ EmptyStart
  BY <1>9 DEF ScreenInv, Startup, EmptyStart
<1>10. CASE Reload
  BY <1>10 DEF ScreenInv, Reload, NoReloads
<1>11. CASE Crash
  BY <1>11 DEF ScreenInv, Crash
<1>12. CASE NewDay
  BY <1>12 DEF ScreenInv, NewDay, data
<1>13. CASE UNCHANGED vars
  BY <1>13 DEF ScreenInv, vars, data
<1> QED BY <1>1, <1>2, <1>3, <1>4, <1>5, <1>6, <1>7, <1>8, <1>9, <1>10, <1>11, <1>12, <1>13,
           Steps, Zenon

\* While the page does not reload during an import, no request is ever served
\* over an import that nobody verified (data-management.ts: importFile,
\* initializeDataManagement).
THEOREM ImportsVerifiedFirst == NoReloads /\ Spec => []VerifiedBeforeUse
<1> SUFFICES ASSUME NoReloads PROVE Spec => []VerifiedBeforeUse
  OBVIOUS
<1>1. ScreenInv => VerifiedBeforeUse
  BY DEF ScreenInv, VerifiedBeforeUse
<1>2. ScreenInv /\ [Next]_vars => ScreenInv'
  BY ScreenKept
<1> QED BY <1>1, <1>2, ScreenStart, PTL DEF Spec

-----------------------------------------------------------------------------
(* Tables.                                                                   *)

\* A table has finitely many rows, numbered.
Tables(Row) == UNION {[ids -> Row] : ids \in SUBSET Nat}
AllLedgers == [customers : SUBSET Nat, sales : Tables(SaleRow),
               installments : Tables(InstallmentRow), payments : Tables(PaymentRow)]

Good(l) ==
  /\ l \in AllLedgers
  /\ IsFiniteSet(Ids(l.sales)) /\ IsFiniteSet(Ids(l.installments)) /\ IsFiniteSet(Ids(l.payments))

LEMMA TableIs ==
  ASSUME NEW Row, NEW t
  PROVE  t \in Tables(Row) <=> Ids(t) \subseteq Nat /\ t \in [Ids(t) -> Row]
<1>1. ASSUME t \in Tables(Row)
      PROVE  Ids(t) \subseteq Nat /\ t \in [Ids(t) -> Row]
  <2>1. PICK ids \in SUBSET Nat : t \in [ids -> Row]
    BY <1>1 DEF Tables
  <2>2. Ids(t) = ids
    BY <2>1 DEF Ids
  <2> QED BY <2>1, <2>2
<1>2. ASSUME Ids(t) \subseteq Nat, t \in [Ids(t) -> Row]
      PROVE  t \in Tables(Row)
  BY <1>2 DEF Tables
<1> QED BY <1>1, <1>2

LEMMA GoodIs ==
  ASSUME NEW l, Good(l)
  PROVE  /\ l = [customers |-> l.customers, sales |-> l.sales,
                 installments |-> l.installments, payments |-> l.payments]
         /\ l.customers \subseteq Nat
         /\ Ids(l.sales) \subseteq Nat /\ l.sales \in [Ids(l.sales) -> SaleRow]
         /\ Ids(l.installments) \subseteq Nat
         /\ l.installments \in [Ids(l.installments) -> InstallmentRow]
         /\ Ids(l.payments) \subseteq Nat /\ l.payments \in [Ids(l.payments) -> PaymentRow]
         /\ IsFiniteSet(Ids(l.sales)) /\ IsFiniteSet(Ids(l.installments))
         /\ IsFiniteSet(Ids(l.payments))
<1>1. l \in AllLedgers
  BY DEF Good
<1>2. /\ l = [customers |-> l.customers, sales |-> l.sales,
              installments |-> l.installments, payments |-> l.payments]
      /\ l.customers \subseteq Nat
      /\ l.sales \in Tables(SaleRow) /\ l.installments \in Tables(InstallmentRow)
      /\ l.payments \in Tables(PaymentRow)
  BY <1>1 DEF AllLedgers
<1> QED BY <1>2, TableIs DEF Good

LEMMA GoodFrom ==
  ASSUME NEW l, NEW c \in SUBSET Nat, NEW s, NEW i, NEW p,
         l = [customers |-> c, sales |-> s, installments |-> i, payments |-> p],
         Ids(s) \subseteq Nat, s \in [Ids(s) -> SaleRow], IsFiniteSet(Ids(s)),
         Ids(i) \subseteq Nat, i \in [Ids(i) -> InstallmentRow], IsFiniteSet(Ids(i)),
         Ids(p) \subseteq Nat, p \in [Ids(p) -> PaymentRow], IsFiniteSet(Ids(p))
  PROVE  Good(l)
<1>1. s \in Tables(SaleRow) /\ i \in Tables(InstallmentRow) /\ p \in Tables(PaymentRow)
  BY TableIs
<1>2. l \in AllLedgers
  BY <1>1 DEF AllLedgers
<1> QED BY <1>2 DEF Good

LEMMA BundleIsGood ==
  ASSUME NEW b \in Bundles
  PROVE  /\ Good(b)
         /\ b.customers \subseteq 1..MaxCustomer /\ Ids(b.sales) \subseteq 1..MaxSale
         /\ Ids(b.installments) \subseteq 1..MaxInstallment
         /\ Ids(b.payments) \subseteq 1..MaxPayment
         /\ \A p \in Ids(b.payments) : b.payments[p].key <= None
<1>1. /\ b \in [customers : SUBSET (1..MaxCustomer),
                sales : [DOMAIN b.sales -> SaleRow],
                installments : [DOMAIN b.installments -> InstallmentRow],
                payments : [DOMAIN b.payments -> PaymentRow]]
      /\ Ids(b.sales) \subseteq 1..MaxSale
      /\ Ids(b.installments) \subseteq 1..MaxInstallment
      /\ Ids(b.payments) \subseteq 1..MaxPayment
      /\ \A p \in Ids(b.payments) : b.payments[p].key <= None
  BY LedgerAssumption DEF Ids
<1>2. /\ b = [customers |-> b.customers, sales |-> b.sales,
              installments |-> b.installments, payments |-> b.payments]
      /\ b.customers \subseteq 1..MaxCustomer
      /\ b.sales \in [Ids(b.sales) -> SaleRow]
      /\ b.installments \in [Ids(b.installments) -> InstallmentRow]
      /\ b.payments \in [Ids(b.payments) -> PaymentRow]
  BY <1>1 DEF Ids
<1>3. MaxCustomer \in Nat /\ MaxSale \in Nat /\ MaxInstallment \in Nat /\ MaxPayment \in Nat
  BY LedgerAssumption
<1>4. IsFiniteSet(1..MaxSale) /\ IsFiniteSet(1..MaxInstallment) /\ IsFiniteSet(1..MaxPayment)
  BY <1>3, FS_Interval
<1>5. /\ IsFiniteSet(Ids(b.sales)) /\ IsFiniteSet(Ids(b.installments))
      /\ IsFiniteSet(Ids(b.payments))
  BY <1>1, <1>4, FS_Subset
<1>6. /\ b.customers \subseteq Nat /\ Ids(b.sales) \subseteq Nat
      /\ Ids(b.installments) \subseteq Nat /\ Ids(b.payments) \subseteq Nat
  BY <1>1, <1>2
<1>7. Good(b)
  BY <1>2, <1>5, <1>6, GoodFrom
<1> QED BY <1>1, <1>2, <1>7

-----------------------------------------------------------------------------
(* Amounts.                                                                  *)

AmountStep(t, s, g) == IF s = {} THEN 0 ELSE t[Pick(s)].amount + g[s \ {Pick(s)}]
AmountsOf(t) == [k \in Ids(t) |-> t[k].amount]

LEMMA AmountIsTotal ==
  ASSUME NEW t, NEW S, S \subseteq Ids(t), IsFiniteSet(S)
  PROVE  Amount(t, S) = Total(AmountsOf(t), S)
<1> DEFINE f == AmountsOf(t)
           P(g) == g = [s \in SUBSET S |-> AmountStep(t, s, g)]
<1>1. Amount(t, S) = (CHOOSE g : P(g))[S]
  BY DEF Amount, MapThenSumSet, MapThenFoldSet, AmountStep, Pick
<1>3. \A s \in SUBSET S : \A g : AmountStep(t, s, g) = Step(f, s, g)
  <2> SUFFICES ASSUME NEW s \in SUBSET S, NEW g, s # {}
               PROVE  t[Pick(s)].amount = f[Pick(s)]
    BY DEF AmountStep, Step
  <2>1. Pick(s) \in s
    BY DEF Pick
  <2> QED BY <2>1 DEF AmountsOf
<1>4. \A g : P(g) <=> IsFold(f, S, g)
  <2> SUFFICES ASSUME NEW g PROVE P(g) <=> IsFold(f, S, g)
    OBVIOUS
  <2>1. [s \in SUBSET S |-> AmountStep(t, s, g)] = [s \in SUBSET S |-> Step(f, s, g)]
    BY <1>3
  <2> QED BY <2>1 DEF IsFold
<1>5. IsFold(f, S, Fold(f, S))
  BY FoldExists
<1> HIDE DEF P, f
<1>6. IsFold(f, S, CHOOSE g : P(g))
  BY <1>4, <1>5
<1>7. (CHOOSE g : P(g))[S] = Fold(f, S)[S]
  BY <1>5, <1>6, FoldUnique
<1> QED BY <1>1, <1>7, TotalIsFold DEF f

\* An amount is the amounts of its rows.
LEMMA AmountSame ==
  ASSUME NEW t, NEW u, NEW S, IsFiniteSet(S), S \subseteq Ids(t), S \subseteq Ids(u),
         \A k \in S : t[k].amount = u[k].amount
  PROVE  Amount(t, S) = Amount(u, S)
<1>1. \A k \in S : AmountsOf(t)[k] = AmountsOf(u)[k]
  BY DEF AmountsOf
<1> QED BY <1>1, AmountIsTotal, TotalSame

LEMMA AmountEmpty == ASSUME NEW t PROVE Amount(t, {}) = 0
BY AmountIsTotal, TotalEmpty, FS_EmptySet

LEMMA AmountType ==
  ASSUME NEW t, NEW S, IsFiniteSet(S), S \subseteq Ids(t), \A k \in S : t[k].amount \in Nat
  PROVE  Amount(t, S) \in Nat
<1>1. \A k \in S : AmountsOf(t)[k] \in Nat
  BY DEF AmountsOf
<1> QED BY <1>1, AmountIsTotal, TotalType

LEMMA AmountRemove ==
  ASSUME NEW t, NEW S, IsFiniteSet(S), S \subseteq Ids(t), \A k \in S : t[k].amount \in Nat,
         NEW y \in S
  PROVE  /\ Amount(t, S) = t[y].amount + Amount(t, S \ {y})
         /\ Amount(t, S \ {y}) \in Nat
<1>1. \A k \in S : AmountsOf(t)[k] \in Nat /\ AmountsOf(t)[k] = t[k].amount
  BY DEF AmountsOf
<1>2. S \ {y} \subseteq Ids(t) /\ IsFiniteSet(S \ {y}) /\ \A k \in S \ {y} : t[k].amount \in Nat
  BY FS_Subset
<1>3. Amount(t, S \ {y}) = Total(AmountsOf(t), S \ {y}) /\ Amount(t, S) = Total(AmountsOf(t), S)
  BY <1>2, AmountIsTotal
<1>4. Total(AmountsOf(t), S) = AmountsOf(t)[y] + Total(AmountsOf(t), S \ {y})
  BY <1>1, TotalRemove
<1> QED BY <1>1, <1>2, <1>3, <1>4, AmountType

LEMMA AmountFewer ==
  ASSUME NEW t, NEW S, IsFiniteSet(S), S \subseteq Ids(t), \A k \in S : t[k].amount \in Nat,
         NEW T \in SUBSET S
  PROVE  Amount(t, T) <= Amount(t, S)
<1>1. \A k \in S : AmountsOf(t)[k] \in Nat
  BY DEF AmountsOf
<1>2. IsFiniteSet(T) /\ T \subseteq Ids(t)
  BY FS_Subset
<1> QED BY <1>1, <1>2, AmountIsTotal, TotalSubset

-----------------------------------------------------------------------------
(* Recalculating.                                                            *)

Redated(l, ids, i) == IF i \in ids THEN PaidDate(l, i) ELSE l.installments[i].paid_date

Redone(l, ids) ==
  [i \in Ids(l.installments) |-> [sale |-> l.installments[i].sale,
                                  amount |-> l.installments[i].amount,
                                  paid_date |-> Redated(l, ids, i)]]

LEMMA RecalculatedForm ==
  ASSUME NEW l, Good(l), NEW ids
  PROVE  Recalculated(l, ids) = [customers |-> l.customers, sales |-> l.sales,
                                 installments |-> Redone(l, ids), payments |-> l.payments]
<1> DEFINE t == [i \in Ids(l.installments) |->
                   IF i \in ids THEN [l.installments[i] EXCEPT !.paid_date = PaidDate(l, i)]
                   ELSE l.installments[i]]
<1>1. l.installments \in [Ids(l.installments) -> InstallmentRow]
  BY GoodIs
<1>2. l = [customers |-> l.customers, sales |-> l.sales,
           installments |-> l.installments, payments |-> l.payments]
  BY GoodIs
<1>3. Recalculated(l, ids) = [l EXCEPT !.installments = t]
  BY DEF Recalculated
<1>4. ASSUME NEW i \in Ids(l.installments)
      PROVE  t[i] = [sale |-> l.installments[i].sale, amount |-> l.installments[i].amount,
                     paid_date |-> Redated(l, ids, i)]
  <2>1. l.installments[i] \in InstallmentRow
    BY <1>1
  <2>2. PICK x \in InstallmentRow : x = l.installments[i]
    BY <2>1
  <2>3. t[i] = IF i \in ids THEN [x EXCEPT !.paid_date = PaidDate(l, i)] ELSE x
    BY <2>2 DEF t
  <2>4. x = [x EXCEPT !.paid_date = x.paid_date]
    BY DEF InstallmentRow
  <2>5. t[i] = [x EXCEPT !.paid_date = Redated(l, ids, i)]
    BY <2>2, <2>3, <2>4 DEF Redated
  <2>6. t[i] = [sale |-> x.sale, amount |-> x.amount, paid_date |-> Redated(l, ids, i)]
    BY <2>5 DEF InstallmentRow
  <2> QED BY <2>2, <2>6
<1>5. t = Redone(l, ids)
  <2>1. t = [i \in Ids(l.installments) |-> t[i]]
    OBVIOUS
  <2> HIDE DEF t
  <2> QED BY <1>4, <2>1 DEF Redone
<1> HIDE DEF t
<1> QED BY <1>2, <1>3, <1>5

LEMMA RecalculatedIs ==
  ASSUME NEW l, Good(l), NEW ids, NEW r, r = Recalculated(l, ids)
  PROVE  /\ r.customers = l.customers /\ r.sales = l.sales /\ r.payments = l.payments
         /\ Ids(r.installments) = Ids(l.installments)
         /\ \A i \in Ids(l.installments) :
              /\ r.installments[i].sale = l.installments[i].sale
              /\ r.installments[i].amount = l.installments[i].amount
              /\ r.installments[i].paid_date = Redated(l, ids, i)
<1>1. /\ r.customers = l.customers /\ r.sales = l.sales /\ r.payments = l.payments
      /\ r.installments = Redone(l, ids)
  BY RecalculatedForm
<1> QED BY <1>1 DEF Redone, Ids

LEMMA SummaryRecalculated ==
  ASSUME NEW l, Good(l), NEW ids, NEW r, r = Recalculated(l, ids)
  PROVE  Summary(r) = Summary(l)
<1>1. /\ r.customers = l.customers /\ r.sales = l.sales /\ r.payments = l.payments
      /\ Ids(r.installments) = Ids(l.installments)
      /\ \A i \in Ids(l.installments) : r.installments[i].amount = l.installments[i].amount
  BY RecalculatedIs
<1>2. IsFiniteSet(Ids(l.installments))
  BY GoodIs
<1>3. \A k \in 1..3 :
        /\ Ids(RowsOf(r)[k]) = Ids(RowsOf(l)[k])
        /\ Amount(RowsOf(r)[k], Ids(RowsOf(r)[k])) = Amount(RowsOf(l)[k], Ids(RowsOf(l)[k]))
  <2>1. Amount(r.installments, Ids(r.installments)) = Amount(l.installments, Ids(l.installments))
    BY <1>1, <1>2, AmountSame
  <2> QED BY <1>1, <2>1 DEF RowsOf
<1> QED BY <1>1, <1>3 DEF Summary

\* An import into an empty ledger is the file.
LEMMA MergedIntoNothing ==
  ASSUME NEW b, Good(b)
  PROVE  Merged(Empty, b) = b
<1>1. ASSUME NEW t, t = [k \in Ids(t) |-> t[k]] PROVE Joined(<<>>, t) = t
  <2>1. Ids(<<>>) = {}
    BY DEF Ids
  <2>2. Joined(<<>>, t) = [k \in Ids(t) |-> t[k]]
    BY <2>1 DEF Joined
  <2> QED BY <1>1, <2>2
<1>2. Joined(<<>>, b.sales) = b.sales /\ Joined(<<>>, b.installments) = b.installments
      /\ Joined(<<>>, b.payments) = b.payments
  BY <1>1, GoodIs
<1>3. Merged(Empty, b) = [customers |-> b.customers, sales |-> b.sales,
                          installments |-> b.installments, payments |-> b.payments]
  BY <1>2 DEF Merged, Empty
<1> QED BY <1>3, GoodIs

-----------------------------------------------------------------------------
(* Types, without those of the tables.                                       *)

Pages == {"startup", "firstrun", "working", "importing", "verifying", "verifyingFirst",
          "blocked", "locked"}
Job == [bundle : Bundles, replace : BOOLEAN, awaited : BOOLEAN, holds : BOOLEAN]
Attempt == [key : Nat, installment : Nat, amount : Money, date : Day, heard : BOOLEAN]
Intent == [key : Nat, amount : Money, date : Day]

\* Pending collections, by installment.
Intents(f) ==
  /\ Ids(f) \subseteq 1..MaxInstallment
  /\ f \in [Ids(f) -> Intent]
  /\ \A i \in Ids(f) : f[i].key \in 1..keys

TypeInv ==
  /\ \A x, y \in pending : x = y
  /\ job \in SUBSET Job /\ \A j, k \in job : j = k
  /\ page \in Pages
  /\ today \in Day
  /\ keys \in Nat
  /\ Intents(intents) /\ Intents(stored)
  /\ calls \in SUBSET Attempt /\ \A c \in calls : c.key \in 1..keys
  /\ settled \subseteq 1..keys

LEMMA TypesStart == Init => TypeInv
<1> SUFFICES ASSUME Init PROVE TypeInv
  OBVIOUS
<1>1. Ids(<<>>) = {}
  BY DEF Ids
<1>2. Intents(<<>>)
  BY <1>1 DEF Intents, Ids
<1>3. 1 \in Day
  BY LedgerAssumption DEF Day
<1>4. intents = <<>> /\ stored = <<>>
  BY DEF Init
<1>5. Intents(intents) /\ Intents(stored)
  BY <1>2, <1>4
<1> QED BY <1>3, <1>5 DEF Init, TypeInv, Pages

\* Pending collections stay what they are while no key is made, and when keys
\* are made.
LEMMA IntentsStay ==
  ASSUME NEW f, Intents(f), keys \in Nat, keys' \in Nat, keys <= keys',
         NEW g, \/ g = f
                \/ \E T \in SUBSET Ids(f) : g = Restrict(f, T)
                \/ \E i \in 1..MaxInstallment, n \in Intent :
                     n.key \in 1..keys' /\ g = Insert(f, i, n)
  PROVE  /\ Ids(g) \subseteq 1..MaxInstallment
         /\ g \in [Ids(g) -> Intent]
         /\ \A i \in Ids(g) : g[i].key \in 1..keys'
<1>1. CASE g = f
  BY <1>1 DEF Intents
<1>2. ASSUME NEW T \in SUBSET Ids(f), g = Restrict(f, T)
      PROVE  /\ Ids(g) = T
             /\ \A i \in T : g[i] = f[i]
             /\ g = [i \in T |-> f[i]]
  BY <1>2 DEF Restrict, Ids
<1>3. ASSUME NEW i \in 1..MaxInstallment, NEW n \in Intent, g = Insert(f, i, n)
      PROVE  /\ Ids(g) = Ids(f) \union {i}
             /\ \A k \in Ids(g) : g[k] = IF k = i THEN n ELSE f[k]
             /\ g = [k \in Ids(f) \union {i} |-> IF k = i THEN n ELSE f[k]]
  BY <1>3 DEF Insert, Ids
<1>4. ASSUME NEW T \in SUBSET Ids(f), g = Restrict(f, T)
      PROVE  /\ Ids(g) \subseteq 1..MaxInstallment
             /\ g \in [Ids(g) -> Intent]
             /\ \A i \in Ids(g) : g[i].key \in 1..keys'
  BY <1>2, <1>4 DEF Intents
<1>5. ASSUME NEW i \in 1..MaxInstallment, NEW n \in Intent, n.key \in 1..keys', g = Insert(f, i, n)
      PROVE  /\ Ids(g) \subseteq 1..MaxInstallment
             /\ g \in [Ids(g) -> Intent]
             /\ \A k \in Ids(g) : g[k].key \in 1..keys'
  <2>1. /\ Ids(g) = Ids(f) \union {i}
        /\ \A k \in Ids(g) : g[k] = IF k = i THEN n ELSE f[k]
        /\ g = [k \in Ids(g) |-> g[k]]
    BY <1>3, <1>5, Zenon
  <2>2. /\ Ids(f) \subseteq 1..MaxInstallment
        /\ \A k \in Ids(f) : f[k] \in Intent /\ f[k].key \in 1..keys'
    BY DEF Intents
  <2>3. \A k \in Ids(g) : g[k] \in Intent /\ g[k].key \in 1..keys'
    BY <1>5, <2>1, <2>2
  <2> QED BY <2>1, <2>2, <2>3
<1> QED BY <1>1, <1>4, <1>5

\* The calls, their intents and what an answer does to them.
LEMMA AnswerTypes ==
  ASSUME TypeInv, NEW c \in calls, NEW outcome, Answer(c, outcome)
  PROVE  TypeInv'
<1>1. keys' = keys /\ keys \in Nat /\ c \in Attempt /\ c.key \in 1..keys
  BY DEF Answer, TypeInv
<1>2. /\ Intents(intents) /\ Intents(stored)
  BY DEF TypeInv
<1>3. /\ settled' \subseteq 1..keys'
      /\ calls' \in SUBSET Attempt /\ \A d \in calls' : d.key \in 1..keys'
  BY <1>1 DEF Answer, TypeInv
<1>4. /\ \/ intents' = intents
         \/ \E T \in SUBSET Ids(intents) : intents' = Restrict(intents, T)
      /\ stored' = stored \/ stored' = intents'
  BY DEF Answer, RestrictValues, Ids
<1>5. Intents(intents)'
  BY <1>1, <1>2, <1>4, IntentsStay DEF Intents
<1>6. Intents(stored)'
  BY <1>1, <1>2, <1>4, <1>5, IntentsStay DEF Intents
<1> QED BY <1>1, <1>3, <1>5, <1>6 DEF TypeInv, Answer

LEMMA SubmitTypes ==
  ASSUME TypeInv, Bounded(ledger), NEW i \in Ids(ledger.installments), NEW m \in Money, Submit(i, m)
  PROVE  TypeInv'
<1> DEFINE wish == [key |-> keys + 1, amount |-> m, date |-> today]
<1>1. i \in 1..MaxInstallment /\ MaxInstallment \in Nat
  BY LedgerAssumption DEF Bounded
<1>2. wish \in Intent /\ wish.key = keys + 1 /\ keys \in Nat
  BY DEF Intent, TypeInv
<1>3. Intents(intents) /\ Intents(stored)
  BY DEF TypeInv
<1>4. ASSUME NEW n, n \in {intents[j] : j \in DOMAIN intents \intersect {i}}
      PROVE  n \in Intent /\ n.key \in 1..keys
  BY <1>3, <1>4 DEF Intents, Ids
<1>5. ASSUME NEW n \in Intent
      PROVE  Call(i, n) \in Attempt /\ Call(i, n).key = n.key
  BY <1>1, <1>5 DEF Call, Attempt, Intent
<1>6. CASE /\ \E n \in Intent : n.key \in 1..keys /\ calls' = calls \union {Call(i, n)}
           /\ UNCHANGED <<keys, intents, stored, settled>>
  <2>1. UNCHANGED <<data, page, today>>
    BY DEF Submit
  <2>2. calls' \in SUBSET Attempt /\ \A c \in calls' : c.key \in 1..keys'
    BY <1>5, <1>6 DEF TypeInv
  <2>3. Intents(intents)' /\ Intents(stored)'
    BY <1>3, <1>6 DEF Intents
  <2> QED BY <1>6, <2>1, <2>2, <2>3 DEF TypeInv, data
<1>7. CASE /\ settled' = settled \union {n.key : n \in {intents[j] : j \in DOMAIN intents \intersect {i}}}
           /\ keys' = wish.key
           /\ intents' = Insert(intents, i, wish)
           /\ stored' = intents'
           /\ calls' = calls \union {Call(i, wish)}
  <2>1. UNCHANGED <<data, page, today>>
    BY DEF Submit
  <2>2. keys' \in Nat /\ keys <= keys' /\ 1..keys \subseteq 1..keys' /\ wish.key \in 1..keys'
    BY <1>2, <1>7
  <2> HIDE DEF wish
  <2>3. calls' \in SUBSET Attempt /\ \A c \in calls' : c.key \in 1..keys'
    BY <1>2, <1>5, <1>7, <2>2 DEF TypeInv
  <2>4. settled' \subseteq 1..keys'
    BY <1>4, <1>7, <2>2 DEF TypeInv
  <2>5. Intents(intents)' /\ Intents(stored)'
    BY <1>1, <1>2, <1>3, <1>7, <2>2, IntentsStay DEF Intents
  <2> QED BY <2>1, <2>2, <2>3, <2>4, <2>5 DEF TypeInv, data
<1>8. CASE /\ settled' = settled \union {n.key : n \in {intents[j] : j \in DOMAIN intents \intersect {i}}}
           /\ intents' = Without(intents, {i})
           /\ UNCHANGED <<stored, keys, calls>>
  <2>1. UNCHANGED <<data, page, today>>
    BY DEF Submit
  <2>2. settled' \subseteq 1..keys'
    BY <1>4, <1>8 DEF TypeInv
  <2>3. Ids(intents) \ {i} \in SUBSET Ids(intents)
    OBVIOUS
  <2>4. Intents(intents)'
    BY <1>2, <1>3, <1>8, <2>3, IntentsStay DEF Intents, Without
  <2>5. Intents(stored)'
    BY <1>3, <1>8 DEF Intents
  <2> QED BY <1>8, <2>1, <2>2, <2>4, <2>5 DEF TypeInv, data
<1> QED BY <1>4, <1>6, <1>7, <1>8, Zenon DEF Submit

\* Imports and pages.
LEMMA IntentsReload ==
  ASSUME TypeInv, intents' = stored, UNCHANGED <<stored, keys>>
  PROVE  Intents(intents)' /\ Intents(stored)'
BY DEF TypeInv, Intents

LEMMA IntentsIdle ==
  ASSUME TypeInv, UNCHANGED client
  PROVE  /\ keys' \in Nat
         /\ Intents(intents)' /\ Intents(stored)'
         /\ calls' \in SUBSET Attempt /\ \A c \in calls' : c.key \in 1..keys'
         /\ settled' \subseteq 1..keys'
BY DEF TypeInv, Intents, client

LEMMA Unheard ==
  ASSUME TypeInv, UNCHANGED keys, calls' = {[c EXCEPT !.heard = FALSE] : c \in calls}
  PROVE  calls' \in SUBSET Attempt /\ \A c \in calls' : c.key \in 1..keys'
<1>1. ASSUME NEW c \in calls
      PROVE  /\ [c EXCEPT !.heard = FALSE] \in Attempt
             /\ [c EXCEPT !.heard = FALSE].key \in 1..keys'
  <2>1. c \in Attempt /\ c.key \in 1..keys
    BY DEF TypeInv
  <2> QED BY <2>1 DEF Attempt
<1> QED BY <1>1

LEMMA JobsStay ==
  ASSUME TypeInv, NEW f, f \in {"holds", "awaited"}, NEW v \in BOOLEAN,
         job' = {[j EXCEPT ![f] = v] : j \in job}
  PROVE  job' \in SUBSET Job /\ \A j, k \in job' : j = k
<1>1. ASSUME NEW j \in job PROVE [j EXCEPT ![f] = v] \in Job
  <2>1. j \in Job
    BY DEF TypeInv
  <2> QED BY <2>1 DEF Job
<1> QED BY <1>1 DEF TypeInv

LEMMA TypesKept == TypeInv /\ Bounded(ledger) /\ [Next]_vars => TypeInv'
<1> SUFFICES ASSUME TypeInv, Bounded(ledger), [Next]_vars PROVE TypeInv'
  OBVIOUS
<1>1. ASSUME NEW l, Request(l) PROVE TypeInv'
  BY <1>1, IntentsIdle DEF TypeInv, Request
<1>2. ASSUME NEW i \in Ids(ledger.installments), NEW m \in Money, Submit(i, m) PROVE TypeInv'
  BY <1>2, SubmitTypes
<1>3. ASSUME NEW c \in calls, Serve(c) PROVE TypeInv'
  <2>1. \E outcome : Answer(c, outcome)
    BY <1>3, Zenon DEF Serve, Replay, Collect, Refuse
  <2> QED BY <2>1, AnswerTypes
<1>4. ASSUME NEW b \in Bundles, StartImport(b) PROVE TypeInv'
  <2>1. job' \in SUBSET Job /\ \A j, k \in job' : j = k
    BY <1>4 DEF StartImport, Job
  <2> QED BY <1>4, <2>1, IntentsIdle DEF TypeInv, StartImport, Pages
<1>5. CASE HoldGate
  <2>1. job' = {[j EXCEPT !["holds"] = TRUE] : j \in job}
    BY <1>5 DEF HoldGate
  <2>2. job' \in SUBSET Job /\ \A j, k \in job' : j = k
    BY <2>1, JobsStay
  <2> QED BY <1>5, <2>2, IntentsIdle DEF TypeInv, HoldGate
<1>6. CASE ImportFails
  BY <1>6, IntentsIdle DEF TypeInv, ImportFails, Pages
<1>7. CASE ImportCommits
  BY <1>7, IntentsIdle DEF TypeInv, ImportCommits, Pages
<1>8. CASE VerifyImport
  BY <1>8, IntentsIdle DEF TypeInv, VerifyImport, Pages
<1>9. CASE Startup \/ EmptyStart
  BY <1>9, IntentsIdle DEF TypeInv, Startup, EmptyStart, Pages
<1>10. CASE Reload
  <2>1. job' = {[j EXCEPT !["awaited"] = FALSE] : j \in job}
    BY <1>10 DEF Reload
  <2>2. job' \in SUBSET Job /\ \A j, k \in job' : j = k
    BY <2>1, JobsStay
  <2>3. Intents(intents)' /\ Intents(stored)'
    BY <1>10, IntentsReload DEF Reload
  <2>4. calls' \in SUBSET Attempt /\ \A c \in calls' : c.key \in 1..keys'
    BY <1>10, Unheard DEF Reload
  <2> QED BY <1>10, <2>2, <2>3, <2>4 DEF TypeInv, Reload, Pages
<1>11. CASE Crash
  <2>1. Intents(intents)' /\ Intents(stored)'
    BY <1>11, IntentsReload DEF Crash
  <2> QED BY <1>11, <2>1 DEF TypeInv, Crash, Pages
<1>12. CASE NewDay
  <2>1. today' \in Day
    BY <1>12, LedgerAssumption DEF NewDay, TypeInv, Day
  <2> QED BY <1>12, <2>1, IntentsIdle DEF TypeInv, NewDay, data
<1>13. CASE UNCHANGED vars
  BY <1>13, IntentsIdle DEF TypeInv, vars, data
<1> QED BY <1>1, <1>2, <1>3, <1>4, <1>5, <1>6, <1>7, <1>8, <1>9, <1>10, <1>11, <1>12, <1>13,
           Steps, Zenon

-----------------------------------------------------------------------------
(* The start.                                                                *)

\* While an import is not verified, the ledger stays what the file said: no
\* collection is on its way that could be served in between.  Before the first
\* start the ledger is empty, so an import beside it is the file as well.
StartInv ==
  /\ page # "locked"
  /\ pending # {} => calls = {} /\ Verified
  /\ job # {} => calls = {}
  /\ ~onboarded => ledger = Empty /\ calls = {}
  /\ page = "firstrun" => ~onboarded
  /\ page = "working" => onboarded
  /\ \A j \in job : j.replace <=> onboarded

LEMMA StartStart == Init => StartInv
BY DEF Init, StartInv

LEMMA ImportIsFile ==
  ASSUME TypeInv, StartInv, NEW j \in job,
         NEW l, l = IF j.replace THEN j.bundle ELSE Merged(ledger, j.bundle)
  PROVE  l = j.bundle /\ Good(l) /\ Summary(Recalculated(l, Ids(l.installments))) = Summary(l)
<1>1. j.bundle \in Bundles
  BY DEF TypeInv, Job
<1>2. Good(j.bundle)
  BY <1>1, BundleIsGood
<1>3. CASE j.replace
  BY <1>2, <1>3, SummaryRecalculated
<1>4. CASE ~j.replace
  <2>1. ledger = Empty
    BY <1>4 DEF StartInv
  <2>2. Merged(ledger, j.bundle) = j.bundle
    BY <1>2, <2>1, MergedIntoNothing
  <2> QED BY <1>2, <1>4, <2>2, SummaryRecalculated
<1> QED BY <1>3, <1>4

LEMMA StartKept ==
  NoReloads /\ TypeInv /\ ScreenInv /\ StartInv /\ [Next]_vars => StartInv'
<1> SUFFICES ASSUME NoReloads, TypeInv, ScreenInv, StartInv, [Next]_vars PROVE StartInv'
  OBVIOUS
<1>1. ASSUME NEW l, Request(l) PROVE StartInv'
  <2>1. page = "working" /\ page' = page /\ pending = {} /\ onboarded /\ job = {}
    BY <1>1 DEF Request, ScreenInv, StartInv
  <2> QED BY <1>1, <2>1 DEF StartInv, Request
<1>2. ASSUME NEW i, NEW m, Submit(i, m) PROVE StartInv'
  <2>1. page = "working" /\ page' = page /\ UNCHANGED <<ledger, pending, onboarded, job>>
    BY <1>2 DEF Submit, data
  <2>2. pending = {} /\ onboarded /\ job = {}
    BY <2>1 DEF ScreenInv, StartInv
  <2> QED BY <2>1, <2>2 DEF StartInv
<1>3. ASSUME NEW c \in calls, Serve(c) PROVE StartInv'
  <2>1. pending = {} /\ onboarded /\ job = {}
    BY DEF StartInv
  <2> QED BY <1>3, <2>1, ServeFrame DEF StartInv
<1>4. ASSUME NEW b \in Bundles, StartImport(b) PROVE StartInv'
  <2>1. /\ page \in {"working", "firstrun"} /\ page' = "importing" /\ calls = {}
        /\ \A j \in job' : j.replace = (page = "working")
        /\ UNCHANGED <<ledger, onboarded, pending, calls>>
    BY <1>4 DEF StartImport, client
  <2>2. pending = {}
    BY <2>1 DEF ScreenInv
  <2> QED BY <2>1, <2>2 DEF StartInv
<1>5. CASE HoldGate
  <2>1. ASSUME NEW j \in job PROVE [j EXCEPT !.holds = TRUE].replace <=> onboarded
    <3>1. (j.replace <=> onboarded) /\ j \in Job
      BY DEF StartInv, TypeInv
    <3> QED BY <3>1 DEF Job
  <2>2. /\ UNCHANGED <<ledger, onboarded, pending, page, calls>>
        /\ job # {}
        /\ \A j \in job' : j.replace <=> onboarded
    BY <1>5, <2>1 DEF HoldGate, client
  <2> QED BY <2>2 DEF StartInv, Verified
<1>6. CASE ImportFails
  <2>1. PICK j \in job : /\ job' = {}
                         /\ page' = IF j.replace THEN "working" ELSE "firstrun"
                         /\ UNCHANGED <<ledger, onboarded, pending, calls>>
    BY <1>6 DEF ImportFails, ScreenInv, client
  <2> QED BY <2>1 DEF StartInv, Verified
<1>7. CASE ImportCommits
  <2>1. PICK j \in job :
          /\ ledger' = Recalculated(IF j.replace THEN j.bundle ELSE Merged(ledger, j.bundle),
                         Ids((IF j.replace THEN j.bundle ELSE Merged(ledger, j.bundle)).installments))
          /\ onboarded' = TRUE /\ pending' = {Summary(j.bundle)} /\ job' = {}
          /\ page' \in {page, "verifying", "verifyingFirst"}
          /\ calls' = calls
    BY <1>7 DEF ImportCommits, client
  <2>2. page = "importing" /\ calls = {}
    BY <2>1 DEF ScreenInv, StartInv
  <2>3. Summary(ledger') = Summary(j.bundle)
    BY <2>1, ImportIsFile
  <2>4. Verified'
    BY <2>1, <2>3 DEF Verified, Summary
  <2> QED BY <2>1, <2>2, <2>4 DEF StartInv
<1>8. CASE VerifyImport
  BY <1>8 DEF StartInv, VerifyImport, Verified, client
<1>9. CASE Startup
  BY <1>9 DEF StartInv, Startup, Verified, client
<1>10. CASE EmptyStart
  <2>1. pending = {} /\ job = {}
    BY <1>10 DEF EmptyStart, ScreenInv
  <2> QED BY <1>10, <2>1 DEF StartInv, EmptyStart, client
<1>11. CASE Reload
  <2>1. job = {} /\ job' = {} /\ page' = "startup" /\ UNCHANGED <<ledger, onboarded, pending>>
        /\ (calls = {} => calls' = {})
    BY <1>11 DEF Reload, NoReloads
  <2> QED BY <2>1 DEF StartInv, Verified
<1>12. CASE Crash
  BY <1>12 DEF StartInv, Crash, Verified
<1>13. CASE NewDay
  BY <1>13 DEF StartInv, NewDay, Verified, data, client
<1>14. CASE UNCHANGED vars
  BY <1>14 DEF StartInv, vars, Verified, data, client
<1> QED BY <1>1, <1>2, <1>3, <1>4, <1>5, <1>6, <1>7, <1>8, <1>9, <1>10, <1>11, <1>12, <1>13, <1>14,
           Steps, Zenon

-----------------------------------------------------------------------------
(* Payments of an installment.                                               *)

LEMMA PaymentRows ==
  ASSUME NEW l, Good(l), NEW i
  PROVE  /\ PaymentsOf(l, i) \subseteq Ids(l.payments) /\ PaymentsOf(l, i) \subseteq Nat
         /\ IsFiniteSet(PaymentsOf(l, i))
         /\ \A p \in Ids(l.payments) :
              /\ l.payments[p].installment \in Int /\ l.payments[p].amount \in Int
              /\ l.payments[p].date \in Day /\ l.payments[p].date \in Nat
              /\ l.payments[p].key \in Int
<1>1. PaymentsOf(l, i) \subseteq Ids(l.payments)
  BY DEF PaymentsOf
<1>2. IsFiniteSet(PaymentsOf(l, i)) /\ Ids(l.payments) \subseteq Nat
  BY <1>1, GoodIs, FS_Subset
<1>3. ASSUME NEW p \in Ids(l.payments)
      PROVE  /\ l.payments[p].installment \in Int /\ l.payments[p].amount \in Int
             /\ l.payments[p].date \in Day /\ l.payments[p].date \in Nat
             /\ l.payments[p].key \in Int
  <2>1. l.payments[p] \in PaymentRow
    BY GoodIs
  <2> QED BY <2>1, LedgerAssumption DEF PaymentRow, Day
<1> QED BY <1>1, <1>2, <1>3

Positive(l) == \A p \in Ids(l.payments) : l.payments[p].amount > 0

LEMMA PaidType ==
  ASSUME NEW l, Good(l), Positive(l), NEW S, S \subseteq Ids(l.payments)
  PROVE  /\ IsFiniteSet(S) /\ \A k \in S : l.payments[k].amount \in Nat
         /\ Amount(l.payments, S) \in Nat
<1>1. IsFiniteSet(S)
  BY GoodIs, FS_Subset
<1>2. \A k \in S : l.payments[k].amount \in Nat
  BY PaymentRows DEF Positive
<1> QED BY <1>1, <1>2, AmountType

IsLatest(l, i, p) == p \in PaymentsOf(l, i) /\ \A q \in PaymentsOf(l, i) : Later(l, p, q)

LEMMA LatestExists ==
  ASSUME NEW l, Good(l), NEW i, PaymentsOf(l, i) # {}
  PROVE  \E p : IsLatest(l, i, p)
<1> DEFINE S == PaymentsOf(l, i)
           R == {r \in S \X S : Later(l, r[1], r[2])}
<1>1. /\ IsFiniteSet(S) /\ S \subseteq Nat
      /\ \A p \in S : l.payments[p].date \in Nat
  BY PaymentRows
<1>2. \A p, q \in S : <<p, q>> \in R <=> Later(l, p, q)
  OBVIOUS
<1> HIDE DEF R, S
<1>3. ASSUME NEW p \in S, NEW q \in S PROVE Later(l, p, q) \/ Later(l, q, p)
  <2>1. p \in Nat /\ q \in Nat /\ l.payments[p].date \in Nat /\ l.payments[q].date \in Nat
    BY <1>1
  <2> QED BY <2>1 DEF Later
<1>4. \A p, q, o \in S : Later(l, p, q) /\ Later(l, q, o) => Later(l, p, o)
  BY <1>1 DEF Later
<1>5. /\ \A p, q \in S : <<p, q>> \in R \/ <<q, p>> \in R
      /\ \A p, q, o \in S : <<p, q>> \in R /\ <<q, o>> \in R => <<p, o>> \in R
  BY <1>2, <1>3, <1>4
<1>6. \E p \in S : \A q \in S : <<p, q>> \in R
  BY <1>1, <1>5, GreatestOf DEF S
<1> QED BY <1>2, <1>6 DEF IsLatest, S

LEMMA LatestUnique ==
  ASSUME NEW l, Good(l), NEW i, NEW p, IsLatest(l, i, p), NEW q, IsLatest(l, i, q)
  PROVE  p = q
<1>1. /\ PaymentsOf(l, i) \subseteq Nat
      /\ \A o \in PaymentsOf(l, i) : l.payments[o].date \in Nat
  BY PaymentRows
<1> QED BY <1>1 DEF IsLatest, Later

LEMMA PaidDateIs ==
  ASSUME NEW l, Good(l), NEW i
  PROVE  /\ Paid(l, i) < l.installments[i].amount \/ PaymentsOf(l, i) = {} => PaidDate(l, i) = None
         /\ \A p : /\ ~(Paid(l, i) < l.installments[i].amount) /\ IsLatest(l, i, p)
                   => PaidDate(l, i) = l.payments[p].date
<1>1. ASSUME NEW p, ~(Paid(l, i) < l.installments[i].amount), IsLatest(l, i, p)
      PROVE  PaidDate(l, i) = l.payments[p].date
  <2> DEFINE last == CHOOSE q \in PaymentsOf(l, i) : \A o \in PaymentsOf(l, i) : Later(l, q, o)
  <2>1. PaymentsOf(l, i) # {}
    BY <1>1 DEF IsLatest
  <2>2. PaidDate(l, i) = l.payments[last].date
    BY <1>1, <2>1 DEF PaidDate
  <2>3. IsLatest(l, i, last)
    BY <1>1 DEF IsLatest
  <2> HIDE DEF last
  <2> QED BY <1>1, <2>2, <2>3, LatestUnique
<1> QED BY <1>1 DEF PaidDate

LEMMA PaidDateType ==
  ASSUME NEW l, Good(l), NEW i
  PROVE  PaidDate(l, i) \in Day \union {None}
<1>1. CASE Paid(l, i) < l.installments[i].amount \/ PaymentsOf(l, i) = {}
  BY <1>1, PaidDateIs
<1>2. CASE ~(Paid(l, i) < l.installments[i].amount) /\ PaymentsOf(l, i) # {}
  <2>1. PICK p : IsLatest(l, i, p)
    BY <1>2, LatestExists
  <2>2. p \in Ids(l.payments) /\ PaidDate(l, i) = l.payments[p].date
    BY <1>2, <2>1, PaidDateIs, PaymentRows DEF IsLatest
  <2> QED BY <2>2, PaymentRows
<1> QED BY <1>1, <1>2

\* What was paid, and when, depends on the payments of the installment only.
LEMMA PaidSame ==
  ASSUME NEW l, Good(l), NEW m, Good(m), NEW i, PaymentsOf(m, i) = PaymentsOf(l, i),
         \A p \in PaymentsOf(l, i) : m.payments[p] = l.payments[p]
  PROVE  /\ Paid(m, i) = Paid(l, i)
         /\ m.installments[i].amount = l.installments[i].amount => PaidDate(m, i) = PaidDate(l, i)
<1>1. Paid(m, i) = Paid(l, i)
  BY PaymentRows, AmountSame DEF Paid
<1>2. ASSUME m.installments[i].amount = l.installments[i].amount
      PROVE  PaidDate(m, i) = PaidDate(l, i)
  <2>1. CASE Paid(l, i) < l.installments[i].amount \/ PaymentsOf(l, i) = {}
    BY <1>1, <1>2, <2>1, PaidDateIs
  <2>2. CASE ~(Paid(l, i) < l.installments[i].amount) /\ PaymentsOf(l, i) # {}
    <3>1. PICK p : IsLatest(l, i, p)
      BY <2>2, LatestExists
    <3>2. IsLatest(m, i, p)
      BY <3>1 DEF IsLatest, Later
    <3>3. m.payments[p] = l.payments[p]
      BY <3>1 DEF IsLatest
    <3>4. PaidDate(l, i) = l.payments[p].date
      BY <2>2, <3>1, PaidDateIs
    <3>5. PaidDate(m, i) = m.payments[p].date
      BY <1>1, <1>2, <2>2, <3>2, PaidDateIs
    <3> QED BY <3>3, <3>4, <3>5
  <2> QED BY <2>1, <2>2
<1> QED BY <1>1, <1>2

-----------------------------------------------------------------------------
(* What every request keeps.                                                 *)

\* The collections with a key of the page, by installment.
Entered(l) == {<<l.payments[p].installment, l.payments[p].key>> :
                 p \in {q \in Ids(l.payments) : l.payments[q].key > None}}

Dated(l, i) == l.installments[i].paid_date = PaidDate(l, i)

\* A ledger that export takes, whose paid dates are current but for some
\* installments, and that holds no collections of the page but these.
Sane(l, stale, entered) ==
  /\ Good(l)
  /\ Valid(l)
  /\ \A i \in Ids(l.installments) \ stale : Dated(l, i)
  /\ Entered(l) \subseteq entered

LEMMA ValidPositive == ASSUME NEW l, Valid(l) PROVE Positive(l)
BY DEF Valid, Positive

LEMMA RecalculatedGood ==
  ASSUME NEW l, Good(l), NEW ids
  PROVE  Good(Recalculated(l, ids))
<1> DEFINE t == Redone(l, ids)
<1>1. /\ l.customers \in SUBSET Nat
      /\ Ids(l.sales) \subseteq Nat /\ l.sales \in [Ids(l.sales) -> SaleRow]
      /\ IsFiniteSet(Ids(l.sales))
      /\ Ids(l.payments) \subseteq Nat /\ l.payments \in [Ids(l.payments) -> PaymentRow]
      /\ IsFiniteSet(Ids(l.payments))
      /\ Ids(l.installments) \subseteq Nat /\ IsFiniteSet(Ids(l.installments))
  BY GoodIs
<1>2. Ids(t) = Ids(l.installments)
  BY DEF Redone, Ids
<1>3. ASSUME NEW i \in Ids(l.installments)
      PROVE  [sale |-> l.installments[i].sale, amount |-> l.installments[i].amount,
              paid_date |-> Redated(l, ids, i)] \in InstallmentRow
  <2>1. l.installments[i] \in InstallmentRow
    BY GoodIs
  <2>2. PaidDate(l, i) \in Int
    BY PaidDateType, LedgerAssumption DEF Day, None
  <2> QED BY <2>1, <2>2 DEF InstallmentRow, Redated
<1>4. t \in [Ids(t) -> InstallmentRow]
  BY <1>2, <1>3 DEF Redone
<1>5. Recalculated(l, ids) = [customers |-> l.customers, sales |-> l.sales,
                              installments |-> t, payments |-> l.payments]
  BY RecalculatedForm
<1> HIDE DEF t
<1> QED BY <1>1, <1>2, <1>4, <1>5, GoodFrom

LEMMA RecalculatedSane ==
  ASSUME NEW l, NEW stale, NEW entered, Sane(l, stale, entered), NEW ids
  PROVE  Sane(Recalculated(l, ids), stale \ ids, entered)
<1> DEFINE r == Recalculated(l, ids)
<1>1. Good(l) /\ Good(r) /\ Valid(l)
  BY RecalculatedGood DEF Sane
<1> HIDE DEF r
<1>2. /\ r.customers = l.customers /\ r.sales = l.sales /\ r.payments = l.payments
      /\ Ids(r.installments) = Ids(l.installments)
      /\ \A i \in Ids(l.installments) :
           /\ r.installments[i].sale = l.installments[i].sale
           /\ r.installments[i].amount = l.installments[i].amount
           /\ r.installments[i].paid_date = Redated(l, ids, i)
  BY <1>1, RecalculatedIs DEF r
<1>3. ASSUME NEW i \in Ids(l.installments)
      PROVE  Paid(r, i) = Paid(l, i) /\ PaidDate(r, i) = PaidDate(l, i)
  <2>1. PaymentsOf(r, i) = PaymentsOf(l, i)
    BY <1>2 DEF PaymentsOf
  <2> QED BY <1>1, <1>2, <2>1, PaidSame
<1>4. Valid(r)
  BY <1>1, <1>2, <1>3 DEF Valid
<1>5. ASSUME NEW i \in Ids(r.installments) \ (stale \ ids)
      PROVE  Dated(r, i)
  <2>1. i \notin ids => Dated(l, i)
    BY <1>2, <1>5 DEF Sane
  <2> QED BY <1>2, <1>3, <2>1 DEF Dated, Redated
<1>6. Entered(r) = Entered(l)
  BY <1>2 DEF Entered
<1>7. Sane(r, stale \ ids, entered)
  BY <1>1, <1>4, <1>5, <1>6 DEF Sane
<1> QED BY <1>7 DEF r

\* A part of a ledger in which nothing refers to what is gone.
Part(l, C, S, I, P) ==
  [customers |-> C, sales |-> Restrict(l.sales, S), installments |-> Restrict(l.installments, I),
   payments |-> Restrict(l.payments, P)]

LEMMA RestrictIs ==
  ASSUME NEW t, NEW S, S \subseteq Ids(t)
  PROVE  Ids(Restrict(t, S)) = S /\ \A k \in S : Restrict(t, S)[k] = t[k]
BY DEF Ids, Restrict

LEMMA PartGood ==
  ASSUME NEW l, Good(l), NEW C, C \subseteq l.customers, NEW S, S \subseteq Ids(l.sales),
         NEW I, I \subseteq Ids(l.installments), NEW P, P \subseteq Ids(l.payments)
  PROVE  Good(Part(l, C, S, I, P))
<1>1. /\ C \in SUBSET Nat /\ S \subseteq Nat /\ I \subseteq Nat /\ P \subseteq Nat
      /\ IsFiniteSet(S) /\ IsFiniteSet(I) /\ IsFiniteSet(P)
  BY GoodIs, FS_Subset
<1>2. /\ Restrict(l.sales, S) \in [S -> SaleRow]
      /\ Restrict(l.installments, I) \in [I -> InstallmentRow]
      /\ Restrict(l.payments, P) \in [P -> PaymentRow]
  BY GoodIs DEF Restrict
<1>3. /\ Ids(Restrict(l.sales, S)) = S /\ Ids(Restrict(l.installments, I)) = I
      /\ Ids(Restrict(l.payments, P)) = P
  BY RestrictIs
<1>4. PICK s, i, p : s = Restrict(l.sales, S) /\ i = Restrict(l.installments, I)
                     /\ p = Restrict(l.payments, P)
  OBVIOUS
<1>5. Part(l, C, S, I, P) = [customers |-> C, sales |-> s, installments |-> i, payments |-> p]
  BY <1>4 DEF Part
<1> QED BY <1>1, <1>2, <1>3, <1>4, <1>5, GoodFrom

LEMMA PartSane ==
  ASSUME NEW l, NEW stale, NEW entered, Sane(l, stale, entered),
         NEW C, C \subseteq l.customers, NEW S, S \subseteq Ids(l.sales),
         NEW I, I \subseteq Ids(l.installments), NEW P, P \subseteq Ids(l.payments),
         \A s \in S : l.sales[s].customer \in C,
         \A i \in I : l.installments[i].sale \in S,
         \A p \in P : l.payments[p].installment \in I
  PROVE  Sane(Part(l, C, S, I, P),
              stale \union {l.payments[p].installment : p \in Ids(l.payments) \ P}, entered)
<1> DEFINE r == Part(l, C, S, I, P)
           gone == {l.payments[p].installment : p \in Ids(l.payments) \ P}
<1>1. Good(l) /\ Good(r) /\ Valid(l) /\ Positive(l)
  BY PartGood, ValidPositive DEF Sane
<1>2. /\ r.customers = C /\ r.sales = Restrict(l.sales, S)
      /\ r.installments = Restrict(l.installments, I) /\ r.payments = Restrict(l.payments, P)
  BY DEF Part
<1> HIDE DEF r
<1>3. /\ Ids(r.sales) = S /\ \A k \in S : r.sales[k] = l.sales[k]
      /\ Ids(r.installments) = I /\ \A k \in I : r.installments[k] = l.installments[k]
      /\ Ids(r.payments) = P /\ \A k \in P : r.payments[k] = l.payments[k]
  BY <1>2, RestrictIs
<1>4. ASSUME NEW i \in I PROVE Paid(r, i) <= l.installments[i].amount
  <2>1. PaymentsOf(r, i) \subseteq PaymentsOf(l, i) /\ PaymentsOf(r, i) \subseteq P
    BY <1>3 DEF PaymentsOf
  <2>2. /\ IsFiniteSet(PaymentsOf(l, i)) /\ PaymentsOf(l, i) \subseteq Ids(l.payments)
        /\ \A k \in PaymentsOf(l, i) : l.payments[k].amount \in Nat
    BY <1>1, PaymentRows, PaidType
  <2>3. Amount(l.payments, PaymentsOf(r, i)) <= Paid(l, i)
    BY <2>1, <2>2, AmountFewer DEF Paid
  <2>4. IsFiniteSet(PaymentsOf(r, i)) /\ PaymentsOf(r, i) \subseteq Ids(l.payments)
    BY <2>1, <2>2, FS_Subset
  <2>5. Paid(r, i) = Amount(l.payments, PaymentsOf(r, i))
    BY <1>3, <2>1, <2>4, AmountSame DEF Paid
  <2>6. Paid(l, i) <= l.installments[i].amount
    BY <1>1 DEF Valid
  <2>7. /\ Amount(l.payments, PaymentsOf(r, i)) \in Nat /\ Paid(l, i) \in Nat
        /\ l.installments[i].amount \in Int
    <3>1. l.installments[i] \in InstallmentRow
      BY <1>1, GoodIs
    <3> QED BY <1>1, <2>2, <2>4, <3>1, PaidType DEF Paid, InstallmentRow
  <2> QED BY <2>3, <2>5, <2>6, <2>7
<1>5. Valid(r)
  <2>1. /\ \A s \in S : r.sales[s].customer \in r.customers /\ r.sales[s].amount >= 0
        /\ \A i \in I : r.installments[i].sale \in S /\ r.installments[i].amount >= 0
        /\ \A p \in P : r.payments[p].installment \in I /\ r.payments[p].amount > 0
    BY <1>1, <1>2, <1>3 DEF Valid
  <2>2. /\ \A s, t \in S : r.sales[s].key = r.sales[t].key => s = t \/ r.sales[s].key = None
        /\ \A p, q \in P : r.payments[p].key = r.payments[q].key => p = q \/ r.payments[p].key = None
    BY <1>1, <1>3 DEF Valid
  <2> QED BY <1>3, <1>4, <2>1, <2>2 DEF Valid
<1>6. ASSUME NEW i \in I \ (stale \union gone) PROVE Dated(r, i)
  <2>1. PaymentsOf(r, i) = PaymentsOf(l, i) /\ \A p \in PaymentsOf(l, i) : r.payments[p] = l.payments[p]
    BY <1>3, <1>6 DEF PaymentsOf
  <2>2. Dated(l, i)
    BY <1>6 DEF Sane
  <2> QED BY <1>1, <1>3, <2>1, <2>2, PaidSame DEF Dated
<1>7. Entered(r) \subseteq Entered(l)
  BY <1>3 DEF Entered
<1>8. Entered(l) \subseteq entered
  BY DEF Sane
<1> HIDE DEF gone
<1>9. Sane(r, stale \union gone, entered)
  BY <1>1, <1>3, <1>5, <1>6, <1>7, <1>8 DEF Sane
<1> QED BY <1>9 DEF r, gone

-----------------------------------------------------------------------------
(* Deletions.                                                                *)

LEMMA StaleIs ==
  ASSUME NEW l, NEW stale, NEW entered, Sane(l, stale, entered), NEW other,
         stale \intersect Ids(l.installments) \subseteq other
  PROVE  Sane(l, other, entered)
BY DEF Sane

LEMMA RestrictAll ==
  ASSUME NEW l, Good(l)
  PROVE  /\ Restrict(l.sales, Ids(l.sales)) = l.sales
         /\ Restrict(l.installments, Ids(l.installments)) = l.installments
         /\ Restrict(l.payments, Ids(l.payments)) = l.payments
<1>1. \A t, R : t \in [Ids(t) -> R] => Restrict(t, Ids(t)) = t
  BY DEF Restrict
<1> QED BY <1>1, GoodIs

\* A ledger of these tables.
Book(C, S, I, P) == [customers |-> C, sales |-> S, installments |-> I, payments |-> P]

LEMMA BookIs ==
  ASSUME NEW C, NEW S, NEW I, NEW P, NEW l, l = Book(C, S, I, P)
  PROVE  l.customers = C /\ l.sales = S /\ l.installments = I /\ l.payments = P
BY DEF Book

LEMMA GoodBook ==
  ASSUME NEW l, Good(l)
  PROVE  l = Book(l.customers, l.sales, l.installments, l.payments)
BY GoodIs DEF Book

LEMMA BookWith ==
  ASSUME NEW C, NEW S, NEW I, NEW P, NEW l, l = Book(C, S, I, P), NEW t
  PROVE  /\ [l EXCEPT !.customers = t] = Book(t, S, I, P)
         /\ [l EXCEPT !.sales = t] = Book(C, t, I, P)
         /\ [l EXCEPT !.installments = t] = Book(C, S, t, P)
         /\ [l EXCEPT !.payments = t] = Book(C, S, I, t)
BY DEF Book

LEMMA DropPaymentsForm ==
  ASSUME NEW C, NEW S, NEW I, NEW P, NEW l, l = Book(C, S, I, P), NEW ids
  PROVE  DropPayments(l, ids) = Book(C, S, I, Without(P, ids))
<1>1. l.payments = P
  BY BookIs
<1>2. PICK t : t = Without(P, ids)
  OBVIOUS
<1>3. [l EXCEPT !.payments = t] = Book(C, S, I, t)
  BY DEF Book
<1> QED BY <1>1, <1>2, <1>3 DEF DropPayments

LEMMA DropInstallmentsForm ==
  ASSUME NEW C, NEW S, NEW I, NEW P, NEW l, l = Book(C, S, I, P), NEW ids,
         NEW gone, \A p : p \in gone <=> \E i \in ids : p \in PaymentsOf(l, i)
  PROVE  DropInstallments(l, ids) = Book(C, S, Without(I, ids), Without(P, gone))
<1> DEFINE m == [l EXCEPT !.installments = Without(I, ids)]
<1>1. m = Book(C, S, Without(I, ids), P) /\ l.installments = I /\ l.payments = P
  BY BookIs, BookWith
<1> HIDE DEF m
<1>2. m.payments = P
  BY <1>1, BookIs
<1>4. gone = UNION {PaymentsOf(l, i) : i \in ids}
  OBVIOUS
<1>5. DropInstallments(l, ids) = DropPayments(m, gone)
  BY <1>1, <1>4, Zenon DEF DropInstallments, m
<1> QED BY <1>1, <1>5, DropPaymentsForm

LEMMA DropSalesForm ==
  ASSUME NEW C, NEW S, NEW I, NEW P, NEW l, l = Book(C, S, I, P), NEW ids,
         NEW lost, \A i : i \in lost <=> \E s \in ids : i \in InstallmentsOf(l, s),
         NEW gone, \A p : p \in gone <=> \E i \in lost : p \in PaymentsOf(l, i)
  PROVE  DropSales(l, ids) = Book(C, Without(S, ids), Without(I, lost), Without(P, gone))
<1> DEFINE m == [l EXCEPT !.sales = Without(S, ids)]
<1>1. m = Book(C, Without(S, ids), I, P) /\ l.sales = S /\ l.payments = P
  BY BookIs, BookWith
<1>2. lost = UNION {InstallmentsOf(l, s) : s \in ids}
  OBVIOUS
<1>3. DropSales(l, ids) = DropInstallments(m, lost)
  BY <1>1, <1>2, Zenon DEF DropSales, m
<1> HIDE DEF m
<1>4. m.payments = P
  BY <1>1, BookIs
<1>5. \A i : PaymentsOf(m, i) = PaymentsOf(l, i)
  BY <1>1, <1>4 DEF PaymentsOf
<1>6. \A p : p \in gone <=> \E i \in lost : p \in PaymentsOf(m, i)
  BY <1>5
<1> QED BY <1>1, <1>3, <1>6, DropInstallmentsForm

LEMMA PartBook ==
  ASSUME NEW l, NEW C, NEW S, NEW I, NEW P
  PROVE  Part(l, C, S, I, P)
           = Book(C, Restrict(l.sales, S), Restrict(l.installments, I), Restrict(l.payments, P))
BY DEF Part, Book

LEMMA DropPaymentsSane ==
  ASSUME NEW l, NEW stale, NEW entered, Sane(l, stale, entered), NEW ids, ids \subseteq Ids(l.payments)
  PROVE  Sane(DropPayments(l, ids), stale \union {l.payments[p].installment : p \in ids}, entered)
<1> DEFINE P == Ids(l.payments) \ ids
<1>1. Good(l) /\ Valid(l)
  BY DEF Sane
<1>2. l = Book(l.customers, l.sales, l.installments, l.payments)
  BY <1>1, GoodBook
<1>3. DropPayments(l, ids) = Book(l.customers, l.sales, l.installments, Restrict(l.payments, P))
  BY <1>2, DropPaymentsForm DEF Without
<1>4. DropPayments(l, ids) = Part(l, l.customers, Ids(l.sales), Ids(l.installments), P)
  BY <1>1, <1>3, RestrictAll, PartBook
<1>5. /\ \A s \in Ids(l.sales) : l.sales[s].customer \in l.customers
      /\ \A i \in Ids(l.installments) : l.installments[i].sale \in Ids(l.sales)
      /\ \A p \in P : l.payments[p].installment \in Ids(l.installments)
  BY <1>1 DEF Valid
<1>6. Ids(l.payments) \ P = ids
  OBVIOUS
<1>7. P \subseteq Ids(l.payments)
  OBVIOUS
<1> HIDE DEF P
<1>8. Sane(Part(l, l.customers, Ids(l.sales), Ids(l.installments), P),
           stale \union {l.payments[p].installment : p \in Ids(l.payments) \ P}, entered)
  BY <1>5, <1>7, PartSane
<1> QED BY <1>4, <1>6, <1>8

LEMMA DropInstallmentsSane ==
  ASSUME NEW l, NEW entered, Sane(l, {}, entered), NEW ids, ids \subseteq Ids(l.installments)
  PROVE  Sane(DropInstallments(l, ids), {}, entered)
<1> DEFINE I == Ids(l.installments) \ ids
           gone == UNION {PaymentsOf(l, i) : i \in ids}
           P == Ids(l.payments) \ gone
           r == DropInstallments(l, ids)
<1>1. Good(l) /\ Valid(l)
  BY DEF Sane
<1>2. l = Book(l.customers, l.sales, l.installments, l.payments)
  BY <1>1, GoodBook
<1>3. r = Book(l.customers, l.sales, Restrict(l.installments, I), Restrict(l.payments, P))
  <2>1. \A p : p \in gone <=> \E i \in ids : p \in PaymentsOf(l, i)
    OBVIOUS
  <2> HIDE DEF gone
  <2>2. r = Book(l.customers, l.sales, Without(l.installments, ids), Without(l.payments, gone))
    BY <1>2, <2>1, DropInstallmentsForm
  <2> QED BY <2>2 DEF Without, gone
<1>4. r = Part(l, l.customers, Ids(l.sales), I, P)
  BY <1>1, <1>3, RestrictAll, PartBook
<1>5. /\ \A s \in Ids(l.sales) : l.sales[s].customer \in l.customers
      /\ \A i \in I : l.installments[i].sale \in Ids(l.sales)
      /\ \A p \in Ids(l.payments) : l.payments[p].installment \in Ids(l.installments)
  BY <1>1 DEF Valid
<1>6. \A p \in Ids(l.payments) : p \in gone <=> l.payments[p].installment \in ids
  BY DEF PaymentsOf
<1>7. \A p \in P : l.payments[p].installment \in I
  BY <1>5, <1>6
<1>8. I \subseteq Ids(l.installments) /\ P \subseteq Ids(l.payments)
  OBVIOUS
<1>9. {l.payments[p].installment : p \in Ids(l.payments) \ P} \intersect I = {}
  BY <1>6
<1>10. Ids(r.installments) = I
  BY <1>3, <1>8, RestrictIs, BookIs
<1> HIDE DEF I, P, r, gone
<1>11. Sane(r, {} \union {l.payments[p].installment : p \in Ids(l.payments) \ P}, entered)
  BY <1>4, <1>5, <1>7, <1>8, PartSane
<1>12. Sane(r, {}, entered)
  BY <1>9, <1>10, <1>11, StaleIs
<1> QED BY <1>12 DEF r

\* Deleting a customer deletes what it bought, and a sale its installments.
LEMMA DropSalesSane ==
  ASSUME NEW l, NEW entered, Sane(l, {}, entered), NEW C, C \subseteq l.customers,
         NEW ids, ids \subseteq Ids(l.sales),
         \A s \in Ids(l.sales) \ ids : l.sales[s].customer \in C
  PROVE  Sane(DropSales([l EXCEPT !.customers = C], ids), {}, entered)
<1> DEFINE S == Ids(l.sales) \ ids
           lost == UNION {InstallmentsOf(l, s) : s \in ids}
           I == Ids(l.installments) \ lost
           gone == UNION {PaymentsOf(l, i) : i \in lost}
           P == Ids(l.payments) \ gone
           m == [l EXCEPT !.customers = C]
           r == DropSales(m, ids)
<1>1. Good(l) /\ Valid(l)
  BY DEF Sane
<1>2. l = Book(l.customers, l.sales, l.installments, l.payments)
  BY <1>1, GoodBook
<1>3. m = Book(C, l.sales, l.installments, l.payments)
  <2>1. PICK a, b, c, d : a = l.customers /\ b = l.sales /\ c = l.installments /\ d = l.payments
    OBVIOUS
  <2>2. l = Book(a, b, c, d)
    BY <1>2, <2>1
  <2>3. m = Book(C, b, c, d)
    BY <2>2 DEF Book
  <2> QED BY <2>1, <2>3
<1>4. (\A s : InstallmentsOf(m, s) = InstallmentsOf(l, s)) /\ \A i : PaymentsOf(m, i) = PaymentsOf(l, i)
  <2>1. m.installments = l.installments /\ m.payments = l.payments
    BY <1>3, BookIs
  <2> HIDE DEF m
  <2> QED BY <2>1 DEF InstallmentsOf, PaymentsOf
<1>5. /\ \A i : i \in lost <=> \E s \in ids : i \in InstallmentsOf(l, s)
      /\ \A p : p \in gone <=> \E i \in lost : p \in PaymentsOf(l, i)
  OBVIOUS
<1>6. r = Book(C, Restrict(l.sales, S), Restrict(l.installments, I), Restrict(l.payments, P))
  <2> HIDE DEF m, lost, gone
  <2>1. /\ \A i : i \in lost <=> \E s \in ids : i \in InstallmentsOf(m, s)
        /\ \A p : p \in gone <=> \E i \in lost : p \in PaymentsOf(m, i)
    BY <1>4, <1>5
  <2>2. r = Book(C, Without(l.sales, ids), Without(l.installments, lost), Without(l.payments, gone))
    BY <1>3, <2>1, DropSalesForm
  <2> QED BY <2>2 DEF Without
<1>7. r = Part(l, C, S, I, P)
  BY <1>6, PartBook
<1>8. /\ \A i \in Ids(l.installments) : l.installments[i].sale \in Ids(l.sales)
      /\ \A p \in Ids(l.payments) : l.payments[p].installment \in Ids(l.installments)
  BY <1>1 DEF Valid
<1>9. \A i \in Ids(l.installments) : i \in lost <=> l.installments[i].sale \in ids
  BY DEF InstallmentsOf
<1>10. \A p \in Ids(l.payments) : p \in gone <=> l.payments[p].installment \in lost
  BY DEF PaymentsOf
<1>11. /\ \A i \in I : l.installments[i].sale \in S
       /\ \A p \in P : l.payments[p].installment \in I
  BY <1>8, <1>9, <1>10
<1>12. S \subseteq Ids(l.sales) /\ I \subseteq Ids(l.installments) /\ P \subseteq Ids(l.payments)
  OBVIOUS
<1>13. {l.payments[p].installment : p \in Ids(l.payments) \ P} \intersect I = {}
  BY <1>10
<1>14. Ids(r.installments) = I
  BY <1>6, <1>12, RestrictIs, BookIs
<1>15. \A s \in S : l.sales[s].customer \in C
  OBVIOUS
<1> HIDE DEF S, I, P, r, m, gone, lost
<1>16. Sane(r, {} \union {l.payments[p].installment : p \in Ids(l.payments) \ P}, entered)
  BY <1>7, <1>11, <1>12, <1>15, PartSane
<1>17. Sane(r, {}, entered)
  BY <1>13, <1>14, <1>16, StaleIs
<1> QED BY <1>17 DEF r, m

-----------------------------------------------------------------------------
(* Additions.                                                                *)

LEMMA InsertIs ==
  ASSUME NEW t, NEW id, NEW row
  PROVE  /\ Ids(Insert(t, id, row)) = Ids(t) \union {id}
         /\ Insert(t, id, row)[id] = row
         /\ \A k \in Ids(t) \ {id} : Insert(t, id, row)[k] = t[k]
BY DEF Insert, Ids

LEMMA InsertType ==
  ASSUME NEW Row, NEW t, t \in [Ids(t) -> Row], Ids(t) \subseteq Nat, IsFiniteSet(Ids(t)),
         NEW id \in Nat, NEW row \in Row, NEW u, u = Insert(t, id, row)
  PROVE  /\ u \in [Ids(u) -> Row]
         /\ Ids(u) \subseteq Nat
         /\ IsFiniteSet(Ids(u))
<1>1. Ids(u) = Ids(t) \union {id}
  BY InsertIs
<1>2. IsFiniteSet(Ids(u))
  BY <1>1, FS_AddElement
<1>3. u \in [Ids(u) -> Row]
  BY <1>1 DEF Insert
<1> QED BY <1>1, <1>2, <1>3

LEMMA NextIdNew ==
  ASSUME NEW t, Ids(t) \subseteq Nat, IsFiniteSet(Ids(t))
  PROVE  NextId(t) \in Nat /\ NextId(t) \notin Ids(t)
<1>1. CASE Ids(t) = {}
  BY <1>1 DEF NextId
<1>2. CASE Ids(t) # {}
  <2>1. PICK S : S = Ids(t)
    OBVIOUS
  <2>2. Max(S) \in S /\ \A y \in S : Max(S) >= y
    BY <1>2, <2>1, GreatestNumber
  <2>3. NextId(t) = Max(S) + 1
    BY <1>2, <2>1 DEF NextId
  <2>4. Max(S) \in Nat /\ \A y \in S : y \in Nat
    BY <2>1, <2>2
  <2> QED BY <2>1, <2>2, <2>3, <2>4
<1> QED BY <1>1, <1>2

\* Tables that fit the payments of a ledger, whose paid dates are as they were
\* but for some installments.
Fits(l, stale, C, S, I, other) ==
  /\ \A s \in Ids(S) : S[s].customer \in C /\ S[s].amount >= 0
  /\ \A s, t \in Ids(S) : S[s].key = S[t].key => s = t \/ S[s].key = None
  /\ Ids(l.installments) \subseteq Ids(I)
  /\ \A i \in Ids(I) : I[i].sale \in Ids(S) /\ I[i].amount >= 0 /\ Paid(l, i) <= I[i].amount
  /\ \A i \in Ids(I) \ other : /\ i \in Ids(l.installments) \ stale
                                /\ I[i].amount = l.installments[i].amount
                                /\ I[i].paid_date = l.installments[i].paid_date

LEMMA PaymentsKept ==
  ASSUME NEW l, NEW stale, NEW entered, Sane(l, stale, entered),
         NEW C, NEW S, NEW I, NEW other, Fits(l, stale, C, S, I, other),
         NEW r, r = Book(C, S, I, l.payments), Good(r)
  PROVE  Sane(r, other, entered)
<1>1. r.customers = C /\ r.sales = S /\ r.installments = I /\ r.payments = l.payments
  BY BookIs
<1>2. Good(l) /\ Valid(l)
  BY DEF Sane
<1>3. ASSUME NEW i
      PROVE  /\ Paid(r, i) = Paid(l, i)
             /\ r.installments[i].amount = l.installments[i].amount => PaidDate(r, i) = PaidDate(l, i)
  <2>1. PaymentsOf(r, i) = PaymentsOf(l, i)
    BY <1>1 DEF PaymentsOf
  <2> QED BY <1>1, <1>2, <2>1, PaidSame
<1>4. Valid(r)
  <2>1. /\ \A p \in Ids(r.payments) :
             r.payments[p].installment \in Ids(r.installments) /\ r.payments[p].amount > 0
        /\ \A p, q \in Ids(r.payments) :
             r.payments[p].key = r.payments[q].key => p = q \/ r.payments[p].key = None
    BY <1>1, <1>2 DEF Valid, Fits
  <2>2. \A i \in Ids(r.installments) : Paid(r, i) <= r.installments[i].amount
    BY <1>1, <1>3 DEF Fits
  <2> QED BY <1>1, <2>1, <2>2 DEF Valid, Fits
<1>5. ASSUME NEW i \in Ids(r.installments) \ other PROVE Dated(r, i)
  <2>1. /\ Dated(l, i)
        /\ r.installments[i].amount = l.installments[i].amount
        /\ r.installments[i].paid_date = l.installments[i].paid_date
    BY <1>1, <1>5 DEF Sane, Fits
  <2> QED BY <1>3, <2>1 DEF Dated
<1>6. Entered(r) = Entered(l)
  BY <1>1 DEF Entered
<1> QED BY <1>4, <1>5, <1>6 DEF Sane

\* What a payment with this key adds to the collections of the page.
Own(i, key) == {e \in {<<i, key>>} : key > None}

\* A collection that can be entered, but for what is left of the installment.
Enterable(l, i, amount, date, key) ==
  /\ i \in Ids(l.installments) /\ amount \in Nat \ {0} /\ date \in Day /\ key \in Int
  /\ key # None => \A p \in Ids(l.payments) : l.payments[p].key # key

Adds(l, r, i, amount) ==
  /\ Paid(l, i) \in Nat /\ Paid(r, i) = Paid(l, i) + amount
  /\ r.customers = l.customers /\ r.sales = l.sales /\ r.installments = l.installments

LEMMA AddPaymentSane ==
  ASSUME NEW l, NEW stale, NEW entered, Sane(l, stale, entered),
         NEW i, NEW amount, NEW date, NEW key, Enterable(l, i, amount, date, key),
         NEW r, r = AddPayment(l, i, amount, date, key)
  PROVE  /\ Good(r)
         /\ Adds(l, r, i, amount)
         /\ Paid(r, i) <= l.installments[i].amount
              => Sane(r, stale \union {i}, entered \union Own(i, key))
<1> DEFINE n == NextId(l.payments)
           row == [installment |-> i, amount |-> amount, date |-> date, key |-> key]
           t == Insert(l.payments, n, row)
<1>0. /\ i \in Ids(l.installments) /\ amount \in Nat \ {0} /\ date \in Day /\ key \in Int
      /\ key # None => \A p \in Ids(l.payments) : l.payments[p].key # key
  BY DEF Enterable
<1>1. Good(l) /\ Valid(l) /\ Positive(l)
  BY ValidPositive DEF Sane
<1>2. /\ Ids(l.payments) \subseteq Nat /\ l.payments \in [Ids(l.payments) -> PaymentRow]
      /\ IsFiniteSet(Ids(l.payments))
      /\ Ids(l.installments) \subseteq Nat
  BY <1>1, GoodIs
<1>3. n \in Nat /\ n \notin Ids(l.payments)
  BY <1>2, NextIdNew
<1>4. row \in PaymentRow
  BY <1>0, <1>2 DEF PaymentRow, Day
<1> HIDE DEF n
<1>5. /\ t \in [Ids(t) -> PaymentRow] /\ Ids(t) \subseteq Nat /\ IsFiniteSet(Ids(t))
      /\ Ids(t) = Ids(l.payments) \union {n}
      /\ t[n] = row
      /\ \A k \in Ids(l.payments) : t[k] = l.payments[k]
  <2> HIDE DEF row
  <2> QED BY <1>2, <1>3, <1>4, InsertType, InsertIs
<1>6. row.installment = i /\ row.amount = amount /\ row.date = date /\ row.key = key
  OBVIOUS
<1>7. r = Book(l.customers, l.sales, l.installments, t)
  <2>1. r = [l EXCEPT !.payments = t]
    BY DEF AddPayment, n
  <2> HIDE DEF t
  <2>2. PICK a, b, c, d : a = l.customers /\ b = l.sales /\ c = l.installments /\ d = l.payments
    OBVIOUS
  <2>3. l = Book(a, b, c, d)
    BY <1>1, <2>2, GoodBook
  <2>4. r = Book(a, b, c, t)
    BY <2>1, <2>3 DEF Book
  <2> QED BY <2>2, <2>4
<1> HIDE DEF t, row
<1>8. r.customers = l.customers /\ r.sales = l.sales /\ r.installments = l.installments /\ r.payments = t
  BY <1>7, BookIs
<1>9. Good(r)
  <2>1. r = [customers |-> l.customers, sales |-> l.sales,
             installments |-> l.installments, payments |-> t]
    BY <1>7 DEF Book
  <2> QED BY <1>1, <1>5, <2>1, GoodIs, GoodFrom
<1>10. PaymentsOf(r, i) = PaymentsOf(l, i) \union {n}
  BY <1>3, <1>5, <1>6, <1>8 DEF PaymentsOf
<1>11. /\ PaymentsOf(l, i) \subseteq Ids(l.payments) /\ IsFiniteSet(PaymentsOf(l, i))
       /\ Paid(l, i) \in Nat
       /\ \A k \in PaymentsOf(l, i) : l.payments[k].amount \in Nat
  BY <1>1, PaymentRows, PaidType DEF Paid
<1>12. Paid(r, i) = Paid(l, i) + amount
  <2> DEFINE U == PaymentsOf(l, i) \union {n}
  <2>1. /\ IsFiniteSet(U) /\ U \subseteq Ids(t) /\ U \ {n} = PaymentsOf(l, i)
        /\ \A k \in U : t[k].amount \in Nat
    <3>1. IsFiniteSet(U)
      BY <1>11, FS_AddElement
    <3>2. U \subseteq Ids(t) /\ U \ {n} = PaymentsOf(l, i)
      BY <1>3, <1>5, <1>11
    <3>3. \A k \in U : t[k].amount \in Nat
      BY <1>0, <1>5, <1>6, <1>11
    <3> QED BY <3>1, <3>2, <3>3
  <2> HIDE DEF U
  <2>2. n \in U
    BY DEF U
  <2>3. Amount(t, U) = t[n].amount + Amount(t, PaymentsOf(l, i))
    BY <2>1, <2>2, AmountRemove
  <2>4. Amount(t, PaymentsOf(l, i)) = Paid(l, i)
    BY <1>5, <1>11, AmountSame DEF Paid
  <2>5. Paid(r, i) = Amount(t, U)
    BY <1>8, <1>10 DEF Paid, U
  <2> QED BY <1>0, <1>5, <1>6, <1>11, <2>3, <2>4, <2>5
<1>13. ASSUME NEW k \in Ids(l.installments), k # i
       PROVE  Paid(r, k) = Paid(l, k) /\ PaidDate(r, k) = PaidDate(l, k)
  <2>1. PaymentsOf(r, k) = PaymentsOf(l, k) /\ PaymentsOf(l, k) \subseteq Ids(l.payments)
    BY <1>3, <1>5, <1>6, <1>8, <1>13 DEF PaymentsOf
  <2> QED BY <1>1, <1>5, <1>8, <1>9, <2>1, PaidSame
<1>14. ASSUME Paid(r, i) <= l.installments[i].amount
       PROVE  Sane(r, stale \union {i}, entered \union Own(i, key))
  <2>1. \A k \in Ids(r.installments) : Paid(r, k) <= r.installments[k].amount
    BY <1>0, <1>1, <1>8, <1>13, <1>14 DEF Valid
  <2>2. /\ \A s \in Ids(r.sales) : r.sales[s].customer \in r.customers /\ r.sales[s].amount >= 0
        /\ \A s, u \in Ids(r.sales) : r.sales[s].key = r.sales[u].key => s = u \/ r.sales[s].key = None
        /\ \A k \in Ids(r.installments) :
             r.installments[k].sale \in Ids(r.sales) /\ r.installments[k].amount >= 0
    BY <1>1, <1>8 DEF Valid
  <2>3. \A p \in Ids(t) : t[p].installment \in Ids(l.installments) /\ t[p].amount > 0
    BY <1>0, <1>1, <1>5, <1>6 DEF Valid
  <2>4. \A p, q \in Ids(t) : t[p].key = t[q].key => p = q \/ t[p].key = None
    <3>1. \A p, q \in Ids(l.payments) : t[p].key = t[q].key => p = q \/ t[p].key = None
      BY <1>1, <1>5 DEF Valid
    <3>2. t[n].key # None => \A p \in Ids(l.payments) : t[p].key # t[n].key
      BY <1>0, <1>5, <1>6
    <3> QED BY <1>5, <3>1, <3>2
  <2>5. Valid(r)
    BY <1>8, <2>1, <2>2, <2>3, <2>4 DEF Valid
  <2>6. ASSUME NEW k \in Ids(r.installments) \ (stale \union {i}) PROVE Dated(r, k)
    <3>1. Dated(l, k)
      BY <1>8, <2>6 DEF Sane
    <3> QED BY <1>8, <1>13, <2>6, <3>1 DEF Dated
  <2>7. Entered(r) \subseteq entered \union Own(i, key)
    <3>1. ASSUME NEW p \in Ids(t), t[p].key > None
          PROVE  <<t[p].installment, t[p].key>> \in entered \union Own(i, key)
      <4>1. CASE p = n
        BY <1>5, <1>6, <3>1, <4>1 DEF Own
      <4>2. CASE p \in Ids(l.payments)
        <5>1. <<l.payments[p].installment, l.payments[p].key>> \in Entered(l)
          BY <1>5, <3>1, <4>2 DEF Entered
        <5> QED BY <1>5, <4>2, <5>1 DEF Sane
      <4> QED BY <1>5, <4>1, <4>2
    <3> QED BY <1>8, <3>1 DEF Entered
  <2> QED BY <1>9, <2>5, <2>6, <2>7 DEF Sane
<1> QED BY <1>8, <1>9, <1>11, <1>12, <1>14 DEF Adds

-----------------------------------------------------------------------------
(* Installments and sales.                                                   *)

LEMMA AddInstallmentSane ==
  ASSUME NEW l, NEW entered, Sane(l, {}, entered), NEW s \in Ids(l.sales),
         NEW amount \in Nat \ {0}, NEW paidOn \in {None} \union Day
  PROVE  /\ Sane(AddInstallment(l, s, amount, paidOn), {}, entered)
         /\ AddInstallment(l, s, amount, paidOn).sales = l.sales
<1> DEFINE i == NextId(l.installments)
           row == [sale |-> s, amount |-> amount, paid_date |-> None]
           I == Insert(l.installments, i, row)
           bare == [l EXCEPT !.installments = I]
           full == AddPayment(bare, i, amount, paidOn, None)
           r == IF paidOn = None THEN bare ELSE full
<1>1. AddInstallment(l, s, amount, paidOn) = Recalculated(r, {i})
  BY DEF AddInstallment
<1>2. Good(l) /\ Valid(l)
  BY DEF Sane
<1>3. /\ Ids(l.installments) \subseteq Nat /\ l.installments \in [Ids(l.installments) -> InstallmentRow]
      /\ IsFiniteSet(Ids(l.installments))
      /\ Ids(l.sales) \subseteq Nat
  BY <1>2, GoodIs
<1>4. i \in Nat /\ i \notin Ids(l.installments)
  BY <1>3, NextIdNew
<1>5. row \in InstallmentRow /\ row.sale = s /\ row.amount = amount
  BY <1>3 DEF InstallmentRow, None
<1> HIDE DEF i, row
<1>6. /\ I \in [Ids(I) -> InstallmentRow] /\ Ids(I) \subseteq Nat /\ IsFiniteSet(Ids(I))
      /\ Ids(I) = Ids(l.installments) \union {i}
      /\ I[i] = row
      /\ \A k \in Ids(l.installments) : I[k] = l.installments[k]
  BY <1>3, <1>4, <1>5, InsertType, InsertIs
<1>7. bare = Book(l.customers, l.sales, I, l.payments)
  <2> HIDE DEF I
  <2>1. PICK a, b, c, d : a = l.customers /\ b = l.sales /\ c = l.installments /\ d = l.payments
    OBVIOUS
  <2>2. l = Book(a, b, c, d)
    BY <1>2, <2>1, GoodBook
  <2>3. bare = Book(a, b, I, d)
    BY <2>2 DEF Book
  <2> QED BY <2>1, <2>3
<1> HIDE DEF I, bare
<1>8. bare.sales = l.sales /\ bare.installments = I /\ bare.payments = l.payments
  BY <1>7, BookIs
<1>9. Good(bare)
  <2>1. bare = [customers |-> l.customers, sales |-> l.sales,
                installments |-> I, payments |-> l.payments]
    BY <1>7 DEF Book
  <2> QED BY <1>2, <1>6, <2>1, GoodIs, GoodFrom
<1>10. Paid(l, i) = 0 /\ Paid(bare, i) = 0
  <2>1. PaymentsOf(l, i) = {} /\ PaymentsOf(bare, i) = {}
    BY <1>2, <1>4, <1>8 DEF Valid, PaymentsOf
  <2> QED BY <2>1, AmountEmpty DEF Paid
<1>11. Sane(bare, {i}, entered)
  <2>1. /\ \A k \in Ids(l.sales) : l.sales[k].customer \in l.customers /\ l.sales[k].amount >= 0
        /\ \A k, u \in Ids(l.sales) : l.sales[k].key = l.sales[u].key => k = u \/ l.sales[k].key = None
    BY <1>2 DEF Valid
  <2>2. \A k \in Ids(I) : I[k].sale \in Ids(l.sales) /\ I[k].amount >= 0 /\ Paid(l, k) <= I[k].amount
    <3>1. \A k \in Ids(l.installments) :
            /\ l.installments[k].sale \in Ids(l.sales) /\ l.installments[k].amount >= 0
            /\ Paid(l, k) <= l.installments[k].amount
      BY <1>2 DEF Valid
    <3>2. I[i].sale \in Ids(l.sales) /\ I[i].amount >= 0 /\ Paid(l, i) <= I[i].amount
      BY <1>5, <1>6, <1>10
    <3> QED BY <1>6, <3>1, <3>2
  <2>3. Fits(l, {}, l.customers, l.sales, I, {i})
    BY <1>6, <2>1, <2>2 DEF Fits
  <2> QED BY <1>7, <1>9, <2>3, PaymentsKept
<1>12. Sane(r, {i}, entered) /\ r.sales = l.sales /\ Good(r)
  <2>1. CASE paidOn = None
    BY <1>8, <1>9, <1>11, <2>1
  <2>2. CASE paidOn # None
    <3>1. paidOn \in Day /\ i \in Ids(bare.installments) /\ None \in Int
      BY <1>6, <1>8, <2>2 DEF None
    <3>2. PICK x : x = AddPayment(bare, i, amount, paidOn, None)
      OBVIOUS
    <3>7. Enterable(bare, i, amount, paidOn, None)
      BY <3>1 DEF Enterable
    <3>3. /\ Good(x)
          /\ Adds(bare, x, i, amount)
          /\ Paid(x, i) <= bare.installments[i].amount
               => Sane(x, {i} \union {i}, entered \union Own(i, None))
      <4> HIDE DEF full, r
      <4> QED BY <1>11, <3>2, <3>7, AddPaymentSane, Zenon
    <3>4. Paid(x, i) <= bare.installments[i].amount
      BY <1>5, <1>6, <1>8, <1>10, <3>3 DEF Adds
    <3>5. Own(i, None) = {}
      BY DEF None, Own
    <3>6. Sane(x, {i}, entered)
      BY <3>3, <3>4, <3>5
    <3> QED BY <1>8, <2>2, <3>2, <3>3, <3>6 DEF Adds
  <2> QED BY <2>1, <2>2
<1> HIDE DEF r
<1>13. Sane(Recalculated(r, {i}), {i} \ {i}, entered)
  BY <1>12, RecalculatedSane
<1>14. Recalculated(r, {i}).sales = r.sales
  BY <1>12, RecalculatedIs
<1>15. {i} \ {i} = {}
  OBVIOUS
<1> QED BY <1>1, <1>12, <1>13, <1>14, <1>15

LEMMA AddCustomerSane ==
  ASSUME NEW l, NEW entered, Sane(l, {}, entered), NEW c \in Nat
  PROVE  Sane([l EXCEPT !.customers = @ \union {c}], {}, entered)
<1>1. Good(l) /\ Valid(l)
  BY DEF Sane
<1>2. PICK a, b, i, d : a = l.customers /\ b = l.sales /\ i = l.installments /\ d = l.payments
  OBVIOUS
<1>3. l = Book(a, b, i, d)
  BY <1>1, <1>2, GoodBook
<1>4. PICK A : A = a \union {c}
  OBVIOUS
<1>5. PICK r : r = Book(A, b, i, d)
  OBVIOUS
<1>6. [l EXCEPT !.customers = @ \union {c}] = r
  BY <1>2, <1>3, <1>4, <1>5 DEF Book
<1>7. A \in SUBSET Nat
  BY <1>1, <1>2, <1>4, GoodIs
<1>8. Good(r)
  BY <1>1, <1>2, <1>5, <1>7, GoodIs, GoodFrom DEF Book
<1>9. /\ \A s \in Ids(b) : b[s].customer \in A /\ b[s].amount >= 0
      /\ \A s, t \in Ids(b) : b[s].key = b[t].key => s = t \/ b[s].key = None
      /\ \A k \in Ids(i) : i[k].sale \in Ids(b) /\ i[k].amount >= 0 /\ Paid(l, k) <= i[k].amount
  BY <1>1, <1>2, <1>4 DEF Valid
<1>10. Fits(l, {}, A, b, i, {})
  BY <1>2, <1>9 DEF Fits
<1>11. Sane(r, {}, entered)
  BY <1>2, <1>5, <1>8, <1>10, PaymentsKept
<1> QED BY <1>6, <1>11

\* A sale before its installments.
LEMMA AddSaleSane ==
  ASSUME NEW l, NEW entered, Sane(l, {}, entered), NEW c \in l.customers, NEW total \in Nat,
         NEW key \in Int, key # None => \A t \in Ids(l.sales) : l.sales[t].key # key,
         NEW n, n = NextId(l.sales),
         NEW r, r = [l EXCEPT !.sales = Insert(@, n, [customer |-> c, amount |-> total, key |-> key])]
  PROVE  Sane(r, {}, entered) /\ n \in Ids(r.sales)
<1> DEFINE row == [customer |-> c, amount |-> total, key |-> key]
           S == Insert(l.sales, n, row)
<1>1. Good(l) /\ Valid(l)
  BY DEF Sane
<1>2. /\ Ids(l.sales) \subseteq Nat /\ l.sales \in [Ids(l.sales) -> SaleRow]
      /\ IsFiniteSet(Ids(l.sales)) /\ l.customers \subseteq Nat
  BY <1>1, GoodIs
<1>3. n \in Nat /\ n \notin Ids(l.sales)
  BY <1>2, NextIdNew
<1>4. row \in SaleRow /\ row.customer = c /\ row.amount = total /\ row.key = key
  BY <1>2 DEF SaleRow
<1>5. r = [l EXCEPT !.sales = S]
  OBVIOUS
<1> HIDE DEF row
<1>6. /\ S \in [Ids(S) -> SaleRow] /\ Ids(S) \subseteq Nat /\ IsFiniteSet(Ids(S))
      /\ Ids(S) = Ids(l.sales) \union {n}
      /\ S[n] = row
      /\ \A k \in Ids(l.sales) : S[k] = l.sales[k]
  BY <1>2, <1>3, <1>4, InsertType, InsertIs
<1> HIDE DEF S
<1>7. r = Book(l.customers, S, l.installments, l.payments)
  <2>1. PICK a, b, i, d : a = l.customers /\ b = l.sales /\ i = l.installments /\ d = l.payments
    OBVIOUS
  <2>2. l = Book(a, b, i, d)
    BY <1>1, <2>1, GoodBook
  <2>3. r = Book(a, S, i, d)
    BY <1>5, <2>2 DEF Book
  <2> QED BY <2>1, <2>3
<1>8. Good(r)
  <2>1. r = [customers |-> l.customers, sales |-> S,
             installments |-> l.installments, payments |-> l.payments]
    BY <1>7 DEF Book
  <2> QED BY <1>1, <1>6, <2>1, GoodIs, GoodFrom
<1>9. \A s \in Ids(S) : S[s].customer \in l.customers /\ S[s].amount >= 0
  BY <1>1, <1>4, <1>6 DEF Valid
<1>10. \A s, t \in Ids(S) : S[s].key = S[t].key => s = t \/ S[s].key = None
  <2>1. \A s, t \in Ids(l.sales) : S[s].key = S[t].key => s = t \/ S[s].key = None
    BY <1>1, <1>6 DEF Valid
  <2>2. S[n].key # None => \A t \in Ids(l.sales) : S[t].key # S[n].key
    BY <1>4, <1>6
  <2> QED BY <1>6, <2>1, <2>2
<1>11. \A k \in Ids(l.installments) :
         /\ l.installments[k].sale \in Ids(S) /\ l.installments[k].amount >= 0
         /\ Paid(l, k) <= l.installments[k].amount
  BY <1>1, <1>6 DEF Valid
<1>12. Fits(l, {}, l.customers, S, l.installments, {})
  BY <1>9, <1>10, <1>11 DEF Fits
<1>13. Sane(r, {}, entered)
  BY <1>7, <1>8, <1>12, PaymentsKept
<1>14. \A x : x = Book(l.customers, S, l.installments, l.payments) => x.sales = S
  BY BookIs
<1>15. r.sales = S
  BY <1>7, <1>14, Zenon
<1> QED BY <1>6, <1>13, <1>15

-----------------------------------------------------------------------------
(* The rows of a sale.                                                       *)

LEMMA AllottedPositive ==
  ASSUME NEW order \in Orders, Acceptable(order), NEW k \in 1..Len(order.rows)
  PROVE  Allotted(order)[k] \in Nat \ {0}
<1> DEFINE n == Len(order.rows)
           said == [j \in 1..n |-> order.rows[j].amount]
           Sum(f) == FoldFunction(+, 0, f)
           target == IF order.down # NoMoney THEN order.total - order.down
                     ELSE IF \A j \in 1..n : said[j] # NoMoney THEN Sum(said)
                     ELSE order.total
           front == [j \in 1..(n - 1) |-> IF said[j] = NoMoney THEN target \div n ELSE said[j]]
<1>1. /\ order \in [total : Nat \ {0}, down : Int,
                    rows : Seq([amount : Int, paidOn : {None} \union 1..MaxDay])]
      /\ n \in Nat \ {0} /\ k \in 1..n
  <2>1. order \in [total : Nat \ {0}, down : Int,
                   rows : Seq([amount : Int, paidOn : {None} \union 1..MaxDay])]
    BY LedgerAssumption
  <2>2. n \in Nat
    BY <2>1
  <2> QED BY <2>1, <2>2
<1>2. order.total \in Int /\ order.down \in Int /\ \A j \in 1..n : order.rows[j].amount \in Int
  <2>1. order.total \in Int /\ order.down \in Int
    BY <1>1
  <2>2. PICK R : R = [amount : Int, paidOn : {None} \union 1..MaxDay]
    OBVIOUS
  <2>3. \A j \in 1..n : order.rows[j] \in R
    <3>1. order.rows \in Seq(R)
      BY <1>1, <2>2
    <3> QED BY <3>1
  <2>4. \A j \in 1..n : order.rows[j].amount \in Int
    BY <2>2, <2>3
  <2> QED BY <2>1, <2>4
<1>3. order.rows # <<>> /\ Allotted(order)[k] > 0
  BY <1>1 DEF Acceptable
<1>4. ASSUME NEW f, NEW m \in Int, f \in [1..m -> Int]
      PROVE  Sum(f) \in Int
  <2>1. IsFiniteSet(DOMAIN f) /\ DOMAIN f = 1..m
    BY <1>4, FS_Interval
  <2>2. Sum(f) = Total(f, DOMAIN f)
    BY DEF Total, MapThenSumSet, FoldFunction, FoldFunctionOnSet, MapThenFoldSet
  <2> HIDE DEF Sum
  <2> QED BY <1>4, <2>1, <2>2, TotalIsInt
<1>5. said \in [1..n -> Int]
  BY <1>2
<1>6. Sum(said) \in Int
  <2>1. n \in Int
    BY <1>1
  <2> HIDE DEF said, Sum, n
  <2> QED BY <1>4, <1>5, <2>1
<1> HIDE DEF Sum
<1>7. target \in Int
  BY <1>2, <1>6
<1>8. target \div n \in Int
  BY <1>1, <1>7
<1>9. front \in [1..(n - 1) -> Int]
  <2> HIDE DEF target
  <2> QED BY <1>5, <1>8
<1>10. n - 1 \in Int
  BY <1>1
<1>11. Sum(front) \in Int
  <2> HIDE DEF front
  <2> QED BY <1>4, <1>9, <1>10
<1>12. Allotted(order) = Append(front, target - Sum(front))
  BY <1>1 DEF Allotted, Sum
<1> HIDE DEF target, front, n
<1>13. target - Sum(front) \in Int
  BY <1>7, <1>11
<1>14. front \in Seq(Int) /\ Len(front) = n - 1
  <2>1. n - 1 \in Nat
    BY <1>1
  <2> QED BY <1>9, <2>1
<1>15. Allotted(order)[k] \in Int
  BY <1>1, <1>12, <1>13, <1>14
<1> QED BY <1>3, <1>15

\* insert_installment_tx for the rows so far, the last of them last.
RowStep(l, sale, order, s, g) ==
  IF s = {} THEN l
  ELSE AddInstallment(g[s \ {Max(s)}], sale, Allotted(order)[Max(s)], order.rows[Max(s)].paidOn)
IsRowFold(l, sale, order, S, g) == g = [s \in SUBSET S |-> RowStep(l, sale, order, s, g)]
RowFold(l, sale, order, S) == CHOOSE g : IsRowFold(l, sale, order, S, g)

LEMMA RowsPick ==
  ASSUME NEW order \in Orders
  PROVE  /\ DOMAIN order.rows = 1..Len(order.rows) /\ IsFiniteSet(DOMAIN order.rows)
         /\ \A s \in SUBSET DOMAIN order.rows : s # {} => Max(s) \in s
<1> DEFINE n == Len(order.rows)
<1>1. order.rows \in Seq([amount : Int, paidOn : {None} \union 1..MaxDay])
  BY LedgerAssumption
<1>2. DOMAIN order.rows = 1..n /\ n \in Nat
  BY <1>1
<1> HIDE DEF n
<1>3. IsFiniteSet(1..n)
  BY <1>2, FS_Interval
<1>4. ASSUME NEW s \in SUBSET (1..n), s # {} PROVE Max(s) \in s
  <2>1. IsFiniteSet(s)
    BY <1>3, FS_Subset
  <2>2. s \in SUBSET Int
    BY <1>2
  <2> QED BY <1>4, <2>1, <2>2, GreatestNumber
<1> QED BY <1>2, <1>3, <1>4 DEF n

LEMMA WithRowsIsFold ==
  ASSUME NEW l, NEW sale, NEW order \in Orders
  PROVE  WithRows(l, sale, order)
           = RowFold(l, sale, order, DOMAIN order.rows)[DOMAIN order.rows]
<1> DEFINE S == DOMAIN order.rows
           P(g) == g = [s \in SUBSET S |->
                          IF s = {} THEN l
                          ELSE AddInstallment(g[s \ {Max(s)}], sale,
                                 Allotted(order)[[i \in S |-> i][Max(s)]],
                                 order.rows[[i \in S |-> i][Max(s)]].paidOn)]
<1>1. WithRows(l, sale, order) = (CHOOSE g : P(g))[S]
  BY DEF WithRows, FoldLeftDomain, FoldLeft, MapThenFoldSet
<1>2. ASSUME NEW s \in SUBSET S, s # {} PROVE Max(s) \in s /\ Max(s) \in S
  <2>1. Max(s) \in s
    <3> HIDE DEF P
    <3> QED BY <1>2, RowsPick, Zenon
  <2> QED BY <2>1
<1>3. ASSUME NEW g PROVE P(g) <=> IsRowFold(l, sale, order, S, g)
  <2>1. ASSUME NEW s \in SUBSET S, s # {} PROVE [i \in S |-> i][Max(s)] = Max(s)
    <3> HIDE DEF S, P
    <3>1. Max(s) \in S
      BY <1>2, <2>1
    <3> QED BY <3>1
  <2> QED BY <2>1 DEF IsRowFold, RowStep
<1> HIDE DEF P, S
<1> QED BY <1>1, <1>3 DEF RowFold, S

LEMMA RowFoldUnique ==
  ASSUME NEW order \in Orders, NEW S \in SUBSET DOMAIN order.rows, NEW T \in SUBSET S,
         NEW l, NEW sale,
         NEW g, IsRowFold(l, sale, order, S, g), NEW h, IsRowFold(l, sale, order, T, h)
  PROVE  g[T] = h[T]
<1> DEFINE G == {s \in SUBSET T : g[s] = h[s]}
<1>1. \A s \in SUBSET T : /\ g[s] = RowStep(l, sale, order, s, g)
                         /\ h[s] = RowStep(l, sale, order, s, h)
  BY DEF IsRowFold
<1>2. {} \in G
  BY <1>1 DEF RowStep
<1>3. ASSUME NEW s \in SUBSET T, s # {}, \A x \in s : s \ {x} \in G
      PROVE  s \in G
  <2>1. Max(s) \in s
    BY <1>3, RowsPick
  <2>2. g[s \ {Max(s)}] = h[s \ {Max(s)}]
    BY <1>3, <2>1
  <2> QED BY <1>1, <1>3, <2>2 DEF RowStep
<1>4. IsFiniteSet(T)
  BY RowsPick, FS_Subset
<1> HIDE DEF G
<1>5. T \in G
  BY <1>2, <1>3, <1>4, SetInduction
<1> QED BY <1>5 DEF G

LEMMA RowFoldExists ==
  ASSUME NEW order \in Orders, NEW S \in SUBSET DOMAIN order.rows, NEW l, NEW sale
  PROVE  IsRowFold(l, sale, order, S, RowFold(l, sale, order, S))
<1> DEFINE H(t) == RowFold(l, sale, order, t)
           Is(t, g) == IsRowFold(l, sale, order, t, g)
           G == {s \in SUBSET S : \A t \in SUBSET s : Is(t, H(t))}
<1>0. \A t, g : Is(t, g) => Is(t, H(t))
  BY DEF RowFold
<1>1. {} \in G
  <2>1. Is({}, [s \in SUBSET {} |-> l])
    BY DEF IsRowFold, RowStep
  <2> HIDE DEF Is, H
  <2>2. Is({}, H({}))
    BY <1>0, <2>1
  <2> QED BY <2>2
<1>2. ASSUME NEW s \in SUBSET S, s # {}, \A x \in s : s \ {x} \in G
      PROVE  s \in G
  <2>1. ASSUME NEW t \in SUBSET s, t # s
        PROVE  Is(t, H(t))
    <3> HIDE DEF Is, H
    <3>1. PICK x \in s : x \notin t
      BY <2>1
    <3>2. t \in SUBSET (s \ {x})
      BY <3>1, <2>1
    <3> QED BY <1>2, <3>1, <3>2
  <2> DEFINE last(t) == t \ {Max(t)}
             T == [t \in SUBSET s |-> H(t)[t]]
             g == [t \in SUBSET s |-> IF t = s THEN RowStep(l, sale, order, s, T) ELSE T[t]]
  <2> HIDE DEF H, Is
  <2>2. ASSUME NEW t \in SUBSET s, t # {}
        PROVE  last(t) \in SUBSET s /\ last(t) # s /\ last(t) \in SUBSET t /\ Max(t) \in t
    <3>1. Max(t) \in t
      BY <2>2, RowsPick
    <3> QED BY <3>1
  <2>3. ASSUME NEW t \in SUBSET s, t # {} PROVE g[last(t)] = T[last(t)]
    BY <2>2, <2>3
  <2>4. ASSUME NEW t \in SUBSET s
        PROVE  g[t] = RowStep(l, sale, order, t, g)
    <3>1. CASE t = s
      BY <1>2, <2>3, <3>1 DEF RowStep
    <3>2. CASE t # s
      <4>1. g[t] = H(t)[t] /\ Is(t, H(t))
        BY <2>1, <3>2
      <4>2. H(t)[t] = RowStep(l, sale, order, t, H(t))
        <5>1. PICK h : h = H(t)
          OBVIOUS
        <5>2. Is(t, h)
          BY <4>1, <5>1
        <5> QED BY <5>1, <5>2 DEF Is, IsRowFold
      <4>3. CASE t = {}
        BY <4>1, <4>2, <4>3 DEF RowStep
      <4>4. CASE t # {}
        <5>1. Is(last(t), H(last(t)))
          BY <2>1, <2>2, <4>4
        <5>2. H(t)[last(t)] = H(last(t))[last(t)]
          BY <2>2, <4>1, <4>4, <5>1, RowFoldUnique DEF Is
        <5>3. g[last(t)] = H(last(t))[last(t)]
          BY <2>2, <2>3, <4>4
        <5> QED BY <4>1, <4>2, <4>4, <5>2, <5>3 DEF RowStep
      <4> QED BY <4>3, <4>4
    <3> QED BY <3>1, <3>2
  <2>5. Is(s, g)
    <3> HIDE DEF T, last
    <3>1. g = [t \in SUBSET s |-> g[t]]
      OBVIOUS
    <3> HIDE DEF g
    <3> QED BY <2>4, <3>1 DEF Is, IsRowFold
  <2>6. Is(s, H(s))
    <3> HIDE DEF g
    <3> QED BY <1>0, <2>5
  <2> HIDE DEF last, T, g
  <2> QED BY <2>1, <2>6
<1> HIDE DEF G
<1>3. IsFiniteSet(S)
  BY RowsPick, FS_Subset
<1>4. S \in G
  BY <1>1, <1>2, <1>3, SetInduction
<1> QED BY <1>4 DEF G

LEMMA WithRowsSane ==
  ASSUME NEW order \in Orders, Acceptable(order), NEW l, NEW entered, Sane(l, {}, entered),
         NEW sale \in Ids(l.sales)
  PROVE  Sane(WithRows(l, sale, order), {}, entered)
<1> DEFINE S == DOMAIN order.rows
           H == RowFold(l, sale, order, S)
<1>1. /\ S = 1..Len(order.rows) /\ IsFiniteSet(S)
      /\ \A s \in SUBSET S : s # {} => Max(s) \in s
  BY RowsPick
<1>2. WithRows(l, sale, order) = H[S]
  BY WithRowsIsFold
<1>3. IsRowFold(l, sale, order, S, H)
  BY RowFoldExists
<1>4. ASSUME NEW k \in S
      PROVE  Allotted(order)[k] \in Nat \ {0} /\ order.rows[k].paidOn \in {None} \union Day
  <2>1. Allotted(order)[k] \in Nat \ {0}
    BY <1>1, AllottedPositive
  <2>2. PICK R : R = [amount : Int, paidOn : {None} \union 1..MaxDay]
    OBVIOUS
  <2>3. order.rows \in Seq(R)
    BY <2>2, LedgerAssumption
  <2>4. order.rows[k] \in R
    BY <1>1, <2>3
  <2>5. order.rows[k].paidOn \in {None} \union 1..MaxDay
    BY <2>2, <2>4
  <2> QED BY <2>1, <2>5 DEF Day
<1> HIDE DEF H, S
<1>5. PICK h : h = H
  OBVIOUS
<1>6. \A s \in SUBSET S : h[s] = RowStep(l, sale, order, s, h)
  BY <1>3, <1>5 DEF IsRowFold
<1> DEFINE G == {s \in SUBSET S : Sane(h[s], {}, entered) /\ h[s].sales = l.sales}
<1>7. {} \in G
  <2>1. h[{}] = l
    BY <1>6 DEF RowStep
  <2> QED BY <2>1
<1>8. ASSUME NEW s \in SUBSET S, s # {}, \A x \in s : s \ {x} \in G
      PROVE  s \in G
  <2>1. PICK k \in s : k = Max(s)
    BY <1>1, <1>8
  <2>2. PICK m : m = h[s \ {k}]
    OBVIOUS
  <2>3. Sane(m, {}, entered) /\ sale \in Ids(m.sales) /\ m.sales = l.sales
    BY <1>8, <2>2
  <2>4. PICK a, d : a = Allotted(order)[k] /\ d = order.rows[k].paidOn
    OBVIOUS
  <2>5. a \in Nat \ {0} /\ d \in {None} \union Day
    BY <1>4, <2>4
  <2>6. h[s] = AddInstallment(m, sale, a, d)
    BY <1>6, <1>8, <2>1, <2>2, <2>4 DEF RowStep
  <2>7. /\ Sane(AddInstallment(m, sale, a, d), {}, entered)
        /\ AddInstallment(m, sale, a, d).sales = m.sales
    BY <2>3, <2>5, AddInstallmentSane
  <2> QED BY <2>3, <2>6, <2>7
<1> HIDE DEF G
<1>9. S \in G
  BY <1>1, <1>7, <1>8, SetInduction
<1> QED BY <1>2, <1>5, <1>9 DEF G

-----------------------------------------------------------------------------
(* Corrections.                                                              *)

LEMMA UpdateSaleSane ==
  ASSUME NEW l, NEW entered, Sane(l, {}, entered), NEW s \in Ids(l.sales),
         NEW c \in l.customers, NEW total \in Nat,
         NEW r, r = [l EXCEPT !.sales[s].customer = c, !.sales[s].amount = total]
  PROVE  Sane(r, {}, entered)
<1> DEFINE row == [customer |-> c, amount |-> total, key |-> l.sales[s].key]
           S == Insert(l.sales, s, row)
<1>1. Good(l) /\ Valid(l)
  BY DEF Sane
<1>2. /\ Ids(l.sales) \subseteq Nat /\ l.sales \in [Ids(l.sales) -> SaleRow]
      /\ IsFiniteSet(Ids(l.sales)) /\ l.customers \subseteq Nat
  BY <1>1, GoodIs
<1>3. PICK x \in SaleRow : x = l.sales[s]
  BY <1>2
<1>4. row = [x EXCEPT !.customer = c, !.amount = total]
  <2>1. x = [customer |-> x.customer, amount |-> x.amount, key |-> x.key]
    BY DEF SaleRow
  <2>2. PICK a, b, d : x = [customer |-> a, amount |-> b, key |-> d]
    BY <2>1
  <2>3. PICK y : y = [customer |-> c, amount |-> b, key |-> d]
    OBVIOUS
  <2>4. [x EXCEPT !.customer = c, !.amount = total] = [customer |-> c, amount |-> total, key |-> d]
    <3>1. [x EXCEPT !.customer = c] = y
      BY <2>2, <2>3
    <3>2. [x EXCEPT !.customer = c, !.amount = total] = [[x EXCEPT !.customer = c] EXCEPT !.amount = total]
      OBVIOUS
    <3>3. [y EXCEPT !.amount = total] = [customer |-> c, amount |-> total, key |-> d]
      BY <2>3
    <3> QED BY <3>1, <3>2, <3>3
  <2>5. x.key = d
    BY <2>2
  <2> QED BY <1>3, <2>4, <2>5
<1>5. row \in SaleRow /\ row.customer = c /\ row.amount = total /\ row.key = l.sales[s].key
  <2>1. x.key \in Int /\ c \in Int
    BY <1>2 DEF SaleRow
  <2> QED BY <1>3, <2>1 DEF SaleRow
<1> HIDE DEF row
<1>6. /\ S \in [Ids(S) -> SaleRow] /\ Ids(S) \subseteq Nat /\ IsFiniteSet(Ids(S))
      /\ Ids(S) = Ids(l.sales) \union {s}
      /\ S[s] = row
      /\ \A k \in Ids(l.sales) \ {s} : S[k] = l.sales[k]
  BY <1>2, <1>5, InsertType, InsertIs
<1>7. r = Book(l.customers, S, l.installments, l.payments)
  <2>1. PICK a, b, i, d : a = l.customers /\ b = l.sales /\ i = l.installments /\ d = l.payments
    OBVIOUS
  <2>2. l = Book(a, b, i, d)
    BY <1>1, <2>1, GoodBook
  <2>3. r = Book(a, [b EXCEPT ![s] = [b[s] EXCEPT !.customer = c, !.amount = total]], i, d)
    BY <1>2, <2>1, <2>2 DEF Book, Ids
  <2>4. [b EXCEPT ![s] = [b[s] EXCEPT !.customer = c, !.amount = total]] = [b EXCEPT ![s] = row]
    BY <1>3, <1>4, <2>1
  <2>5. [b EXCEPT ![s] = row] = S
    BY <2>1 DEF Insert, Ids
  <2> QED BY <2>1, <2>3, <2>4, <2>5
<1> HIDE DEF S
<1>8. Good(r)
  <2>1. r = [customers |-> l.customers, sales |-> S,
             installments |-> l.installments, payments |-> l.payments]
    BY <1>7 DEF Book
  <2> QED BY <1>1, <1>6, <2>1, GoodIs, GoodFrom
<1>9. \A k \in Ids(S) : S[k].customer \in l.customers /\ S[k].amount >= 0
  BY <1>1, <1>5, <1>6 DEF Valid
<1>10. \A k, t \in Ids(S) : S[k].key = S[t].key => k = t \/ S[k].key = None
  <2>1. Ids(S) = Ids(l.sales) /\ \A k \in Ids(l.sales) : S[k].key = l.sales[k].key
    BY <1>5, <1>6
  <2> QED BY <1>1, <2>1 DEF Valid
<1>11. \A k \in Ids(l.installments) :
         /\ l.installments[k].sale \in Ids(S) /\ l.installments[k].amount >= 0
         /\ Paid(l, k) <= l.installments[k].amount
  BY <1>1, <1>6 DEF Valid
<1>12. Fits(l, {}, l.customers, S, l.installments, {})
  BY <1>9, <1>10, <1>11 DEF Fits
<1> QED BY <1>7, <1>8, <1>12, PaymentsKept

IsResized(l, r, i, amount) ==
  /\ r.payments = l.payments /\ Ids(r.installments) = Ids(l.installments)
  /\ r.installments[i].amount = amount

LEMMA ResizedSane ==
  ASSUME NEW l, NEW entered, Sane(l, {}, entered), NEW i \in Ids(l.installments),
         NEW amount \in Nat, Paid(l, i) <= amount,
         NEW r, r = [l EXCEPT !.installments[i].amount = amount]
  PROVE  Sane(r, {i}, entered) /\ IsResized(l, r, i, amount)
<1> DEFINE row == [sale |-> l.installments[i].sale, amount |-> amount,
                   paid_date |-> l.installments[i].paid_date]
           I == Insert(l.installments, i, row)
<1>1. Good(l) /\ Valid(l)
  BY DEF Sane
<1>2. /\ Ids(l.installments) \subseteq Nat /\ l.installments \in [Ids(l.installments) -> InstallmentRow]
      /\ IsFiniteSet(Ids(l.installments))
  BY <1>1, GoodIs
<1>3. PICK x \in InstallmentRow : x = l.installments[i]
  BY <1>2
<1>4. row = [x EXCEPT !.amount = amount]
  BY <1>3 DEF InstallmentRow
<1>5. row \in InstallmentRow /\ row.amount = amount /\ row.sale = l.installments[i].sale
  <2>1. x.sale \in Int /\ x.paid_date \in Int
    BY DEF InstallmentRow
  <2> QED BY <1>3, <2>1 DEF InstallmentRow
<1> HIDE DEF row
<1>6. /\ I \in [Ids(I) -> InstallmentRow] /\ Ids(I) \subseteq Nat /\ IsFiniteSet(Ids(I))
      /\ Ids(I) = Ids(l.installments)
      /\ I[i] = row
      /\ \A k \in Ids(l.installments) \ {i} : I[k] = l.installments[k]
  <2>1. Ids(l.installments) \union {i} = Ids(l.installments)
    OBVIOUS
  <2> QED BY <1>2, <1>5, <2>1, InsertType, InsertIs
<1>7. r = Book(l.customers, l.sales, I, l.payments)
  <2>1. PICK a, b, c, d : a = l.customers /\ b = l.sales /\ c = l.installments /\ d = l.payments
    OBVIOUS
  <2>2. l = Book(a, b, c, d)
    BY <1>1, <2>1, GoodBook
  <2>3. r = Book(a, b, [c EXCEPT ![i] = [c[i] EXCEPT !.amount = amount]], d)
    BY <1>2, <2>1, <2>2 DEF Book, Ids
  <2>4. [c EXCEPT ![i] = [c[i] EXCEPT !.amount = amount]] = [c EXCEPT ![i] = row]
    BY <1>3, <1>4, <2>1
  <2>5. [c EXCEPT ![i] = row] = I
    BY <2>1 DEF Insert, Ids
  <2> QED BY <2>1, <2>3, <2>4, <2>5
<1> HIDE DEF I
<1>8. Good(r)
  <2>1. r = [customers |-> l.customers, sales |-> l.sales,
             installments |-> I, payments |-> l.payments]
    BY <1>7 DEF Book
  <2> QED BY <1>1, <1>6, <2>1, GoodIs, GoodFrom
<1>9. /\ \A k \in Ids(l.sales) : l.sales[k].customer \in l.customers /\ l.sales[k].amount >= 0
      /\ \A k, u \in Ids(l.sales) : l.sales[k].key = l.sales[u].key => k = u \/ l.sales[k].key = None
  BY <1>1 DEF Valid
<1>10. \A k \in Ids(I) : I[k].sale \in Ids(l.sales) /\ I[k].amount >= 0 /\ Paid(l, k) <= I[k].amount
  BY <1>1, <1>5, <1>6 DEF Valid
<1>11. Fits(l, {}, l.customers, l.sales, I, {i})
  BY <1>6, <1>9, <1>10 DEF Fits
<1>12. Sane(r, {i}, entered)
  BY <1>7, <1>8, <1>11, PaymentsKept
<1>13. \A y : y = Book(l.customers, l.sales, I, l.payments) => y.installments = I /\ y.payments = l.payments
  BY BookIs
<1>14. r.installments = I /\ r.payments = l.payments
  BY <1>7, <1>13, Zenon
<1> QED BY <1>5, <1>6, <1>12, <1>14 DEF IsResized

LEMMA ReturnedSane ==
  ASSUME NEW l, NEW m, NEW i, NEW amount, IsResized(l, m, i, amount),
         NEW entered, Sane(m, {i}, entered)
  PROVE  Sane(DropPayments(m, PaymentsOf(l, i)), {i}, entered)
<1> DEFINE ids == PaymentsOf(l, i)
<1>1. ids \subseteq Ids(m.payments) /\ \A p \in ids : m.payments[p].installment = i
  BY DEF IsResized, PaymentsOf
<1>2. {i} \union {m.payments[p].installment : p \in ids} = {i}
  BY <1>1
<1> HIDE DEF ids
<1>3. Sane(DropPayments(m, ids), {i} \union {m.payments[p].installment : p \in ids}, entered)
  BY <1>1, DropPaymentsSane
<1> QED BY <1>2, <1>3 DEF ids

LEMMA CompletedSane ==
  ASSUME NEW l, NEW m, NEW i \in Ids(l.installments), NEW amount \in Nat, IsResized(l, m, i, amount),
         NEW entered, Sane(m, {i}, entered), NEW date \in Day,
         Paid(l, i) \in Nat, NEW rest, rest = amount - Paid(l, i), rest > 0
  PROVE  Sane(AddPayment(m, i, rest, date, None), {i}, entered)
<1>1. Enterable(m, i, rest, date, None)
  BY DEF Enterable, None, IsResized
<1>2. PICK x : x = AddPayment(m, i, rest, date, None)
  OBVIOUS
<1>3. /\ Adds(m, x, i, rest)
      /\ Paid(x, i) <= m.installments[i].amount
           => Sane(x, {i} \union {i}, entered \union Own(i, None))
  BY <1>1, <1>2, AddPaymentSane, Zenon
<1>4. Paid(m, i) = Paid(l, i)
  BY DEF Paid, PaymentsOf, IsResized
<1>5. Paid(x, i) <= m.installments[i].amount
  BY <1>3, <1>4 DEF Adds, IsResized
<1>6. {i} \union {i} = {i} /\ entered \union Own(i, None) = entered
  BY DEF Own, None
<1> QED BY <1>2, <1>3, <1>5, <1>6

Resettled(l, m, i, rest, paid, date) ==
  CASE paid = "paid" /\ rest > 0 -> AddPayment(m, i, rest, date, None)
    [] paid = "unpaid" -> DropPayments(m, PaymentsOf(l, i))
    [] OTHER -> m

LEMMA UpdateInstallmentSane ==
  ASSUME NEW l, NEW entered, Sane(l, {}, entered), NEW i \in Ids(l.installments),
         NEW amount \in Nat, NEW paid, NEW date \in Day, NEW rest, rest = amount - Paid(l, i), rest >= 0,
         NEW m, m = [l EXCEPT !.installments[i].amount = amount]
  PROVE  Sane(Recalculated(Resettled(l, m, i, rest, paid, date), {i}), {}, entered)
<1>1. Good(l) /\ Valid(l) /\ Positive(l)
  BY ValidPositive DEF Sane
<1>2. Paid(l, i) \in Nat /\ PaymentsOf(l, i) \subseteq Ids(l.payments)
  BY <1>1, PaymentRows, PaidType DEF Paid
<1>3. Sane(m, {i}, entered) /\ IsResized(l, m, i, amount)
  <2>1. Paid(l, i) <= amount
    BY <1>2
  <2> QED BY <2>1, ResizedSane, Zenon
<1>4. Sane(DropPayments(m, PaymentsOf(l, i)), {i}, entered)
  BY <1>3, ReturnedSane
<1>5. ASSUME rest > 0 PROVE Sane(AddPayment(m, i, rest, date, None), {i}, entered)
  BY <1>2, <1>3, <1>5, CompletedSane
<1>6. PICK x : x = Resettled(l, m, i, rest, paid, date)
  OBVIOUS
<1>7. Sane(x, {i}, entered)
  <2>1. CASE paid = "paid" /\ rest > 0
    BY <1>5, <1>6, <2>1 DEF Resettled
  <2>2. CASE paid = "unpaid"
    BY <1>4, <1>6, <2>2 DEF Resettled
  <2>3. CASE ~(paid = "paid" /\ rest > 0) /\ paid # "unpaid"
    BY <1>3, <1>6, <2>3 DEF Resettled
  <2> QED BY <2>1, <2>2, <2>3
<1>8. {i} \ {i} = {}
  OBVIOUS
<1>9. Sane(Recalculated(x, {i}), {i} \ {i}, entered)
  BY <1>7, RecalculatedSane
<1> QED BY <1>6, <1>8, <1>9

LEMMA DeletePaymentSane ==
  ASSUME NEW l, NEW entered, Sane(l, {}, entered), NEW p \in Ids(l.payments)
  PROVE  Sane(Recalculated(DropPayments(l, {p}), {l.payments[p].installment}), {}, entered)
<1> DEFINE i == l.payments[p].installment
<1>1. Sane(DropPayments(l, {p}), {} \union {l.payments[q].installment : q \in {p}}, entered)
  BY DropPaymentsSane
<1>2. {} \union {l.payments[q].installment : q \in {p}} = {i} /\ {i} \ {i} = {}
  OBVIOUS
<1> HIDE DEF i
<1>3. Sane(DropPayments(l, {p}), {i}, entered)
  BY <1>1, <1>2
<1>4. Sane(Recalculated(DropPayments(l, {p}), {i}), {i} \ {i}, entered)
  BY <1>3, RecalculatedSane
<1> QED BY <1>2, <1>4 DEF i

LEMMA UpdatePaymentSane ==
  ASSUME NEW l, NEW entered, Sane(l, {}, entered), NEW p \in Ids(l.payments),
         NEW amount \in Nat \ {0}, NEW date \in Day, NEW i, i = l.payments[p].installment,
         Amount(l.payments, PaymentsOf(l, i) \ {p}) + amount <= l.installments[i].amount,
         NEW r, r = [l EXCEPT !.payments[p].amount = amount, !.payments[p].date = date]
  PROVE  Sane(Recalculated(r, {i}), {}, entered)
<1> DEFINE row == [installment |-> i, amount |-> amount, date |-> date, key |-> l.payments[p].key]
           t == Insert(l.payments, p, row)
<1>1. Good(l) /\ Valid(l) /\ Positive(l)
  BY ValidPositive DEF Sane
<1>2. /\ Ids(l.payments) \subseteq Nat /\ l.payments \in [Ids(l.payments) -> PaymentRow]
      /\ IsFiniteSet(Ids(l.payments))
  BY <1>1, GoodIs
<1>3. PICK x \in PaymentRow : x = l.payments[p]
  BY <1>2
<1>4. row = [x EXCEPT !.amount = amount, !.date = date]
  <2>1. x = [installment |-> x.installment, amount |-> x.amount, date |-> x.date, key |-> x.key]
    BY DEF PaymentRow
  <2>2. PICK a, b, c, d : x = [installment |-> a, amount |-> b, date |-> c, key |-> d]
    BY <2>1
  <2>3. PICK y : y = [installment |-> a, amount |-> amount, date |-> c, key |-> d]
    OBVIOUS
  <2>4. [x EXCEPT !.amount = amount, !.date = date]
          = [installment |-> a, amount |-> amount, date |-> date, key |-> d]
    <3>1. [x EXCEPT !.amount = amount] = y
      BY <2>2, <2>3
    <3>2. [x EXCEPT !.amount = amount, !.date = date] = [[x EXCEPT !.amount = amount] EXCEPT !.date = date]
      OBVIOUS
    <3>3. [y EXCEPT !.date = date] = [installment |-> a, amount |-> amount, date |-> date, key |-> d]
      BY <2>3
    <3> QED BY <3>1, <3>2, <3>3
  <2>5. x.key = d /\ x.installment = a
    BY <2>2
  <2> QED BY <1>3, <2>4, <2>5
<1>5. /\ row \in PaymentRow /\ row.installment = i /\ row.amount = amount /\ row.date = date
      /\ row.key = l.payments[p].key
  <2>1. x.key \in Int /\ x.installment \in Int
    BY DEF PaymentRow
  <2> QED BY <1>3, <2>1 DEF PaymentRow, Day
<1> HIDE DEF row
<1>6. /\ t \in [Ids(t) -> PaymentRow] /\ Ids(t) \subseteq Nat /\ IsFiniteSet(Ids(t))
      /\ Ids(t) = Ids(l.payments)
      /\ t[p] = row
      /\ \A k \in Ids(l.payments) \ {p} : t[k] = l.payments[k]
  <2>1. Ids(l.payments) \union {p} = Ids(l.payments)
    OBVIOUS
  <2> QED BY <1>2, <1>5, <2>1, InsertType, InsertIs
<1>7. r = Book(l.customers, l.sales, l.installments, t)
  <2>1. PICK a, b, c, d : a = l.customers /\ b = l.sales /\ c = l.installments /\ d = l.payments
    OBVIOUS
  <2>2. l = Book(a, b, c, d)
    BY <1>1, <2>1, GoodBook
  <2>3. r = Book(a, b, c, [d EXCEPT ![p] = [d[p] EXCEPT !.amount = amount, !.date = date]])
    BY <1>2, <2>1, <2>2 DEF Book, Ids
  <2>4. [d EXCEPT ![p] = [d[p] EXCEPT !.amount = amount, !.date = date]] = [d EXCEPT ![p] = row]
    BY <1>3, <1>4, <2>1
  <2>5. [d EXCEPT ![p] = row] = t
    BY <2>1 DEF Insert, Ids
  <2> QED BY <2>1, <2>3, <2>4, <2>5
<1> HIDE DEF t
<1>8. PICK m : m = Book(l.customers, l.sales, l.installments, t)
  OBVIOUS
<1>9. m.customers = l.customers /\ m.sales = l.sales /\ m.installments = l.installments /\ m.payments = t
  BY <1>8, BookIs
<1>10. Good(m)
  <2>1. m = [customers |-> l.customers, sales |-> l.sales,
             installments |-> l.installments, payments |-> t]
    BY <1>8 DEF Book
  <2> QED BY <1>1, <1>6, <2>1, GoodIs, GoodFrom
<1>11. \A k : PaymentsOf(m, k) = PaymentsOf(l, k)
  <2>1. \A q \in Ids(l.payments) : t[q].installment = l.payments[q].installment
    BY <1>5, <1>6
  <2> QED BY <1>6, <1>9, <2>1 DEF PaymentsOf
<1>12. Paid(m, i) <= l.installments[i].amount
  <2> DEFINE U == PaymentsOf(l, i)
  <2>1. IsFiniteSet(U) /\ U \subseteq Ids(l.payments) /\ \A k \in U : l.payments[k].amount \in Nat
    BY <1>1, PaymentRows, PaidType
  <2>2. p \in U
    BY DEF PaymentsOf
  <2>3. \A k \in U : t[k].amount \in Nat
    BY <1>5, <1>6, <2>1
  <2>4. Paid(m, i) = Amount(t, U)
    BY <1>9, <1>11 DEF Paid
  <2> HIDE DEF U
  <2>5. Amount(t, U) = t[p].amount + Amount(t, U \ {p})
    BY <1>6, <2>1, <2>2, <2>3, AmountRemove
  <2>6. IsFiniteSet(U \ {p}) /\ U \ {p} \subseteq Ids(l.payments) /\ U \ {p} \subseteq Ids(t)
    BY <1>6, <2>1, FS_Subset
  <2>7. Amount(t, U \ {p}) = Amount(l.payments, U \ {p})
    BY <1>6, <2>6, AmountSame
  <2>8. Amount(l.payments, U \ {p}) \in Nat
    BY <2>1, <2>2, AmountRemove
  <2>9. Amount(l.payments, U \ {p}) + amount <= l.installments[i].amount
    BY DEF U
  <2> QED BY <1>5, <1>6, <2>4, <2>5, <2>7, <2>8, <2>9
<1>13. ASSUME NEW k \in Ids(l.installments), k # i
       PROVE  Paid(m, k) = Paid(l, k) /\ PaidDate(m, k) = PaidDate(l, k)
  <2>1. \A q \in PaymentsOf(l, k) : m.payments[q] = l.payments[q]
    BY <1>6, <1>9, <1>13 DEF PaymentsOf
  <2> QED BY <1>1, <1>9, <1>10, <1>11, <2>1, PaidSame
<1>14. Valid(m)
  <2>1. \A k \in Ids(m.installments) : Paid(m, k) <= m.installments[k].amount
    BY <1>1, <1>9, <1>12, <1>13 DEF Valid
  <2>2. /\ \A s \in Ids(m.sales) : m.sales[s].customer \in m.customers /\ m.sales[s].amount >= 0
        /\ \A s, u \in Ids(m.sales) : m.sales[s].key = m.sales[u].key => s = u \/ m.sales[s].key = None
        /\ \A k \in Ids(m.installments) :
             m.installments[k].sale \in Ids(m.sales) /\ m.installments[k].amount >= 0
    BY <1>1, <1>9 DEF Valid
  <2>3. \A q \in Ids(t) : t[q].installment = l.payments[q].installment /\ t[q].key = l.payments[q].key
    BY <1>5, <1>6
  <2>4. \A q \in Ids(t) : t[q].installment \in Ids(l.installments) /\ t[q].amount > 0
    BY <1>1, <1>5, <1>6, <2>3 DEF Valid
  <2>5. \A o, q \in Ids(t) : t[o].key = t[q].key => o = q \/ t[o].key = None
    BY <1>1, <1>6, <2>3 DEF Valid
  <2> QED BY <1>9, <2>1, <2>2, <2>4, <2>5 DEF Valid
<1>15. ASSUME NEW k \in Ids(m.installments) \ {i} PROVE Dated(m, k)
  <2>1. Dated(l, k)
    BY <1>9, <1>15 DEF Sane
  <2> QED BY <1>9, <1>13, <1>15, <2>1 DEF Dated
<1>16. Entered(m) \subseteq entered
  <2>1. \A q \in Ids(t) : t[q].installment = l.payments[q].installment /\ t[q].key = l.payments[q].key
    BY <1>5, <1>6
  <2>2. Entered(m) = Entered(l)
    BY <1>6, <1>9, <2>1 DEF Entered
  <2> QED BY <2>2 DEF Sane
<1>17. Sane(m, {i}, entered)
  BY <1>10, <1>14, <1>15, <1>16 DEF Sane
<1>18. Sane(Recalculated(m, {i}), {i} \ {i}, entered)
  BY <1>17, RecalculatedSane
<1>19. {i} \ {i} = {}
  OBVIOUS
<1>20. r = m
  BY <1>7, <1>8
<1> QED BY <1>18, <1>19, <1>20

-----------------------------------------------------------------------------
(* Imports.                                                                  *)

Rows(t, Row) == t \in [Ids(t) -> Row] /\ Ids(t) \subseteq Nat /\ IsFiniteSet(Ids(t))

IsJoined(v, t, u) ==
  /\ Ids(v) = Ids(t) \union Ids(u)
  /\ \A k \in Ids(t) : v[k] = t[k]
  /\ \A k \in Ids(u) : v[k] = u[k]

LEMMA JoinedIs ==
  ASSUME NEW Row, NEW t, NEW u, Rows(t, Row), Rows(u, Row), Ids(t) \intersect Ids(u) = {}
  PROVE  IsJoined(Joined(t, u), t, u) /\ Rows(Joined(t, u), Row)
<1> DEFINE v == Joined(t, u)
<1>1. Ids(v) = Ids(t) \union Ids(u)
  BY DEF Joined, Ids
<1>2. IsFiniteSet(Ids(v))
  <2>1. PICK A, B : A = Ids(t) /\ B = Ids(u)
    OBVIOUS
  <2>2. IsFiniteSet(A \union B)
    BY <2>1, FS_Union DEF Rows
  <2> QED BY <1>1, <2>1, <2>2
<1>3. \A k \in Ids(v) : v[k] = IF k \in Ids(t) THEN t[k] ELSE u[k]
  BY <1>1 DEF Joined
<1>4. v = [k \in Ids(v) |-> v[k]]
  BY DEF Joined, Ids
<1> HIDE DEF v
<1>5. IsJoined(v, t, u) /\ Rows(v, Row)
  BY <1>1, <1>2, <1>3, <1>4 DEF IsJoined, Rows
<1> QED BY <1>5 DEF v

LEMMA RowsOfGood ==
  ASSUME NEW l, Good(l)
  PROVE  Rows(l.sales, SaleRow) /\ Rows(l.installments, InstallmentRow) /\ Rows(l.payments, PaymentRow)
BY GoodIs DEF Rows

\* A valid file beside the ledger, none of whose rows or keys they share.
LEMMA MergedSane ==
  ASSUME NEW l, NEW entered, Sane(l, {}, entered), NEW b, Good(b), Valid(b), Mergeable(l, b),
         Entered(b) = {}, NEW r, r = Merged(l, b)
  PROVE  Sane(r, Ids(b.installments), entered)
<1>1. Good(l) /\ Valid(l)
  BY DEF Sane
<1>2. PICK C, S, I, P : /\ C = l.customers \union b.customers /\ S = Joined(l.sales, b.sales)
                        /\ I = Joined(l.installments, b.installments)
                        /\ P = Joined(l.payments, b.payments)
  OBVIOUS
<1>3. /\ Ids(l.sales) \intersect Ids(b.sales) = {}
      /\ Ids(l.installments) \intersect Ids(b.installments) = {}
      /\ Ids(l.payments) \intersect Ids(b.payments) = {}
  BY DEF Mergeable, RowsOf
<1>4. IsJoined(S, l.sales, b.sales) /\ Rows(S, SaleRow)
  BY <1>1, <1>2, <1>3, RowsOfGood, JoinedIs
<1>5. IsJoined(I, l.installments, b.installments) /\ Rows(I, InstallmentRow)
  BY <1>1, <1>2, <1>3, RowsOfGood, JoinedIs
<1>6. IsJoined(P, l.payments, b.payments) /\ Rows(P, PaymentRow)
  BY <1>1, <1>2, <1>3, RowsOfGood, JoinedIs
<1>7. r = Book(C, S, I, P)
  BY <1>2 DEF Merged, Book
<1>8. C \in SUBSET Nat
  BY <1>1, <1>2, GoodIs
<1>9. PICK m : m = Book(C, S, I, P)
  OBVIOUS
<1>10. m.customers = C /\ m.sales = S /\ m.installments = I /\ m.payments = P
  BY <1>9, BookIs
<1>11. Good(m)
  <2>1. m = [customers |-> C, sales |-> S, installments |-> I, payments |-> P]
    BY <1>9 DEF Book
  <2> QED BY <1>4, <1>5, <1>6, <1>8, <2>1, GoodFrom DEF Rows
<1>12. /\ \A p \in Ids(l.payments) : l.payments[p].installment \in Ids(l.installments)
       /\ \A p \in Ids(b.payments) : b.payments[p].installment \in Ids(b.installments)
  BY <1>1 DEF Valid
<1>13. ASSUME NEW k \in Ids(l.installments)
       PROVE  Paid(m, k) = Paid(l, k) /\ PaidDate(m, k) = PaidDate(l, k)
  <2>1. PaymentsOf(m, k) = PaymentsOf(l, k)
    BY <1>3, <1>6, <1>10, <1>12 DEF PaymentsOf, IsJoined
  <2>2. \A q \in PaymentsOf(l, k) : m.payments[q] = l.payments[q]
    BY <1>6, <1>10 DEF PaymentsOf, IsJoined
  <2> QED BY <1>1, <1>5, <1>10, <1>11, <2>1, <2>2, PaidSame DEF IsJoined
<1>14. ASSUME NEW k \in Ids(b.installments)
       PROVE  Paid(m, k) = Paid(b, k)
  <2>1. PaymentsOf(m, k) = PaymentsOf(b, k)
    BY <1>3, <1>6, <1>10, <1>12 DEF PaymentsOf, IsJoined
  <2>2. \A q \in PaymentsOf(b, k) : m.payments[q] = b.payments[q]
    BY <1>6, <1>10 DEF PaymentsOf, IsJoined
  <2> QED BY <1>1, <1>11, <2>1, <2>2, PaidSame
<1>15. Valid(m)
  <2>1. \A s \in Ids(S) : S[s].customer \in C /\ S[s].amount >= 0
    BY <1>1, <1>2, <1>4 DEF Valid, IsJoined
  <2>2. \A s, u \in Ids(S) : S[s].key = S[u].key => s = u \/ S[s].key = None
    <3>1. /\ \A s, u \in Ids(l.sales) : l.sales[s].key = l.sales[u].key => s = u \/ l.sales[s].key = None
          /\ \A s, u \in Ids(b.sales) : b.sales[s].key = b.sales[u].key => s = u \/ b.sales[s].key = None
      BY <1>1 DEF Valid
    <3>2. \A s \in Ids(l.sales), u \in Ids(b.sales) :
            l.sales[s].key = b.sales[u].key => l.sales[s].key = None
      BY DEF Mergeable
    <3> QED BY <1>4, <3>1, <3>2 DEF IsJoined
  <2>3. \A k \in Ids(I) : I[k].sale \in Ids(S) /\ I[k].amount >= 0
    BY <1>1, <1>4, <1>5 DEF Valid, IsJoined
  <2>4. \A p \in Ids(P) : P[p].installment \in Ids(I) /\ P[p].amount > 0
    BY <1>1, <1>5, <1>6 DEF Valid, IsJoined
  <2>5. \A p, q \in Ids(P) : P[p].key = P[q].key => p = q \/ P[p].key = None
    <3>1. /\ \A p, q \in Ids(l.payments) :
               l.payments[p].key = l.payments[q].key => p = q \/ l.payments[p].key = None
          /\ \A p, q \in Ids(b.payments) :
               b.payments[p].key = b.payments[q].key => p = q \/ b.payments[p].key = None
      BY <1>1 DEF Valid
    <3>2. \A p \in Ids(l.payments), q \in Ids(b.payments) :
            l.payments[p].key = b.payments[q].key => l.payments[p].key = None
      BY DEF Mergeable
    <3> QED BY <1>6, <3>1, <3>2 DEF IsJoined
  <2>6. \A k \in Ids(I) : Paid(m, k) <= I[k].amount
    BY <1>1, <1>5, <1>13, <1>14 DEF Valid, IsJoined
  <2> QED BY <1>10, <2>1, <2>2, <2>3, <2>4, <2>5, <2>6 DEF Valid
<1>16. ASSUME NEW k \in Ids(m.installments) \ Ids(b.installments) PROVE Dated(m, k)
  <2>1. k \in Ids(l.installments) /\ Dated(l, k)
    BY <1>5, <1>10, <1>16 DEF Sane, IsJoined
  <2> QED BY <1>5, <1>10, <1>13, <2>1 DEF Dated, IsJoined
<1>17. Entered(m) \subseteq entered
  <2>1. \A p \in Ids(b.payments) : ~(b.payments[p].key > None)
    BY DEF Entered
  <2>2. Entered(m) \subseteq Entered(l)
    BY <1>6, <1>10, <2>1 DEF Entered, IsJoined
  <2> QED BY <2>2 DEF Sane
<1>18. Sane(m, Ids(b.installments), entered)
  BY <1>11, <1>15, <1>16, <1>17 DEF Sane
<1> QED BY <1>7, <1>9, <1>18

LEMMA BundleSane ==
  ASSUME NEW b \in Bundles, Valid(b)
  PROVE  Sane(b, Ids(b.installments), {}) /\ Entered(b) = {}
<1>1. Good(b) /\ \A p \in Ids(b.payments) : b.payments[p].key <= None
  BY BundleIsGood
<1>2. \A p \in Ids(b.payments) : b.payments[p].key \in Int
  BY <1>1, PaymentRows
<1>3. Entered(b) = {}
  BY <1>1, <1>2 DEF Entered, None
<1> QED BY <1>1, <1>3 DEF Sane

-----------------------------------------------------------------------------
(* The ledger through every step.                                            *)

TableInv == Sane(ledger, {}, Entered(ledger)) /\ Bounded(ledger)

\* A step that enters no collection of the page.
Kept == Sane(ledger', {}, Entered(ledger)) /\ Bounded(ledger')

LEMMA RequestIs == ASSUME NEW l, Request(l) PROVE ledger' = l /\ Bounded(l)
BY DEF Request

LEMMA MoneyIs == ASSUME NEW m \in Money PROVE m \in Nat \ {0} /\ m \in Nat
BY LedgerAssumption

LEMMA CustomerKept == TableInv /\ CustomerRequest => Kept
<1> SUFFICES ASSUME TableInv, NEW c \in 1..MaxCustomer, CreateCustomer(c) \/ DeleteCustomer(c)
             PROVE  Kept
  BY Zenon DEF CustomerRequest
<1>1. Sane(ledger, {}, Entered(ledger)) /\ c \in Nat
  BY LedgerAssumption DEF TableInv
<1>2. CASE CreateCustomer(c)
  <2>1. Request([ledger EXCEPT !.customers = @ \union {c}])
    BY <1>2, Zenon DEF CreateCustomer
  <2>2. Sane([ledger EXCEPT !.customers = @ \union {c}], {}, Entered(ledger))
    BY <1>1, AddCustomerSane
  <2> QED BY <2>1, <2>2, RequestIs DEF Kept
<1>3. CASE DeleteCustomer(c)
  <2> DEFINE C == ledger.customers \ {c}
             ids == SalesOf(ledger, c)
             m == [ledger EXCEPT !.customers = C]
  <2>1. Request(DropSales(m, ids))
    BY <1>3, Zenon DEF DeleteCustomer
  <2>2. /\ C \subseteq ledger.customers
        /\ ids \subseteq Ids(ledger.sales)
        /\ \A s \in Ids(ledger.sales) \ ids : ledger.sales[s].customer \in C
    <3>1. \A s \in Ids(ledger.sales) : ledger.sales[s].customer \in ledger.customers
      BY <1>1 DEF Sane, Valid
    <3> QED BY <3>1 DEF SalesOf
  <2> HIDE DEF C, ids
  <2>3. Sane(DropSales(m, ids), {}, Entered(ledger))
    BY <1>1, <2>2, DropSalesSane
  <2> HIDE DEF m
  <2> QED BY <2>1, <2>3, RequestIs DEF Kept
<1> QED BY <1>2, <1>3

LEMMA SaleKept == TableInv /\ SaleRequest => Kept
<1> SUFFICES ASSUME TableInv, SaleRequest PROVE Kept
  OBVIOUS
<1>1. Sane(ledger, {}, Entered(ledger)) /\ Good(ledger) /\ Valid(ledger)
  BY DEF TableInv, Sane
<1>2. ASSUME NEW c \in ledger.customers, NEW o \in Orders, NEW k \in SaleKey, CreateSale(c, o, k)
      PROVE  Kept
  <2> DEFINE n == NextId(ledger.sales)
             m == [ledger EXCEPT !.sales = Insert(@, n, [customer |-> c, amount |-> o.total, key |-> k])]
  <2>1. /\ Acceptable(o)
        /\ k # None => \A t \in Ids(ledger.sales) : ledger.sales[t].key # k
        /\ Request(WithRows(m, n, o))
    BY <1>2, Zenon DEF CreateSale
  <2>2. k \in Int /\ o.total \in Nat
    <3>1. o \in [total : Nat \ {0}, down : Int,
                 rows : Seq([amount : Int, paidOn : {None} \union 1..MaxDay])]
      BY LedgerAssumption
    <3> QED BY <3>1, LedgerAssumption
  <2>3. Sane(m, {}, Entered(ledger)) /\ n \in Ids(m.sales)
    BY <1>1, <2>1, <2>2, AddSaleSane
  <2> HIDE DEF m, n
  <2>4. Sane(WithRows(m, n, o), {}, Entered(ledger))
    BY <2>1, <2>3, WithRowsSane
  <2> QED BY <2>1, <2>4, RequestIs DEF Kept
<1>3. ASSUME NEW s \in Ids(ledger.sales), DeleteSale(s)
      PROVE  Kept
  <2> DEFINE ids == {s}
             C == ledger.customers
             m == [ledger EXCEPT !.customers = C]
  <2>1. Request(DropSales(ledger, ids))
    BY <1>3, Zenon DEF DeleteSale
  <2>2. ids \subseteq Ids(ledger.sales) /\ C \subseteq ledger.customers
    OBVIOUS
  <2>3. \A t \in Ids(ledger.sales) : ledger.sales[t].customer \in C
    BY <1>1 DEF Valid
  <2>4. m = ledger
    BY <1>1, GoodIs
  <2> HIDE DEF ids, C
  <2>5. Sane(DropSales(m, ids), {}, Entered(ledger))
    BY <1>1, <2>2, <2>3, DropSalesSane
  <2> HIDE DEF m
  <2> QED BY <2>1, <2>4, <2>5, RequestIs DEF Kept
<1>4. ASSUME NEW s \in Ids(ledger.sales), NEW c \in ledger.customers, NEW m \in Money,
             UpdateSale(s, c, m)
      PROVE  Kept
  <2> DEFINE r == [ledger EXCEPT !.sales[s].customer = c, !.sales[s].amount = m]
  <2>1. Request(r)
    BY <1>4, Zenon DEF UpdateSale
  <2>2. m \in Nat
    BY MoneyIs
  <2>3. PICK x : x = r
    OBVIOUS
  <2>4. Sane(x, {}, Entered(ledger))
    BY <1>1, <2>2, <2>3, UpdateSaleSane
  <2> HIDE DEF r
  <2> QED BY <2>1, <2>3, <2>4, RequestIs DEF Kept
<1> QED BY <1>2, <1>3, <1>4, Zenon DEF SaleRequest

LEMMA InstallmentKept == TypeInv /\ TableInv /\ InstallmentRequest => Kept
<1> SUFFICES ASSUME TypeInv, TableInv, InstallmentRequest PROVE Kept
  OBVIOUS
<1>1. Sane(ledger, {}, Entered(ledger)) /\ today \in Day
  BY DEF TableInv, TypeInv
<1>2. ASSUME NEW s \in Ids(ledger.sales), NEW m \in Money, NEW d \in {today, None},
             CreateInstallment(s, m, d)
      PROVE  Kept
  <2>1. Request(AddInstallment(ledger, s, m, d))
    BY <1>2, Zenon DEF CreateInstallment
  <2>2. m \in Nat \ {0} /\ d \in {None} \union Day
    BY <1>1, MoneyIs
  <2>3. Sane(AddInstallment(ledger, s, m, d), {}, Entered(ledger))
    BY <1>1, <2>2, AddInstallmentSane
  <2> QED BY <2>1, <2>3, RequestIs DEF Kept
<1>3. ASSUME NEW i \in Ids(ledger.installments), DeleteInstallment(i)
      PROVE  Kept
  <2>1. PICK ids : ids = {i}
    OBVIOUS
  <2>2. Request(DropInstallments(ledger, ids))
    BY <1>3, <2>1 DEF DeleteInstallment
  <2>3. ids \subseteq Ids(ledger.installments)
    BY <2>1
  <2>4. Sane(DropInstallments(ledger, ids), {}, Entered(ledger))
    BY <1>1, <2>3, DropInstallmentsSane
  <2> QED BY <2>2, <2>4, RequestIs DEF Kept
<1>4. ASSUME NEW i \in Ids(ledger.installments), NEW a \in Money,
             NEW paid \in {"keep", "paid", "unpaid"}, UpdateInstallment(i, a, paid, today)
      PROVE  Kept
  <2>1. PICK m, rest : /\ m = [ledger EXCEPT !.installments[i].amount = a]
                       /\ rest = a - Paid(ledger, i)
    OBVIOUS
  <2>2. PICK r : r = Recalculated(Resettled(ledger, m, i, rest, paid, today), {i})
    OBVIOUS
  <2>3. Request(r) /\ rest >= 0
    BY <1>4, <2>1, <2>2 DEF UpdateInstallment, Resettled
  <2>4. a \in Nat
    BY MoneyIs
  <2>5. Sane(Recalculated(Resettled(ledger, m, i, rest, paid, today), {i}), {}, Entered(ledger))
    BY <1>1, <2>1, <2>3, <2>4, UpdateInstallmentSane
  <2>6. Sane(r, {}, Entered(ledger))
    BY <2>2, <2>5
  <2> QED BY <2>3, <2>6, RequestIs DEF Kept
<1> QED BY <1>2, <1>3, <1>4, Zenon DEF InstallmentRequest

LEMMA CorrectionKept ==
  ASSUME TypeInv, TableInv, NEW p \in Ids(ledger.payments),
         DeletePayment(p) \/ \E m \in Money, d \in Day : UpdatePayment(p, m, d)
  PROVE  Kept
<1>1. Sane(ledger, {}, Entered(ledger))
  BY DEF TableInv
<1>2. CASE DeletePayment(p)
  <2> DEFINE r == Recalculated(DropPayments(ledger, {p}), {ledger.payments[p].installment})
  <2>1. Request(r)
    BY <1>2, Zenon DEF DeletePayment
  <2>2. Sane(r, {}, Entered(ledger))
    BY <1>1, DeletePaymentSane
  <2> HIDE DEF r
  <2> QED BY <2>1, <2>2, RequestIs DEF Kept
<1>3. ASSUME NEW m \in Money, NEW d \in Day, UpdatePayment(p, m, d)
      PROVE  Kept
  <2> DEFINE i == ledger.payments[p].installment
             x == [ledger EXCEPT !.payments[p].amount = m, !.payments[p].date = d]
             r == Recalculated(x, {i})
  <2>1. /\ Request(r)
        /\ Amount(ledger.payments, PaymentsOf(ledger, i) \ {p}) + m <= ledger.installments[i].amount
    BY <1>3, Zenon DEF UpdatePayment
  <2>2. m \in Nat \ {0}
    BY MoneyIs
  <2>3. Sane(r, {}, Entered(ledger))
    BY <1>1, <2>1, <2>2, UpdatePaymentSane
  <2> HIDE DEF r
  <2> QED BY <2>1, <2>3, RequestIs DEF Kept
<1> QED BY <1>2, <1>3

LEMMA RecalculatedBounded ==
  ASSUME NEW l, Good(l), Bounded(l), NEW ids
  PROVE  Bounded(Recalculated(l, ids))
<1>1. PICK r : r = Recalculated(l, ids)
  OBVIOUS
<1>2. /\ r.customers = l.customers /\ r.sales = l.sales /\ r.payments = l.payments
      /\ Ids(r.installments) = Ids(l.installments)
  BY <1>1, RecalculatedIs
<1>3. Bounded(r)
  BY <1>2 DEF Bounded
<1> QED BY <1>1, <1>3

\* Fewer collections of the page, or none stale, is what was asked for.
LEMMA SaneWithin ==
  ASSUME NEW l, NEW stale, NEW entered, Sane(l, stale, entered), stale = {},
         NEW more, entered \subseteq more
  PROVE  Sane(l, {}, more)
BY DEF Sane

LEMMA ImportKept == TypeInv /\ TableInv /\ ImportCommits => Kept
<1> SUFFICES ASSUME TypeInv, TableInv, ImportCommits PROVE Kept
  OBVIOUS
<1>1. PICK j \in job :
        /\ Valid(j.bundle)
        /\ j.replace \/ Mergeable(ledger, j.bundle)
        /\ ledger' = Recalculated(IF j.replace THEN j.bundle ELSE Merged(ledger, j.bundle),
                       Ids((IF j.replace THEN j.bundle ELSE Merged(ledger, j.bundle)).installments))
  BY DEF ImportCommits
<1>2. PICK b \in Bundles : b = j.bundle
  BY DEF TypeInv, Job
<1>3. PICK l : l = IF j.replace THEN b ELSE Merged(ledger, b)
  OBVIOUS
<1>4. ledger' = Recalculated(l, Ids(l.installments)) /\ Valid(b)
  BY <1>1, <1>2, <1>3
<1>5. /\ Sane(b, Ids(b.installments), {}) /\ Entered(b) = {} /\ Good(b)
      /\ b.customers \subseteq 1..MaxCustomer /\ Ids(b.sales) \subseteq 1..MaxSale
      /\ Ids(b.installments) \subseteq 1..MaxInstallment
      /\ Ids(b.payments) \subseteq 1..MaxPayment
  BY <1>4, BundleSane, BundleIsGood
<1>6. Sane(ledger, {}, Entered(ledger)) /\ Bounded(ledger)
  BY DEF TableInv
<1>7. /\ Sane(l, Ids(b.installments), Entered(ledger)) /\ Bounded(l)
      /\ Ids(b.installments) \subseteq Ids(l.installments)
  <2>1. CASE j.replace
    <3>1. l = b
      BY <1>3, <2>1
    <3>2. Sane(b, Ids(b.installments), Entered(ledger))
      BY <1>5 DEF Sane
    <3>3. Bounded(b)
      BY <1>5 DEF Bounded
    <3> QED BY <3>1, <3>2, <3>3
  <2>2. CASE ~j.replace
    <3>1. l = Merged(ledger, b) /\ Mergeable(ledger, b)
      BY <1>1, <1>2, <1>3, <2>2
    <3>2. Sane(l, Ids(b.installments), Entered(ledger))
      BY <1>4, <1>5, <1>6, <3>1, MergedSane
    <3>3. /\ l.customers = ledger.customers \union b.customers
          /\ Ids(l.sales) = Ids(ledger.sales) \union Ids(b.sales)
          /\ Ids(l.installments) = Ids(ledger.installments) \union Ids(b.installments)
          /\ Ids(l.payments) = Ids(ledger.payments) \union Ids(b.payments)
      BY <3>1 DEF Merged, Joined, Ids
    <3>4. Bounded(l)
      BY <1>5, <1>6, <3>3 DEF Bounded
    <3> QED BY <3>2, <3>3, <3>4
  <2> QED BY <2>1, <2>2
<1>8. PICK stale : stale = Ids(b.installments) \ Ids(l.installments)
  OBVIOUS
<1>9. Sane(Recalculated(l, Ids(l.installments)), stale, Entered(ledger)) /\ stale = {}
  <2>1. Sane(Recalculated(l, Ids(l.installments)), Ids(b.installments) \ Ids(l.installments), Entered(ledger))
    BY <1>7, RecalculatedSane
  <2> QED BY <1>7, <1>8, <2>1
<1>10. Sane(Recalculated(l, Ids(l.installments)), {}, Entered(ledger))
  BY <1>9, SaneWithin
<1>11. Bounded(Recalculated(l, Ids(l.installments)))
  BY <1>7, RecalculatedBounded DEF Sane
<1> QED BY <1>4, <1>10, <1>11 DEF Kept

\* A collection enters itself.
LEMMA CollectGrows ==
  ASSUME TypeInv, TableInv, NEW c \in calls, Collect(c)
  PROVE  /\ Sane(ledger', {}, Entered(ledger) \union Own(c.installment, c.key))
         /\ Bounded(ledger')
         /\ \A p \in Ids(ledger.payments) : ledger.payments[p].key # c.key
<1> DEFINE i == c.installment
<1>1. PICK l : l = AddPayment(ledger, i, c.amount, c.date, c.key)
  OBVIOUS
<1>2. /\ \A p \in Ids(ledger.payments) : ledger.payments[p].key # c.key
      /\ i \in Ids(ledger.installments)
      /\ Paid(l, i) <= ledger.installments[i].amount
      /\ Bounded(l)
      /\ ledger' = Recalculated(l, {i})
  BY <1>1 DEF Collect
<1>3. c \in Attempt
  BY DEF TypeInv
<1>4. c.amount \in Nat \ {0} /\ c.date \in Day /\ c.key \in Int
  BY <1>3, MoneyIs DEF Attempt
<1>5. Enterable(ledger, i, c.amount, c.date, c.key)
  BY <1>2, <1>4 DEF Enterable
<1>6. Sane(ledger, {}, Entered(ledger))
  BY DEF TableInv
<1> HIDE DEF i
<1>7. /\ Good(l)
      /\ Paid(l, i) <= ledger.installments[i].amount
           => Sane(l, {} \union {i}, Entered(ledger) \union Own(i, c.key))
  <2>1. PICK a, d, k : a = c.amount /\ d = c.date /\ k = c.key
    OBVIOUS
  <2>2. l = AddPayment(ledger, i, a, d, k) /\ Enterable(ledger, i, a, d, k)
    BY <1>1, <1>5, <2>1
  <2>3. /\ Good(l)
        /\ Paid(l, i) <= ledger.installments[i].amount
             => Sane(l, {} \union {i}, Entered(ledger) \union Own(i, k))
    BY <1>6, <2>2, AddPaymentSane, Zenon
  <2> QED BY <2>1, <2>3
<1>8. Sane(l, {} \union {i}, Entered(ledger) \union Own(i, c.key))
  BY <1>2, <1>7
<1>9. Sane(Recalculated(l, {i}), ({} \union {i}) \ {i}, Entered(ledger) \union Own(i, c.key))
  BY <1>8, RecalculatedSane
<1>10. ({} \union {i}) \ {i} = {}
  OBVIOUS
<1>11. Bounded(Recalculated(l, {i}))
  BY <1>2, <1>7, RecalculatedBounded
<1> QED BY <1>2, <1>9, <1>10, <1>11 DEF i

LEMMA KeptIs == Kept => TableInv' /\ Entered(ledger') \subseteq Entered(ledger)
<1> SUFFICES ASSUME Kept PROVE TableInv' /\ Entered(ledger') \subseteq Entered(ledger)
  OBVIOUS
<1>1. PICK l : l = ledger'
  OBVIOUS
<1>2. Sane(l, {}, Entered(ledger)) /\ Bounded(l)
  BY <1>1 DEF Kept
<1>3. Sane(l, {}, Entered(l)) /\ Entered(l) \subseteq Entered(ledger)
  BY <1>2 DEF Sane
<1>4. TableInv' <=> Sane(ledger', {}, Entered(ledger')) /\ Bounded(ledger')
  BY DEF TableInv
<1> QED BY <1>1, <1>2, <1>3, <1>4

LEMMA RequestKept ==
  ASSUME TypeInv, TableInv,
         CustomerRequest \/ SaleRequest \/ InstallmentRequest
         \/ \E p \in Ids(ledger.payments) :
              DeletePayment(p) \/ \E m \in Money, d \in Day : UpdatePayment(p, m, d)
  PROVE  Kept
BY CustomerKept, SaleKept, InstallmentKept, CorrectionKept, Zenon

LEMMA LedgerSteps ==
  ASSUME TypeInv, TableInv, [Next]_vars
  PROVE  Kept \/ \E c \in calls : Collect(c)
<1>1. ASSUME UNCHANGED ledger PROVE Kept
  <2>1. Sane(ledger, {}, Entered(ledger)) /\ Bounded(ledger)
    BY DEF TableInv
  <2> QED BY <1>1, <2>1 DEF Kept
<1>2. CASE PaymentRequest
  <2>1. ASSUME NEW i \in Ids(ledger.installments), NEW m \in Money, Submit(i, m) PROVE Kept
    BY <1>1, <2>1 DEF Submit, data
  <2>2. ASSUME NEW c \in calls, Replay(c) \/ Refuse(c) PROVE Kept
    BY <1>1, <2>2, Zenon DEF Replay, Refuse
  <2>3. ASSUME NEW p \in Ids(ledger.payments),
               DeletePayment(p) \/ \E m \in Money, d \in Day : UpdatePayment(p, m, d)
        PROVE  Kept
    BY <2>3, CorrectionKept
  <2> QED BY <1>2, <2>1, <2>2, <2>3, Zenon DEF PaymentRequest
<1>3. CASE Transfer
  <2>1. CASE ImportCommits
    BY <2>1, ImportKept
  <2>2. CASE \/ \E b \in Bundles : StartImport(b)
             \/ HoldGate \/ ImportFails \/ VerifyImport
    BY <1>1, <2>2 DEF StartImport, HoldGate, ImportFails, VerifyImport
  <2> QED BY <1>3, <2>1, <2>2, Zenon DEF Transfer
<1>4. CASE Window
  BY <1>1, <1>4 DEF Window, Startup, EmptyStart, Reload, Crash
<1>5. CASE NewDay \/ UNCHANGED vars
  BY <1>1, <1>5 DEF NewDay, vars, data
<1> QED BY <1>2, <1>3, <1>4, <1>5, CustomerKept, SaleKept, InstallmentKept, Zenon DEF Next

LEMMA TablesStart == Init => TableInv
<1> SUFFICES ASSUME Init PROVE TableInv
  OBVIOUS
<1>1. PICK l : l = Empty
  OBVIOUS
<1>2. /\ l = [customers |-> {}, sales |-> <<>>, installments |-> <<>>, payments |-> <<>>]
      /\ l.customers = {} /\ l.sales = <<>> /\ l.installments = <<>> /\ l.payments = <<>>
  BY <1>1 DEF Empty
<1>3. Ids(<<>>) = {}
  BY DEF Ids
<1>4. \A Row : <<>> \in [{} -> Row]
  OBVIOUS
<1>5. IsFiniteSet({})
  BY FS_EmptySet
<1>6. Good(l)
  BY <1>2, <1>3, <1>4, <1>5, GoodFrom
<1>7. Valid(l)
  BY <1>2, <1>3 DEF Valid
<1>8. Sane(l, {}, Entered(l)) /\ Bounded(l)
  BY <1>2, <1>3, <1>6, <1>7 DEF Sane, Bounded
<1> QED BY <1>1, <1>8 DEF Init, TableInv

LEMMA TablesKept == TypeInv /\ TableInv /\ [Next]_vars => TableInv'
<1> SUFFICES ASSUME TypeInv, TableInv, [Next]_vars PROVE TableInv'
  OBVIOUS
<1>1. ASSUME NEW c \in calls, Collect(c) PROVE TableInv'
  <2>1. PICK l : l = ledger'
    OBVIOUS
  <2>2. Sane(l, {}, Entered(ledger) \union Own(c.installment, c.key)) /\ Bounded(l)
    BY <1>1, <2>1, CollectGrows
  <2>3. Sane(l, {}, Entered(l))
    BY <2>2 DEF Sane
  <2>4. TableInv' <=> Sane(ledger', {}, Entered(ledger')) /\ Bounded(ledger')
    BY DEF TableInv
  <2> QED BY <2>1, <2>2, <2>3, <2>4
<1> QED BY <1>1, LedgerSteps, KeptIs

LedgerInv == TypeInv /\ TableInv

LEMMA LedgerAlways == Spec => []LedgerInv
<1>1. Init => LedgerInv
  BY TypesStart, TablesStart DEF LedgerInv
<1>2. LedgerInv /\ [Next]_vars => LedgerInv'
  <2> SUFFICES ASSUME LedgerInv, [Next]_vars PROVE LedgerInv'
    OBVIOUS
  <2>1. TypeInv /\ TableInv /\ Bounded(ledger)
    BY DEF LedgerInv, TableInv
  <2> QED BY <2>1, TypesKept, TablesKept DEF LedgerInv
<1> QED BY <1>1, <1>2, PTL DEF Spec

LEMMA FewAre ==
  ASSUME NEW S, \A x, y \in S : x = y
  PROVE  Cardinality(S) <= 1
<1>1. CASE S = {}
  BY <1>1, FS_EmptySet
<1>2. CASE S # {}
  <2>1. PICK x \in S : TRUE
    BY <1>2
  <2>2. S = {x}
    BY <2>1
  <2> QED BY <2>2, FS_Singleton
<1> QED BY <1>1, <1>2

\* The tables refer to rows that exist, whatever the requests and imports that
\* led to them; one import at most is on its way or unverified; and every key in
\* use was made by the page (api.rs, db.rs: the foreign keys of the schema).
THEOREM LedgerTyped == Spec => []LTypeOK
<1>1. LedgerInv => LTypeOK
  <2> SUFFICES ASSUME LedgerInv PROVE LTypeOK
    OBVIOUS
  <2>1. TypeInv /\ Sane(ledger, {}, Entered(ledger)) /\ Bounded(ledger)
    BY DEF LedgerInv, TableInv
  <2>2. Good(ledger) /\ Valid(ledger) /\ \A i \in Ids(ledger.installments) : Dated(ledger, i)
    BY <2>1 DEF Sane
  <2>3. LedgerTypeOK(ledger)
    <3>1. \A i \in Ids(ledger.installments) : ledger.installments[i].paid_date \in Day \union {None}
      BY <2>2, PaidDateType DEF Dated
    <3> QED BY <2>1, <2>2, <3>1 DEF LedgerTypeOK, Bounded, Valid
  <2>4. \A x \in {pending, job} : Cardinality(x) <= 1
    BY <2>1, FewAre DEF TypeInv
  <2>5. /\ page \in {"startup", "firstrun", "working", "importing", "verifying",
                     "verifyingFirst", "blocked", "locked"}
        /\ DOMAIN intents \union DOMAIN stored \subseteq 1..MaxInstallment
        /\ {intents[i].key : i \in DOMAIN intents} \union {c.key : c \in calls} \union settled
             \subseteq 1..keys
    BY <2>1 DEF TypeInv, Pages, Intents, Ids
  <2> QED BY <2>3, <2>4, <2>5 DEF LTypeOK
<1> QED BY <1>1, LedgerAlways, PTL

\* No amount, reference or request key ever makes export_data refuse its own ledger:
\* no installment is paid beyond its amount and no request key is used twice, through
\* collections, corrections, deletions and imports (api.rs: create_payment_tx;
\* db.rs: validate_bundle from line 909 on).  Its checks of contacts are left out.
THEOREM MoneyAlwaysExportable == Spec => []MoneyExportable
<1>1. LedgerInv => MoneyExportable
  BY DEF LedgerInv, TableInv, Sane, MoneyExportable
<1> QED BY <1>1, LedgerAlways, PTL

\* paid_date is what recalculate_paid_date would say at any time (api.rs), also
\* after an import of stale flags (db.rs: import_data).
THEOREM PaidDatesCurrent == Spec => []PaidDateCurrent
<1>1. LedgerInv => PaidDateCurrent
  BY DEF LedgerInv, TableInv, Sane, PaidDateCurrent, Dated
<1> QED BY <1>1, LedgerAlways, PTL

\* An import whose verification was interrupted by the end of the application is
\* verified at the next start and never closes the business screen, while the
\* page does not reload during an import (data-management.ts:
\* initializeDataManagement; lib.rs: acknowledge_import_verification).
THEOREM StartupAlwaysOpens == NoReloads /\ Spec => []StartupOpens
<1> SUFFICES ASSUME NoReloads PROVE Spec => []StartupOpens
  OBVIOUS
<1>1. LedgerInv => TypeInv
  BY DEF LedgerInv
<1>2. ScreenInv /\ [Next]_vars => ScreenInv'
  BY ScreenKept
<1>3. LedgerInv /\ ScreenInv /\ StartInv /\ [Next]_vars => StartInv'
  BY <1>1, StartKept
<1>4. StartInv => StartupOpens
  BY DEF StartInv, StartupOpens
<1> QED BY <1>2, <1>3, <1>4, LedgerAlways, ScreenStart, StartStart, PTL DEF Spec

-----------------------------------------------------------------------------
(* Collections are entered once.                                             *)

Names(f, e) == e[1] \in Ids(f) /\ f[e[1]].key = e[2]

\* Of the pairs P of an installment and a key that a collection has or asks for,
\* those without a final answer are what the page and localStorage, f and g,
\* hold for the installment, and the newest of it; n keys were made, s settled.
Once(P, f, g, n, s) ==
  /\ \A e \in P : e[2] \in 1..n
  /\ \A e \in P : e[2] \in s \/ (Names(f, e) /\ Names(g, e))
  /\ \A i \in Ids(f) : f[i].key \in s \/ Names(g, <<i, f[i].key>>)
  /\ \A i \in Ids(g) : g[i].key \in s \/ Names(f, <<i, g[i].key>>)
  /\ \A e \in P : e[1] \in Ids(f) => f[e[1]].key \in s \/ e[2] <= f[e[1]].key

LEMMA OnceFewer ==
  ASSUME NEW P, NEW f, NEW g, NEW n, NEW s, Once(P, f, g, n, s), NEW Q \in SUBSET P
  PROVE  Once(Q, f, g, n, s)
BY DEF Once

\* A page that starts holds what localStorage holds.
LEMMA OnceReloaded ==
  ASSUME NEW P, NEW f, NEW g, NEW n, NEW s, Once(P, f, g, n, s)
  PROVE  Once(P, g, g, n, s)
<1>1. ASSUME NEW i \in Ids(g) PROVE Names(g, <<i, g[i].key>>)
  BY DEF Names
<1>2. ASSUME NEW e \in P, e[1] \in Ids(g), g[e[1]].key \notin s PROVE e[2] <= g[e[1]].key
  <2>1. PICK i, k : i = e[1] /\ k = g[e[1]].key
    OBVIOUS
  <2>2. Names(f, <<i, k>>)
    BY <1>2, <2>1 DEF Once
  <2>3. i \in Ids(f) /\ f[i].key = k
    BY <2>2 DEF Names
  <2> QED BY <1>2, <2>1, <2>3 DEF Once
<1> QED BY <1>1, <1>2 DEF Once

\* A final answer settles its key, and the page drops it where it holds it.
LEMMA OnceSettled ==
  ASSUME NEW P, NEW f, NEW g, NEW n, NEW s, Once(P, f, g, n, s), NEW k
  PROVE  /\ Once(P, f, g, n, s \union {k})
         /\ \A T \in SUBSET Ids(f) :
              (\A i \in Ids(f) \ T : f[i].key = k)
                => Once(P, Restrict(f, T), Restrict(f, T), n, s \union {k})
<1>1. Once(P, f, g, n, s \union {k})
  BY DEF Once
<1>2. ASSUME NEW T \in SUBSET Ids(f), \A i \in Ids(f) \ T : f[i].key = k,
             NEW h, h = Restrict(f, T)
      PROVE  Once(P, h, h, n, s \union {k})
  <2>1. Ids(h) = T /\ \A i \in T : h[i] = f[i]
    BY <1>2, RestrictIs
  <2>2. ASSUME NEW e \in P, e[2] \notin s \union {k} PROVE Names(h, e)
    <3>1. e[1] \in Ids(f) /\ f[e[1]].key = e[2]
      BY <2>2 DEF Once, Names
    <3> QED BY <1>2, <2>1, <2>2, <3>1 DEF Names
  <2>3. ASSUME NEW i \in Ids(h) PROVE Names(h, <<i, h[i].key>>)
    BY DEF Names
  <2>4. \A e \in P : e[1] \in Ids(h) => h[e[1]].key \in s \union {k} \/ e[2] <= h[e[1]].key
    BY <2>1 DEF Once
  <2>5. \A e \in P : e[2] \in 1..n
    BY DEF Once
  <2> QED BY <2>2, <2>3, <2>4, <2>5 DEF Once
<1> QED BY <1>1, <1>2

\* The same collection again asks for the key the page holds.
LEMMA OnceAgain ==
  ASSUME NEW P, NEW f, NEW g, NEW n \in Nat, NEW s, Once(P, f, g, n, s), NEW i \in Ids(f),
         f[i].key \in 1..n, NEW Q, Q = P \union {<<i, f[i].key>>}
  PROVE  Once(Q, f, g, n, s)
<1>1. PICK e : e = <<i, f[i].key>>
  OBVIOUS
<1>2. e[1] = i /\ e[2] = f[i].key
  BY <1>1
<1>3. Q = P \union {e}
  BY <1>1
<1>4. e[2] \in s \/ (Names(f, e) /\ Names(g, e))
  BY <1>1, <1>2 DEF Once, Names
<1>5. f[e[1]].key \in s \/ e[2] <= f[e[1]].key
  BY <1>2
<1> QED BY <1>2, <1>3, <1>4, <1>5 DEF Once

\* Another collection settles the key the page holds, and asks for a new one.
Held(f, i) == {f[j].key : j \in Ids(f) \intersect {i}}

LEMMA OnceDropped ==
  ASSUME NEW P, NEW f, NEW g, NEW n, NEW s, Once(P, f, g, n, s), NEW i,
         NEW h, h = Without(f, {i})
  PROVE  Once(P, h, g, n, s \union Held(f, i))
<1>1. Ids(h) = Ids(f) \ {i} /\ \A j \in Ids(h) : h[j] = f[j]
  BY RestrictIs DEF Without
<1>2. i \in Ids(f) => f[i].key \in Held(f, i)
  BY DEF Held
<1>3. PICK t : t = s \union Held(f, i)
  OBVIOUS
<1>4. ASSUME NEW e \in P, e[2] \notin t PROVE Names(h, e) /\ Names(g, e)
  <2>1. e[1] \in Ids(f) /\ f[e[1]].key = e[2] /\ Names(g, e)
    BY <1>3, <1>4 DEF Once, Names
  <2> QED BY <1>1, <1>2, <1>3, <1>4, <2>1 DEF Names
<1>5. ASSUME NEW j \in Ids(h) PROVE h[j].key \in t \/ Names(g, <<j, h[j].key>>)
  BY <1>1, <1>3 DEF Once
<1>6. ASSUME NEW j \in Ids(g), g[j].key \notin t PROVE Names(h, <<j, g[j].key>>)
  <2>1. Names(f, <<j, g[j].key>>)
    BY <1>3, <1>6 DEF Once
  <2>2. j \in Ids(f) /\ f[j].key = g[j].key
    BY <2>1 DEF Names
  <2> QED BY <1>1, <1>2, <1>3, <1>6, <2>2 DEF Names
<1>7. \A e \in P : e[2] \in 1..n /\ (e[1] \in Ids(h) => h[e[1]].key \in t \/ e[2] <= h[e[1]].key)
  BY <1>1, <1>3 DEF Once
<1>8. Once(P, h, g, n, t)
  BY <1>4, <1>5, <1>6, <1>7 DEF Once
<1> QED BY <1>3, <1>8

LEMMA OnceNew ==
  ASSUME NEW P, NEW f, NEW g, NEW n \in Nat, NEW s, Once(P, f, g, n, s), NEW i,
         NEW x, x.key = n + 1, NEW h, h = Insert(f, i, x),
         NEW Q, Q = P \union {<<i, n + 1>>}
  PROVE  Once(Q, h, h, n + 1, s \union Held(f, i))
<1>1. Ids(h) = Ids(f) \union {i} /\ h[i] = x /\ \A j \in Ids(f) \ {i} : h[j] = f[j]
  BY InsertIs
<1>2. i \in Ids(f) => f[i].key \in Held(f, i)
  BY DEF Held
<1>3. PICK t : t = s \union Held(f, i)
  OBVIOUS
<1>4. PICK o : o = <<i, n + 1>>
  OBVIOUS
<1>5. o[1] = i /\ o[2] = n + 1 /\ Q = P \union {o}
  BY <1>4
<1>6. ASSUME NEW e \in P, e[2] \notin t PROVE Names(h, e)
  <2>1. e[1] \in Ids(f) /\ f[e[1]].key = e[2]
    BY <1>3, <1>6 DEF Once, Names
  <2> QED BY <1>1, <1>2, <1>3, <1>6, <2>1 DEF Names
<1>7. Names(h, o)
  BY <1>1, <1>5 DEF Names
<1>8. \A e \in Q : e[2] \in t \/ Names(h, e)
  BY <1>5, <1>6, <1>7
<1>9. ASSUME NEW j \in Ids(h) PROVE Names(h, <<j, h[j].key>>)
  BY DEF Names
<1>10. ASSUME NEW e \in Q PROVE e[2] \in 1..(n + 1)
  <2>1. CASE e \in P
    <3>1. e[2] \in 1..n
      BY <2>1 DEF Once
    <3> QED BY <3>1
  <2> QED BY <1>5, <1>10, <2>1
<1>11. ASSUME NEW e \in Q, e[1] \in Ids(h), h[e[1]].key \notin t PROVE e[2] <= h[e[1]].key
  <2>1. CASE e[1] = i
    BY <1>1, <1>10, <1>11, <2>1
  <2>2. CASE e[1] # i
    <3>1. e \in P /\ e[1] \in Ids(f) /\ h[e[1]] = f[e[1]]
      BY <1>1, <1>5, <1>11, <2>2
    <3> QED BY <1>3, <1>11, <3>1 DEF Once
  <2> QED BY <2>1, <2>2
<1>12. Once(Q, h, h, n + 1, t)
  BY <1>8, <1>9, <1>10, <1>11 DEF Once
<1> QED BY <1>3, <1>12

\* What collections have, and what those on their way ask for.
Asked(cs) == {<<c.installment, c.key>> : c \in cs}
Pairs == Entered(ledger) \union Asked(calls)

OnceInv == Once(Pairs, intents, stored, keys, settled)

LEMMA OnceStart == Init => OnceInv
<1> SUFFICES ASSUME Init PROVE OnceInv
  OBVIOUS
<1>1. Ids(<<>>) = {}
  BY DEF Ids
<1>2. /\ ledger = Empty /\ calls = {} /\ intents = <<>> /\ stored = <<>> /\ keys = 0 /\ settled = {}
  BY DEF Init
<1>3. Ids(ledger.payments) = {}
  BY <1>1, <1>2 DEF Empty
<1>4. Pairs = {}
  BY <1>2, <1>3 DEF Pairs, Entered, Asked
<1>5. Once({}, <<>>, <<>>, 0, {})
  BY <1>1 DEF Once
<1> QED BY <1>2, <1>4, <1>5 DEF OnceInv

\* The invariant in the next state.
LEMMA OnceNext ==
  ASSUME NEW E, Entered(ledger') \subseteq E, NEW f, f = intents', NEW g, g = stored',
         NEW n, n = keys', NEW s, s = settled', Once(E \union Asked(calls'), f, g, n, s)
  PROVE  OnceInv'
<1>1. PICK Q : Q = Entered(ledger') \union Asked(calls')
  OBVIOUS
<1>2. Once(Q, f, g, n, s)
  BY <1>1, OnceFewer
<1>3. OnceInv' <=> Once(Entered(ledger') \union Asked(calls'), intents', stored', keys', settled')
  BY DEF OnceInv, Pairs
<1> QED BY <1>1, <1>2, <1>3

LEMMA AnswerOnce ==
  ASSUME OnceInv, NEW c \in calls, NEW outcome, Answer(c, outcome),
         Entered(ledger') \subseteq Pairs
  PROVE  OnceInv'
<1>1. Once(Pairs, intents, stored, keys, settled)
  BY DEF OnceInv
<1>2. calls' \subseteq calls /\ keys' = keys
  BY DEF Answer
<1>3. Pairs \union Asked(calls') \subseteq Pairs
  BY <1>2 DEF Pairs, Asked
<1>4. ASSUME Once(Pairs, intents', stored', keys', settled')
      PROVE  OnceInv'
  <2>1. PICK f, g, n, s : f = intents' /\ g = stored' /\ n = keys' /\ s = settled'
    OBVIOUS
  <2>2. Once(Pairs \union Asked(calls'), f, g, n, s)
    BY <1>3, <1>4, <2>1, OnceFewer
  <2> QED BY <2>1, <2>2, OnceNext
<1>5. CASE c.heard /\ outcome # "refused"
  <2>1. PICK k : k = c.key
    OBVIOUS
  <2>2. settled' = settled \union {k}
    BY <1>5, <2>1 DEF Answer
  <2>3. CASE UNCHANGED <<intents, stored>>
    BY <1>1, <1>2, <1>4, <2>2, <2>3, OnceSettled
  <2>4. CASE /\ intents' = RestrictValues(intents, LAMBDA n : n.key # c.key)
             /\ stored' = intents'
    <3>1. PICK T : T = {i \in Ids(intents) : intents[i].key # k}
      OBVIOUS
    <3>2. intents' = Restrict(intents, T)
      BY <2>1, <2>4, <3>1 DEF RestrictValues, Ids
    <3>3. T \in SUBSET Ids(intents) /\ \A i \in Ids(intents) \ T : intents[i].key = k
      BY <3>1
    <3>4. Once(Pairs, Restrict(intents, T), Restrict(intents, T), keys, settled \union {k})
      BY <1>1, <3>3, OnceSettled
    <3> QED BY <1>2, <1>4, <2>2, <2>4, <3>2, <3>4
  <2> QED BY <1>5, <2>3, <2>4 DEF Answer
<1>6. CASE ~(c.heard /\ outcome # "refused")
  <2>1. UNCHANGED <<intents, stored, settled>>
    BY <1>6 DEF Answer
  <2> QED BY <1>1, <1>2, <1>4, <2>1
<1> QED BY <1>5, <1>6

LEMMA SubmitOnce ==
  ASSUME TypeInv, OnceInv, NEW i, NEW m \in Money, Submit(i, m)
  PROVE  OnceInv'
<1> DEFINE wish == [key |-> keys + 1, amount |-> m, date |-> today]
<1>1. Once(Pairs, intents, stored, keys, settled) /\ keys \in Nat
  BY DEF OnceInv, TypeInv
<1>2. UNCHANGED ledger
  BY DEF Submit, data
<1>3. ASSUME NEW n, calls' = calls \union {Call(i, n)}
      PROVE  Entered(ledger) \union Asked(calls') = Pairs \union {<<i, n.key>>}
  <2>1. Call(i, n).installment = i /\ Call(i, n).key = n.key
    BY DEF Call
  <2> QED BY <1>3, <2>1 DEF Pairs, Asked
<1>4. ASSUME NEW f, NEW g, NEW n, NEW s, f = intents', g = stored', n = keys', s = settled',
             Once(Entered(ledger) \union Asked(calls'), f, g, n, s)
      PROVE  OnceInv'
  BY <1>2, <1>4, OnceNext
<1>5. {intents[j] : j \in DOMAIN intents \intersect {i}} = {intents[j] : j \in Ids(intents) \intersect {i}}
  BY DEF Ids
<1>6. ASSUME NEW n \in {intents[j] : j \in DOMAIN intents \intersect {i}},
             calls' = calls \union {Call(i, n)}, UNCHANGED <<keys, intents, stored, settled>>
      PROVE  OnceInv'
  <2>1. i \in Ids(intents) /\ n = intents[i]
    BY <1>6 DEF Ids
  <2>2. intents[i].key \in 1..keys
    BY <2>1 DEF TypeInv, Intents
  <2>3. PICK Q : Q = Pairs \union {<<i, intents[i].key>>}
    OBVIOUS
  <2>4. Once(Q, intents, stored, keys, settled)
    BY <1>1, <2>1, <2>2, <2>3, OnceAgain
  <2>5. Q = Entered(ledger) \union Asked(calls')
    BY <1>3, <1>6, <2>1, <2>3
  <2> QED BY <1>4, <1>6, <2>4, <2>5
<1>7. CASE /\ settled' = settled \union {n.key : n \in {intents[j] : j \in DOMAIN intents \intersect {i}}}
           /\ keys' = wish.key
           /\ intents' = Insert(intents, i, wish)
           /\ stored' = intents'
           /\ calls' = calls \union {Call(i, wish)}
  <2>1. wish.key = keys + 1
    OBVIOUS
  <2>2. PICK x : x = wish
    OBVIOUS
  <2>3. settled' = settled \union Held(intents, i)
    BY <1>7 DEF Held, Ids
  <2> HIDE DEF wish
  <2>4. PICK h, Q : h = Insert(intents, i, x) /\ Q = Pairs \union {<<i, keys + 1>>}
    OBVIOUS
  <2>5. Once(Q, h, h, keys + 1, settled \union Held(intents, i))
    BY <1>1, <2>1, <2>2, <2>4, OnceNew
  <2>6. Q = Entered(ledger) \union Asked(calls')
    BY <1>3, <1>7, <2>1, <2>4
  <2>7. h = intents' /\ h = stored' /\ keys + 1 = keys'
    BY <1>7, <2>1, <2>2, <2>4
  <2>8. PICK n, s : n = keys + 1 /\ s = settled \union Held(intents, i)
    OBVIOUS
  <2>9. n = keys' /\ s = settled'
    BY <2>3, <2>7, <2>8
  <2>10. Once(Entered(ledger) \union Asked(calls'), h, h, n, s)
    BY <2>5, <2>6, <2>8
  <2> QED BY <1>4, <2>7, <2>9, <2>10
<1>8. CASE /\ settled' = settled \union {n.key : n \in {intents[j] : j \in DOMAIN intents \intersect {i}}}
           /\ intents' = Without(intents, {i})
           /\ UNCHANGED <<stored, keys, calls>>
  <2>1. settled' = settled \union Held(intents, i)
    BY <1>8 DEF Held, Ids
  <2>2. PICK h : h = Without(intents, {i})
    OBVIOUS
  <2>3. Once(Pairs, h, stored, keys, settled \union Held(intents, i))
    BY <1>1, <2>2, OnceDropped
  <2>4. Pairs = Entered(ledger) \union Asked(calls')
    BY <1>8 DEF Pairs
  <2> QED BY <1>4, <1>8, <2>1, <2>2, <2>3, <2>4
<1> QED BY <1>6, <1>7, <1>8, Zenon DEF Submit

\* The page starts again; nothing else about collections changes but their hearing.
LEMMA RestartOnce ==
  ASSUME TypeInv, OnceInv, Reload \/ Crash
  PROVE  OnceInv'
<1>1. Once(Pairs, intents, stored, keys, settled)
  BY DEF OnceInv
<1>2. /\ intents' = stored /\ UNCHANGED <<ledger, stored, keys, settled>>
      /\ calls' = {[c EXCEPT !.heard = FALSE] : c \in calls} \/ calls' = {}
  BY DEF Reload, Crash
<1>3. Asked(calls') \subseteq Asked(calls)
  <2>1. ASSUME NEW c \in calls
        PROVE  [c EXCEPT !.heard = FALSE].installment = c.installment
               /\ [c EXCEPT !.heard = FALSE].key = c.key
    BY DEF TypeInv, Attempt
  <2>2. CASE calls' = {[c EXCEPT !.heard = FALSE] : c \in calls}
    <3>1. ASSUME NEW p \in Asked(calls') PROVE p \in Asked(calls)
      <4>1. PICK d \in calls' : p = <<d.installment, d.key>>
        BY <3>1 DEF Asked
      <4>2. PICK c \in calls : d = [c EXCEPT !.heard = FALSE]
        BY <2>2, <4>1, Zenon
      <4>3. d.installment = c.installment /\ d.key = c.key
        BY <2>1, <4>2
      <4> QED BY <4>1, <4>3 DEF Asked
    <3> QED BY <3>1
  <2>3. CASE calls' = {}
    BY <2>3 DEF Asked
  <2> QED BY <1>2, <2>2, <2>3, Zenon
<1>4. Once(Pairs, stored, stored, keys, settled)
  BY <1>1, OnceReloaded
<1>5. Entered(ledger) \union Asked(calls') \in SUBSET Pairs
  BY <1>3 DEF Pairs
<1>6. Once(Entered(ledger) \union Asked(calls'), stored, stored, keys, settled)
  BY <1>4, <1>5, OnceFewer
<1>7. Entered(ledger') \subseteq Entered(ledger)
  BY <1>2
<1> QED BY <1>2, <1>6, <1>7, OnceNext

LEMMA OnceKept == TypeInv /\ TableInv /\ OnceInv /\ [Next]_vars => OnceInv'
<1> SUFFICES ASSUME TypeInv, TableInv, OnceInv, [Next]_vars PROVE OnceInv'
  OBVIOUS
<1>1. Once(Pairs, intents, stored, keys, settled)
  BY DEF OnceInv
<1>2. ASSUME UNCHANGED client, Kept PROVE OnceInv'
  <2>1. Entered(ledger') \subseteq Entered(ledger)
    BY <1>2, KeptIs
  <2>2. Pairs = Entered(ledger) \union Asked(calls')
    BY <1>2 DEF Pairs, client
  <2> QED BY <1>1, <1>2, <2>1, <2>2, OnceNext DEF client
<1>3. ASSUME NEW c \in calls, Collect(c) PROVE OnceInv'
  <2>1. PICK l : l = ledger'
    OBVIOUS
  <2>2. Sane(l, {}, Entered(ledger) \union Own(c.installment, c.key))
    BY <1>3, <2>1, CollectGrows
  <2>3. Own(c.installment, c.key) \subseteq Asked(calls)
    BY DEF Own, Asked
  <2>4. Entered(ledger') \subseteq Pairs
    BY <2>1, <2>2, <2>3 DEF Sane, Pairs
  <2> QED BY <1>3, <2>4, AnswerOnce DEF Collect
<1>4. ASSUME NEW c \in calls, Replay(c) \/ Refuse(c) PROVE OnceInv'
  <2>1. ledger' = ledger /\ \E outcome : Answer(c, outcome)
    BY <1>4, Zenon DEF Replay, Refuse
  <2>2. Entered(ledger') \subseteq Pairs
    BY <2>1 DEF Pairs
  <2> QED BY <2>1, <2>2, AnswerOnce
<1>5. CASE CustomerRequest \/ SaleRequest \/ InstallmentRequest
           \/ \E p \in Ids(ledger.payments) :
                DeletePayment(p) \/ \E m \in Money, d \in Day : UpdatePayment(p, m, d)
  <2>1. \E l : Request(l)
    BY <1>5, Requests
  <2>2. UNCHANGED client
    BY <2>1 DEF Request
  <2> QED BY <1>2, <1>5, <2>2, RequestKept
<1>6. CASE PaymentRequest
  <2>1. ASSUME NEW i \in Ids(ledger.installments), NEW m \in Money, Submit(i, m) PROVE OnceInv'
    BY <2>1, SubmitOnce
  <2> QED BY <1>3, <1>4, <1>5, <1>6, <2>1, Zenon DEF PaymentRequest
<1>7. ASSUME UNCHANGED <<ledger, client>> PROVE OnceInv'
  <2>1. Kept
    BY <1>7 DEF Kept, TableInv
  <2> QED BY <1>2, <1>7, <2>1
<1>8. CASE Transfer
  <2>1. CASE ImportCommits
    BY <1>2, <2>1, ImportKept DEF ImportCommits
  <2>2. CASE \/ \E b \in Bundles : StartImport(b)
             \/ HoldGate \/ ImportFails \/ VerifyImport
    BY <1>7, <2>2 DEF StartImport, HoldGate, ImportFails, VerifyImport
  <2> QED BY <1>8, <2>1, <2>2, Zenon DEF Transfer
<1>9. CASE Window
  <2>1. CASE Startup \/ EmptyStart
    BY <1>7, <2>1 DEF Startup, EmptyStart
  <2> QED BY <1>9, <2>1, RestartOnce, Zenon DEF Window
<1>10. CASE NewDay \/ UNCHANGED vars
  BY <1>7, <1>10 DEF NewDay, vars, data
<1> QED BY <1>5, <1>6, <1>8, <1>9, <1>10, Zenon DEF Next

\* A collection submitted again as it was is entered once, whatever answers were
\* lost, through reloads, restarts and localStorage that is not written
\* (pusula-app.js: paymentRequestKey, clearPaymentRequest; api.rs: create_payment).
THEOREM CollectionsEnteredOnce == Spec => []ReplayedOnce
<1>1. TypeInv /\ TableInv /\ OnceInv => ReplayedOnce
  <2> SUFFICES ASSUME TypeInv, TableInv, OnceInv,
                      NEW p \in Ids(ledger.payments), NEW q \in Ids(ledger.payments),
                      NEW i, i = ledger.payments[p].installment, ledger.payments[q].installment = i,
                      NEW k, k = ledger.payments[p].key, NEW o, o = ledger.payments[q].key,
                      None < k, k < o, k \notin settled
               PROVE  FALSE
    BY DEF ReplayedOnce
  <2>1. Good(ledger)
    BY DEF TableInv, Sane
  <2>2. k \in Int /\ o \in Int /\ k > None /\ o > None
    BY <2>1, PaymentRows DEF None
  <2>3. PICK a, b : a = <<i, k>> /\ b = <<i, o>>
    OBVIOUS
  <2>4. a \in Entered(ledger) /\ b \in Entered(ledger)
    BY <2>2, <2>3 DEF Entered
  <2>5. a \in Pairs /\ b \in Pairs
    BY <2>4 DEF Pairs
  <2>6. a[1] = i /\ a[2] = k /\ b[1] = i /\ b[2] = o
    BY <2>3
  <2>7. i \in Ids(intents) /\ intents[i].key = k
    BY <2>5, <2>6 DEF OnceInv, Once, Names
  <2>8. o <= k
    BY <2>5, <2>6, <2>7 DEF OnceInv, Once
  <2> QED BY <2>2, <2>8
<1>2. Init => OnceInv
  BY OnceStart
<1>3. LedgerInv => TypeInv /\ TableInv
  BY DEF LedgerInv
<1>4. LedgerInv /\ OnceInv /\ [Next]_vars => OnceInv'
  BY <1>3, OnceKept
<1>5. LedgerInv /\ OnceInv => ReplayedOnce
  BY <1>1, <1>3
<1> QED BY <1>2, <1>4, <1>5, LedgerAlways, PTL DEF Spec
=============================================================================
