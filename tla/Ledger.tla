-------------------------------- MODULE Ledger --------------------------------
(***************************************************************************)
(* The sales ledger of the desktop: the tables behind the API of the core  *)
(* (api.rs), export and import (db.rs), and the page that drives them      *)
(* (pusula-app.js, data-management.ts), which may reload or end with the   *)
(* application at any time.  Every API request is one SQLite transaction:  *)
(* one step, or none when it is refused.  Only a collection is followed    *)
(* from the page and back, since it is retried after a lost answer.        *)
(*                                                                         *)
(* Names, texts and contacts are left out; money is in kurus, and sums     *)
(* stay below the safe integers of JavaScript.                             *)
(***************************************************************************)
EXTENDS Integers, FiniteSets, Sequences, TLC, FiniteSetsExt, SequencesExt

CONSTANTS
  Money,          \* amounts a request may name, positive
  Orders,         \* bodies of POST /sales: total, down payment or NoMoney, rows
  SaleKey,        \* request keys of sales
  Bundles,        \* files of another installation or of the web version
  MaxCustomer, MaxSale, MaxInstallment, MaxPayment,  \* bounds: row numbers
  MaxDay,         \* bound: the business date
  MaxKey,         \* bound: payment request keys ever made
  MaxCalls,       \* bound: collections on their way at once
  MaxImport,      \* bound: imports asked for
  ReloadAnytime   \* whether the page may reload while an import runs

None == 0         \* SQL NULL, Option::None, a key nobody chose
NoMoney == -1

SaleRow == [customer : Int, amount : Int, key : Int]
InstallmentRow == [sale : Int, amount : Int, paid_date : Int]
PaymentRow == [installment : Int, amount : Int, date : 1..MaxDay, key : Int]

\* A file may hold any rows within the bounds, and request keys of another
\* installation, numbers below None; a file that this installation wrote, with
\* the keys its page made, is not one of Bundles.
ASSUME LedgerAssumption ==
  /\ Money \subseteq Nat \ {0}
  /\ MaxDay \in Nat \ {0}
  /\ {MaxCustomer, MaxSale, MaxInstallment, MaxPayment, MaxKey, MaxCalls, MaxImport} \subseteq Nat
  /\ SaleKey \subseteq Int
  /\ Orders \subseteq [total : Nat \ {0}, down : Int,
                      rows : Seq([amount : Int, paidOn : {None} \union 1..MaxDay])]
  /\ \A b \in Bundles :
       /\ b \in [customers : SUBSET (1..MaxCustomer),
                 sales : [DOMAIN b.sales -> SaleRow],
                 installments : [DOMAIN b.installments -> InstallmentRow],
                 payments : [DOMAIN b.payments -> PaymentRow]]
       /\ DOMAIN b.sales \subseteq 1..MaxSale
       /\ DOMAIN b.installments \subseteq 1..MaxInstallment
       /\ DOMAIN b.payments \subseteq 1..MaxPayment
       /\ \A p \in DOMAIN b.payments : b.payments[p].key <= None

VARIABLES
  ledger,     \* the tables
  onboarded,  \* settings: onboarding_complete
  pending,    \* settings: summary of the import to verify, if any
  page,       \* what the window shows
  job,        \* import_data_file, if called: waiting for its locks, or holding the gate
  imports,    \* how many were asked for
  today,
  intents,    \* pendingPaymentRequests: the collection pending for an installment
  stored,     \* the same in localStorage, which may refuse to be written
  keys,       \* how many payment request keys were made: the last of them
  calls,      \* POST payments on their way to the core
  settled     \* history: keys the page had a final answer for, or gave up for
              \* a collection of another amount or day

data == <<ledger, onboarded, pending, job, imports>>
client == <<intents, stored, keys, calls, settled>>
vars == <<data, page, today, client>>

-----------------------------------------------------------------------------
(* The tables.                                                             *)

Empty == [customers |-> {}, sales |-> <<>>, installments |-> <<>>, payments |-> <<>>]

Ids(table) == DOMAIN table
\* INTEGER PRIMARY KEY without AUTOINCREMENT: numbers at the end are given again.
NextId(table) == IF Ids(table) = {} THEN 1 ELSE Max(Ids(table)) + 1
Insert(table, id, row) == [k \in Ids(table) \union {id} |-> IF k = id THEN row ELSE table[k]]
Without(table, ids) == Restrict(table, Ids(table) \ ids)
Joined(t, u) == [k \in Ids(t) \union Ids(u) |-> IF k \in Ids(t) THEN t[k] ELSE u[k]]

SalesOf(l, c) == {s \in Ids(l.sales) : l.sales[s].customer = c}
InstallmentsOf(l, s) == {i \in Ids(l.installments) : l.installments[i].sale = s}
PaymentsOf(l, i) == {p \in Ids(l.payments) : l.payments[p].installment = i}

Amount(table, ids) == MapThenSumSet(LAMBDA k : table[k].amount, ids)
Paid(l, i) == Amount(l.payments, PaymentsOf(l, i))

Later(l, p, q) ==
  \/ l.payments[p].date > l.payments[q].date
  \/ l.payments[p].date = l.payments[q].date /\ p >= q

\* The day the last collection made the installment whole.
PaidDate(l, i) ==
  IF Paid(l, i) < l.installments[i].amount \/ PaymentsOf(l, i) = {} THEN None
  ELSE l.payments[CHOOSE p \in PaymentsOf(l, i) :
                    \A q \in PaymentsOf(l, i) : Later(l, p, q)].date

Recalculated(l, ids) ==
  [l EXCEPT !.installments =
     [i \in Ids(@) |-> IF i \in ids THEN [@[i] EXCEPT !.paid_date = PaidDate(l, i)] ELSE @[i]]]

\* ON DELETE CASCADE.
DropPayments(l, ids) == [l EXCEPT !.payments = Without(@, ids)]
\* Mutant: deleted installments leave their payments.
DropInstallmentsAlone(l, ids) == [l EXCEPT !.installments = Without(@, ids)]
DropInstallments(l, ids) ==
  DropPayments([l EXCEPT !.installments = Without(@, ids)],
               UNION {PaymentsOf(l, i) : i \in ids})
DropSales(l, ids) ==
  DropInstallments([l EXCEPT !.sales = Without(@, ids)],
                   UNION {InstallmentsOf(l, s) : s \in ids})

AddPayment(l, i, amount, date, key) ==
  [l EXCEPT !.payments = Insert(@, NextId(@), [installment |-> i, amount |-> amount,
                                               date |-> date, key |-> key])]

AddInstallment(l, s, amount, paidOn) ==
  LET i == NextId(l.installments)
      bare == [l EXCEPT !.installments =
                 Insert(@, i, [sale |-> s, amount |-> amount, paid_date |-> None])]
  IN Recalculated(IF paidOn = None THEN bare
                  ELSE AddPayment(bare, i, amount, paidOn, None), {i})

\* prepare_sale_installments: what the rows do not say is split evenly, and the
\* last row takes what is left, whatever it says.
Allotted(order) ==
  LET n == Len(order.rows)
      said == [k \in 1..n |-> order.rows[k].amount]
      Sum(f) == FoldFunction(+, 0, f)
      target == IF order.down # NoMoney THEN order.total - order.down
                ELSE IF \A k \in 1..n : said[k] # NoMoney THEN Sum(said)
                ELSE order.total
      front == [k \in 1..(n - 1) |-> IF said[k] = NoMoney THEN target \div n ELSE said[k]]
  IN IF n = 0 THEN <<>> ELSE Append(front, target - Sum(front))

Acceptable(order) ==
  order.rows # <<>> =>
    /\ order.down # NoMoney => order.down \in 0..order.total
    /\ \A k \in 1..Len(order.rows) : Allotted(order)[k] > 0

\* insert_installment_tx, for every row in turn.
WithRows(l, s, order) ==
  FoldLeftDomain(LAMBDA acc, k : AddInstallment(acc, s, Allotted(order)[k], order.rows[k].paidOn),
                 l, order.rows)

-----------------------------------------------------------------------------
(* Bundles.                                                                *)

RowsOf(b) == <<b.sales, b.installments, b.payments>>

\* What validate_bundle asks of references, amounts and request keys; what it asks
\* of texts, dates and contacts, an empty contact included, is left out.
Valid(b) ==
  /\ \A s \in Ids(b.sales) : b.sales[s].customer \in b.customers /\ b.sales[s].amount >= 0
  /\ \A s, t \in Ids(b.sales) : b.sales[s].key = b.sales[t].key => s = t \/ b.sales[s].key = None
  /\ \A i \in Ids(b.installments) :
       b.installments[i].sale \in Ids(b.sales) /\ b.installments[i].amount >= 0
  /\ \A p \in Ids(b.payments) :
       b.payments[p].installment \in Ids(b.installments) /\ b.payments[p].amount > 0
  /\ \A p, q \in Ids(b.payments) :
       b.payments[p].key = b.payments[q].key => p = q \/ b.payments[p].key = None
  /\ \A i \in Ids(b.installments) : Paid(b, i) <= b.installments[i].amount

\* The counts and totals of a summary or of the status.
Summary(l) ==
  [customers |-> Cardinality(l.customers),
   rows |-> [k \in 1..3 |-> Cardinality(Ids(RowsOf(l)[k]))],
   totals |-> [k \in 1..3 |-> Amount(RowsOf(l)[k], Ids(RowsOf(l)[k]))]]

\* The rows of a bundle beside those of the ledger, which fails on a number or
\* request key both have.
Mergeable(l, b) ==
  /\ l.customers \intersect b.customers = {}
  /\ \A k \in 1..3 : Ids(RowsOf(l)[k]) \intersect Ids(RowsOf(b)[k]) = {}
  /\ \A s \in Ids(l.sales), t \in Ids(b.sales) :
       l.sales[s].key = b.sales[t].key => l.sales[s].key = None
  /\ \A p \in Ids(l.payments), q \in Ids(b.payments) :
       l.payments[p].key = b.payments[q].key => l.payments[p].key = None

Merged(l, b) ==
  [customers |-> l.customers \union b.customers,
   sales |-> Joined(l.sales, b.sales),
   installments |-> Joined(l.installments, b.installments),
   payments |-> Joined(l.payments, b.payments)]
-----------------------------------------------------------------------------
(* The requests of the page, all but collections.                          *)

Bounded(l) ==
  /\ l.customers \subseteq 1..MaxCustomer
  /\ Ids(l.sales) \subseteq 1..MaxSale
  /\ Ids(l.installments) \subseteq 1..MaxInstallment
  /\ Ids(l.payments) \subseteq 1..MaxPayment

Day == 1..MaxDay

\* Every command but an import shares the maintenance gate for its one step.
GateFree == \A j \in job : ~j.holds

Request(l) ==
  /\ page = "working" /\ GateFree
  /\ Bounded(l)
  /\ ledger' = l
  /\ UNCHANGED <<onboarded, pending, job, imports, page, today, client>>

\* A free number that is asked for, or the lowest one.
CreateCustomer(c) ==
  /\ c \notin ledger.customers
  /\ Request([ledger EXCEPT !.customers = @ \union {c}])

DeleteCustomer(c) ==
  /\ c \in ledger.customers
  /\ Request(DropSales([ledger EXCEPT !.customers = @ \ {c}], SalesOf(ledger, c)))

\* A key seen before is answered with the sale it made.
CreateSale(c, order, key) ==
  LET s == NextId(ledger.sales)
  IN /\ c \in ledger.customers
     /\ Acceptable(order)
     /\ key = None \/ \A t \in Ids(ledger.sales) : ledger.sales[t].key # key
     /\ Request(WithRows([ledger EXCEPT !.sales =
                            Insert(@, s, [customer |-> c, amount |-> order.total, key |-> key])],
                         s, order))

UpdateSale(s, c, total) ==
  /\ s \in Ids(ledger.sales) /\ c \in ledger.customers
  /\ total >= Amount(ledger.installments, InstallmentsOf(ledger, s))
  /\ Request([ledger EXCEPT !.sales[s].customer = c, !.sales[s].amount = total])

DeleteSale(s) ==
  /\ s \in Ids(ledger.sales)
  /\ Request(DropSales(ledger, {s}))

CreateInstallment(s, amount, paidOn) ==
  /\ s \in Ids(ledger.sales)
  /\ Request(AddInstallment(ledger, s, amount, paidOn))

\* Mutant: an amount below what was collected is accepted.
UpdateInstallmentUnchecked(i, amount, paid, date) ==
  /\ i \in Ids(ledger.installments)
  /\ Request(Recalculated([ledger EXCEPT !.installments[i].amount = amount], {i}))

\* With "paid" the rest is collected, with "unpaid" all is given back.
UpdateInstallment(i, amount, paid, date) ==
  LET resized == [ledger EXCEPT !.installments[i].amount = amount]
      rest == amount - Paid(ledger, i)
  IN /\ i \in Ids(ledger.installments)
     /\ rest >= 0
     /\ Request(Recalculated(
          CASE paid = "paid" /\ rest > 0 -> AddPayment(resized, i, rest, date, None)
            [] paid = "unpaid" -> DropPayments(resized, PaymentsOf(ledger, i))
            [] OTHER -> resized, {i}))

DeleteInstallment(i) ==
  /\ i \in Ids(ledger.installments)
  /\ Request(DropInstallments(ledger, {i}))

\* Mutant: a corrected payment leaves paid_date as it was.
UpdatePaymentAlone(p, amount, date) ==
  LET i == ledger.payments[p].installment
  IN /\ p \in Ids(ledger.payments)
     /\ Amount(ledger.payments, PaymentsOf(ledger, i) \ {p}) + amount
          <= ledger.installments[i].amount
     /\ Request([ledger EXCEPT !.payments[p].amount = amount, !.payments[p].date = date])

UpdatePayment(p, amount, date) ==
  LET i == ledger.payments[p].installment
  IN /\ p \in Ids(ledger.payments)
     /\ Amount(ledger.payments, PaymentsOf(ledger, i) \ {p}) + amount
          <= ledger.installments[i].amount
     /\ Request(Recalculated([ledger EXCEPT !.payments[p].amount = amount,
                                            !.payments[p].date = date], {i}))

DeletePayment(p) ==
  /\ p \in Ids(ledger.payments)
  /\ Request(Recalculated(DropPayments(ledger, {p}), {ledger.payments[p].installment}))

-----------------------------------------------------------------------------
(* A collection, from the page to the core and back.                       *)

Fingerprint(r) == <<r.amount, r.date>>

\* paymentOperations: one attempt per installment in the life of a page.
Busy(i) == \E c \in calls : c.heard /\ c.installment = i

Call(i, intent) ==
  [key |-> intent.key, installment |-> i, amount |-> intent.amount, date |-> intent.date,
   heard |-> TRUE]

\* paymentRequestKey: the pending key of the installment when it asks for the
\* same again, or a new one, written to localStorage before the call.
Submit(i, amount) ==
  /\ page = "working"
  /\ i \in Ids(ledger.installments) /\ ~Busy(i)
  /\ Cardinality(calls) < MaxCalls
  /\ LET pendingOnes == {intents[j] : j \in DOMAIN intents \intersect {i}}
         wish == [key |-> keys + 1, amount |-> amount, date |-> today]
         same == {n \in pendingOnes : Fingerprint(n) = Fingerprint(wish)}
     IN \/ \E n \in same :
             /\ calls' = calls \union {Call(i, n)}
             /\ UNCHANGED <<keys, intents, stored, settled>>
        \/ /\ same = {}
           /\ wish.key <= MaxKey
           /\ settled' = settled \union {n.key : n \in pendingOnes}
           /\ \/ /\ keys' = wish.key
                 /\ intents' = Insert(intents, i, wish)
                 /\ stored' = intents'
                 /\ calls' = calls \union {Call(i, wish)}
              \/ /\ pendingOnes # {}
                 /\ intents' = Without(intents, {i})
                 /\ UNCHANGED <<stored, keys, calls>>
  /\ UNCHANGED <<data, page, today>>

\* What the page does with an answer, if it is still there: clearPaymentRequest
\* for a final one, which keeps the key when localStorage cannot be written.
\* Nothing that happens before an answer arrives depends on it, so it arrives at
\* once; a lost answer is one to a page that is gone.
Answer(c, outcome) ==
  /\ GateFree
  /\ calls' = calls \ {c}
  /\ IF c.heard /\ outcome # "refused"
     THEN /\ settled' = settled \union {c.key}
          /\ \/ /\ c.key \in {intents[i].key : i \in DOMAIN intents}
                /\ intents' = RestrictValues(intents, LAMBDA n : n.key # c.key)
                /\ stored' = intents'
             \/ UNCHANGED <<intents, stored>>
     ELSE UNCHANGED <<intents, stored, settled>>
  /\ UNCHANGED <<onboarded, pending, job, imports, page, today, keys>>

\* create_payment finds the key: the same collection is reported again, another
\* one refused.
Replay(c) ==
  \E p \in Ids(ledger.payments) :
    LET row == ledger.payments[p]
    IN /\ row.key = c.key
       /\ Answer(c, IF row.installment = c.installment /\ Fingerprint(row) = Fingerprint(c)
                    THEN "recorded" ELSE "conflict")
       /\ UNCHANGED ledger

Collect(c) ==
  LET l == AddPayment(ledger, c.installment, c.amount, c.date, c.key)
  IN /\ \A p \in Ids(ledger.payments) : ledger.payments[p].key # c.key
     /\ c.installment \in Ids(ledger.installments)
     /\ Paid(l, c.installment) <= ledger.installments[c.installment].amount
     /\ Bounded(l)
     /\ ledger' = Recalculated(l, {c.installment})
     /\ Answer(c, "recorded")

\* The installment is gone or paid, or the transaction failed.
Refuse(c) ==
  /\ Answer(c, "refused")
  /\ UNCHANGED ledger

-----------------------------------------------------------------------------
(* Import, its verification and the pages it passes through.               *)

\* The dialog asks for the file and leaves nothing else to use. What was sent
\* before is served before, since the gate is fair.  Only an import that replaces
\* waits for the snapshot lane first.
StartImport(b) ==
  /\ page \in {"working", "firstrun"}
  /\ job = {} /\ calls = {}
  /\ imports < MaxImport
  /\ imports' = imports + 1
  /\ job' = {[bundle |-> b, replace |-> page = "working", awaited |-> TRUE, holds |-> page = "firstrun"]}
  /\ page' = "importing"
  /\ UNCHANGED <<ledger, onboarded, pending, today, client>>

\* reserve_snapshot_then_maintenance: no backup is being made, and no request served.
HoldGate ==
  /\ \E j \in job : ~j.holds
  /\ job' = {[j EXCEPT !.holds = TRUE] : j \in job}
  /\ UNCHANGED <<ledger, onboarded, pending, imports, page, today, client>>

\* The recovery snapshot, the validation or the transaction failed.
ImportFails ==
  \E j \in job :
    /\ j.holds
    /\ job' = {}
    /\ page' = IF j.awaited THEN (IF j.replace THEN "working" ELSE "firstrun") ELSE page
    /\ UNCHANGED <<ledger, onboarded, pending, imports, today, client>>

ImportCommits ==
  \E j \in job :
    LET l == IF j.replace THEN j.bundle ELSE Merged(ledger, j.bundle)
    IN /\ j.holds
       /\ Valid(j.bundle)
       /\ j.replace \/ Mergeable(ledger, j.bundle)
       /\ ledger' = Recalculated(l, Ids(l.installments))
       /\ onboarded' = TRUE
       /\ pending' = {Summary(j.bundle)}
       /\ job' = {}
       /\ page' = IF ~j.awaited THEN page ELSE IF j.replace THEN "verifying" ELSE "verifyingFirst"
       /\ UNCHANGED <<imports, today, client>>

\* importVerificationError, and the transaction of acknowledge_import_verification
\* that checks again and alone counts.
Verified == onboarded /\ pending = {Summary(ledger)}

\* Mutant: a failed verification returns to the screen.
VerifyImportOpens ==
  /\ page \in {"verifying", "verifyingFirst"}
  /\ \/ Verified /\ pending' = {} /\ page' = IF page = "verifying" THEN "startup" ELSE "working"
     \/ UNCHANGED pending /\ page' = "working"
  /\ UNCHANGED <<ledger, onboarded, job, imports, today, client>>

\* Mutant: the screen opens while the verification is still pending.
VerifyImportUnlocks ==
  /\ page \in {"verifying", "verifyingFirst"}
  /\ \/ Verified /\ pending' = {}
     \/ UNCHANGED pending
  /\ page' = "working"
  /\ UNCHANGED <<ledger, onboarded, job, imports, today, client>>

\* Success reloads the page, or ends the first run; any failure blocks it.
VerifyImport ==
  /\ page \in {"verifying", "verifyingFirst"}
  /\ \/ /\ Verified
        /\ pending' = {}
        /\ page' = IF page = "verifying" THEN "startup" ELSE "working"
     \/ /\ page' = "blocked"
        /\ UNCHANGED pending
  /\ UNCHANGED <<ledger, onboarded, job, imports, today, client>>

\* initializeDataManagement: an import nobody verified is verified now, or the
\* business screen stays closed.
Startup ==
  /\ page = "startup" /\ GateFree
  /\ IF pending # {} /\ ~Verified
     THEN page' = "locked" /\ UNCHANGED pending
     ELSE /\ pending' = {}
          /\ page' = IF ledger = Empty /\ ~onboarded THEN "firstrun" ELSE "working"
  /\ UNCHANGED <<ledger, onboarded, job, imports, today, client>>

EmptyStart ==
  /\ page = "firstrun" /\ GateFree
  /\ onboarded' = TRUE
  /\ page' = "working"
  /\ UNCHANGED <<ledger, pending, job, imports, today, client>>

\* Mutant: the intents are kept in memory only.
ReloadForgets ==
  /\ ReloadAnytime \/ job = {}
  /\ page' = "startup"
  /\ job' = {} /\ calls' = {[c EXCEPT !.heard = FALSE] : c \in calls}
  /\ intents' = <<>>
  /\ UNCHANGED <<ledger, onboarded, pending, imports, today, stored, keys, settled>>

\* The requests of a page that is gone are served all the same.
Reload ==
  /\ ReloadAnytime \/ job = {}
  /\ page' = "startup"
  /\ job' = {[j EXCEPT !.awaited = FALSE] : j \in job}
  /\ calls' = {[c EXCEPT !.heard = FALSE] : c \in calls}
  /\ intents' = stored
  /\ UNCHANGED <<ledger, onboarded, pending, imports, today, stored, keys, settled>>

\* The application ends, and is started again.
Crash ==
  /\ page' = "startup"
  /\ job' = {} /\ calls' = {}
  /\ intents' = stored
  /\ UNCHANGED <<ledger, onboarded, pending, imports, today, stored, keys, settled>>

NewDay ==
  /\ today < MaxDay
  /\ today' = today + 1
  /\ UNCHANGED <<data, page, client>>

-----------------------------------------------------------------------------

Init ==
  /\ ledger = Empty /\ onboarded = FALSE /\ pending = {}
  /\ page = "startup"
  /\ job = {} /\ imports = 0 /\ today = 1
  /\ intents = <<>> /\ stored = <<>> /\ keys = 0 /\ calls = {} /\ settled = {}

CustomerRequest == \E c \in 1..MaxCustomer : CreateCustomer(c) \/ DeleteCustomer(c)

SaleRequest ==
  \/ \E c \in ledger.customers, o \in Orders, k \in SaleKey : CreateSale(c, o, k)
  \/ \E s \in Ids(ledger.sales) :
       DeleteSale(s) \/ \E c \in ledger.customers, m \in Money : UpdateSale(s, c, m)

InstallmentRequest ==
  \/ \E s \in Ids(ledger.sales), m \in Money, d \in {today, None} : CreateInstallment(s, m, d)
  \/ \E i \in Ids(ledger.installments) :
       \/ DeleteInstallment(i)
       \/ \E m \in Money, paid \in {"keep", "paid", "unpaid"} : UpdateInstallment(i, m, paid, today)

PaymentRequest ==
  \/ \E i \in Ids(ledger.installments), m \in Money : Submit(i, m)
  \/ \E c \in calls : Replay(c) \/ Collect(c) \/ Refuse(c)
  \/ \E p \in Ids(ledger.payments) :
       DeletePayment(p) \/ \E m \in Money, d \in Day : UpdatePayment(p, m, d)

Transfer ==
  \/ \E b \in Bundles : StartImport(b)
  \/ HoldGate \/ ImportFails \/ ImportCommits \/ VerifyImport

Window == Startup \/ EmptyStart \/ Reload \/ Crash

Next ==
  \/ CustomerRequest \/ SaleRequest \/ InstallmentRequest \/ PaymentRequest
  \/ Transfer \/ Window \/ NewDay

Spec == Init /\ [][Next]_vars

-----------------------------------------------------------------------------

LedgerTypeOK(l) ==
  /\ l.customers \subseteq 1..MaxCustomer
  /\ \A s \in Ids(l.sales) : l.sales[s].customer \in l.customers
  /\ \A i \in Ids(l.installments) :
       /\ l.installments[i].sale \in Ids(l.sales)
       /\ l.installments[i].paid_date \in Day \union {None}
  /\ \A p \in Ids(l.payments) : l.payments[p].installment \in Ids(l.installments)

\* The types, with the foreign keys of the tables.
LTypeOK ==
  /\ LedgerTypeOK(ledger)
  /\ \A x \in {pending, job} : Cardinality(x) <= 1
  /\ page \in {"startup", "firstrun", "working", "importing", "verifying",
                "verifyingFirst", "blocked", "locked"}
  /\ DOMAIN intents \union DOMAIN stored \subseteq 1..MaxInstallment
  /\ {intents[i].key : i \in DOMAIN intents} \union {c.key : c \in calls} \union settled
       \subseteq 1..keys

\* Whatever the requests and imports that led here, no amount, reference or request
\* key makes export_data refuse its own ledger: no installment is paid beyond its
\* amount, no key used twice.  A contact can: update_contact (api.rs:521-544) may
\* leave all four of its fields empty, which validate_bundle refuses (db.rs:904-906).
MoneyExportable == Valid(ledger)

\* paid_date says what the collections say, through corrections of any of them,
\* changed amounts and imports of stale flags.
PaidDateCurrent ==
  \A i \in Ids(ledger.installments) : ledger.installments[i].paid_date = PaidDate(ledger, i)

\* A collection whose answer was lost and that is submitted again as it was, on
\* the same day and with the same amount, is not entered twice, through reloads
\* and restarts: an installment has a second collection from the page only where
\* the page had an answer for the first or turned to another amount or day.
ReplayedOnce ==
  \A p, q \in Ids(ledger.payments) :
    LET first == ledger.payments[p]
        second == ledger.payments[q]
    IN /\ first.installment = second.installment
       /\ None < first.key /\ first.key < second.key
       => first.key \in settled

\* An import whose verification was interrupted never closes the business screen
\* for good.
StartupOpens == page # "locked"

\* Nothing is entered over an import that nobody verified.
VerifiedBeforeUse == page = "working" => pending = {}

=============================================================================
