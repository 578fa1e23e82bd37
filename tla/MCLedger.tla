------------------------------ MODULE MCLedger ------------------------------
EXTENDS Ledger

Row(amount, paidOn) == [amount |-> amount, paidOn |-> paidOn]

\* In cash; two even rows after a down payment; one row with its amount, collected.
MCOrders ==
  {[total |-> 2, down |-> NoMoney, rows |-> <<>>],
   [total |-> 2, down |-> 0, rows |-> <<Row(NoMoney, None), Row(NoMoney, None)>>],
   [total |-> 2, down |-> NoMoney, rows |-> <<Row(2, 1)>>]}

Bundle(amount, paid) ==
  [customers |-> {1},
   sales |-> <<[customer |-> 1, amount |-> 2, key |-> None]>>,
   installments |-> <<[sale |-> 1, amount |-> amount, paid_date |-> 1]>>,
   payments |-> <<[installment |-> 1, amount |-> paid, date |-> 1, key |-> None]>>]

\* One with a stale paid flag, one that is overpaid.
MCBundles == {Bundle(2, 1), Bundle(1, 2)}
=============================================================================
