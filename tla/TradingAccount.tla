--------------------------- MODULE TradingAccount ---------------------------
(***************************************************************************)
(* What the paper-trading engine promises about money and positions: cash  *)
(* and lots move together.  A lot is bought within the balance, a lot is   *)
(* given up only against a sale, and nothing else touches either.          *)
(***************************************************************************)
EXTENDS Integers

CONSTANT Capitals  \* what the account may be opened with

VARIABLES cash, lots

Init == cash \in Capitals /\ lots = {}

\* One lot more, paid for out of the balance.
Buy ==
  /\ cash' \in Nat
  /\ cash' < cash
  /\ \E lot \in lots' \ lots : lots' = lots \union {lot}

\* At most one lot less, and the proceeds of a sale.
Sell ==
  /\ cash' \in Nat
  /\ cash' > cash
  /\ lots' \subseteq lots
  /\ \A x, y \in lots \ lots' : x = y

\* The account is opened anew; its lots stay.
Reopen == cash' \in Capitals /\ UNCHANGED lots

Next == Buy \/ Sell \/ Reopen

Spec == Init /\ [][Next]_<<cash, lots>>
=============================================================================
