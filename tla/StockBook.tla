------------------------------ MODULE StockBook ------------------------------
(***************************************************************************)
(* What the warehouse service promises: a stock book in which every        *)
(* operation is one atomic step on the rows it names and every change of a *)
(* quantity is entered in the ledger of movements.                         *)
(*                                                                         *)
(* The service keeps the promise only for a transaction whose rows nobody  *)
(* else committed since it read them.  Any other commit is a BlindWrite:   *)
(* it leaves arbitrary non-negative values in the rows it did not know,    *)
(* and "blind" names those rows until the next commit.                     *)
(***************************************************************************)
EXTENDS Integers

CONSTANTS Products, Warehouses, Amounts

Key == Products \X Warehouses

VARIABLES stock, ledger, blind

book == <<stock, ledger, blind>>

Free(k) == stock[k].quantity - stock[k].reserved

Enter(k, n) ==
    /\ stock' = [stock EXCEPT ![k].quantity = @ + n]
    /\ ledger' = [ledger EXCEPT ![k] = @ + n]
    /\ blind' = {}

Receive(k, n) == Enter(k, n)

\* Goods leave free stock; a reservation of that size is used up with them.
Ship(k, n) ==
    /\ Free(k) >= n
    /\ stock' = [stock EXCEPT ![k].quantity = @ - n,
                              ![k].reserved = IF @ >= n THEN @ - n ELSE @]
    /\ ledger' = [ledger EXCEPT ![k] = @ - n]
    /\ blind' = {}

Transfer(k, d, n) ==
    /\ k[1] = d[1] /\ k # d
    /\ Free(k) >= n
    /\ stock' = [stock EXCEPT ![k].quantity = @ - n, ![d].quantity = @ + n]
    /\ ledger' = [ledger EXCEPT ![k] = @ - n, ![d] = @ + n]
    /\ blind' = {}

Adjust(k, n) == Enter(k, n - stock[k].quantity)

Reserve(k, n) ==
    /\ Free(k) >= n
    /\ stock' = [stock EXCEPT ![k].reserved = @ + n]
    /\ blind' = {}
    /\ UNCHANGED ledger

Unreserve(k, n) ==
    /\ stock' = [stock EXCEPT ![k].reserved = IF @ < n THEN 0 ELSE @ - n]
    /\ blind' = {}
    /\ UNCHANGED ledger

BlindWrite(touched, unknown) ==
    /\ unknown # {} /\ unknown \subseteq touched
    /\ blind' = unknown
    /\ \A k \in Key \ touched : stock'[k] = stock[k] /\ ledger'[k] = ledger[k]
    /\ \A k \in touched : stock'[k].quantity >= 0 /\ stock'[k].reserved >= 0
    /\ \A k \in touched \ unknown :
         stock'[k].quantity - stock[k].quantity = ledger'[k] - ledger[k]

Init ==
    /\ \A k \in Key : /\ stock[k].quantity >= stock[k].reserved
                      /\ stock[k].reserved >= 0
                      /\ ledger[k] = stock[k].quantity
    /\ blind = {}

Next ==
    \/ \E k \in Key, n \in Amounts :
         \/ Receive(k, n) \/ Ship(k, n) \/ Reserve(k, n) \/ Unreserve(k, n)
         \/ \E d \in Key : Transfer(k, d, n)
    \/ \E k \in Key, n \in Amounts \cup {0} : Adjust(k, n)
    \/ \E touched, unknown \in SUBSET Key : BlindWrite(touched, unknown)

Spec == Init /\ [][Next]_book

=============================================================================
