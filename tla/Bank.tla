-------------------------------- MODULE Bank --------------------------------
(***************************************************************************)
(* What TransferBalance (go-practice4/main.go) promises to whoever looks   *)
(* at the table: an amount leaves one row and reaches another in one step, *)
(* and only where there is enough of it.                                   *)
(***************************************************************************)
EXTENDS Naturals

CONSTANTS Accounts, Amounts

VARIABLE balance

\* Money is counted in halves of a cent, the least amount that NUMERIC(12,2)
\* has to round: a column holds whole cents, and half a cent is rounded up.
Round(x) == 2 * ((x + 1) \div 2)

Init ==
    /\ balance \in [Accounts -> Nat]
    /\ \A a \in Accounts : Round(balance[a]) = balance[a]

Move(from, to, amount) ==
    /\ from # to /\ amount > 0
    /\ balance[from] >= amount
    /\ balance' = [balance EXCEPT ![from] = Round(@ - amount), ![to] = Round(@ + amount)]

Next == \E from, to \in Accounts, amount \in Amounts : Move(from, to, amount)

Spec == Init /\ [][Next]_balance
=============================================================================
