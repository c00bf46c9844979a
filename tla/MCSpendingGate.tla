--------------------------- MODULE MCSpendingGate ---------------------------
EXTENDS SpendingGate, TLC

CONSTANTS vendor, acme, bank

MCTrait == [t \in Transactions |-> [d \in Dimensions |-> IF t = 1 THEN acme ELSE bank]]
MCAmount == <<1, 2>>

Limits(budget, most) ==
  [daily_budget |-> budget, per_tx_limit |-> 2, max_transactions_per_day |-> most,
   require_identity_check_above_amount |-> 1,
   require_approval_above_threshold |-> FALSE, escalation_threshold |-> 0,
   blocked |-> [d \in Dimensions |-> {}], allowed |-> [d \in Dimensions |-> {}]]

\* One limits the money that is spent in a day, the other the number of
\* transactions.  Neither has lists of vendors, which decide without the day.
MCPolicies ==
  {[Limits(2, Unlimited) EXCEPT !.require_approval_above_threshold = TRUE,
                                !.escalation_threshold = 2],
   Limits(Unlimited, 2)}

\* The sessions are interchangeable.
SessionSymmetry == Permutations(Sessions)
=============================================================================
