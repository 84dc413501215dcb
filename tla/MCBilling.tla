------------------------------ MODULE MCBilling ------------------------------
(* Small instances of Billing for TLC: what there is to bill, and symmetry.  *)
EXTENDS Billing, TLC

CONSTANTS c1, c2

Bill(job, contract, point, period, customer) ==
    [job |-> job, contract |-> contract, point |-> point, period |-> period,
     customer |-> customer]

\* An ad-hoc repair of one customer.
OneRepair == {Bill(None, None, None, None, c1)}

\* Repairs of two customers, so that an advance can meet the wrong one.
TwoRepairs == OneRepair \cup {Bill(None, None, None, None, c2)}

\* A contract's August, billed with its instalment and with another one.  The index on
\* jobs is of the same form as the one on instalments.
Supplies == {Bill(None, "amc", 1, "august", c1), Bill(None, "amc", 2, "august", c1)}

Numbers(i, n, v) ==
    [s \in DocTypes |-> CASE s = "invoice" -> i [] s = "credit_note" -> n [] OTHER -> v]
TwoEach == Numbers(2, 2, 2)
TwoVouchers == Numbers(1, 1, 2)
TwoInvoices == Numbers(2, 1, 1)

Interchangeable ==
    Permutations(Workers) \cup Permutations(Invoices)
    \cup Permutations(Notes) \cup Permutations(Advances)

\* When every target exists for either customer, the customers are too.
InterchangeableCustomers == Interchangeable \cup Permutations(Customers)
=============================================================================
