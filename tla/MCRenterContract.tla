--------------------------- MODULE MCRenterContract ---------------------------
EXTENDS RenterContract

B(o, l, c, m, f) == [ops |-> o, losses |-> l, crashes |-> c, marks |-> m, faults |-> f]

MCPrice == [append |-> 2, replace |-> 1, read |-> 1, clear |-> 1]
MCBudgets == {B(3, 2, 0, 0, 0), B(3, 1, 1, 0, 0), B(2, 1, 0, 2, 1), B(2, 1, 2, 0, 0),
              B(3, 1, 0, 1, 0), B(3, 0, 1, 0, 1), B(2, 1, 1, 1, 1), B(4, 0, 0, 0, 0),
              B(3, 2, 1, 0, 0), B(3, 2, 0, 1, 1)}
===============================================================================
