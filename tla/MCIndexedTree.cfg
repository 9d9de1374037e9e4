\* Insertions of four values in every order, some of them twice, with every low
\* leaf the circuits accept.
SPECIFICATION IndexedSpec
CONSTANTS
    Values = {1, 2, 3, 4}
    Capacity = 8
CHECK_DEADLOCK FALSE
INVARIANTS ChainsSorted NonMembershipInChain NonMembershipComplete
