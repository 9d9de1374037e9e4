----------------------------- MODULE RewardPool -----------------------------
(***************************************************************************)
(* What a pool promises to the holders of its notes, whichever program     *)
(* keeps it: rewards are collected one by one and handed out all together, *)
(* in proportion to the balance at that moment.  Epochs, the split of the  *)
(* balance into finalized and pending parts, and where rewards come from,  *)
(* are forgotten.  The token pool and the unified SOL pool implement it.   *)
(***************************************************************************)
EXTENDS Integers

CONSTANT PRECISION      \* of the accumulator

VARIABLES
    balance,            \* the principal that rewards are shared over
    collected,          \* rewards collected so far
    pending,            \* those not yet handed out
    distributed,        \* those handed out
    accumulator         \* handed out per unit of balance, times PRECISION

poolState == <<balance, collected, pending, distributed, accumulator>>

Init ==
    /\ balance = 0
    /\ collected = 0 /\ pending = 0 /\ distributed = 0
    /\ accumulator = 0

\* Deposits, withdrawals, funding, sweeps and harvests: the balance changes in
\* any way, rewards are only added.
Collect ==
    /\ collected' >= collected
    /\ pending' = pending + (collected' - collected)
    /\ balance' \in Int
    /\ UNCHANGED <<distributed, accumulator>>

\* A finalization hands out everything that is pending, over all of the
\* balance, and changes neither the balance nor what was collected.
Distribute ==
    /\ balance > 0 /\ pending > 0
    /\ accumulator' = accumulator + (pending * PRECISION) \div balance
    /\ distributed' = distributed + pending
    /\ pending' = 0
    /\ UNCHANGED <<balance, collected>>

Next == Collect \/ Distribute

Spec == Init /\ [][Next]_poolState
=============================================================================
