-------------------------- MODULE NullifierSpends --------------------------
(***************************************************************************)
(* What the nullifier machinery of the shielded pool promises to the rest  *)
(* of the program, with every account, index and epoch forgotten: each     *)
(* transaction consumes a group of nullifiers none of which was ever       *)
(* consumed before.                                                        *)
(***************************************************************************)
EXTENDS Naturals, FiniteSets

CONSTANTS
    Nullifiers,     \* the nullifier values that notes can have
    N_INS           \* the number of nullifiers a transaction consumes

VARIABLE spends     \* how many transactions have consumed each nullifier

Init == spends = [n \in Nullifiers |-> 0]

\* Mutant: a nullifier that was consumed before is not refused.
Spend_Again(S) == spends' = [n \in Nullifiers |-> IF n \in S THEN 1 ELSE spends[n]]

\* One transaction consumes the nullifiers of the group S, all of them fresh.
Spend(S) ==
    /\ \A n \in S : spends[n] = 0
    /\ spends' = [n \in Nullifiers |-> IF n \in S THEN 1 ELSE spends[n]]

Next == \E S \in SUBSET Nullifiers : Spend(S)

Spec == Init /\ [][Next]_spends
=============================================================================
