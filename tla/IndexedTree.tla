---------------------------- MODULE IndexedTree ----------------------------
(***************************************************************************)
(* The indexed Merkle tree of the nullifier circuits, leaf by leaf: a      *)
(* sorted linked list in the leaves of a tree.  A step is one              *)
(* NullifierSingleInsert; nullifier-batch-4 chains four of them, so every  *)
(* root between two steps is one the circuit computes.  Hashing is         *)
(* injective: a Merkle path opens index i to leaf[i] and to nothing else.  *)
(***************************************************************************)
EXTENDS Integers, FiniteSets

CONSTANTS
    Values,         \* nullifier values, positive integers
    Capacity        \* number of leaves, 2^HEIGHT

ASSUME TreeAssumption ==
    /\ Values \subseteq Nat \ {0}
    /\ Capacity \in Nat \ {0}

VARIABLES
    leaf,           \* leaves by index
    next_index,     \* first index that has not been appended to
    inserted,       \* history: the values inserted so far
    chain           \* history: by index, where the list with this leaf starts

indexedVars == <<leaf, next_index, inserted, chain>>

Indices == 0..(Capacity - 1)

\* The positions that have been appended to, the genesis leaf included.
Used == 0..(next_index - 1)

\* IndexedLeaf::genesis; the leaf hash of an empty position,
\* INDEXED_ZERO_HASHES[0] and ZERO_HASHES[0], is the hash of the same triple.
EmptyLeaf == [value |-> 0, next_value |-> 0, next_index |-> 0]

\* IndexedMerkleTree::initialize: the genesis leaf is at index 0.
IndexedInit ==
    /\ leaf = [i \in Indices |-> EmptyLeaf]
    /\ next_index = 1
    /\ inserted = {}
    /\ chain = [i \in Indices |-> i]

\* Mutants: no upper bound; an upper bound that is not strict; no infinity.
OrderingCheck_NoUpper(low, v) == low.value < v
OrderingCheck_NotStrict(low, v) ==
    low.value < v /\ (v <= low.next_value \/ low.next_value = 0)
OrderingCheck_NoInfinity(low, v) == low.value < v /\ v < low.next_value

\* IndexedMerkleTreeOrderingCheck; a next_value of 0 stands for infinity.
OrderingCheck(low, v) ==
    /\ low.value < v
    /\ v < low.next_value \/ low.next_value = 0

\* NullifierSingleInsert: the low leaf, at any index the prover names, is updated
\* in place, then the new leaf, which takes over the low leaf's old pointers, is
\* appended at a position that is still empty after that update.
NullifierSingleInsert(v, low_index) ==
    LET low     == leaf[low_index]
        updated == [leaf EXCEPT ![low_index] =
                      [value |-> low.value, next_value |-> v, next_index |-> next_index]]
    IN  /\ next_index \in Indices
        /\ OrderingCheck(low, v)
        /\ updated[next_index] = EmptyLeaf
        /\ leaf' = [updated EXCEPT ![next_index] =
             [value |-> v, next_value |-> low.next_value, next_index |-> low.next_index]]
        /\ next_index' = next_index + 1
        /\ inserted' = inserted \cup {v}
        /\ chain' = [chain EXCEPT ![next_index] = chain[low_index]]

IndexedNext == \E v \in Values, i \in Indices : NullifierSingleInsert(v, i)

IndexedSpec == IndexedInit /\ [][IndexedNext]_indexedVars

\* IndexedMerkleTreeNonMembership has a satisfying witness for v.
NonMembershipAccepts(v) == \E i \in Indices : OrderingCheck(leaf[i], v)

\* The leaves appended to the list that leaf i belongs to.
Chain(i) == {k \in Used : chain[k] = chain[i]}
-----------------------------------------------------------------------------
\* The leaves form sorted linked lists, whichever low leaves the provers open:
\* a list starts at the genesis leaf or at an unused leaf that was opened as low
\* leaf, and each of its leaves points at the appended leaf of the same list
\* with the next larger value, the last one at infinity.
ChainsSorted ==
    \A i \in Indices :
        LET larger == {k \in Chain(i) : leaf[k].value > leaf[i].value}
        IN  IF larger = {}
            THEN leaf[i].next_value = 0
            ELSE /\ leaf[i].next_index \in larger
                 /\ leaf[i].next_value = leaf[leaf[i].next_index].value
                 /\ \A k \in larger : leaf[i].next_value <= leaf[k].value

\* What an accepted IndexedMerkleTreeNonMembership proves whatever leaf it
\* opens: the value is not in the list of that leaf.  An honest prover opens a
\* leaf of the genesis list; it proves no more than that list.
NonMembershipInChain ==
    \A v \in Values, i \in Indices :
        OrderingCheck(leaf[i], v) => \A k \in Chain(i) : leaf[k].value # v

\* Whoever has not spent a note can always prove it, with a leaf of the genesis
\* list, whatever low leaves other provers opened before.
NonMembershipComplete ==
    \A v \in Values \ inserted : \E i \in Chain(0) : OrderingCheck(leaf[i], v)

\* IndexedMerkleTreeNonMembership, "Proves a value is NOT in the indexed merkle
\* tree": a witness exists only for a value that was never inserted.
NonMembershipSound == \A v \in Values : NonMembershipAccepts(v) => v \notin inserted
=============================================================================
