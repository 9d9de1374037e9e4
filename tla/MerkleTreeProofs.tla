------------------------- MODULE MerkleTreeProofs -------------------------
(***************************************************************************)
(* The hub's Merkle trees.  The indexed tree, for every capacity, every    *)
(* set of nullifier values and every choice of low leaves by the provers:  *)
(* the leaves form sorted lists, an accepted non-membership proof speaks   *)
(* of the list it opens, and the genesis list proves every value absent    *)
(* that was not inserted.  The commitment and the receipt tree, for every  *)
(* height, number of outputs and size of the ring: what append computes    *)
(* from one saved subtree per level is the tree over the announced leaves. *)
(*                                                                         *)
(* The recursive definitions of CommitmentTree are functions on levels, so *)
(* what they compute is proved by taking the least level at which a claim  *)
(* fails.                                                                  *)
(***************************************************************************)
EXTENDS IndexedTree, CommitmentTree, Arithmetic, SequenceTheorems

\* The leaves, and where they end.
TreeType ==
    /\ leaf \in [Indices -> [value : Nat, next_value : Nat, next_index : Nat]]
    /\ next_index \in 1..Capacity
    /\ inserted \subseteq Values
    /\ chain \in [Indices -> Indices]

\* The appended leaves hold values that were inserted; every other leaf has the
\* value 0 and starts a list of its own.
LeavesHoldValues ==
    /\ leaf[0].value = 0 /\ chain[0] = 0
    /\ \A i \in Used \ {0} : leaf[i].value \in inserted
    /\ \A i \in Indices \ Used : leaf[i].value = 0 /\ chain[i] = i

\* A list starts at the genesis leaf or at an opened leaf that is not empty any
\* more, so nothing will be appended there.
ChainsStart ==
    \A k \in Used : \/ chain[k] = 0
                    \/ chain[k] \notin Used /\ leaf[chain[k]].next_value # 0

\* The pointers of a leaf are those of a larger leaf of its list, or infinity.
PointersLead ==
    \A i \in Indices : leaf[i].next_value # 0 =>
        /\ leaf[i].next_index \in Chain(i)
        /\ leaf[i].value < leaf[i].next_value
        /\ leaf[leaf[i].next_index].value = leaf[i].next_value

\* No leaf of a list has a value in the gap of another ...
GapsEmpty ==
    \A i \in Indices : \A k \in Chain(i) :
        \/ leaf[k].value <= leaf[i].value
        \/ leaf[i].next_value # 0 /\ leaf[i].next_value <= leaf[k].value

\* ... nor the value of another.
ValuesDiffer ==
    \A i \in Indices : \A k \in Chain(i) : leaf[k].value = leaf[i].value => i = k

\* The inductive invariant.  ChainsSorted and the two non-membership properties
\* follow from it; none of them is inductive alone, because an insertion at one
\* leaf keeps the other leaves of its list sorted only if no other gap of that
\* list has the new value, and the lists stay apart only because no append takes
\* the position where a list starts.
ListInv ==
    /\ TreeType /\ LeavesHoldValues /\ ChainsStart
    /\ PointersLead /\ GapsEmpty /\ ValuesDiffer /\ NonMembershipComplete

\* The tree after initialize: one leaf whose gap is everything.
LEMMA InitList == IndexedInit => ListInv
  <1> SUFFICES ASSUME IndexedInit PROVE ListInv
    OBVIOUS
  <1>1. 0 \in Indices /\ Used = {0}
    BY TreeAssumption DEF IndexedInit, Indices, Used
  <1>2. TreeType
    BY <1>1, TreeAssumption DEF IndexedInit, TreeType, EmptyLeaf
  <1>3. \A i \in Indices : leaf[i].value = 0 /\ leaf[i].next_value = 0 /\ chain[i] = i
    BY DEF IndexedInit, EmptyLeaf
  <1>4. \A i \in Indices : Chain(i) = IF i = 0 THEN {0} ELSE {}
    BY <1>1, <1>3 DEF Chain
  <1>5. LeavesHoldValues /\ ChainsStart
    BY <1>1, <1>3 DEF LeavesHoldValues, ChainsStart
  <1>6. PointersLead /\ GapsEmpty /\ ValuesDiffer
    BY <1>1, <1>3, <1>4 DEF PointersLead, GapsEmpty, ValuesDiffer
  <1>7. NonMembershipComplete
    BY <1>1, <1>3, <1>4, TreeAssumption DEF NonMembershipComplete, OrderingCheck
  <1>8. QED
    BY <1>2, <1>5, <1>6, <1>7 DEF ListInv

\* The types of what an ordering check reads, and that only appended leaves have
\* a value other than 0.
LEMMA LeafFacts ==
    ASSUME ListInv, NEW i \in Indices
    PROVE  /\ leaf[i].value \in Nat /\ leaf[i].next_value \in Nat /\ leaf[i].next_index \in Nat
           /\ chain[i] \in Indices
           /\ leaf[i].value # 0 => i \in Used
           /\ i \notin Used => leaf[i].value = 0 /\ chain[i] = i
           /\ Used \subseteq Indices /\ 0 \in Used
  <1>1. leaf[i] \in [value : Nat, next_value : Nat, next_index : Nat] /\ chain[i] \in Indices
    BY DEF ListInv, TreeType
  <1>2. Used \subseteq Indices /\ 0 \in Used
    BY TreeAssumption DEF ListInv, TreeType, Used, Indices
  <1>3. QED
    BY <1>1, <1>2 DEF ListInv, LeavesHoldValues

\* The gap that takes a value is the gap of one leaf of a list only.
LEMMA OneGap ==
    ASSUME ListInv, NEW v \in Values, NEW i \in Indices, NEW j \in Indices,
           chain[i] = chain[j], OrderingCheck(leaf[i], v), OrderingCheck(leaf[j], v)
    PROVE  i = j
  <1>1. v \in Nat
    BY TreeAssumption
  <1>2. ASSUME NEW a \in Indices, NEW b \in Indices, chain[a] = chain[b],
               OrderingCheck(leaf[a], v), OrderingCheck(leaf[b], v)
        PROVE  ~(leaf[a].value < leaf[b].value)
    <2> SUFFICES ASSUME leaf[a].value < leaf[b].value PROVE FALSE
      OBVIOUS
    <2>1. b \in Chain(a)
      BY <1>2, LeafFacts DEF Chain
    <2>2. leaf[a].next_value # 0 /\ leaf[a].next_value <= leaf[b].value
      BY <2>1, LeafFacts DEF ListInv, GapsEmpty
    <2>3. QED
      BY <1>1, <1>2, <2>2, LeafFacts DEF OrderingCheck
  <1>3. leaf[i].value = leaf[j].value
    BY <1>2, LeafFacts
  <1>4. CASE i \in Used
    BY <1>3, <1>4 DEF ListInv, ValuesDiffer, Chain
  <1>5. CASE j \in Used
    BY <1>3, <1>5 DEF ListInv, ValuesDiffer, Chain
  <1>6. CASE i \notin Used /\ j \notin Used
    BY <1>6, LeafFacts
  <1>7. QED
    BY <1>4, <1>5, <1>6

\* A value that lies in the gap of a leaf is not in the list of that leaf: the
\* ordering check refuses a second insertion into one list.
LEMMA GapIsNew ==
    ASSUME ListInv, NEW v \in Values, NEW i \in Indices, OrderingCheck(leaf[i], v),
           NEW k \in Chain(i)
    PROVE  leaf[k].value # v
  <1>1. k \in Indices /\ v \in Nat
    BY LeafFacts, TreeAssumption DEF Chain
  <1>2. QED
    BY <1>1, LeafFacts DEF ListInv, GapsEmpty, OrderingCheck

\* NullifierSingleInsert splits the gap of the low leaf in two and adds the new
\* leaf to the list of the low leaf, whatever leaf that is.
LEMMA InsertList ==
    ASSUME ListInv, NEW v \in Values, NEW l \in Indices, NullifierSingleInsert(v, l)
    PROVE  ListInv'
  <1> DEFINE low == leaf[l]
  <1>0. PICK n : n = next_index
    OBVIOUS
  <1> DEFINE Leaves == [value : Nat, next_value : Nat, next_index : Nat]
  <1> DEFINE updated == [leaf EXCEPT ![l] =
                           [value |-> low.value, next_value |-> v, next_index |-> n]]
  <1> DEFINE new == [value |-> v, next_value |-> low.next_value,
                     next_index |-> low.next_index]
  <1>1. /\ n \in Nat \ {0} /\ n \in Indices /\ n \notin Used
        /\ v \in Nat \ {0} /\ low.value \in Nat /\ low.next_value \in Nat /\ low.next_index \in Nat
        /\ Used \subseteq Indices /\ 0 \in Used
    BY <1>0, LeafFacts, TreeAssumption DEF ListInv, TreeType, Used, NullifierSingleInsert
  <1>2. /\ OrderingCheck(low, v) /\ updated[n] = EmptyLeaf
        /\ leaf' = [updated EXCEPT ![n] = new]
        /\ next_index' = n + 1
        /\ inserted' = inserted \cup {v}
        /\ chain' = [chain EXCEPT ![n] = chain[l]]
    BY <1>0 DEF NullifierSingleInsert
  <1>3. updated \in [Indices -> Leaves] /\ leaf \in [Indices -> Leaves] /\ new \in Leaves
    BY <1>1 DEF ListInv, TreeType
  <1>4. l # n /\ leaf[n].next_value = 0
    <2>1. l # n
      BY <1>1, <1>2, <1>3 DEF EmptyLeaf
    <2>2. QED
      BY <1>1, <1>2, <1>3, <2>1 DEF EmptyLeaf
  <1>5. /\ leaf'[l] = [value |-> low.value, next_value |-> v, next_index |-> n]
        /\ leaf'[n] = new
        /\ \A i \in Indices \ {l, n} : leaf'[i] = leaf[i]
        /\ leaf' \in [Indices -> Leaves]
    BY <1>1, <1>2, <1>3, <1>4
  <1>6. /\ \A i \in Indices \ {n} : chain'[i] = chain[i]
        /\ chain'[n] = chain[l]
        /\ chain' \in [Indices -> Indices]
    BY <1>1, <1>2 DEF ListInv, TreeType
  <1>7. Used' = Used \cup {n}
    BY <1>0, <1>1, <1>2 DEF Used
  <1>8. \A i \in Indices \ {n} : leaf'[i].value = leaf[i].value
    BY <1>5
  <1>9. \A i \in Indices \ {n} : chain[i] # n
    <2>1. \A i \in Used : chain[i] # n
      BY <1>1, <1>4 DEF ListInv, ChainsStart
    <2>2. QED
      BY <2>1, LeafFacts
  <1>10. /\ \A i \in Indices \ {n} : \A k \in Chain(i)' :
               k \in Chain(i) \/ (k = n /\ chain[i] = chain[l])
         /\ \A k \in Chain(n)' : k \in Chain(l) \/ k = n
         /\ \A i \in Indices \ {n} : Chain(i) \subseteq Chain(i)'
         /\ Chain(l) \subseteq Chain(n)'
         /\ n \in Chain(n)' /\ n \in Chain(l)'
    BY <1>1, <1>4, <1>6, <1>7, <1>9 DEF Chain
  <1>11. \A i \in Indices : \A k \in Chain(i) : k \in Indices \ {n}
    BY <1>1 DEF Chain
  <1>12. TreeType'
    <2>1. next_index' \in 1..Capacity
      BY <1>1, <1>2, TreeAssumption DEF Indices
    <2>2. QED
      BY <1>2, <1>5, <1>6, <2>1 DEF ListInv, TreeType
  <1>13. LeavesHoldValues'
    <2>1. leaf'[0].value = 0 /\ chain'[0] = 0
      BY <1>1, <1>6, <1>8 DEF ListInv, LeavesHoldValues
    <2>2. \A i \in Used' \ {0} : leaf'[i].value \in inserted'
      BY <1>1, <1>2, <1>5, <1>7, <1>8 DEF ListInv, LeavesHoldValues
    <2>3. \A i \in Indices \ Used' : leaf'[i].value = 0 /\ chain'[i] = i
      BY <1>6, <1>7, <1>8 DEF ListInv, LeavesHoldValues
    <2>4. QED
      BY <2>1, <2>2, <2>3 DEF LeavesHoldValues, Indices
  <1>14. ChainsStart'
    <2>1. \A c \in Indices \ {n} : leaf[c].next_value # 0 => leaf'[c].next_value # 0
      BY <1>1, <1>5
    <2>2. ASSUME NEW k \in Used
          PROVE  chain[k] = 0 \/ (chain[k] \notin Used' /\ leaf'[chain[k]].next_value # 0)
      <3>1. chain[k] \in Indices \ {n}
        BY <1>1, <1>9, LeafFacts
      <3>2. QED
        BY <1>7, <2>1, <3>1 DEF ListInv, ChainsStart
    <2>3. l \notin Used => l \notin Used' /\ leaf'[l].next_value # 0 /\ chain[l] = l
      <3>1. leaf'[l].next_value = v
        BY <1>5
      <3>2. l \notin Used => chain[l] = l
        BY LeafFacts
      <3>3. QED
        BY <1>1, <1>4, <1>7, <3>1, <3>2
    <2>4. QED
      BY <1>1, <1>6, <1>7, <2>2, <2>3 DEF ChainsStart
  <1>15. PointersLead'
    <2> SUFFICES ASSUME NEW i \in Indices, leaf'[i].next_value # 0
                 PROVE  /\ leaf'[i].next_index \in Chain(i)'
                        /\ leaf'[i].value < leaf'[i].next_value
                        /\ leaf'[leaf'[i].next_index].value = leaf'[i].next_value
      BY DEF PointersLead, Indices
    <2>1. CASE i = l
      BY <1>1, <1>2, <1>5, <1>10, <2>1 DEF OrderingCheck
    <2>2. CASE i = n
      <3>1. low.next_value # 0
        BY <1>5, <2>2
      <3>2. low.next_index \in Chain(l) /\ leaf[low.next_index].value = low.next_value
        BY <3>1 DEF ListInv, PointersLead
      <3>3. v < low.next_value
        BY <1>2, <3>1 DEF OrderingCheck
      <3>4. QED
        BY <1>5, <1>8, <1>10, <1>11, <2>2, <3>2, <3>3
    <2>3. CASE i \in Indices \ {l, n}
      <3>1. leaf'[i] = leaf[i]
        BY <1>5, <2>3
      <3>2. leaf[i].next_index \in Chain(i) /\ leaf[i].value < leaf[i].next_value
            /\ leaf[leaf[i].next_index].value = leaf[i].next_value
        BY <3>1 DEF ListInv, PointersLead
      <3>3. QED
        BY <1>8, <1>10, <1>11, <2>3, <3>1, <3>2
    <2>4. QED
      BY <2>1, <2>2, <2>3
  <1>16. \A k \in Chain(l) :
             /\ leaf[k].value \in Nat /\ leaf'[k].value = leaf[k].value
             /\ \/ leaf[k].value <= low.value
                \/ low.next_value # 0 /\ low.next_value <= leaf[k].value
    BY <1>8, <1>11, LeafFacts DEF ListInv, GapsEmpty
  <1>17. GapsEmpty'
    <2> SUFFICES ASSUME NEW i \in Indices, NEW k \in Chain(i)'
                 PROVE  \/ leaf'[k].value <= leaf'[i].value
                        \/ leaf'[i].next_value # 0 /\ leaf'[i].next_value <= leaf'[k].value
      BY DEF GapsEmpty, Indices
    <2>1. CASE i \in {l, n}
      <3>1. k \in Chain(l) \/ k = n
        BY <1>4, <1>10, <2>1
      <3>2. CASE k = n
        BY <1>1, <1>2, <1>5, <2>1, <3>2 DEF OrderingCheck
      <3>3. CASE k \in Chain(l)
        <4>1. /\ leaf'[k].value = leaf[k].value /\ leaf[k].value \in Nat
              /\ \/ leaf[k].value <= low.value
                 \/ low.next_value # 0 /\ low.next_value <= leaf[k].value
          BY <1>16, <3>3
        <4>2. \/ leaf'[i].value = low.value /\ leaf'[i].next_value = v
              \/ leaf'[i].value = v /\ leaf'[i].next_value = low.next_value
          BY <1>5, <2>1
        <4>3. QED
          BY <1>1, <1>2, <4>1, <4>2 DEF OrderingCheck
      <3>4. QED
        BY <3>1, <3>2, <3>3
    <2>2. CASE i \in Indices \ {l, n}
      <3>1. leaf'[i] = leaf[i] /\ leaf[i].value \in Nat /\ leaf[i].next_value \in Nat
        BY <1>5, <2>2, LeafFacts
      <3>2. CASE k \in Chain(i)
        BY <1>8, <1>11, <3>1, <3>2 DEF ListInv, GapsEmpty
      <3>3. CASE k = n /\ chain[i] = chain[l]
        <4>1. ~OrderingCheck(leaf[i], v)
          BY <1>2, <2>2, <3>3, OneGap
        <4>2. QED
          BY <1>1, <1>5, <3>1, <3>3, <4>1 DEF OrderingCheck
      <3>4. QED
        BY <1>10, <2>2, <3>2, <3>3
    <2>3. QED
      BY <2>1, <2>2
  <1>18. ValuesDiffer'
    <2> SUFFICES ASSUME NEW i \in Indices, NEW k \in Chain(i)', leaf'[k].value = leaf'[i].value
                 PROVE  i = k
      BY DEF ValuesDiffer, Indices
    <2>1. CASE i = n
      <3>1. leaf'[i].value = v /\ (k \in Chain(l) \/ k = n)
        BY <1>5, <1>10, <2>1
      <3>2. QED
        <4>1. CASE k \in Chain(l)
          <5>1. leaf[k].value # v
            BY <1>2, <4>1, GapIsNew
          <5>2. QED
            BY <1>16, <3>1, <4>1, <5>1
        <4>2. QED
          BY <2>1, <3>1, <4>1
    <2>2. CASE i # n /\ k = n
      <3>1. leaf[i].value = v /\ chain[i] = chain[l]
        BY <1>5, <1>8, <1>10, <1>11, <2>2
      <3>2. i \in Chain(l)
        BY <1>1, <3>1, LeafFacts DEF Chain
      <3>3. QED
        BY <1>2, <3>1, <3>2, GapIsNew
    <2>3. CASE i # n /\ k # n
      <3>1. k \in Chain(i) /\ leaf[k].value = leaf[i].value
        BY <1>8, <1>10, <1>11, <2>3
      <3>2. QED
        BY <3>1 DEF ListInv, ValuesDiffer
    <2>4. QED
      BY <2>1, <2>2, <2>3
  <1>19. NonMembershipComplete'
    <2> SUFFICES ASSUME NEW w \in Values \ inserted'
                 PROVE  \E i \in Chain(0)' : OrderingCheck(leaf'[i], w)
      BY DEF NonMembershipComplete, OrderingCheck
    <2>1. w \in Values \ inserted /\ w # v /\ w \in Nat
      BY <1>2, TreeAssumption
    <2>2. PICK i \in Chain(0) : OrderingCheck(leaf[i], w)
      BY <2>1 DEF ListInv, NonMembershipComplete
    <2>3. i \in Chain(0)' /\ i \in Indices \ {n}
      BY <1>1, <1>10, <1>11, <2>2
    <2>4. CASE i # l
      <3>1. leaf'[i] = leaf[i]
        BY <1>5, <2>3, <2>4
      <3>2. QED
        BY <2>2, <2>3, <3>1
    <2>5. CASE i = l /\ w < v
      <3>1. OrderingCheck(leaf'[l], w)
        BY <1>1, <1>5, <2>1, <2>2, <2>5 DEF OrderingCheck
      <3>2. QED
        BY <2>3, <2>5, <3>1
    <2>6. CASE i = l /\ v < w
      <3>1. OrderingCheck(leaf'[n], w)
        BY <1>1, <1>5, <2>1, <2>2, <2>6 DEF OrderingCheck
      <3>2. n \in Chain(0)'
        BY <1>1, <1>6, <1>7, <2>2, <2>6 DEF Chain
      <3>3. QED
        BY <3>1, <3>2
    <2>7. QED
      BY <1>1, <2>1, <2>4, <2>5, <2>6
  <1>20. QED
    BY <1>12, <1>13, <1>14, <1>15, <1>17, <1>18, <1>19 DEF ListInv

\* ListInv holds at every reachable state, whatever leaves the provers open.
THEOREM ListInvariance == IndexedSpec => []ListInv
  <1>1. ListInv /\ [IndexedNext]_indexedVars => ListInv'
    <2> SUFFICES ASSUME ListInv, [IndexedNext]_indexedVars PROVE ListInv'
      OBVIOUS
    <2>1. CASE IndexedNext
      BY <2>1, InsertList DEF IndexedNext
    <2>2. CASE UNCHANGED indexedVars
      BY <2>2 DEF indexedVars, ListInv, TreeType, LeavesHoldValues, ChainsStart, PointersLead,
                  GapsEmpty, ValuesDiffer, NonMembershipComplete, Chain, Used, OrderingCheck
    <2>3. QED
      BY <2>1, <2>2
  <1>2. QED
    BY <1>1, InitList, PTL DEF IndexedSpec

\* The lists in the leaves are sorted: every leaf points at the leaf of its list
\* with the next larger value (NullifierSingleInsert, for any order of
\* insertions, any choice of low leaves and any tree).
THEOREM ChainsAreSorted == IndexedSpec => []ChainsSorted
  <1>1. ListInv => ChainsSorted
    <2> SUFFICES ASSUME ListInv, NEW i \in Indices
                 PROVE  LET larger == {k \in Chain(i) : leaf[k].value > leaf[i].value}
                        IN  IF larger = {}
                            THEN leaf[i].next_value = 0
                            ELSE /\ leaf[i].next_index \in larger
                                 /\ leaf[i].next_value = leaf[leaf[i].next_index].value
                                 /\ \A k \in larger : leaf[i].next_value <= leaf[k].value
      BY DEF ChainsSorted
    <2> DEFINE larger == {k \in Chain(i) : leaf[k].value > leaf[i].value}
    <2>1. /\ leaf[i].value \in Nat /\ leaf[i].next_value \in Nat
          /\ \A k \in Chain(i) : leaf[k].value \in Nat
      BY LeafFacts DEF Chain
    <2>2. leaf[i].next_value # 0 =>
              /\ leaf[i].next_index \in larger
              /\ leaf[i].next_value = leaf[leaf[i].next_index].value
      BY <2>1 DEF ListInv, PointersLead
    <2>3. \A k \in larger : leaf[i].next_value # 0 /\ leaf[i].next_value <= leaf[k].value
      BY <2>1 DEF ListInv, GapsEmpty
    <2>4. QED
      BY <2>2, <2>3
  <1>2. QED
    BY <1>1, ListInvariance, PTL

\* An accepted IndexedMerkleTreeNonMembership proves the value absent from the
\* list of the leaf it opens, whatever leaf that is.
THEOREM NonMembershipHoldsInChain == IndexedSpec => []NonMembershipInChain
  <1>1. ListInv => NonMembershipInChain
    BY GapIsNew DEF NonMembershipInChain
  <1>2. QED
    BY <1>1, ListInvariance, PTL

\* The owner of an unspent note always finds a low leaf in the genesis list,
\* whatever low leaves other provers opened before.
THEOREM NonMembershipIsComplete == IndexedSpec => []NonMembershipComplete
  <1>1. ListInv => NonMembershipComplete
    BY DEF ListInv
  <1>2. QED
    BY <1>1, ListInvariance, PTL

-----------------------------------------------------------------------------
\* No hash is the null root.
LEMMA NullIsNoHash ==
    ASSUME NEW l, NEW r PROVE Hash(l, r) # NullRoot
  BY DEF Hash, NullRoot

\* Equal hashes have equal children.
LEMMA HashInjective ==
    ASSUME NEW a, NEW b, NEW c, NEW d, Hash(a, b) = Hash(c, d)
    PROVE  a = c /\ b = d
  BY DEF Hash

\* The parent that append computes at level h.
Above(tree, height, h, hash) ==
    IF IsLeft(tree.next_index, height, h)
    THEN Hash(hash, ZeroBytes(height)[h]) ELSE Hash(tree.subtrees[h], hash)

\* The powers of two of MaxCapacity.
IsCapacity(f, n) == f = [h \in 0..n |-> IF h = 0 THEN 1 ELSE 2 * f[h - 1]]

\* Such a function exists: the least n that had none would extend that of n - 1.
LEMMA CapacityExists ==
    ASSUME NEW n \in Nat PROVE \E f : IsCapacity(f, n)
  <1> DEFINE Bad == {m \in Nat : ~\E f : IsCapacity(f, m)}
  <1>1. SUFFICES ASSUME Bad # {} PROVE FALSE
    OBVIOUS
  <1>2. PICK m \in Bad : \A k \in Bad : m <= k
    BY <1>1, LeastNat
  <1>3. CASE m = 0
    <2> DEFINE f == [h \in 0..m |-> 1]
    <2>1. IsCapacity(f, m)
      BY <1>3 DEF IsCapacity
    <2>2. QED
      BY <2>1
  <1>4. CASE m > 0
    <2>1. m - 1 \in Nat /\ m - 1 \notin Bad
      BY <1>2, <1>4
    <2>2. PICK g : IsCapacity(g, m - 1)
      BY <2>1
    <2> DEFINE f == [h \in 0..m |-> IF h = 0 THEN 1 ELSE 2 * g[h - 1]]
    <2>3. \A h \in 0..(m - 1) : f[h] = g[h]
      BY <2>1, <2>2 DEF IsCapacity
    <2>4. \A h \in 0..m : h # 0 => h - 1 \in 0..(m - 1)
      OBVIOUS
    <2>5. \A h \in 0..m : f[h] = IF h = 0 THEN 1 ELSE 2 * f[h - 1]
      BY <2>3, <2>4
    <2>6. IsCapacity(f, m)
      BY <2>5 DEF IsCapacity
    <2>7. QED
      BY <2>6
  <1>5. QED
    BY <1>3, <1>4

\* current_index, level by level.
IsIndex(f, x, n) == f = [h \in 0..n |-> IF h = 0 THEN x ELSE f[h - 1] \div 2]

\* Such a function exists: the least n that had none would extend that of n - 1.
LEMMA IndexExists ==
    ASSUME NEW x, NEW n \in Nat PROVE \E f : IsIndex(f, x, n)
  <1> DEFINE Bad == {m \in Nat : ~\E f : IsIndex(f, x, m)}
  <1>1. SUFFICES ASSUME Bad # {} PROVE FALSE
    OBVIOUS
  <1>2. PICK m \in Bad : \A k \in Bad : m <= k
    BY <1>1, LeastNat
  <1>3. CASE m = 0
    <2> DEFINE f == [h \in 0..m |-> x]
    <2>1. IsIndex(f, x, m)
      BY <1>3 DEF IsIndex
    <2>2. QED
      BY <2>1
  <1>4. CASE m > 0
    <2>1. m - 1 \in Nat /\ m - 1 \notin Bad
      BY <1>2, <1>4
    <2>2. PICK g : IsIndex(g, x, m - 1)
      BY <2>1
    <2> DEFINE f == [h \in 0..m |-> IF h = 0 THEN x ELSE g[h - 1] \div 2]
    <2>3. \A h \in 0..(m - 1) : f[h] = g[h]
      BY <2>1, <2>2 DEF IsIndex
    <2>4. \A h \in 0..m : h # 0 => h - 1 \in 0..(m - 1)
      OBVIOUS
    <2>5. \A h \in 0..m : f[h] = IF h = 0 THEN x ELSE f[h - 1] \div 2
      BY <2>3, <2>4
    <2>6. IsIndex(f, x, m)
      BY <2>5 DEF IsIndex
    <2>7. QED
      BY <2>6
  <1>5. QED
    BY <1>3, <1>4

\* The zero hashes.
IsZeros(f, n) == f = [h \in 0..n |-> IF h = 0 THEN Zero ELSE Hash(f[h - 1], f[h - 1])]

\* Such a function exists: the least n that had none would extend that of n - 1.
LEMMA ZerosExist ==
    ASSUME NEW n \in Nat PROVE \E f : IsZeros(f, n)
  <1> DEFINE Bad == {m \in Nat : ~\E f : IsZeros(f, m)}
  <1>1. SUFFICES ASSUME Bad # {} PROVE FALSE
    OBVIOUS
  <1>2. PICK m \in Bad : \A k \in Bad : m <= k
    BY <1>1, LeastNat
  <1>3. CASE m = 0
    <2> DEFINE f == [h \in 0..m |-> Zero]
    <2>1. IsZeros(f, m)
      BY <1>3 DEF IsZeros
    <2>2. QED
      BY <2>1
  <1>4. CASE m > 0
    <2>1. m - 1 \in Nat /\ m - 1 \notin Bad
      BY <1>2, <1>4
    <2>2. PICK g : IsZeros(g, m - 1)
      BY <2>1
    <2> DEFINE f == [h \in 0..m |-> IF h = 0 THEN Zero ELSE Hash(g[h - 1], g[h - 1])]
    <2>3. \A h \in 0..(m - 1) : f[h] = g[h]
      BY <2>1, <2>2 DEF IsZeros
    <2>4. \A h \in 0..m : h # 0 => h - 1 \in 0..(m - 1)
      OBVIOUS
    <2>5. \A h \in 0..m : f[h] = IF h = 0 THEN Zero ELSE Hash(f[h - 1], f[h - 1])
      BY <2>3, <2>4
    <2>6. IsZeros(f, m)
      BY <2>5 DEF IsZeros
    <2>7. QED
      BY <2>6
  <1>5. QED
    BY <1>3, <1>4

\* The nodes over leaves L.
IsNodes(f, L, n) == f = [h \in 0..n |-> IF h = 0 THEN L ELSE [i \in Nat |-> Hash(f[h - 1][2 * i], f[h - 1][2 * i + 1])]]

\* Such a function exists: the least n that had none would extend that of n - 1.
LEMMA NodesExist ==
    ASSUME NEW L, NEW n \in Nat PROVE \E f : IsNodes(f, L, n)
  <1> DEFINE Bad == {m \in Nat : ~\E f : IsNodes(f, L, m)}
  <1>1. SUFFICES ASSUME Bad # {} PROVE FALSE
    OBVIOUS
  <1>2. PICK m \in Bad : \A k \in Bad : m <= k
    BY <1>1, LeastNat
  <1>3. CASE m = 0
    <2> DEFINE f == [h \in 0..m |-> L]
    <2>1. IsNodes(f, L, m)
      BY <1>3 DEF IsNodes
    <2>2. QED
      BY <2>1
  <1>4. CASE m > 0
    <2>1. m - 1 \in Nat /\ m - 1 \notin Bad
      BY <1>2, <1>4
    <2>2. PICK g : IsNodes(g, L, m - 1)
      BY <2>1
    <2> DEFINE f == [h \in 0..m |-> IF h = 0 THEN L ELSE [i \in Nat |-> Hash(g[h - 1][2 * i], g[h - 1][2 * i + 1])]]
    <2>3. \A h \in 0..(m - 1) : f[h] = g[h]
      <3> SUFFICES ASSUME NEW h \in 0..(m - 1) PROVE f[h] = g[h]
        OBVIOUS
      <3> DEFINE up == IF h = 0 THEN L
                       ELSE [i \in Nat |-> Hash(g[h - 1][2 * i], g[h - 1][2 * i + 1])]
      <3>1. f[h] = up
        OBVIOUS
      <3>2. g[h] = up
        <4>1. g = [k \in 0..(m - 1) |-> IF k = 0 THEN L
                     ELSE [i \in Nat |-> Hash(g[k - 1][2 * i], g[k - 1][2 * i + 1])]]
          BY <2>2 DEF IsNodes
        <4>2. QED
          BY Zenon, <4>1
      <3>3. QED
        BY Zenon, <3>1, <3>2
    <2>4. \A h \in 0..m : h # 0 => h - 1 \in 0..(m - 1)
      OBVIOUS
    <2>5. \A h \in 0..m : f[h] = IF h = 0 THEN L ELSE [i \in Nat |-> Hash(f[h - 1][2 * i], f[h - 1][2 * i + 1])]
      BY <2>3, <2>4
    <2>6. IsNodes(f, L, m)
      BY <2>5 DEF IsNodes
    <2>7. QED
      BY <2>6
  <1>5. QED
    BY <1>3, <1>4

\* The path of append's loop.
IsPath(f, tree, item, height, n) == f = [h \in 0..n |-> IF h = 0 THEN item ELSE Above(tree, height, h - 1, f[h - 1])]

\* Such a function exists: the least n that had none would extend that of n - 1.
LEMMA PathExists ==
    ASSUME NEW tree, NEW item, NEW height, NEW n \in Nat PROVE \E f : IsPath(f, tree, item, height, n)
  <1> DEFINE Bad == {m \in Nat : ~\E f : IsPath(f, tree, item, height, m)}
  <1>1. SUFFICES ASSUME Bad # {} PROVE FALSE
    OBVIOUS
  <1>2. PICK m \in Bad : \A k \in Bad : m <= k
    BY <1>1, LeastNat
  <1>3. CASE m = 0
    <2> DEFINE f == [h \in 0..m |-> item]
    <2>1. IsPath(f, tree, item, height, m)
      BY <1>3 DEF IsPath
    <2>2. QED
      BY <2>1
  <1>4. CASE m > 0
    <2>1. m - 1 \in Nat /\ m - 1 \notin Bad
      BY <1>2, <1>4
    <2>2. PICK g : IsPath(g, tree, item, height, m - 1)
      BY <2>1
    <2> DEFINE f == [h \in 0..m |-> IF h = 0 THEN item ELSE Above(tree, height, h - 1, g[h - 1])]
    <2>3. \A h \in 0..(m - 1) : f[h] = g[h]
      BY <2>1, <2>2 DEF IsPath
    <2>4. \A h \in 0..m : h # 0 => h - 1 \in 0..(m - 1)
      OBVIOUS
    <2>5. \A h \in 0..m : f[h] = IF h = 0 THEN item ELSE Above(tree, height, h - 1, f[h - 1])
      BY <2>3, <2>4
    <2>6. IsPath(f, tree, item, height, m)
      BY <2>5 DEF IsPath
    <2>7. QED
      BY <2>6
  <1>5. QED
    BY <1>3, <1>4

\* The trees after each append of a transaction.
IsAfter(f, tree, outputs, n) == f = [h \in 0..n |-> IF h = 0 THEN tree ELSE AppendCommitment(f[h - 1], outputs[h])]

\* Such a function exists: the least n that had none would extend that of n - 1.
LEMMA AfterExists ==
    ASSUME NEW tree, NEW outputs, NEW n \in Nat PROVE \E f : IsAfter(f, tree, outputs, n)
  <1> DEFINE Bad == {m \in Nat : ~\E f : IsAfter(f, tree, outputs, m)}
  <1>1. SUFFICES ASSUME Bad # {} PROVE FALSE
    OBVIOUS
  <1>2. PICK m \in Bad : \A k \in Bad : m <= k
    BY <1>1, LeastNat
  <1>3. CASE m = 0
    <2> DEFINE f == [h \in 0..m |-> tree]
    <2>1. IsAfter(f, tree, outputs, m)
      BY <1>3 DEF IsAfter
    <2>2. QED
      BY <2>1
  <1>4. CASE m > 0
    <2>1. m - 1 \in Nat /\ m - 1 \notin Bad
      BY <1>2, <1>4
    <2>2. PICK g : IsAfter(g, tree, outputs, m - 1)
      BY <2>1
    <2> DEFINE f == [h \in 0..m |-> IF h = 0 THEN tree ELSE AppendCommitment(g[h - 1], outputs[h])]
    <2>3. \A h \in 0..(m - 1) : f[h] = g[h]
      BY <2>1, <2>2 DEF IsAfter
    <2>4. \A h \in 0..m : h # 0 => h - 1 \in 0..(m - 1)
      OBVIOUS
    <2>5. \A h \in 0..m : f[h] = IF h = 0 THEN tree ELSE AppendCommitment(f[h - 1], outputs[h])
      BY <2>3, <2>4
    <2>6. IsAfter(f, tree, outputs, m)
      BY <2>5 DEF IsAfter
    <2>7. QED
      BY <2>6
  <1>5. QED
    BY <1>3, <1>4

\* What the recursive definitions of the model compute.
LEMMA CapacityRec ==
    ASSUME NEW n \in Nat
    PROVE  \E f : /\ MaxCapacity(n) = f[n] /\ f[0] = 1
                  /\ \A h \in 0..(n - 1) : f[h + 1] = 2 * f[h]
  <1> DEFINE f == CHOOSE g : IsCapacity(g, n)
  <1>1. IsCapacity(f, n)
    BY CapacityExists
  <1>2. MaxCapacity(n) = f[n]
    BY DEF MaxCapacity, IsCapacity
  <1> HIDE DEF f
  <1>3. f[0] = 1 /\ \A h \in 0..(n - 1) : f[h + 1] = 2 * f[h]
    BY <1>1 DEF IsCapacity
  <1>4. QED
    BY <1>2, <1>3

\* append's current_index, level by level.
LEMMA IndexRec ==
    ASSUME NEW n \in Nat, NEW x
    PROVE  /\ CurrentIndex(x, n)[0] = x
           /\ \A h \in 0..(n - 1) : CurrentIndex(x, n)[h + 1] = CurrentIndex(x, n)[h] \div 2
  <1> DEFINE f == CHOOSE g : IsIndex(g, x, n)
  <1>1. IsIndex(f, x, n)
    BY IndexExists
  <1>2. CurrentIndex(x, n) = f
    BY DEF CurrentIndex, IsIndex
  <1> HIDE DEF f
  <1>3. f[0] = x /\ \A h \in 0..(n - 1) : f[h + 1] = f[h] \div 2
    BY <1>1 DEF IsIndex
  <1>4. QED
    BY <1>2, <1>3

\* zero_bytes, level by level.
LEMMA ZeroRec ==
    ASSUME NEW n \in Nat
    PROVE  /\ ZeroBytes(n)[0] = Zero
           /\ \A h \in 0..(n - 1) : ZeroBytes(n)[h + 1] = Hash(ZeroBytes(n)[h], ZeroBytes(n)[h])
  <1> DEFINE f == CHOOSE g : IsZeros(g, n)
  <1>1. IsZeros(f, n)
    BY ZerosExist
  <1>2. ZeroBytes(n) = f
    BY DEF ZeroBytes, IsZeros
  <1> HIDE DEF f
  <1>3. f[0] = Zero /\ \A h \in 0..(n - 1) : f[h + 1] = Hash(f[h], f[h])
    BY <1>1 DEF IsZeros
  <1>4. QED
    BY <1>2, <1>3

\* The nodes of a full tree, level by level.
LEMMA NodesRec ==
    ASSUME NEW n \in Nat, NEW L
    PROVE  /\ Nodes(L, n)[0] = L
           /\ \A h \in 0..(n - 1), i \in Nat : Nodes(L, n)[h + 1][i]
                 = Hash(Nodes(L, n)[h][2 * i], Nodes(L, n)[h][2 * i + 1])
  <1> DEFINE f == CHOOSE g : IsNodes(g, L, n)
  <1>1. IsNodes(f, L, n)
    BY NodesExist
  <1>2. Nodes(L, n) = f
    BY DEF Nodes, IsNodes
  <1> HIDE DEF f
  <1>3. /\ f[0] = L
        /\ \A h \in 0..(n - 1), i \in Nat : f[h + 1][i] = Hash(f[h][2 * i], f[h][2 * i + 1])
    <2>1. \A k \in 0..n : f[k] = IF k = 0 THEN L
             ELSE [i \in Nat |-> Hash(f[k - 1][2 * i], f[k - 1][2 * i + 1])]
      BY Zenon, <1>1 DEF IsNodes
    <2>2. 0 \in 0..n
      OBVIOUS
    <2>3. ASSUME NEW h \in 0..(n - 1), NEW i \in Nat
          PROVE  f[h + 1][i] = Hash(f[h][2 * i], f[h][2 * i + 1])
      <3>1. h + 1 \in 0..n /\ h + 1 # 0 /\ (h + 1) - 1 = h
        OBVIOUS
      <3>2. f[h + 1] = [j \in Nat |-> Hash(f[h][2 * j], f[h][2 * j + 1])]
        BY Zenon, <2>1, <3>1
      <3>3. QED
        BY <3>2
    <2>4. QED
      BY <2>1, <2>2, <2>3
  <1>4. QED
    BY <1>2, <1>3

\* The hashes that append computes, level by level.
LEMMA PathRec ==
    ASSUME NEW n \in Nat, NEW tree, NEW item
    PROVE  /\ PathHashes(tree, item, n)[0] = item
           /\ \A h \in 0..(n - 1) : PathHashes(tree, item, n)[h + 1]
                 = Above(tree, n, h, PathHashes(tree, item, n)[h])
  <1> DEFINE f == CHOOSE g : IsPath(g, tree, item, n, n)
  <1>1. IsPath(f, tree, item, n, n)
    BY PathExists
  <1>2. PathHashes(tree, item, n) = f
    BY DEF PathHashes, IsPath, Above
  <1> HIDE DEF f
  <1>3. f[0] = item /\ \A h \in 0..(n - 1) : f[h + 1] = Above(tree, n, h, f[h])
    BY <1>1 DEF IsPath
  <1>4. QED
    BY <1>2, <1>3

\* The trees between the outputs of a transaction.
LEMMA AfterRec ==
    ASSUME NEW tree, NEW outputs
    PROVE  \E f : /\ AppendCommitments(tree, outputs) = f[N_OUTS] /\ f[0] = tree
                  /\ \A i \in 0..(N_OUTS - 1) :
                        f[i + 1] = AppendCommitment(f[i], outputs[i + 1])
  <1> DEFINE f == CHOOSE g : IsAfter(g, tree, outputs, N_OUTS)
  <1>0. N_OUTS \in Nat
    BY CommitmentTreeAssumption
  <1>1. IsAfter(f, tree, outputs, N_OUTS)
    BY <1>0, AfterExists
  <1>2. AppendCommitments(tree, outputs) = f[N_OUTS]
    BY DEF AppendCommitments, IsAfter
  <1> HIDE DEF f
  <1>3. f[0] = tree /\ \A i \in 0..(N_OUTS - 1) : f[i + 1] = AppendCommitment(f[i], outputs[i + 1])
    BY <1>0, <1>1 DEF IsAfter
  <1>4. QED
    BY <1>2, <1>3

-----------------------------------------------------------------------------
\* Induction over the levels of a tree, for a set of levels.
LEMMA Levels ==
    ASSUME NEW n \in Nat, NEW G, 0 \in G, \A h \in 0..(n - 1) : h \in G => h + 1 \in G
    PROVE  \A h \in 0..n : h \in G
  <1> DEFINE Bad == {h \in 0..n : h \notin G}
  <1>1. SUFFICES ASSUME Bad # {} PROVE FALSE
    OBVIOUS
  <1>2. Bad \in SUBSET Nat
    OBVIOUS
  <1> HIDE DEF Bad
  <1>3. PICK m \in Bad : \A k \in Bad : m <= k
    BY <1>1, <1>2, LeastNat
  <1>4. m \in 0..n /\ m \notin G /\ m # 0
    BY DEF Bad
  <1>5. m - 1 \in 0..(n - 1) /\ m - 1 \notin Bad
    BY <1>2, <1>3, <1>4
  <1>6. m - 1 \in G
    BY <1>5 DEF Bad
  <1>7. (m - 1) + 1 \in G
    BY <1>5, <1>6
  <1>8. QED
    BY <1>4, <1>7

\* The indices of a leaf's ancestors; -1 stands for no leaf ...
LEMMA IndexType ==
    ASSUME NEW n \in Nat, NEW x \in Int, x >= -1
    PROVE  \A h \in 0..n : /\ CurrentIndex(x, n)[h] \in Int /\ CurrentIndex(x, n)[h] >= -1
                           /\ x >= 0 => CurrentIndex(x, n)[h] >= 0
  <1> DEFINE f == CurrentIndex(x, n)
             G == {h \in 0..n : f[h] \in Int /\ f[h] >= -1 /\ (x >= 0 => f[h] >= 0)}
  <1>1. f[0] = x /\ \A h \in 0..(n - 1) : f[h + 1] = f[h] \div 2
    BY IndexRec
  <1> HIDE DEF f
  <1>2. 0 \in G
    BY <1>1
  <1>3. ASSUME NEW h \in 0..(n - 1), h \in G PROVE h + 1 \in G
    <2>1. h + 1 \in 0..n /\ f[h + 1] = f[h] \div 2 /\ f[h] \in Int /\ f[h] >= -1
          /\ (x >= 0 => f[h] >= 0)
      BY <1>1, <1>3
    <2>2. QED
      BY <2>1
  <1> HIDE DEF G
  <1>4. \A h \in 0..n : h \in G
    BY <1>2, <1>3, Levels
  <1>5. QED
    BY <1>4 DEF G, f

\* ... natural numbers if the leaf has an index ...
LEMMA IndexNat ==
    ASSUME NEW n \in Nat, NEW x \in Nat
    PROVE  \A h \in 0..n : CurrentIndex(x, n)[h] \in Nat
  <1>1. x \in Int /\ x >= -1 /\ x >= 0
    OBVIOUS
  <1>2. QED
    BY <1>1, IndexType

\* ... and 0 at the root of a tree that has room for the leaf.
LEMMA IndexInRoom ==
    ASSUME NEW n \in Nat, NEW x \in Nat, x < MaxCapacity(n)
    PROVE  CurrentIndex(x, n)[n] = 0
  <1> DEFINE f == CurrentIndex(x, n)
  <1>0. PICK c : /\ MaxCapacity(n) = c[n] /\ c[0] = 1
                 /\ \A h \in 0..(n - 1) : c[h + 1] = 2 * c[h]
    BY CapacityRec
  <1> DEFINE C == {h \in 0..n : c[h] \in Nat}
             G == {h \in 0..n : f[h] < c[n - h]}
  <1>1. f[0] = x /\ \A h \in 0..(n - 1) : f[h + 1] = f[h] \div 2
    BY IndexRec
  <1>2. \A h \in 0..n : f[h] \in Nat
    BY IndexNat
  <1> HIDE DEF f
  <1>3. \A h \in 0..n : h \in C
    <2>1. 0 \in C /\ \A h \in 0..(n - 1) : h \in C => h + 1 \in C
      BY <1>0
    <2> HIDE DEF C
    <2>2. QED
      BY <2>1, Levels
  <1>4. 0 \in G
    BY <1>0, <1>1
  <1>5. ASSUME NEW h \in 0..(n - 1), h \in G PROVE h + 1 \in G
    <2> DEFINE k == n - (h + 1)
    <2>1. k \in 0..(n - 1) /\ k + 1 = n - h /\ h + 1 \in 0..n /\ h \in 0..n /\ k \in 0..n
      OBVIOUS
    <2>2. c[k + 1] = 2 * c[k] /\ c[k] \in Nat
      BY <1>0, <1>3, <2>1
    <2>3. f[h] \in Nat /\ f[h + 1] = f[h] \div 2 /\ f[h] < c[n - h]
      BY <1>1, <1>2, <1>5, <2>1
    <2>4. f[h] < 2 * c[k]
      BY <2>1, <2>2, <2>3
    <2> DEFINE u == f[h]
               v == c[k]
    <2>5. u \in Nat /\ v \in Nat /\ u < 2 * v
      BY <2>2, <2>3, <2>4
    <2> HIDE DEF u, v
    <2>6. u \div 2 < v
      BY <2>5
    <2>7. f[h + 1] < c[k]
      BY <2>3, <2>6 DEF u, v
    <2>8. QED
      BY <2>1, <2>7
  <1> HIDE DEF G
  <1>6. n \in G
    <2>1. \A h \in 0..n : h \in G
      BY <1>4, <1>5, Levels
    <2>2. QED
      BY <2>1
  <1>7. f[n] < c[n - n] /\ f[n] \in Nat /\ n - n = 0
    BY <1>2, <1>6 DEF G
  <1>8. QED
    BY <1>0, <1>7 DEF f

\* The next leaf has the same ancestor at a level, or the one after it.
LEMMA IndexNext ==
    ASSUME NEW n \in Nat, NEW x \in Nat
    PROVE  \A h \in 0..n : \/ CurrentIndex(x + 1, n)[h] = CurrentIndex(x, n)[h]
                           \/ CurrentIndex(x + 1, n)[h] = CurrentIndex(x, n)[h] + 1
  <1> DEFINE f == CurrentIndex(x, n)
             g == CurrentIndex(x + 1, n)
             G == {h \in 0..n : g[h] = f[h] \/ g[h] = f[h] + 1}
  <1>1. f[0] = x /\ \A h \in 0..(n - 1) : f[h + 1] = f[h] \div 2
    BY IndexRec
  <1>2. g[0] = x + 1 /\ \A h \in 0..(n - 1) : g[h + 1] = g[h] \div 2
    BY IndexRec
  <1>3. \A h \in 0..n : f[h] \in Nat
    BY IndexNat
  <1> HIDE DEF f, g
  <1>4. 0 \in G
    BY <1>1, <1>2
  <1>5. ASSUME NEW h \in 0..(n - 1), h \in G PROVE h + 1 \in G
    <2>1. /\ h + 1 \in 0..n /\ h \in 0..n /\ f[h] \in Nat
          /\ f[h + 1] = f[h] \div 2 /\ g[h + 1] = g[h] \div 2
          /\ g[h] = f[h] \/ g[h] = f[h] + 1
      BY <1>1, <1>2, <1>3, <1>5
    <2>2. g[h + 1] = f[h + 1] \/ g[h + 1] = f[h + 1] + 1
      BY <2>1
    <2>3. QED
      BY <2>1, <2>2
  <1> HIDE DEF G
  <1>6. \A h \in 0..n : h \in G
    BY <1>4, <1>5, Levels
  <1>7. QED
    BY <1>6 DEF G, f, g

\* Beyond the last leaf, the nodes are those of an empty tree.
LEMMA EmptyNodes ==
    ASSUME NEW n \in Nat, NEW x \in Int, x >= -1, NEW L, \A i \in Nat : i > x => L[i] = Zero
    PROVE  \A h \in 0..n, i \in Nat : i > CurrentIndex(x, n)[h] => Nodes(L, n)[h][i] = ZeroBytes(n)[h]
  <1> DEFINE f == CurrentIndex(x, n)
             N == Nodes(L, n)
             Z == ZeroBytes(n)
             G == {h \in 0..n : \A i \in Nat : i > f[h] => N[h][i] = Z[h]}
  <1>1. f[0] = x /\ \A h \in 0..(n - 1) : f[h + 1] = f[h] \div 2
    BY IndexRec
  <1>2. Z[0] = Zero /\ \A h \in 0..(n - 1) : Z[h + 1] = Hash(Z[h], Z[h])
    BY ZeroRec
  <1>3. N[0] = L /\ \A h \in 0..(n - 1), i \in Nat : N[h + 1][i] = Hash(N[h][2 * i], N[h][2 * i + 1])
    BY NodesRec
  <1>4. \A h \in 0..n : f[h] \in Int /\ f[h] >= -1
    BY IndexType
  <1> HIDE DEF f, N, Z
  <1>5. 0 \in G
    BY <1>1, <1>2, <1>3
  <1>6. ASSUME NEW h \in 0..(n - 1), h \in G PROVE h + 1 \in G
    <2>1. h + 1 \in 0..n /\ f[h] \in Int /\ f[h + 1] = f[h] \div 2 /\ Z[h + 1] = Hash(Z[h], Z[h])
      BY <1>1, <1>2, <1>4
    <2>2. ASSUME NEW i \in Nat, i > f[h + 1] PROVE N[h + 1][i] = Z[h + 1]
      <3>1. 2 * i \in Nat /\ 2 * i + 1 \in Nat /\ 2 * i > f[h] /\ 2 * i + 1 > f[h]
        BY <2>1, <2>2
      <3>2. N[h][2 * i] = Z[h] /\ N[h][2 * i + 1] = Z[h]
        BY <1>6, <3>1
      <3>3. QED
        BY <1>3, <2>1, <3>2
    <2>3. QED
      BY <2>1, <2>2
  <1> HIDE DEF G
  <1>7. \A h \in 0..n : h \in G
    BY <1>5, <1>6, Levels
  <1>8. QED
    BY <1>7 DEF G, f, N, Z

\* A changed leaf changes its ancestors only.
LEMMA StableNodes ==
    ASSUME NEW n \in Nat, NEW x \in Nat, NEW L, NEW M, \A i \in Nat : i # x => L[i] = M[i]
    PROVE  \A h \in 0..n, i \in Nat : i # CurrentIndex(x, n)[h] => Nodes(L, n)[h][i] = Nodes(M, n)[h][i]
  <1> DEFINE f == CurrentIndex(x, n)
             N == Nodes(L, n)
             O == Nodes(M, n)
             G == {h \in 0..n : \A i \in Nat : i # f[h] => N[h][i] = O[h][i]}
  <1>1. f[0] = x /\ \A h \in 0..(n - 1) : f[h + 1] = f[h] \div 2
    BY IndexRec
  <1>2. N[0] = L /\ \A h \in 0..(n - 1), i \in Nat : N[h + 1][i] = Hash(N[h][2 * i], N[h][2 * i + 1])
    BY NodesRec
  <1>3. O[0] = M /\ \A h \in 0..(n - 1), i \in Nat : O[h + 1][i] = Hash(O[h][2 * i], O[h][2 * i + 1])
    BY NodesRec
  <1>4. \A h \in 0..n : f[h] \in Nat
    BY IndexNat
  <1> HIDE DEF f, N, O
  <1>5. 0 \in G
    BY <1>1, <1>2, <1>3
  <1>6. ASSUME NEW h \in 0..(n - 1), h \in G PROVE h + 1 \in G
    <2>1. h + 1 \in 0..n /\ f[h] \in Nat /\ f[h + 1] = f[h] \div 2
      BY <1>1, <1>4
    <2>2. ASSUME NEW i \in Nat, i # f[h + 1] PROVE N[h + 1][i] = O[h + 1][i]
      <3>1. 2 * i \in Nat /\ 2 * i + 1 \in Nat /\ 2 * i # f[h] /\ 2 * i + 1 # f[h]
        BY <2>1, <2>2
      <3>2. N[h][2 * i] = O[h][2 * i] /\ N[h][2 * i + 1] = O[h][2 * i + 1]
        BY <1>6, <3>1
      <3>3. QED
        BY <1>2, <1>3, <3>2
    <2>3. QED
      BY <2>1, <2>2
  <1> HIDE DEF G
  <1>7. \A h \in 0..n : h \in G
    BY <1>5, <1>6, Levels
  <1>8. QED
    BY <1>7 DEF G, f, N, O

\* What NodesRec says, as a predicate.
IsTree(N, L, n) ==
    N[0] = L /\ \A h \in 0..(n - 1), i \in Nat : N[h + 1][i] = Hash(N[h][2 * i], N[h][2 * i + 1])

\* Nodes are such a tree.
LEMMA NodesTree ==
    ASSUME NEW n \in Nat, NEW L PROVE IsTree(Nodes(L, n), L, n)
  BY NodesRec DEF IsTree

\* The trees over two sets of leaves have the same root.
SameRoot(L, M, n) == Nodes(L, n)[n][0] = Nodes(M, n)[n][0]

\* Equal roots mean equal leaves, at every index the tree has room for.
LEMMA RootsTellLeaves ==
    ASSUME NEW n \in Nat, NEW x \in Nat, x < MaxCapacity(n), NEW L, NEW M, SameRoot(L, M, n)
    PROVE  L[x] = M[x]
  <1> DEFINE f == CurrentIndex(x, n)
             N == Nodes(L, n)
             O == Nodes(M, n)
             G == {h \in 0..n : N[n - h][f[n - h]] = O[n - h][f[n - h]]}
  <1>1. f[0] = x /\ \A h \in 0..(n - 1) : f[h + 1] = f[h] \div 2
    BY IndexRec
  <1>2. N[0] = L /\ \A h \in 0..(n - 1), i \in Nat : N[h + 1][i] = Hash(N[h][2 * i], N[h][2 * i + 1])
    BY NodesTree DEF IsTree
  <1>3. O[0] = M /\ \A h \in 0..(n - 1), i \in Nat : O[h + 1][i] = Hash(O[h][2 * i], O[h][2 * i + 1])
    BY NodesTree DEF IsTree
  <1>4. \A h \in 0..n : f[h] \in Nat
    BY IndexNat
  <1>5. f[n] = 0
    BY IndexInRoom
  <1>a. N[n][0] = O[n][0]
    BY DEF SameRoot
  <1> HIDE DEF f, N, O
  <1>6. 0 \in G
    BY <1>5, <1>a
  <1>7. ASSUME NEW h \in 0..(n - 1), h \in G PROVE h + 1 \in G
    <2> DEFINE k == n - (h + 1)
    <2>1. k \in 0..(n - 1) /\ k + 1 = n - h /\ h + 1 \in 0..n /\ k \in 0..n /\ k + 1 \in 0..n
      OBVIOUS
    <2>2. N[k + 1][f[k + 1]] = O[k + 1][f[k + 1]]
      BY <1>7, <2>1
    <2> HIDE DEF k
    <2> DEFINE i == f[k + 1]
    <2>3. i \in Nat /\ f[k] \in Nat /\ i = f[k] \div 2
      BY <1>1, <1>4, <2>1
    <2>4. Hash(N[k][2 * i], N[k][2 * i + 1]) = Hash(O[k][2 * i], O[k][2 * i + 1])
      <3>1. N[k + 1][i] = Hash(N[k][2 * i], N[k][2 * i + 1])
        BY <1>2, <2>1, <2>3
      <3>2. O[k + 1][i] = Hash(O[k][2 * i], O[k][2 * i + 1])
        BY <1>3, <2>1, <2>3
      <3>3. QED
        BY Zenon, <2>2, <3>1, <3>2
    <2> HIDE DEF i
    <2>5. f[k] = 2 * i \/ f[k] = 2 * i + 1
      BY <2>3
    <2>6. N[k][2 * i] = O[k][2 * i] /\ N[k][2 * i + 1] = O[k][2 * i + 1]
      BY <2>4, HashInjective
    <2>7. N[k][f[k]] = O[k][f[k]]
      BY <2>5, <2>6
    <2>8. QED
      BY <2>1, <2>7 DEF k
  <1> HIDE DEF G
  <1>8. n \in G
    <2>1. \A h \in 0..n : h \in G
      BY <1>6, <1>7, Levels
    <2>2. QED
      BY <2>1
  <1>9. N[0][f[0]] = O[0][f[0]]
    <2>1. n - n = 0
      OBVIOUS
    <2>2. QED
      BY <1>8, <2>1 DEF G
  <1>10. QED
    BY <1>1, <1>2, <1>3, <1>9

-----------------------------------------------------------------------------
\* A tree account that holds the leaves L: the root is theirs, and where the path
\* of the next leaf is a right child its left sibling has been saved.
TreeOf(tree, L, height) ==
    /\ tree.next_index \in Nat
    /\ \A i \in Nat : i >= tree.next_index => L[i] = Zero
    /\ tree.root = Nodes(L, height)[height][0]
    /\ \A h \in 0..(height - 1) :
          LET i == CurrentIndex(tree.next_index, height)[h]
          IN  i % 2 = 1 => tree.subtrees[h] = Nodes(L, height)[h][i - 1]

\* The leaves with one more.
Put(L, n, item) == [i \in Nat |-> IF i = n THEN item ELSE L[i]]

\* An initialized tree holds no leaves.
LEMMA EmptyIs ==
    ASSUME NEW height \in Nat, NEW L, \A i \in Nat : L[i] = Zero
    PROVE  TreeOf(EmptyTree(height), L, height)
  <1> DEFINE tree == EmptyTree(height)
             none == -1
             zip == 0
  <1>1. /\ tree.next_index = 0
        /\ tree.root = ZeroBytes(height)[height]
    BY DEF EmptyTree
  <1>2. none \in Int /\ none >= -1 /\ \A i \in Nat : i > none => L[i] = Zero
    OBVIOUS
  <1>3. CurrentIndex(none, height)[height] = -1
    <2> DEFINE f == CurrentIndex(none, height)
               G == {h \in 0..height : f[h] = -1}
    <2>1. f[0] = none /\ \A h \in 0..(height - 1) : f[h + 1] = f[h] \div 2
      <3> HIDE DEF none
      <3>1. QED
        BY IndexRec
    <2> HIDE DEF f
    <2>2. 0 \in G /\ \A h \in 0..(height - 1) : h \in G => h + 1 \in G
      BY <2>1
    <2> HIDE DEF G
    <2>3. \A h \in 0..height : h \in G
      BY <2>2, Levels
    <2>4. QED
      BY <2>3 DEF G, f
  <1>4. Nodes(L, height)[height][0] = ZeroBytes(height)[height]
    <2> HIDE DEF none
    <2>1. \A h \in 0..height, i \in Nat : i > CurrentIndex(none, height)[h]
             => Nodes(L, height)[h][i] = ZeroBytes(height)[h]
      BY <1>2, EmptyNodes
    <2>2. height \in 0..height /\ 0 > CurrentIndex(none, height)[height]
      BY <1>3
    <2>3. QED
      BY <2>1, <2>2
  <1>5. \A h \in 0..height : CurrentIndex(0, height)[h] = 0
    <2> DEFINE f == CurrentIndex(zip, height)
               G == {h \in 0..height : f[h] = 0}
    <2>1. f[0] = zip /\ \A h \in 0..(height - 1) : f[h + 1] = f[h] \div 2
      <3> HIDE DEF zip
      <3>1. QED
        BY IndexRec
    <2> HIDE DEF f
    <2>2. 0 \in G /\ \A h \in 0..(height - 1) : h \in G => h + 1 \in G
      BY <2>1
    <2> HIDE DEF G
    <2>3. \A h \in 0..height : h \in G
      BY <2>2, Levels
    <2>4. QED
      BY <2>3 DEF G, f
  <1>6. \A h \in 0..(height - 1) : CurrentIndex(0, height)[h] % 2 # 1
    BY <1>5
  <1> HIDE DEF tree
  <1>7. TreeOf(tree, L, height)
    BY <1>1, <1>4, <1>6 DEF TreeOf
  <1>8. QED
    BY <1>7 DEF tree

\* append's loop computes the nodes above the new leaf.
LEMMA PathIs ==
    ASSUME NEW height \in Nat, NEW tree, NEW L, NEW item, TreeOf(tree, L, height)
    PROVE  \A h \in 0..height : PathHashes(tree, item, height)[h]
              = Nodes(Put(L, tree.next_index, item), height)[h][CurrentIndex(tree.next_index, height)[h]]
  <1> DEFINE x == tree.next_index
             M == Put(L, x, item)
             f == CurrentIndex(x, height)
             N == Nodes(L, height)
             O == Nodes(M, height)
             Z == ZeroBytes(height)
             path == PathHashes(tree, item, height)
             G == {h \in 0..height : path[h] = O[h][f[h]]}
  <1>1. /\ x \in Nat /\ \A i \in Nat : i >= x => L[i] = Zero
        /\ \A h \in 0..(height - 1) : f[h] % 2 = 1 => tree.subtrees[h] = N[h][f[h] - 1]
    BY DEF TreeOf
  <1> HIDE DEF x
  <1>2. f[0] = x /\ (\A h \in 0..(height - 1) : f[h + 1] = f[h] \div 2) /\ \A h \in 0..height : f[h] \in Nat
    BY <1>1, IndexRec, IndexNat
  <1>3. M[x] = item /\ \A i \in Nat : i # x => L[i] = M[i]
    BY <1>1 DEF Put
  <1> HIDE DEF M
  <1>4. \A h \in 0..height, i \in Nat : i # f[h] => N[h][i] = O[h][i]
    BY <1>1, <1>3, StableNodes
  <1>5. \A h \in 0..height, i \in Nat : i > f[h] => O[h][i] = Z[h]
    <2>1. \A i \in Nat : i > x => M[i] = Zero
      BY <1>1, <1>3
    <2>2. x \in Int /\ x >= -1
      BY <1>1
    <2>3. QED
      BY <2>1, <2>2, EmptyNodes
  <1>6. IsTree(O, M, height)
    BY NodesTree
  <1>7. path[0] = item /\ \A h \in 0..(height - 1) : path[h + 1] = Above(tree, height, h, path[h])
    BY PathRec
  <1>8. \A h, hash : Above(tree, height, h, hash) =
           IF f[h] % 2 = 0 THEN Hash(hash, Z[h]) ELSE Hash(tree.subtrees[h], hash)
    BY DEF Above, IsLeft, x
  <1> HIDE DEF f, N, O, Z, path
  <1>9. 0 \in G
    BY <1>2, <1>3, <1>6, <1>7 DEF IsTree
  <1>10. ASSUME NEW h \in 0..(height - 1), h \in G PROVE h + 1 \in G
    <2> DEFINE j == f[h]
               i == f[h + 1]
    <2>1. /\ h \in 0..height /\ h + 1 \in 0..height /\ j \in Nat /\ i \in Nat /\ i = j \div 2
          /\ path[h] = O[h][j]
      BY <1>2, <1>10
    <2>2. O[h + 1][i] = Hash(O[h][2 * i], O[h][2 * i + 1])
      BY <1>6, <2>1 DEF IsTree
    <2>3. CASE j % 2 = 0
      <3>1. path[h + 1] = Hash(path[h], Z[h])
        BY <1>7, <1>8, <2>3
      <3> HIDE DEF i, j
      <3>2. 2 * i = j /\ 2 * i + 1 \in Nat /\ 2 * i + 1 > j
        BY <2>1, <2>3
      <3>3. O[h][2 * i + 1] = Z[h]
        BY <1>5, <2>1, <3>2 DEF j
      <3>4. path[h + 1] = O[h + 1][i]
        BY <2>1, <2>2, <3>1, <3>2, <3>3
      <3>5. QED
        BY <2>1, <3>4 DEF i
    <2>4. CASE j % 2 = 1
      <3>1. path[h + 1] = Hash(tree.subtrees[h], path[h])
        BY <1>7, <1>8, <2>4
      <3>2. tree.subtrees[h] = N[h][j - 1]
        BY <1>1, <2>4 DEF f, N
      <3> HIDE DEF i, j
      <3>3. 2 * i = j - 1 /\ 2 * i + 1 = j /\ j - 1 \in Nat /\ j - 1 # j
        BY <2>1, <2>4
      <3>4. N[h][j - 1] = O[h][j - 1]
        BY <1>4, <2>1, <3>3 DEF j
      <3>5. path[h + 1] = O[h + 1][i]
        BY <2>1, <2>2, <3>1, <3>2, <3>3, <3>4
      <3>6. QED
        BY <2>1, <3>5 DEF i
    <2>5. QED
      BY <2>1, <2>3, <2>4
  <1> HIDE DEF G
  <1>11. \A h \in 0..height : h \in G
    BY <1>9, <1>10, Levels
  <1>12. QED
    BY <1>11 DEF G, path, O, M, f, x

\* MerkleTree::append and ReceiptMerkleTree::append of a leaf that fits.
LEMMA AppendIs ==
    ASSUME NEW height \in Nat, NEW tree, NEW L, NEW item, TreeOf(tree, L, height),
           tree.next_index < MaxCapacity(height)
    PROVE  TreeOf(AppendLeaf(tree, item, height), Put(L, tree.next_index, item), height)
  <1> DEFINE x == tree.next_index
             M == Put(L, x, item)
             f == CurrentIndex(x, height)
             g == CurrentIndex(x + 1, height)
             N == Nodes(L, height)
             O == Nodes(M, height)
             path == PathHashes(tree, item, height)
             new == AppendLeaf(tree, item, height)
             saved == Subtrees(tree, path, height)
  <1>1. /\ x \in Nat /\ \A i \in Nat : i >= x => L[i] = Zero
        /\ \A h \in 0..(height - 1) : f[h] % 2 = 1 => tree.subtrees[h] = N[h][f[h] - 1]
    BY DEF TreeOf
  <1>2. \A h \in 0..height : path[h] = O[h][f[h]]
    BY PathIs
  <1>3. new.next_index = x + 1 /\ new.root = path[height] /\ new.subtrees = saved
    BY DEF AppendLeaf
  <1>4. \A h \in 0..(height - 1) : saved[h] = IF f[h] % 2 = 0 THEN path[h] ELSE tree.subtrees[h]
    BY DEF Subtrees, IsLeft
  <1>5. x < MaxCapacity(height)
    OBVIOUS
  <1> HIDE DEF x, new, saved, path
  <1>6. f[height] = 0
    BY <1>1, <1>5, IndexInRoom
  <1>7. \A h \in 0..height : f[h] \in Nat
    BY <1>1, IndexNat
  <1>8. \A h \in 0..height : g[h] = f[h] \/ g[h] = f[h] + 1
    BY <1>1, IndexNext
  <1>9. \A i \in Nat : i # x => L[i] = M[i]
    BY DEF Put
  <1> HIDE DEF M
  <1>10. \A h \in 0..height, i \in Nat : i # f[h] => N[h][i] = O[h][i]
    BY <1>1, <1>9, StableNodes
  <1> HIDE DEF f, g, N, O
  <1>11. new.root = O[height][0]
    BY <1>2, <1>3, <1>6
  <1>12. \A i \in Nat : i >= x + 1 => M[i] = Zero
    BY <1>1, <1>9
  <1>13. ASSUME NEW h \in 0..(height - 1), g[h] % 2 = 1
         PROVE  saved[h] = O[h][g[h] - 1]
    <2> DEFINE j == f[h]
    <2>1. h \in 0..height /\ j \in Nat /\ (g[h] = j \/ g[h] = j + 1)
      BY <1>7, <1>8
    <2>2. CASE g[h] = j
      <3>1. saved[h] = N[h][j - 1]
        BY <1>1, <1>4, <1>13, <2>1, <2>2 DEF f, N
      <3>2. j - 1 \in Nat /\ j - 1 # j
        BY <1>13, <2>1, <2>2
      <3>3. N[h][j - 1] = O[h][j - 1]
        BY <1>10, <2>1, <3>2
      <3>4. QED
        BY <2>2, <3>1, <3>3
    <2>3. CASE g[h] = j + 1
      <3>1. j % 2 = 0 /\ g[h] - 1 = j
        <4> HIDE DEF j
        <4>1. QED
          BY <1>13, <2>1, <2>3
      <3>2. saved[h] = path[h]
        BY <1>4, <3>1
      <3>3. QED
        BY <1>2, <2>1, <3>1, <3>2
    <2>4. QED
      BY <2>1, <2>2, <2>3
  <1>14. TreeOf(new, M, height)
    <2>1. new.next_index \in Nat
      BY <1>1, <1>3
    <2>2. \A h \in 0..(height - 1) : g[h] % 2 = 1 => new.subtrees[h] = O[h][g[h] - 1]
      BY <1>3, <1>13
    <2>3. g = CurrentIndex(new.next_index, height)
      BY <1>3 DEF g
    <2>4. QED
      BY <1>3, <1>11, <1>12, <2>1, <2>2, <2>3 DEF TreeOf, O
  <1>15. QED
    BY <1>14 DEF new, M, x

-----------------------------------------------------------------------------
\* Arithmetic of a ring's cursor.
LEMMA Cursor ==
    ASSUME NEW n \in Int, NEW d \in Int, NEW p \in Nat \ {0}
    PROVE  /\ ((n % p) + d) % p = (n + d) % p
           /\ ((n % p) + p - d) % p = (n - d) % p
           /\ n % p \in 0..(p - 1)
  <1> DEFINE q == n \div p
             r == n % p
             k == -q
             one == 1
  <1>1. q \in Int /\ r \in 0..(p - 1) /\ n = q * p + r
    BY Remainder
  <1> HIDE DEF q, r
  <1>2. k \in Int /\ k * p = -(q * p) /\ q * p \in Int /\ r \in Int
    BY <1>1
  <1>3. one \in Int /\ one * p = p
    OBVIOUS
  <1> HIDE DEF k, one
  <1>4. ASSUME NEW e \in Int PROVE (r + e) % p = (n + e) % p
    <2> DEFINE a == n + e
    <2>1. a \in Int /\ a + k * p = r + e
      BY <1>1, <1>2
    <2> HIDE DEF a
    <2>2. (a + k * p) % p = a % p
      BY <1>2, <2>1, SameRemainder
    <2>3. QED
      BY <2>1, <2>2 DEF a
  <1>5. (r + p - d) % p = (n - d) % p
    <2> DEFINE e == p - d
               a == n - d
    <2>1. e \in Int /\ a \in Int /\ r + e = r + p - d /\ n + e = a + one * p
      BY <1>2, <1>3
    <2> HIDE DEF e, a
    <2>2. (r + e) % p = (n + e) % p
      BY <1>4, <2>1
    <2>3. (a + one * p) % p = a % p
      BY <1>3, <2>1, SameRemainder
    <2>4. QED
      BY <2>1, <2>2, <2>3 DEF a
  <1>6. QED
    BY <1>1, <1>4, <1>5 DEF r

\* The first m leaves, and the root of the commitment tree when it had m leaves.
Cut(L, m) == [i \in Nat |-> IF i < m THEN L[i] ELSE Zero]
RootOf(L, m) == Nodes(Cut(L, m), COMMITMENT_TREE_HEIGHT)[COMMITMENT_TREE_HEIGHT][0]

\* The ring holds the roots of the last ROOT_HISTORY_SIZE sizes.
RingOf(tree, L) ==
    /\ tree.root_index = tree.next_index % ROOT_HISTORY_SIZE
    /\ DOMAIN tree.root_history = 0..(ROOT_HISTORY_SIZE - 1)
    /\ \A m \in Nat : m <= tree.next_index /\ m > tree.next_index - ROOT_HISTORY_SIZE
          => tree.root_history[m % ROOT_HISTORY_SIZE] = RootOf(L, m)

\* A leaf that is put behind them leaves the first m leaves alone.
LEMMA CutPut ==
    ASSUME NEW L, NEW n \in Nat, NEW item, \A i \in Nat : i >= n => L[i] = Zero
    PROVE  /\ \A m \in Nat : m <= n => Cut(Put(L, n, item), m) = Cut(L, m)
           /\ Cut(Put(L, n, item), n + 1) = Put(L, n, item)
  BY DEF Cut, Put

\* MerkleTree::append: the cursor moves over the oldest root.
LEMMA AppendCommitmentIs ==
    ASSUME NEW tree, NEW L, NEW item,
           TreeOf(tree, L, COMMITMENT_TREE_HEIGHT), RingOf(tree, L),
           tree.next_index < MaxCapacity(COMMITMENT_TREE_HEIGHT)
    PROVE  /\ TreeOf(AppendCommitment(tree, item), Put(L, tree.next_index, item),
                     COMMITMENT_TREE_HEIGHT)
           /\ RingOf(AppendCommitment(tree, item), Put(L, tree.next_index, item))
           /\ AppendCommitment(tree, item).next_index = tree.next_index + 1
  <1> DEFINE H == COMMITMENT_TREE_HEIGHT
             S == ROOT_HISTORY_SIZE
             x == tree.next_index
             M == Put(L, x, item)
             appended == AppendLeaf(tree, item, H)
             new == AppendCommitment(tree, item)
             ring == tree.root_history
             c == NextRootIndex(tree.root_index)
  <1>1. H \in Nat /\ S \in Nat \ {0}
    BY CommitmentTreeAssumption
  <1>2. TreeOf(appended, M, H)
    BY <1>1, AppendIs
  <1>3. /\ new.next_index = appended.next_index /\ new.root = appended.root
        /\ new.subtrees = appended.subtrees
        /\ new.root_index = c
        /\ new.root_history = [ring EXCEPT ![c] = appended.root]
    BY DEF AppendCommitment
  <1>4. appended.next_index = x + 1
    BY DEF AppendLeaf
  <1>5. x \in Nat /\ \A i \in Nat : i >= x => L[i] = Zero
    BY DEF TreeOf
  <1>6. /\ tree.root_index = x % S /\ DOMAIN ring = 0..(S - 1)
        /\ \A m \in Nat : m <= x /\ m > x - S => ring[m % S] = RootOf(L, m)
    BY DEF RingOf
  <1>7. /\ \A m \in Nat : m <= x => RootOf(M, m) = RootOf(L, m)
        /\ RootOf(M, x + 1) = Nodes(M, H)[H][0]
    BY <1>5, CutPut DEF RootOf
  <1>8. appended.root = Nodes(M, H)[H][0]
    BY <1>2 DEF TreeOf
  <1> HIDE DEF x, M, appended, new, ring, S, H
  <1>9. TreeOf(new, M, H)
    BY <1>2, <1>3 DEF TreeOf
  <1>10. c = (x + 1) % S /\ c \in 0..(S - 1)
    <2> DEFINE one == 1
               y == x + 1
    <2>1. c = ((x % S) + 1) % S
      BY <1>6 DEF NextRootIndex, S
    <2>2. one \in Int /\ x \in Int /\ y \in Int
      BY <1>5
    <2> HIDE DEF one, y
    <2>3. ((x % S) + one) % S = (x + one) % S /\ y % S \in 0..(S - 1)
      BY <1>1, <2>2, Cursor
    <2>4. QED
      BY <2>1, <2>3 DEF one, y
  <1> HIDE DEF c
  <1>11. ASSUME NEW m \in Nat, m <= x + 1, m > x + 1 - S
         PROVE  new.root_history[m % S] = RootOf(M, m)
    <2>1. m % S \in 0..(S - 1)
      BY <1>1, Cursor
    <2>2. CASE m = x + 1
      BY <1>3, <1>6, <1>7, <1>8, <1>10, <2>1, <2>2
    <2>3. CASE m <= x
      <3> DEFINE y == x + 1
      <3>1. m % S # y % S
        <4>1. y \in Int /\ m \in Int /\ m - y < S /\ y - m < S /\ m # y
          BY <1>1, <1>5, <1>11, <2>3
        <4> HIDE DEF y
        <4>2. QED
          BY <1>1, <4>1, RemainderClose
      <3>2. new.root_history[m % S] = ring[m % S]
        BY <1>3, <1>6, <1>10, <2>1, <3>1
      <3>3. m > x - S
        BY <1>1, <1>5, <1>11
      <3>4. QED
        BY <1>6, <1>7, <2>3, <3>2, <3>3
    <2>4. QED
      BY <1>5, <1>11, <2>2, <2>3
  <1>12. RingOf(new, M)
    <2>1. DOMAIN new.root_history = 0..(S - 1)
      BY <1>3, <1>6
    <2>2. new.next_index = x + 1 /\ new.root_index = (x + 1) % S
      BY <1>3, <1>4, <1>10
    <2>3. \A m \in Nat : m <= new.next_index /\ m > new.next_index - S
             => new.root_history[m % S] = RootOf(M, m)
      <3> SUFFICES ASSUME NEW m \in Nat, m <= new.next_index, m > new.next_index - S
                   PROVE  new.root_history[m % S] = RootOf(M, m)
        OBVIOUS
      <3> DEFINE y == new.next_index
      <3>0. y = x + 1 /\ m <= y /\ m > y - S
        BY <1>3, <1>4
      <3> HIDE DEF y
      <3>1. m <= x + 1 /\ m > x + 1 - S
        BY <1>1, <1>5, <3>0
      <3>2. QED
        BY <1>11, <3>1
    <2>4. QED
      BY <2>1, <2>2, <2>3 DEF RingOf, S
  <1>13. QED
    BY <1>3, <1>4, <1>9, <1>12 DEF new, M, x, H

\* The capacity of a tree is a number.
LEMMA CapacityNat ==
    ASSUME NEW n \in Nat PROVE MaxCapacity(n) \in Nat
  <1>1. PICK c : /\ MaxCapacity(n) = c[n] /\ c[0] = 1
                 /\ \A h \in 0..(n - 1) : c[h + 1] = 2 * c[h]
    BY CapacityRec
  <1> DEFINE C == {h \in 0..n : c[h] \in Nat}
  <1>2. 0 \in C /\ \A h \in 0..(n - 1) : h \in C => h + 1 \in C
    BY <1>1
  <1> HIDE DEF C
  <1>3. \A h \in 0..n : h \in C
    BY <1>2, Levels
  <1>4. QED
    BY <1>1, <1>3 DEF C

\* The leaves with the first k outputs of a transaction.
PutAll(L, n, k, outputs) ==
    [i \in Nat |-> IF i >= n /\ i < n + k THEN outputs[i - n + 1] ELSE L[i]]

\* Step E3: all outputs of a transaction that fit.
LEMMA AppendCommitmentsIs ==
    ASSUME NEW tree, NEW L, NEW outputs, L = [i \in Nat |-> L[i]],
           TreeOf(tree, L, COMMITMENT_TREE_HEIGHT), RingOf(tree, L),
           tree.next_index + N_OUTS <= MaxCapacity(COMMITMENT_TREE_HEIGHT)
    PROVE  LET new == AppendCommitments(tree, outputs)
               M   == PutAll(L, tree.next_index, N_OUTS, outputs)
           IN  /\ TreeOf(new, M, COMMITMENT_TREE_HEIGHT) /\ RingOf(new, M)
               /\ new.next_index = tree.next_index + N_OUTS
  <1> DEFINE x == tree.next_index
             H == COMMITMENT_TREE_HEIGHT
             P(k) == PutAll(L, x, k, outputs)
  <1>1. PICK f : /\ AppendCommitments(tree, outputs) = f[N_OUTS] /\ f[0] = tree
                 /\ \A i \in 0..(N_OUTS - 1) : f[i + 1] = AppendCommitment(f[i], outputs[i + 1])
    BY AfterRec
  <1> DEFINE G == {k \in 0..N_OUTS : /\ TreeOf(f[k], P(k), H) /\ RingOf(f[k], P(k))
                                     /\ f[k].next_index = x + k}
  <1>2. N_OUTS \in Nat /\ H \in Nat /\ x \in Nat /\ MaxCapacity(H) \in Nat
    <2>1. H \in Nat /\ N_OUTS \in Nat
      BY CommitmentTreeAssumption
    <2>2. MaxCapacity(H) \in Nat
      BY <2>1, CapacityNat
    <2>3. QED
      BY <2>1, <2>2 DEF TreeOf
  <1>3. P(0) = L
    BY <1>2 DEF PutAll
  <1>4. 0 \in G
    BY <1>1, <1>2, <1>3
  <1>a. x + N_OUTS <= MaxCapacity(H)
    OBVIOUS
  <1>5. ASSUME NEW k \in 0..(N_OUTS - 1), k \in G PROVE k + 1 \in G
    <2> DEFINE t == f[k]
               item == outputs[k + 1]
               B == P(k)
    <2>1. TreeOf(t, B, H) /\ RingOf(t, B) /\ t.next_index = x + k /\ k + 1 \in 0..N_OUTS
      <3>1. TreeOf(t, B, H) /\ RingOf(t, B) /\ t.next_index = x + k
        BY Zenon, <1>5
      <3>2. QED
        BY <1>2, <3>1
    <2>2. t.next_index < MaxCapacity(H)
      <3> HIDE DEF t, x, H
      <3>1. QED
        BY <1>2, <1>a, <2>1
    <2>3. Put(B, t.next_index, item) = P(k + 1)
      <3>1. Put(B, x + k, item) = P(k + 1)
        <4> HIDE DEF x
        <4>1. QED
          BY <1>2 DEF PutAll, Put
      <3>2. QED
        BY <2>1, <3>1
    <2>4. f[k + 1] = AppendCommitment(t, item)
      BY <1>1
    <2> HIDE DEF t, item, B, P
    <2>5. /\ TreeOf(AppendCommitment(t, item), Put(B, t.next_index, item), H)
          /\ RingOf(AppendCommitment(t, item), Put(B, t.next_index, item))
          /\ AppendCommitment(t, item).next_index = t.next_index + 1
      BY <2>1, <2>2, AppendCommitmentIs
    <2> HIDE DEF x, H
    <2>6. x + k + 1 = x + (k + 1)
      BY <1>2
    <2>7. QED
      BY <2>1, <2>3, <2>4, <2>5, <2>6
  <1> HIDE DEF G
  <1>6. N_OUTS \in G
    <2>1. \A h \in 0..N_OUTS : h \in G
      BY <1>2, <1>4, <1>5, Levels
    <2>2. QED
      BY <1>2, <2>1
  <1>7. QED
    BY <1>1, <1>6 DEF G

-----------------------------------------------------------------------------
\* The events announce each index once and in order.
EventsOf(events) ==
    /\ \E S : events \in Seq(S)
    /\ \A k \in 1..Len(events) : events[k].index = k - 1

\* The leaves that they announce.
LeavesOf(events) == [i \in Nat |-> IF i < Len(events) THEN events[i + 1].leaf ELSE Zero]

\* An indexer finds the leaf of every index that was announced.
LEMMA AnnouncedIs ==
    ASSUME NEW events, EventsOf(events), NEW i \in 0..(Len(events) - 1)
    PROVE  Announced(events, i) = LeavesOf(events)[i]
  <1> DEFINE of_i == {k \in DOMAIN events : events[k].index = i}
             n == Len(events)
  <1>1. DOMAIN events = 1..n /\ n \in Nat
    BY DEF EventsOf
  <1>2. \A k \in 1..n : events[k].index = k - 1
    BY DEF EventsOf
  <1>3. i \in 0..(n - 1)
    OBVIOUS
  <1> HIDE DEF n
  <1>4. i + 1 \in 1..n /\ i \in Nat /\ i < n
    BY <1>1, <1>3
  <1>5. of_i = {i + 1}
    <2>1. ASSUME NEW k \in of_i PROVE k = i + 1
      <3>1. k \in 1..n /\ events[k].index = i
        BY <1>1
      <3>2. k - 1 = i /\ k \in Int
        BY <1>2, <3>1
      <3>3. QED
        BY <1>4, <3>2
    <2>2. i + 1 \in of_i
      <3>1. events[i + 1].index = (i + 1) - 1
        BY <1>2, <1>4
      <3>2. QED
        BY <1>1, <1>4, <3>1
    <2> HIDE DEF of_i
    <2>3. QED
      BY <2>1, <2>2
  <1> HIDE DEF of_i
  <1>6. Max(of_i) = i + 1
    BY <1>4, <1>5 DEF Max
  <1>7. Announced(events, i) = events[Max(of_i)].leaf
    BY <1>5 DEF Announced, of_i
  <1>8. QED
    BY <1>4, <1>6, <1>7 DEF LeavesOf, n

\* So it rebuilds the tree of every size.
LEMMA RebuiltIs ==
    ASSUME NEW events, EventsOf(events), NEW n \in Nat, n <= Len(events), NEW height
    PROVE  RebuiltRoot(events, n, height) = Nodes(Cut(LeavesOf(events), n), height)[height][0]
  <1>1. Len(events) \in Nat
    BY DEF EventsOf
  <1>2. ASSUME NEW i \in Nat
        PROVE  (IF i < n THEN Announced(events, i) ELSE Zero)
                  = (IF i < n THEN LeavesOf(events)[i] ELSE Zero)
    <2>1. CASE i < n
      <3>1. i \in 0..(Len(events) - 1)
        BY <1>1, <2>1
      <3>2. QED
        BY <3>1, AnnouncedIs
    <2>2. QED
      BY <2>1
  <1>3. [i \in Nat |-> IF i < n THEN Announced(events, i) ELSE Zero] = Cut(LeavesOf(events), n)
    BY <1>2 DEF Cut
  <1>4. QED
    BY <1>3 DEF RebuiltRoot

\* The events of step E3.
LEMMA CommitmentsAnnounced ==
    ASSUME NEW events, EventsOf(events), NEW tree, tree.next_index = Len(events), NEW outputs
    PROVE  LET es == events \o CommitmentEvents(tree, outputs)
           IN  /\ EventsOf(es) /\ Len(es) = Len(events) + N_OUTS
               /\ LeavesOf(es) = PutAll(LeavesOf(events), Len(events), N_OUTS, outputs)
  <1> DEFINE n == Len(events)
             more == CommitmentEvents(tree, outputs)
             es == events \o more
  <1>1. PICK T : events \in Seq(T)
    BY DEF EventsOf
  <1>2. N_OUTS \in Nat
    BY CommitmentTreeAssumption
  <1>3. /\ DOMAIN more = 1..N_OUTS
        /\ \A i \in 1..N_OUTS : more[i].index = n + i - 1 /\ more[i].leaf = outputs[i]
    BY DEF CommitmentEvents
  <1> DEFINE S == T \cup {more[i] : i \in 1..N_OUTS}
  <1>4. more \in Seq(S) /\ Len(more) = N_OUTS
    <2>1. more = [i \in 1..N_OUTS |-> more[i]]
      BY DEF CommitmentEvents
    <2> HIDE DEF more
    <2>2. QED
      BY <1>2, <2>1
  <1>5. events \in Seq(S)
    BY <1>1
  <1> HIDE DEF S, more
  <1>6. /\ es \in Seq(S) /\ Len(es) = n + N_OUTS
        /\ \A i \in 1..(n + N_OUTS) : es[i] = IF i <= n THEN events[i] ELSE more[i - n]
    BY <1>4, <1>5, ConcatProperties
  <1>7. n \in Nat /\ \A k \in 1..n : events[k].index = k - 1
    BY <1>1 DEF EventsOf
  <1> DEFINE L == LeavesOf(events)
  <1>8. \A i \in Nat : L[i] = IF i < n THEN events[i + 1].leaf ELSE Zero
    BY DEF LeavesOf
  <1> HIDE DEF es, n, L
  <1>9. ASSUME NEW k \in 1..(n + N_OUTS) PROVE es[k].index = k - 1
    <2>1. CASE k <= n
      BY <1>2, <1>6, <1>7, <2>1
    <2>2. CASE k > n
      <3>1. k - n \in 1..N_OUTS /\ ~(k <= n) /\ n + (k - n) - 1 = k - 1
        BY <1>2, <1>7, <2>2
      <3>2. QED
        BY <1>3, <1>6, <3>1
    <2>3. QED
      BY <1>2, <1>7, <2>1, <2>2
  <1>10. ASSUME NEW i \in Nat
         PROVE  (IF i < n + N_OUTS THEN es[i + 1].leaf ELSE Zero)
                   = (IF i >= n /\ i < n + N_OUTS THEN outputs[i - n + 1] ELSE L[i])
    <2>1. CASE i < n
      <3>1. i + 1 \in 1..(n + N_OUTS) /\ i + 1 <= n /\ i < n + N_OUTS /\ ~(i >= n)
        BY <1>2, <1>7, <2>1
      <3>2. QED
        BY <1>6, <1>8, <2>1, <3>1
    <2>2. CASE i >= n /\ i < n + N_OUTS
      <3>1. /\ i + 1 \in 1..(n + N_OUTS) /\ ~(i + 1 <= n) /\ (i + 1) - n = i - n + 1
            /\ i - n + 1 \in 1..N_OUTS
        BY <1>2, <1>7, <2>2
      <3>2. es[i + 1] = more[i - n + 1]
        BY <1>6, <3>1
      <3>3. QED
        BY <1>3, <2>2, <3>1, <3>2
    <2>3. CASE i >= n + N_OUTS
      <3>1. ~(i < n) /\ ~(i < n + N_OUTS)
        BY <1>2, <1>7, <2>3
      <3>2. QED
        BY <1>8, <3>1
    <2>4. QED
      BY <1>2, <1>7, <2>1, <2>2, <2>3
  <1>11. EventsOf(es)
    BY <1>6, <1>9 DEF EventsOf
  <1>12. LeavesOf(es) = PutAll(L, n, N_OUTS, outputs)
    BY <1>6, <1>10 DEF LeavesOf, PutAll
  <1>13. QED
    BY <1>6, <1>11, <1>12 DEF es, n, more, L

\* The event of step E4.
LEMMA ReceiptAnnounced ==
    ASSUME NEW events, EventsOf(events), NEW e, e.index = Len(events)
    PROVE  LET es == Append(events, e)
           IN  /\ EventsOf(es) /\ Len(es) = Len(events) + 1
               /\ LeavesOf(es) = Put(LeavesOf(events), Len(events), e.leaf)
               /\ \A i \in 1..Len(events) : es[i] = events[i]
               /\ es[Len(events) + 1] = e
  <1> DEFINE n == Len(events)
             es == Append(events, e)
             L == LeavesOf(events)
  <1>1. PICK T : events \in Seq(T)
    BY DEF EventsOf
  <1>2. /\ es \in Seq(T \cup {e}) /\ Len(es) = n + 1
        /\ (\A i \in 1..n : es[i] = events[i]) /\ es[n + 1] = e
    BY <1>1, AppendProperties
  <1>3. n \in Nat /\ \A k \in 1..n : events[k].index = k - 1
    BY <1>1 DEF EventsOf
  <1>4. \A i \in Nat : L[i] = IF i < n THEN events[i + 1].leaf ELSE Zero
    BY DEF LeavesOf
  <1>5. e.index = n
    OBVIOUS
  <1> HIDE DEF es, n, L
  <1>6. ASSUME NEW k \in 1..(n + 1) PROVE es[k].index = k - 1
    <2>1. CASE k \in 1..n
      BY <1>2, <1>3, <2>1
    <2>2. CASE k = n + 1
      BY <1>2, <1>3, <1>5, <2>2
    <2>3. QED
      BY <1>3, <2>1, <2>2
  <1>7. EventsOf(es)
    BY <1>2, <1>6 DEF EventsOf
  <1>8. ASSUME NEW i \in Nat
        PROVE  (IF i < n + 1 THEN es[i + 1].leaf ELSE Zero) = (IF i = n THEN e.leaf ELSE L[i])
    <2>1. CASE i < n
      <3>1. i + 1 \in 1..n /\ i < n + 1 /\ i # n
        BY <1>3, <2>1
      <3>2. QED
        BY <1>2, <1>4, <2>1, <3>1
    <2>2. CASE i = n
      BY <1>2, <1>3, <2>2
    <2>3. CASE i > n
      <3>1. ~(i < n) /\ ~(i < n + 1) /\ i # n
        BY <1>3, <2>3
      <3>2. QED
        BY <1>4, <3>1
    <2>4. QED
      BY <1>3, <2>1, <2>2, <2>3
  <1>9. LeavesOf(es) = Put(L, n, e.leaf)
    BY <1>2, <1>8 DEF LeavesOf, Put
  <1>10. QED
    BY <1>2, <1>7, <1>9 DEF es, n, L

-----------------------------------------------------------------------------
\* A receipt names a size of the tree with leaves L that ends with its outputs.
ReceiptHolds(r, L, n) ==
    LET last == r.last_commitment_index
    IN  /\ last \in Int /\ last >= N_OUTS - 1 /\ last < n
        /\ r.commitment_root = RootOf(L, last + 1)
        /\ \A k \in 1..N_OUTS : r.commitments[k] = L[last - N_OUTS + k]

\* The first n leaves are commitments, and have their places in the tree.
Filled(L, n) ==
    \A i \in 0..(n - 1) : i < MaxCapacity(COMMITMENT_TREE_HEIGHT) /\ L[i] \in Commitments

\* The inductive invariant: the accounts hold the announced leaves.
TreesInv ==
    /\ EventsOf(commitment_events) /\ EventsOf(receipt_events)
    /\ Len(commitment_events) = commitment_tree.next_index
    /\ Len(receipt_events) = receipt_tree.next_index
    /\ TreeOf(commitment_tree, LeavesOf(commitment_events), COMMITMENT_TREE_HEIGHT)
    /\ RingOf(commitment_tree, LeavesOf(commitment_events))
    /\ TreeOf(receipt_tree, LeavesOf(receipt_events), RECEIPT_TREE_HEIGHT)
    /\ Filled(LeavesOf(commitment_events), commitment_tree.next_index)
    /\ \A p \in proofs, k \in 1..N_OUTS : p.commitments[k] \in Commitments
    /\ \A i \in 1..Len(receipt_events) :
          ReceiptHolds(receipt_events[i].leaf, LeavesOf(commitment_events), commitment_tree.next_index)

\* process_initialize.
LEMMA InitTrees == Init => TreesInv
  <1> SUFFICES ASSUME Init PROVE TreesInv
    OBVIOUS
  <1> DEFINE L == LeavesOf(commitment_events)
             H == COMMITMENT_TREE_HEIGHT
             S == ROOT_HISTORY_SIZE
             empty == EmptyTree(H)
             tree == commitment_tree
  <1>1. /\ H \in Nat /\ RECEIPT_TREE_HEIGHT \in Nat /\ S \in Nat \ {0}
    BY CommitmentTreeAssumption
  <1>2. /\ commitment_events = << >> /\ receipt_events = << >> /\ proofs = {}
        /\ Len(commitment_events) = 0 /\ Len(receipt_events) = 0
    BY DEF Init
  <1>3. EventsOf(commitment_events) /\ EventsOf(receipt_events)
    <2>1. << >> \in Seq({})
      OBVIOUS
    <2>2. QED
      BY <1>2, <2>1 DEF EventsOf
  <1>4. /\ \A i \in Nat : L[i] = Zero
        /\ \A i \in Nat : LeavesOf(receipt_events)[i] = Zero
    BY <1>2 DEF LeavesOf
  <1>5. TreeOf(empty, L, H) /\ TreeOf(EmptyTree(RECEIPT_TREE_HEIGHT), LeavesOf(receipt_events), RECEIPT_TREE_HEIGHT)
    BY <1>1, <1>4, EmptyIs
  <1>6. /\ tree.next_index = empty.next_index /\ tree.root = empty.root
        /\ tree.subtrees = empty.subtrees /\ tree.root_index = 0
        /\ tree.root_history = [i \in 0..(S - 1) |-> IF i = 0 THEN empty.root ELSE NullRoot]
    BY DEF Init
  <1>7. receipt_tree = EmptyTree(RECEIPT_TREE_HEIGHT)
    BY DEF Init
  <1>8. empty.next_index = 0 /\ receipt_tree.next_index = 0
    BY <1>7 DEF EmptyTree
  <1>9. empty.root = RootOf(L, 0)
    <2>1. \A i \in Nat : Cut(L, 0)[i] = Zero
      BY DEF Cut
    <2>2. TreeOf(empty, Cut(L, 0), H)
      BY <1>1, <2>1, EmptyIs
    <2>3. QED
      BY <2>2 DEF TreeOf, RootOf
  <1> HIDE DEF empty, L
  <1>10. TreeOf(tree, L, H)
    BY <1>5, <1>6 DEF TreeOf
  <1>11. RingOf(tree, L)
    <2>1. 0 % S = 0 /\ 0 \in 0..(S - 1) /\ tree.next_index = 0
      BY <1>1, <1>6, <1>8
    <2>2. tree.root_history[0] = RootOf(L, 0)
      BY <1>6, <1>9, <2>1
    <2>3. ASSUME NEW m \in Nat, m <= 0 PROVE tree.root_history[m % S] = RootOf(L, m)
      <3>1. m = 0
        BY <2>3
      <3>2. QED
        BY <2>1, <2>2, <3>1
    <2>4. QED
      BY <1>6, <2>1, <2>3 DEF RingOf
  <1>12. QED
    BY <1>2, <1>3, <1>5, <1>6, <1>7, <1>8, <1>10, <1>11 DEF TreesInv, Filled, L

\* Outputs behind the first n leaves leave a receipt for them valid.
LEMMA ReceiptKept ==
    ASSUME NEW r, NEW L, NEW n \in Nat, NEW outputs, ReceiptHolds(r, L, n)
    PROVE  ReceiptHolds(r, PutAll(L, n, N_OUTS, outputs), n + N_OUTS)
  <1> DEFINE last == r.last_commitment_index
             M == PutAll(L, n, N_OUTS, outputs)
  <1>1. N_OUTS \in Nat \ {0}
    BY CommitmentTreeAssumption
  <1>2. /\ last \in Int /\ last >= N_OUTS - 1 /\ last < n
        /\ r.commitment_root = RootOf(L, last + 1)
        /\ \A k \in 1..N_OUTS : r.commitments[k] = L[last - N_OUTS + k]
    BY DEF ReceiptHolds
  <1>3. \A i \in Nat : i < n => M[i] = L[i]
    BY DEF PutAll
  <1> HIDE DEF M, last
  <1>4. Cut(M, last + 1) = Cut(L, last + 1)
    <2>1. \A i \in Nat : i < last + 1 => M[i] = L[i]
      BY <1>2, <1>3
    <2>2. QED
      BY <2>1 DEF Cut
  <1>5. r.commitment_root = RootOf(M, last + 1)
    BY <1>2, <1>4 DEF RootOf
  <1>6. ASSUME NEW k \in 1..N_OUTS PROVE r.commitments[k] = M[last - N_OUTS + k]
    <2> DEFINE j == last - N_OUTS + k
    <2>1. j \in Nat /\ j < n
      BY <1>1, <1>2
    <2>2. r.commitments[k] = L[j]
      BY <1>2
    <2>3. QED
      BY <1>3, <2>1, <2>2
  <1>7. last < n + N_OUTS
    BY <1>1, <1>2
  <1>8. QED
    BY <1>2, <1>5, <1>6, <1>7 DEF ReceiptHolds, M, last

\* compute_receipt_and_hash: the receipt of the outputs that were just appended.
LEMMA ReceiptMade ==
    ASSUME NEW p, NEW tree, NEW L, NEW n \in Nat, tree.next_index = n + N_OUTS,
           TreeOf(tree, PutAll(L, n, N_OUTS, p.commitments), COMMITMENT_TREE_HEIGHT)
    PROVE  ReceiptHolds(ReceiptOf(p, tree), PutAll(L, n, N_OUTS, p.commitments), n + N_OUTS)
  <1> DEFINE M == PutAll(L, n, N_OUTS, p.commitments)
             r == ReceiptOf(p, tree)
             x == tree.next_index
             out == p.commitments
  <1>1. N_OUTS \in Nat \ {0}
    BY CommitmentTreeAssumption
  <1>2. /\ r.commitment_root = tree.root /\ r.last_commitment_index = x - 1
        /\ r.commitments = out
    BY DEF ReceiptOf
  <1>3. x = n + N_OUTS
    OBVIOUS
  <1>4. /\ \A i \in Nat : i >= x => M[i] = Zero
        /\ tree.root = Nodes(M, COMMITMENT_TREE_HEIGHT)[COMMITMENT_TREE_HEIGHT][0]
    BY DEF TreeOf
  <1>5. M = [i \in Nat |-> M[i]]
    BY DEF PutAll
  <1>6. ASSUME NEW k \in 1..N_OUTS PROVE out[k] = M[n + k - 1]
    <2>1. n + k - 1 \in Nat /\ n + k - 1 >= n /\ n + k - 1 < n + N_OUTS /\ (n + k - 1) - n + 1 = k
      BY <1>1
    <2>2. QED
      BY <2>1 DEF PutAll
  <1> HIDE DEF M, r, x, out
  <1>7. Cut(M, x) = M
    <2>1. \A i \in Nat : (IF i < x THEN M[i] ELSE Zero) = M[i]
      BY <1>1, <1>3, <1>4
    <2>2. Cut(M, x) = [i \in Nat |-> M[i]]
      BY <2>1 DEF Cut
    <2>3. QED
      BY <1>5, <2>2
  <1>8. r.commitment_root = RootOf(M, x)
    BY <1>2, <1>4, <1>7 DEF RootOf
  <1>9. \A k \in 1..N_OUTS : (x - 1) - N_OUTS + k = n + k - 1
    BY <1>1, <1>3
  <1>10. x - 1 \in Int /\ x - 1 >= N_OUTS - 1 /\ x - 1 < n + N_OUTS /\ (x - 1) + 1 = x
    BY <1>1, <1>3
  <1>11. ReceiptHolds(r, M, n + N_OUTS)
    BY <1>2, <1>6, <1>8, <1>9, <1>10 DEF ReceiptHolds
  <1>12. QED
    BY <1>11 DEF r, M, out

\* process_execute_transact.
LEMMA ExecuteTrees ==
    ASSUME TreesInv, NEW p \in proofs, ExecuteTransact(p) PROVE TreesInv'
  <1> DEFINE H == COMMITMENT_TREE_HEIGHT
             tree == commitment_tree
             n == tree.next_index
             events == commitment_events
             L == LeavesOf(events)
             out == p.commitments
             new == AppendCommitments(tree, out)
             M == PutAll(L, n, N_OUTS, out)
             receipt == ReceiptOf(p, new)
             e == ReceiptEvent(receipt_tree, receipt)
             x == receipt_tree.next_index
             R == LeavesOf(receipt_events)
  <1>1. /\ n + N_OUTS <= MaxCapacity(H) /\ x < MaxCapacity(RECEIPT_TREE_HEIGHT)
    BY DEF ExecuteTransact, HasRoom
  <1>2. /\ commitment_tree' = new
        /\ receipt_tree' = AppendLeaf(receipt_tree, receipt, RECEIPT_TREE_HEIGHT)
        /\ commitment_events' = events \o CommitmentEvents(tree, out)
        /\ receipt_events' = Append(receipt_events, e)
        /\ proofs' = proofs \ {p}
    BY DEF ExecuteTransact
  <1>3. /\ EventsOf(events) /\ EventsOf(receipt_events) /\ Len(events) = n /\ Len(receipt_events) = x
        /\ TreeOf(tree, L, H) /\ RingOf(tree, L) /\ TreeOf(receipt_tree, R, RECEIPT_TREE_HEIGHT)
        /\ \A i \in 0..(n - 1) : i < MaxCapacity(H) /\ L[i] \in Commitments
        /\ \A q \in proofs, k \in 1..N_OUTS : q.commitments[k] \in Commitments
        /\ \A i \in 1..x : ReceiptHolds(receipt_events[i].leaf, L, n)
    BY DEF TreesInv, Filled
  <1>4. n \in Nat /\ x \in Nat /\ N_OUTS \in Nat /\ RECEIPT_TREE_HEIGHT \in Nat
    BY <1>3, CommitmentTreeAssumption DEF TreeOf
  <1>5. L = [i \in Nat |-> L[i]]
    BY DEF LeavesOf
  <1>6. e.index = x /\ e.leaf = receipt
    BY DEF ReceiptEvent
  <1> HIDE DEF tree, L, out, receipt, e, events, R
  <1>7. TreeOf(new, M, H) /\ RingOf(new, M) /\ new.next_index = n + N_OUTS
    BY <1>1, <1>3, <1>5, AppendCommitmentsIs
  <1>8. /\ EventsOf(commitment_events') /\ Len(commitment_events') = n + N_OUTS
        /\ LeavesOf(commitment_events') = M
    BY <1>2, <1>3, CommitmentsAnnounced DEF L
  <1>9. /\ EventsOf(receipt_events') /\ Len(receipt_events') = x + 1
        /\ LeavesOf(receipt_events') = Put(R, x, receipt)
        /\ \A i \in 1..x : receipt_events'[i] = receipt_events[i]
        /\ receipt_events'[x + 1] = e
    <2>1. e.index = Len(receipt_events)
      BY <1>3, <1>6
    <2>2. QED
      BY <1>2, <1>3, <1>6, <2>1, ReceiptAnnounced DEF R
  <1>10. /\ TreeOf(receipt_tree', Put(R, x, receipt), RECEIPT_TREE_HEIGHT)
         /\ receipt_tree'.next_index = x + 1
    <2>1. TreeOf(AppendLeaf(receipt_tree, receipt, RECEIPT_TREE_HEIGHT), Put(R, x, receipt), RECEIPT_TREE_HEIGHT)
      BY <1>1, <1>3, <1>4, AppendIs
    <2>2. AppendLeaf(receipt_tree, receipt, RECEIPT_TREE_HEIGHT).next_index = x + 1
      BY DEF AppendLeaf
    <2>3. QED
      BY <1>2, <2>1, <2>2
  <1>11. ReceiptHolds(receipt, M, n + N_OUTS)
    BY <1>4, <1>7, ReceiptMade DEF receipt, out
  <1>12. ASSUME NEW i \in 1..(x + 1) PROVE ReceiptHolds(receipt_events'[i].leaf, M, n + N_OUTS)
    <2>1. CASE i \in 1..x
      <3> DEFINE r == receipt_events[i].leaf
      <3>1. ReceiptHolds(r, L, n) /\ receipt_events'[i].leaf = r
        BY <1>3, <1>9, <2>1
      <3> HIDE DEF r
      <3>2. ReceiptHolds(r, M, n + N_OUTS)
        BY <1>4, <3>1, ReceiptKept
      <3>3. QED
        BY <3>1, <3>2
    <2>2. CASE i = x + 1
      BY <1>6, <1>9, <1>11, <2>2
    <2>3. QED
      BY <1>4, <2>1, <2>2
  <1>13. ASSUME NEW i \in 0..(n + N_OUTS - 1) PROVE i < MaxCapacity(H) /\ M[i] \in Commitments
    <2>1. i < MaxCapacity(H)
      <3> DEFINE c == MaxCapacity(H)
      <3>1. i <= n + N_OUTS - 1 /\ n + N_OUTS <= c
        BY <1>1
      <3>2. c \in Nat
        BY CapacityNat, CommitmentTreeAssumption
      <3> HIDE DEF c, n
      <3>3. QED
        BY <1>4, <3>1, <3>2 DEF c
    <2>2. CASE i < n
      <3>1. i \in 0..(n - 1) /\ i \in Nat /\ ~(i >= n)
        BY <1>4, <2>2
      <3>2. M[i] = L[i]
        BY <3>1 DEF PutAll
      <3>3. QED
        BY <1>3, <2>1, <3>1, <3>2
    <2>3. CASE i >= n
      <3>1. i \in Nat /\ i < n + N_OUTS /\ i - n + 1 \in 1..N_OUTS
        BY <1>4, <2>3
      <3>2. M[i] = out[i - n + 1]
        BY <2>3, <3>1 DEF PutAll
      <3>3. out[i - n + 1] \in Commitments
        BY <1>3, <3>1 DEF out
      <3>4. QED
        BY <2>1, <3>2, <3>3
    <2>4. QED
      BY <1>4, <2>2, <2>3
  <1>14. \A q \in proofs', k \in 1..N_OUTS : q.commitments[k] \in Commitments
    BY <1>2, <1>3
  <1> HIDE DEF M, new
  <1>15. commitment_tree'.next_index = n + N_OUTS
    BY <1>2, <1>7
  <1> HIDE DEF n, x
  <1>16. (EventsOf(commitment_events) /\ EventsOf(receipt_events))'
    BY <1>8, <1>9 DEF EventsOf
  <1>17. /\ LeavesOf(commitment_events)' = M
         /\ LeavesOf(receipt_events)' = Put(R, x, receipt)
    BY <1>8, <1>9 DEF LeavesOf
  <1>18. (TreeOf(commitment_tree, LeavesOf(commitment_events), COMMITMENT_TREE_HEIGHT))'
    BY <1>2, <1>7, <1>17 DEF TreeOf, H
  <1>19. (RingOf(commitment_tree, LeavesOf(commitment_events)))'
    BY <1>2, <1>7, <1>17 DEF RingOf
  <1>20. (TreeOf(receipt_tree, LeavesOf(receipt_events), RECEIPT_TREE_HEIGHT))'
    BY <1>10, <1>17 DEF TreeOf
  <1>21. (\A i \in 1..Len(receipt_events) : ReceiptHolds(receipt_events[i].leaf,
             LeavesOf(commitment_events), commitment_tree.next_index))'
    BY <1>9, <1>12, <1>15, <1>17 DEF ReceiptHolds
  <1>22. (Filled(LeavesOf(commitment_events), commitment_tree.next_index))'
    <2> DEFINE y == commitment_tree'.next_index
               K == LeavesOf(commitment_events)'
    <2>1. y = n + N_OUTS /\ K = M
      BY <1>15, <1>17
    <2> HIDE DEF y, K
    <2>2. Filled(K, y)
      BY <1>4, <1>13, <2>1 DEF Filled
    <2>3. QED
      BY <2>2 DEF Filled, y, K
  <1>23. (/\ Len(commitment_events) = commitment_tree.next_index
          /\ Len(receipt_events) = receipt_tree.next_index
          /\ \A q \in proofs, k \in 1..N_OUTS : q.commitments[k] \in Commitments)'
    BY <1>8, <1>9, <1>10, <1>14, <1>15
  <1>24. QED
    BY Zenon, <1>16, <1>18, <1>19, <1>20, <1>21, <1>22, <1>23 DEF TreesInv

\* A client's proof names commitments.
LEMMA ProveTrees ==
    ASSUME TreesInv, NEW outputs \in [1..N_OUTS -> Commitments], Prove(outputs) PROVE TreesInv'
  <1>1. /\ commitment_tree' = commitment_tree /\ receipt_tree' = receipt_tree
        /\ commitment_events' = commitment_events /\ receipt_events' = receipt_events
        /\ proofs' = proofs \cup
             {[commitment_root |-> commitment_tree.root, commitments |-> outputs]}
    BY DEF Prove
  <1>2. \A q \in proofs', k \in 1..N_OUTS : q.commitments[k] \in Commitments
    <2> SUFFICES ASSUME NEW q \in proofs', NEW k \in 1..N_OUTS
                 PROVE  q.commitments[k] \in Commitments
      OBVIOUS
    <2>1. CASE q \in proofs
      BY <2>1 DEF TreesInv
    <2>2. CASE q \notin proofs
      <3>1. q.commitments = outputs
        BY <1>1, <2>2
      <3>2. QED
        BY <3>1
    <2>3. QED
      BY <2>1, <2>2
  <1>3. QED
    BY <1>1, <1>2 DEF TreesInv

\* The invariant holds of every behaviour.
THEOREM TreesInvariance == Spec => []TreesInv
  <1>1. TreesInv /\ [Next]_vars => TreesInv'
    <2> SUFFICES ASSUME TreesInv, [Next]_vars PROVE TreesInv'
      OBVIOUS
    <2>1. CASE \E outputs \in [1..N_OUTS -> Commitments] : Prove(outputs)
      BY <2>1, ProveTrees
    <2>2. CASE \E p \in proofs : ExecuteTransact(p)
      BY <2>2, ExecuteTrees
    <2>3. CASE UNCHANGED vars
      BY <2>3 DEF vars, TreesInv
    <2>4. QED
      BY <2>1, <2>2, <2>3 DEF Next
  <1>2. QED
    BY <1>1, InitTrees, PTL DEF Spec

\* Leaves with nothing behind them are their own first n.
LEMMA CutAll ==
    ASSUME NEW L, NEW n \in Nat, L = [i \in Nat |-> L[i]], \A i \in Nat : i >= n => L[i] = Zero
    PROVE  Cut(L, n) = L
  <1>1. \A i \in Nat : (IF i < n THEN L[i] ELSE Zero) = L[i]
    OBVIOUS
  <1>2. Cut(L, n) = [i \in Nat |-> L[i]]
    BY <1>1 DEF Cut
  <1>3. QED
    BY <1>2

\* tree_updates.rs, "Events must match on-chain state for indexer consistency":
\* the roots that append computes from one saved subtree per level are those of
\* the full trees over the announced leaves, for every height.
THEOREM IndexersAgree == Spec => []EventsRebuildTrees
  <1>1. ASSUME NEW events, NEW tree, NEW height, EventsOf(events),
               Len(events) = tree.next_index, TreeOf(tree, LeavesOf(events), height)
        PROVE  tree.root = RebuiltRoot(events, tree.next_index, height)
    <2> DEFINE n == tree.next_index
               L == LeavesOf(events)
    <2>1. /\ n \in Nat /\ (\A i \in Nat : i >= n => L[i] = Zero)
          /\ tree.root = Nodes(L, height)[height][0]
      BY <1>1 DEF TreeOf
    <2>2. L = [i \in Nat |-> L[i]]
      BY DEF LeavesOf
    <2>3. n <= Len(events)
      BY <1>1, <2>1
    <2>4. RebuiltRoot(events, n, height) = Nodes(Cut(L, n), height)[height][0]
      <3> HIDE DEF n
      <3>1. QED
        BY <1>1, <2>1, <2>3, RebuiltIs
    <2> HIDE DEF L, n
    <2>5. Cut(L, n) = L
      BY <2>1, <2>2, CutAll
    <2>6. QED
      BY <2>1, <2>4, <2>5 DEF n
  <1>2. TreesInv => EventsRebuildTrees
    BY <1>1 DEF TreesInv, EventsRebuildTrees
  <1>3. QED
    BY <1>2, TreesInvariance, PTL

\* The size of a tree is in its root.
LEMMA RootsDiffer ==
    ASSUME NEW L, NEW m \in Nat, NEW n \in Nat, n < m,
           n < MaxCapacity(COMMITMENT_TREE_HEIGHT), L[n] \in Commitments
    PROVE  RootOf(L, m) # RootOf(L, n)
  <1> DEFINE A == Cut(L, m)
             B == Cut(L, n)
             H == COMMITMENT_TREE_HEIGHT
  <1>1. A[n] = L[n] /\ B[n] = Zero
    BY DEF Cut
  <1>2. A[n] # B[n]
    BY <1>1, CommitmentTreeAssumption
  <1>3. H \in Nat
    BY CommitmentTreeAssumption
  <1> HIDE DEF A, B
  <1>4. n < MaxCapacity(H)
    OBVIOUS
  <1> HIDE DEF H
  <1>5. ~SameRoot(A, B, H)
    BY <1>2, <1>3, <1>4, RootsTellLeaves
  <1>6. QED
    BY <1>5 DEF SameRoot, RootOf, A, B, H

\* No tree has the null root.
LEMMA RootIsHash ==
    ASSUME NEW L, NEW n PROVE RootOf(L, n) # NullRoot
  <1> DEFINE A == Cut(L, n)
             h == COMMITMENT_TREE_HEIGHT - 1
             H == COMMITMENT_TREE_HEIGHT
             N == Nodes(A, H)
  <1>1. H \in Nat /\ h \in 0..(H - 1) /\ h + 1 = H
    BY CommitmentTreeAssumption
  <1>2. IsTree(N, A, H)
    BY <1>1, NodesTree
  <1> HIDE DEF A, h, N
  <1>3. N[h + 1][0] = Hash(N[h][2 * 0], N[h][2 * 0 + 1])
    BY <1>1, <1>2 DEF IsTree
  <1>4. N[H][0] # NullRoot
    BY <1>1, <1>3, NullIsNoHash
  <1>5. QED
    BY <1>4 DEF RootOf, A, N

\* MerkleTree::is_known_root accepts exactly the roots of the last
\* ROOT_HISTORY_SIZE sizes, wherever the cursor is, and never the null root: a
\* proof stays executable for that many appends, and no longer.
THEOREM RingIsRecent == Spec => []KnownRootsAreRecent
  <1> DEFINE tree == commitment_tree
             L == LeavesOf(commitment_events)
             S == ROOT_HISTORY_SIZE
             x == tree.next_index
  <1>1. ASSUME TreesInv PROVE KnownRootsAreRecent
    <2>1. /\ EventsOf(commitment_events) /\ Len(commitment_events) = x /\ x \in Nat
          /\ RingOf(tree, L) /\ Filled(L, x)
      BY <1>1 DEF TreesInv, TreeOf
    <2>2. S \in Nat \ {0}
      BY CommitmentTreeAssumption
    <2>3. /\ tree.root_index = x % S
          /\ \A m \in Nat : m <= x /\ m > x - S => tree.root_history[m % S] = RootOf(L, m)
      BY <2>1 DEF RingOf
    <2> DEFINE entry(offset) == tree.root_history[(tree.root_index + S - offset) % S]
    <2>4. \A r : IsKnownRoot(tree, r) <=> r # NullRoot /\ \E offset \in 0..(S - 1) : r = entry(offset)
      BY DEF IsKnownRoot
    <2> HIDE DEF x, S, L, tree
    <2>5. ASSUME NEW offset \in 0..(S - 1), offset <= x PROVE entry(offset) = RootOf(L, x - offset)
      <3> DEFINE m == x - offset
      <3>1. m \in Nat /\ m <= x /\ m > x - S /\ x \in Int /\ offset \in Int
        BY <2>1, <2>2, <2>5
      <3>2. ((x % S) + S - offset) % S = m % S
        BY <2>2, <3>1, Cursor
      <3> HIDE DEF m
      <3>3. QED
        BY <2>3, <3>1, <3>2 DEF m
    <2>6. ASSUME NEW n \in 0..x PROVE RootAt(n) = RootOf(L, n)
      <3>1. n \in Nat /\ n <= Len(commitment_events)
        BY <2>1, <2>6
      <3>2. QED
        BY <2>1, <3>1, RebuiltIs DEF RootAt, RootOf, L
    <2>7. ASSUME NEW n \in 0..x PROVE IsKnownRoot(tree, RootOf(L, n)) <=> n > x - S
      <3>1. ASSUME n > x - S PROVE IsKnownRoot(tree, RootOf(L, n))
        <4> DEFINE o == x - n
        <4>1. o \in 0..(S - 1) /\ o <= x /\ x - o = n
          BY <2>1, <2>2, <2>7, <3>1
        <4> HIDE DEF o
        <4>2. RootOf(L, n) = entry(o)
          BY <2>5, <4>1
        <4>3. RootOf(L, n) # NullRoot
          BY RootIsHash
        <4> HIDE DEF entry
        <4>4. QED
          BY <2>4, <4>1, <4>2, <4>3
      <3>2. ASSUME ~(n > x - S), IsKnownRoot(tree, RootOf(L, n)) PROVE FALSE
        <4>1. PICK offset \in 0..(S - 1) : RootOf(L, n) = entry(offset)
          <5> HIDE DEF entry
          <5>1. QED
            BY <2>4, <3>2
        <4> DEFINE m == x - offset
        <4>2. offset <= x /\ m \in Nat /\ n \in Nat /\ n < m /\ n \in 0..(x - 1)
          BY <2>1, <2>2, <2>7, <3>2
        <4>3. entry(offset) = RootOf(L, m)
          BY <2>5, <4>2
        <4>4. n < MaxCapacity(COMMITMENT_TREE_HEIGHT) /\ L[n] \in Commitments
          BY <2>1, <4>2 DEF Filled
        <4> HIDE DEF m, entry
        <4>5. RootOf(L, m) # RootOf(L, n)
          BY <4>2, <4>4, RootsDiffer
        <4>6. QED
          BY <4>1, <4>3, <4>5
      <3>3. QED
        BY <3>1, <3>2
    <2>8. ~IsKnownRoot(tree, NullRoot)
      BY <2>4
    <2>9. \A n \in 0..x : IsKnownRoot(tree, RootAt(n)) <=> n > x - S
      BY <2>6, <2>7
    <2>10. QED
      BY <2>8, <2>9 DEF KnownRootsAreRecent, tree, x, S
  <1>2. QED
    BY <1>1, TreesInvariance, PTL

\* compute_receipt_and_hash: last_commitment_index and commitment_root of every
\* receipt name a size of the tree that ends with the receipt's commitments, and
\* go on doing so while the tree grows.
THEOREM ReceiptsStayValid == Spec => []ReceiptsVerify
  <1>1. ASSUME TreesInv PROVE ReceiptsVerify
    <2> DEFINE es == commitment_events
               L == LeavesOf(es)
               x == commitment_tree.next_index
    <2>1. /\ EventsOf(es) /\ Len(es) = x /\ x \in Nat /\ EventsOf(receipt_events)
          /\ \A i \in 1..Len(receipt_events) : ReceiptHolds(receipt_events[i].leaf, L, x)
      BY <1>1 DEF TreesInv, TreeOf
    <2>2. DOMAIN receipt_events = 1..Len(receipt_events)
      BY <2>1 DEF EventsOf
    <2>3. N_OUTS \in Nat \ {0}
      BY CommitmentTreeAssumption
    <2> HIDE DEF es, L, x
    <2>4. ASSUME NEW i \in DOMAIN receipt_events
          PROVE  LET r    == receipt_events[i].leaf
                     last == r.last_commitment_index
                 IN  /\ last < x
                     /\ r.commitment_root = RootAt(last + 1)
                     /\ \A k \in 1..N_OUTS : r.commitments[k] = Announced(es, last - N_OUTS + k)
      <3> DEFINE r == receipt_events[i].leaf
                 last == r.last_commitment_index
                 m == last + 1
      <3>1. ReceiptHolds(r, L, x)
        BY <2>1, <2>2, <2>4
      <3> HIDE DEF r
      <3>2. /\ last \in Int /\ last >= N_OUTS - 1 /\ last < x
            /\ r.commitment_root = RootOf(L, m)
            /\ \A k \in 1..N_OUTS : r.commitments[k] = L[last - N_OUTS + k]
        BY <3>1 DEF ReceiptHolds
      <3> HIDE DEF last
      <3>3. RootAt(m) = RootOf(L, m)
        <4>1. m \in Nat /\ m <= Len(es)
          BY <2>1, <2>3, <3>2
        <4> HIDE DEF m
        <4>2. QED
          BY <2>1, <4>1, RebuiltIs DEF RootAt, RootOf, L, es
      <3>4. ASSUME NEW k \in 1..N_OUTS PROVE r.commitments[k] = Announced(es, last - N_OUTS + k)
        <4> DEFINE j == last - N_OUTS + k
        <4>1. j \in 0..(Len(es) - 1)
          BY <2>1, <2>3, <3>2
        <4>2. r.commitments[k] = L[j]
          BY <3>2
        <4> HIDE DEF j
        <4>3. Announced(es, j) = L[j]
          BY <2>1, <4>1, AnnouncedIs DEF L
        <4>4. QED
          BY <4>2, <4>3 DEF j
      <3>5. QED
        BY <3>2, <3>3, <3>4 DEF last, r
    <2>5. QED
      BY <2>4 DEF ReceiptsVerify, es, x
  <1>2. QED
    BY <1>1, TreesInvariance, PTL
=============================================================================
