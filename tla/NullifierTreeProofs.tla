------------------------ MODULE NullifierTreeProofs ------------------------
(***************************************************************************)
(* Proofs about NullifierTree for every number of nullifiers, group size,  *)
(* epoch window and grace period.                                          *)
(***************************************************************************)
EXTENDS NullifierTree, TLAPS, SequenceTheorems

\* The inductive invariant, by parts.
IndexOrder ==
    /\ next_index <= next_pending_index
    /\ earliest_provable_epoch <= current_epoch
    /\ current_epoch >= 1

\* A PDA is pending exactly when its index is not in the tree yet; an inserted
\* one is the leaf at its index.
PdaFields ==
    \A n \in live :
        /\ pending_index[n] \in 1..(next_pending_index - 1)
        /\ inserted_epoch[n] = 0 => pending_index[n] >= next_index
        /\ inserted_epoch[n] # 0 => /\ pending_index[n] < next_index
                                    /\ leaves[pending_index[n]] = n
                                    /\ inserted_epoch[n] <= current_epoch

UniquePending ==
    \A m, n \in live : pending_index[m] = pending_index[n] => m = n

RootsBehind ==
    \A e \in DOMAIN epoch_root : e < current_epoch /\ epoch_root[e] <= next_index

\* The root of epoch e holds what was inserted up to epoch e.
Frozen ==
    \A n \in live : \A e \in DOMAIN epoch_root :
        inserted_epoch[n] # 0 /\ inserted_epoch[n] <= e => pending_index[n] < epoch_root[e]

\* A nullifier without a PDA is a leaf of all provable roots.
Covered ==
    \A n \in Nullifiers : spends[n] > 0 /\ n \notin live =>
        \E i \in 1..Len(leaves) :
            /\ leaves[i] = n
            /\ \A e \in DOMAIN epoch_root : e >= earliest_provable_epoch => i < epoch_root[e]

WindowComplete ==
    \A e \in earliest_provable_epoch..(current_epoch - 1) : e \in DOMAIN epoch_root

QueueComplete ==
    \A i \in next_index..(next_pending_index - 1) : \E n \in live : pending_index[n] = i

IInv ==
    /\ TypeOK /\ IndexOrder /\ PdaFields /\ UniquePending /\ RootsBehind
    /\ Frozen /\ Covered /\ WindowComplete /\ QueueComplete

-----------------------------------------------------------------------------
\* Appending a group of BATCH leaves keeps the old leaves where they were and
\* puts the group at the next indices.
LEMMA AppendGroup ==
    ASSUME NEW S, NEW s \in Seq(S), NEW m \in Nat, NEW t \in [1..m -> S]
    PROVE  /\ s \o t \in Seq(S)
           /\ Len(s \o t) = Len(s) + m
           /\ \A i \in 1..Len(s) : (s \o t)[i] = s[i]
           /\ \A i \in 1..m : (s \o t)[Len(s) + i] = t[i]
<1>1. t \in Seq(S) /\ Len(t) = m
  OBVIOUS
<1>2. s \o t \in Seq(S) /\ Len(s \o t) = Len(s) + m
  BY <1>1
<1>3. ASSUME NEW i \in 1..Len(s) PROVE (s \o t)[i] = s[i]
  BY <1>1
<1>4. ASSUME NEW i \in 1..m PROVE (s \o t)[Len(s) + i] = t[i]
  BY <1>1
<1>5. QED
  BY <1>2, <1>3, <1>4

\* The invariant holds after process_initialize.
LEMMA InitInvariant == Init => IInv
BY ConstantsAssumption DEF Init, IInv, TypeOK, IndexOrder, PdaFields, UniquePending,
   RootsBehind, Frozen, Covered, WindowComplete, QueueComplete, next_index

-----------------------------------------------------------------------------
\* The index the i-th nullifier of a group gets, and what stays as it was.
LEMMA TransactIndices ==
    ASSUME TypeOK, NEW ns \in Distinct(N_INS), NEW k, ExecuteTransact(ns, k)
    PROVE  /\ \A i \in 1..N_INS : /\ ns[i] \in Nullifiers
                                  /\ pending_index'[ns[i]] = next_pending_index + i - 1
                                  /\ inserted_epoch'[ns[i]] = 0
           /\ \A n \in live : /\ pending_index'[n] = pending_index[n]
                              /\ inserted_epoch'[n] = inserted_epoch[n]
           /\ \A n \in live' : n \in live \/ \E i \in 1..N_INS : n = ns[i]
<1>1. ASSUME NEW i \in 1..N_INS
      PROVE  (CHOOSE j \in 1..N_INS : ns[j] = ns[i]) = i
  BY DEF Distinct
<1>2. ASSUME NEW i \in 1..N_INS
      PROVE  /\ ns[i] \in Nullifiers
             /\ pending_index'[ns[i]] = next_pending_index + i - 1
             /\ inserted_epoch'[ns[i]] = 0
  <2>1. ns[i] \in Nullifiers
    BY DEF Distinct
  <2>2. \E j \in 1..N_INS : ns[j] = ns[i]
    OBVIOUS
  <2>3. inserted_epoch'[ns[i]] = 0
    BY <2>1, <2>2 DEF ExecuteTransact
  <2>4. pending_index'[ns[i]]
          = next_pending_index + (CHOOSE j \in 1..N_INS : ns[j] = ns[i]) - 1
    BY <2>1, <2>2 DEF ExecuteTransact
  <2>5. QED
    BY <1>1, <2>1, <2>3, <2>4
<1>3. ASSUME NEW n \in live
      PROVE  /\ pending_index'[n] = pending_index[n]
             /\ inserted_epoch'[n] = inserted_epoch[n]
  <2>1. n \in Nullifiers
    BY DEF TypeOK
  <2>2. ~\E i \in 1..N_INS : ns[i] = n
    BY DEF ExecuteTransact
  <2>3. QED
    BY <2>1, <2>2 DEF ExecuteTransact
<1>4. \A n \in live' : n \in live \/ \E i \in 1..N_INS : n = ns[i]
  BY DEF ExecuteTransact
<1>5. QED
  BY <1>2, <1>3, <1>4

\* A transaction keeps the invariant: its PDAs get the next free indices.
LEMMA TransactInvariant ==
    ASSUME IInv, NEW ns \in Distinct(N_INS), NEW k, ExecuteTransact(ns, k)
    PROVE  IInv'
<1> USE ConstantsAssumption
<1>0. TypeOK
  BY DEF IInv
<1>a. /\ \A i \in 1..N_INS : /\ ns[i] \in Nullifiers
                             /\ pending_index'[ns[i]] = next_pending_index + i - 1
                             /\ inserted_epoch'[ns[i]] = 0
      /\ \A n \in live : /\ pending_index'[n] = pending_index[n]
                         /\ inserted_epoch'[n] = inserted_epoch[n]
      /\ \A n \in live' : n \in live \/ \E i \in 1..N_INS : n = ns[i]
  BY <1>0, TransactIndices
<1>b. next_index \in Nat \ {0} /\ next_pending_index \in Nat /\ N_INS \in Nat
  BY <1>0 DEF TypeOK, next_index
<1>1. TypeOK'
  <2>1. pending_index' \in [Nullifiers -> Nat]
    <3>1. ASSUME NEW n \in Nullifiers PROVE pending_index'[n] \in Nat
      <4>1. CASE \E i \in 1..N_INS : ns[i] = n
        BY <1>0, <4>1, <1>a DEF TypeOK
      <4>2. CASE ~\E i \in 1..N_INS : ns[i] = n
        BY <1>0, <4>2 DEF TypeOK, ExecuteTransact
      <4>3. QED
        BY <4>1, <4>2
    <3>2. QED
      BY <3>1 DEF ExecuteTransact
  <2>2. inserted_epoch' \in [Nullifiers -> Nat] /\ spends' \in [Nullifiers -> Nat]
    BY <1>0 DEF TypeOK, ExecuteTransact
  <2>3. false_proofs' \in [Nullifiers -> Nat]
    BY <1>0 DEF TypeOK, ExecuteTransact
  <2>4. live' \subseteq Nullifiers
    <3>1. live \subseteq Nullifiers
      BY <1>0 DEF TypeOK
    <3>2. QED
      BY <1>a, <3>1
  <2>5. next_pending_index' \in Nat /\ commitments' \in Nat
    BY <1>0 DEF TypeOK, ExecuteTransact
  <2>6. QED
    BY <1>0, <2>1, <2>2, <2>3, <2>4, <2>5 DEF next_index, TypeOK, ExecuteTransact
<1>2. next_index' = next_index /\ next_pending_index' = next_pending_index + N_INS
  BY DEF ExecuteTransact, next_index
<1>3. IndexOrder'
  BY <1>0, <1>2 DEF IInv, IndexOrder, ExecuteTransact, TypeOK, next_index
<1>4. PdaFields'
  <2> SUFFICES ASSUME NEW n \in live'
               PROVE  /\ pending_index'[n] \in 1..(next_pending_index' - 1)
                      /\ inserted_epoch'[n] = 0 => pending_index'[n] >= next_index'
                      /\ inserted_epoch'[n] # 0 =>
                           /\ pending_index'[n] < next_index'
                           /\ leaves'[pending_index'[n]] = n
                           /\ inserted_epoch'[n] <= current_epoch'
    BY DEF PdaFields
  <2>1. leaves' = leaves /\ current_epoch' = current_epoch
    BY DEF ExecuteTransact
  <2>2. CASE n \in live
    <3>1. /\ pending_index[n] \in 1..(next_pending_index - 1)
          /\ inserted_epoch[n] = 0 => pending_index[n] >= next_index
          /\ inserted_epoch[n] # 0 =>
               /\ pending_index[n] < next_index
               /\ leaves[pending_index[n]] = n
               /\ inserted_epoch[n] <= current_epoch
      BY <2>2 DEF IInv, PdaFields
    <3>2. QED
      BY <1>a, <1>b, <1>2, <2>1, <2>2, <3>1
  <2>3. CASE n \notin live
    <3>1. PICK i \in 1..N_INS : n = ns[i]
      BY <1>a, <2>3
    <3>2. QED
      BY <1>a, <1>b, <1>2, <3>1 DEF IInv, IndexOrder
  <2>4. QED
    BY <2>2, <2>3
<1>5. UniquePending'
  <2> SUFFICES ASSUME NEW m \in live', NEW n \in live', pending_index'[m] = pending_index'[n]
               PROVE  m = n
    BY DEF UniquePending
  <2>1. \A q \in live : pending_index'[q] < next_pending_index
    BY <1>a, <1>b DEF IInv, PdaFields
  <2>2. CASE m \in live /\ n \in live
    BY <1>a, <2>2 DEF IInv, UniquePending
  <2>3. CASE m \in live /\ n \notin live
    BY <1>a, <1>b, <2>1, <2>3
  <2>4. CASE m \notin live /\ n \in live
    BY <1>a, <1>b, <2>1, <2>4
  <2>5. CASE m \notin live /\ n \notin live
    BY <1>a, <1>b, <2>5
  <2>6. QED
    BY <2>2, <2>3, <2>4, <2>5
<1>6. RootsBehind'
  BY <1>2 DEF IInv, RootsBehind, ExecuteTransact
<1>7. Frozen'
  <2>1. epoch_root' = epoch_root
    BY DEF ExecuteTransact
  <2>2. QED
    BY <1>a, <2>1 DEF IInv, Frozen
<1>8. Covered'
  <2> SUFFICES ASSUME NEW n \in Nullifiers, spends'[n] > 0, n \notin live'
               PROVE  \E i \in 1..Len(leaves) :
                         /\ leaves[i] = n
                         /\ \A e \in DOMAIN epoch_root :
                              e >= earliest_provable_epoch => i < epoch_root[e]
    BY DEF Covered, ExecuteTransact
  <2>1. spends[n] > 0 /\ n \notin live
    BY DEF ExecuteTransact
  <2>2. QED
    BY <2>1 DEF IInv, Covered
<1>9. WindowComplete'
  BY DEF IInv, WindowComplete, ExecuteTransact
<1>10. QueueComplete'
  <2> SUFFICES ASSUME NEW i \in next_index..(next_pending_index + N_INS - 1)
               PROVE  \E n \in live' : pending_index'[n] = i
    BY <1>b, <1>2 DEF QueueComplete
  <2>1. CASE i < next_pending_index
    <3>1. PICK n \in live : pending_index[n] = i
      BY <1>b, <2>1 DEF IInv, QueueComplete
    <3>2. n \in live' /\ pending_index'[n] = i
      BY <1>a, <3>1 DEF ExecuteTransact
    <3>3. QED
      BY <3>2
  <2>2. CASE i >= next_pending_index
    <3> DEFINE j == i - next_pending_index + 1
    <3>1. j \in 1..N_INS
      BY <1>b, <2>2
    <3>2. ns[j] \in live'
      BY <3>1 DEF ExecuteTransact
    <3>3. pending_index'[ns[j]] = i
      BY <1>a, <1>b, <3>1
    <3>4. QED
      BY <3>2, <3>3
  <2>3. QED
    BY <1>b, <2>1, <2>2
<1>11. QED
  BY <1>1, <1>3, <1>4, <1>5, <1>6, <1>7, <1>8, <1>9, <1>10 DEF IInv

\* A batch keeps the invariant: it moves pending nullifiers, in order, to the leaves.
LEMMA BatchInsertInvariant ==
    ASSUME IInv, NEW ns \in Distinct(BATCH), NEW lows \in LowLeaves,
           NullifierBatchInsert(ns, lows)
    PROVE  IInv'
<1> USE ConstantsAssumption
<1>0. TypeOK
  BY DEF IInv
<1>a. /\ leaves' \in Seq(Nullifiers)
      /\ Len(leaves') = Len(leaves) + BATCH
      /\ \A i \in 1..Len(leaves) : leaves'[i] = leaves[i]
      /\ \A i \in 1..BATCH : leaves'[Len(leaves) + i] = ns[i]
  <2>1. leaves \in Seq(Nullifiers) /\ BATCH \in Nat /\ ns \in [1..BATCH -> Nullifiers]
    BY <1>0 DEF TypeOK, Distinct
  <2>2. leaves' = leaves \o ns
    BY DEF NullifierBatchInsert
  <2>3. /\ leaves \o ns \in Seq(Nullifiers)
        /\ Len(leaves \o ns) = Len(leaves) + BATCH
        /\ \A i \in 1..Len(leaves) : (leaves \o ns)[i] = leaves[i]
        /\ \A i \in 1..BATCH : (leaves \o ns)[Len(leaves) + i] = ns[i]
    BY <2>1, AppendGroup
  <2>4. QED
    BY <2>2, <2>3
<1>b. /\ Len(leaves) \in Nat /\ next_pending_index \in Nat /\ BATCH \in Nat
      /\ current_epoch \in Nat
  BY <1>0 DEF TypeOK
<1>c. next_index = Len(leaves) + 1 /\ next_index' = Len(leaves) + BATCH + 1
  BY <1>a, <1>b DEF next_index
<1>d. \A i \in 1..BATCH : /\ ns[i] \in live
                          /\ pending_index[ns[i]] = Len(leaves) + i
                          /\ inserted_epoch[ns[i]] = 0
                          /\ inserted_epoch'[ns[i]] = current_epoch
  <2> SUFFICES ASSUME NEW i \in 1..BATCH
               PROVE  /\ ns[i] \in live
                      /\ pending_index[ns[i]] = Len(leaves) + i
                      /\ inserted_epoch[ns[i]] = 0
                      /\ inserted_epoch'[ns[i]] = current_epoch
    OBVIOUS
  <2>1. ns[i] \in live /\ pending_index[ns[i]] = next_index + i - 1
    BY DEF NullifierBatchInsert, InsertablePda
  <2>2. pending_index[ns[i]] = Len(leaves) + i
    BY <1>b, <1>c, <2>1
  <2>3. inserted_epoch[ns[i]] = 0
    BY <1>b, <1>c, <2>1, <2>2 DEF IInv, PdaFields
  <2>4. inserted_epoch'[ns[i]] = current_epoch
    BY <2>1, <2>3, <1>0 DEF NullifierBatchInsert, TypeOK
  <2>5. QED
    BY <2>1, <2>2, <2>3, <2>4
<1>e. \A n \in live : (~\E i \in 1..BATCH : ns[i] = n) => inserted_epoch'[n] = inserted_epoch[n]
  BY <1>0 DEF NullifierBatchInsert, TypeOK
<1>f. /\ live' = live /\ pending_index' = pending_index /\ epoch_root' = epoch_root
      /\ next_pending_index' = next_pending_index /\ current_epoch' = current_epoch
      /\ earliest_provable_epoch' = earliest_provable_epoch /\ spends' = spends
  BY DEF NullifierBatchInsert
<1>1. TypeOK'
  <2>1. inserted_epoch' \in [Nullifiers -> Nat]
    BY <1>0 DEF TypeOK, NullifierBatchInsert
  <2>2. QED
    <3>1. opened' \subseteq next_index'..(Capacity - 1)
      <4> SUFFICES ASSUME NEW j \in opened' PROVE j \in next_index'..(Capacity - 1)
        OBVIOUS
      <4>1. j \in next_index..(Capacity - 1)
        BY <1>0 DEF TypeOK, NullifierBatchInsert, LowLeaves
      <4>2. j \notin next_index..(next_index + BATCH - 1)
        BY DEF NullifierBatchInsert, BatchProofVerifies
      <4>3. QED
        BY <1>b, <1>c, <4>1, <4>2
    <3>2. QED
      BY <1>0, <1>a, <2>1, <3>1 DEF TypeOK, NullifierBatchInsert
<1>2. IndexOrder'
  <2>1. BATCH \in 1..BATCH
    BY <1>b
  <2>2. pending_index[ns[BATCH]] \in 1..(next_pending_index - 1)
    BY <1>d, <2>1 DEF IInv, PdaFields
  <2>3. Len(leaves) + BATCH <= next_pending_index - 1
    BY <1>b, <1>d, <2>1, <2>2
  <2>4. QED
    BY <1>b, <1>c, <1>f, <2>3 DEF IInv, IndexOrder
<1>3. PdaFields'
  <2> SUFFICES ASSUME NEW n \in live
               PROVE  /\ pending_index[n] \in 1..(next_pending_index - 1)
                      /\ inserted_epoch'[n] = 0 => pending_index[n] >= next_index'
                      /\ inserted_epoch'[n] # 0 =>
                           /\ pending_index[n] < next_index'
                           /\ leaves'[pending_index[n]] = n
                           /\ inserted_epoch'[n] <= current_epoch
    BY <1>f DEF PdaFields
  <2>1. /\ pending_index[n] \in 1..(next_pending_index - 1)
        /\ inserted_epoch[n] = 0 => pending_index[n] >= next_index
        /\ inserted_epoch[n] # 0 =>
             /\ pending_index[n] < next_index
             /\ leaves[pending_index[n]] = n
             /\ inserted_epoch[n] <= current_epoch
    BY DEF IInv, PdaFields
  <2>2. CASE \E i \in 1..BATCH : ns[i] = n
    <3>1. PICK i \in 1..BATCH : ns[i] = n
      BY <2>2
    <3>2. pending_index[n] = Len(leaves) + i /\ inserted_epoch'[n] = current_epoch
      BY <1>d, <3>1
    <3>3. leaves'[Len(leaves) + i] = n
      BY <1>a, <3>1
    <3>4. current_epoch # 0
      BY DEF IInv, IndexOrder
    <3>5. QED
      BY <1>b, <1>c, <2>1, <3>2, <3>3, <3>4
  <2>3. CASE ~\E i \in 1..BATCH : ns[i] = n
    <3>1. inserted_epoch'[n] = inserted_epoch[n]
      BY <1>e, <2>3
    <3>2. CASE inserted_epoch[n] = 0
      <4>1. SUFFICES ASSUME pending_index[n] < next_index' PROVE FALSE
        BY <1>b, <1>c, <2>1, <3>1, <3>2
      <4> DEFINE i == pending_index[n] - Len(leaves)
      <4>2. i \in 1..BATCH
        BY <1>b, <1>c, <2>1, <3>2, <4>1
      <4>3. pending_index[ns[i]] = pending_index[n] /\ ns[i] \in live
        BY <1>b, <1>d, <2>1, <4>2
      <4>4. ns[i] = n
        BY <4>3 DEF IInv, UniquePending
      <4>5. QED
        BY <2>3, <4>2, <4>4
    <3>3. CASE inserted_epoch[n] # 0
      <4>1. pending_index[n] \in 1..Len(leaves)
        BY <1>b, <1>c, <2>1, <3>3
      <4>2. leaves'[pending_index[n]] = n
        BY <1>a, <2>1, <3>3, <4>1
      <4>3. QED
        BY <1>b, <1>c, <2>1, <3>1, <3>3, <4>1, <4>2
    <3>4. QED
      BY <3>2, <3>3
  <2>4. QED
    BY <2>2, <2>3
<1>4. UniquePending'
  BY <1>f DEF IInv, UniquePending
<1>5. RootsBehind'
  BY <1>b, <1>c, <1>f, <1>0 DEF IInv, RootsBehind, TypeOK
<1>6. Frozen'
  <2> SUFFICES ASSUME NEW n \in live, NEW e \in DOMAIN epoch_root,
                      inserted_epoch'[n] # 0, inserted_epoch'[n] <= e
               PROVE  pending_index[n] < epoch_root[e]
    BY <1>f DEF Frozen
  <2>1. e < current_epoch /\ e \in Nat
    BY <1>0 DEF IInv, RootsBehind, TypeOK
  <2>2. ~\E i \in 1..BATCH : ns[i] = n
    BY <1>b, <1>d, <2>1
  <2>3. QED
    BY <1>e, <2>2 DEF IInv, Frozen
<1>7. Covered'
  <2> SUFFICES ASSUME NEW n \in Nullifiers, spends[n] > 0, n \notin live
               PROVE  \E i \in 1..Len(leaves') :
                        /\ leaves'[i] = n
                        /\ \A e \in DOMAIN epoch_root :
                              e >= earliest_provable_epoch => i < epoch_root[e]
    BY <1>f DEF Covered
  <2>1. PICK i \in 1..Len(leaves) :
          /\ leaves[i] = n
          /\ \A e \in DOMAIN epoch_root : e >= earliest_provable_epoch => i < epoch_root[e]
    BY DEF IInv, Covered
  <2>2. i \in 1..Len(leaves') /\ leaves'[i] = n
    BY <1>a, <1>b, <2>1
  <2>3. QED
    BY <2>1, <2>2
<1>8. WindowComplete'
  BY <1>f DEF IInv, WindowComplete
<1>9. QueueComplete'
  <2> SUFFICES ASSUME NEW i \in next_index'..(next_pending_index - 1)
               PROVE  \E n \in live : pending_index[n] = i
    BY <1>f DEF QueueComplete
  <2>1. i \in next_index..(next_pending_index - 1)
    BY <1>b, <1>c
  <2>2. QED
    BY <2>1 DEF IInv, QueueComplete
<1>10. QED
  BY <1>1, <1>2, <1>3, <1>4, <1>5, <1>6, <1>7, <1>8, <1>9 DEF IInv

\* A new epoch keeps the invariant: its root has all leaves inserted so far.
LEMMA AdvanceEpochInvariant ==
    ASSUME IInv, AdvanceNullifierEpoch
    PROVE  IInv'
<1> USE ConstantsAssumption
<1>0. TypeOK
  BY DEF IInv
<1>a. next_index \in Nat \ {0} /\ current_epoch \in Nat /\ Len(leaves) \in Nat
  BY <1>0 DEF TypeOK, next_index
<1>b. /\ DOMAIN epoch_root' = DOMAIN epoch_root \cup {current_epoch}
      /\ epoch_root'[current_epoch] = next_index
      /\ \A e \in DOMAIN epoch_root : epoch_root'[e] = epoch_root[e]
  BY DEF AdvanceNullifierEpoch
<1>c. /\ live' = live /\ pending_index' = pending_index /\ inserted_epoch' = inserted_epoch
      /\ next_pending_index' = next_pending_index /\ leaves' = leaves /\ spends' = spends
      /\ earliest_provable_epoch' = earliest_provable_epoch
      /\ current_epoch' = current_epoch + 1
  BY DEF AdvanceNullifierEpoch, pdaVars
<1>d. next_index' = next_index
  BY <1>c DEF next_index
<1>1. TypeOK'
  <2>1. DOMAIN epoch_root' \subseteq Nat
    BY <1>0, <1>a, <1>b DEF TypeOK
  <2>2. ASSUME NEW e \in DOMAIN epoch_root' PROVE epoch_root'[e] \in Nat
    BY <1>0, <1>a, <1>b DEF TypeOK
  <2>3. last_finalized_index' \in Nat /\ last_epoch_slot' \in Nat
    BY <1>0, <1>a DEF TypeOK, AdvanceNullifierEpoch
  <2>4. QED
    BY <1>0, <1>a, <1>c, <2>1, <2>2, <2>3 DEF next_index, TypeOK, AdvanceNullifierEpoch
<1>2. IndexOrder'
  BY <1>0, <1>a, <1>c, <1>d DEF IInv, IndexOrder, TypeOK
<1>3. PdaFields'
  BY <1>0, <1>a, <1>c, <1>d DEF IInv, PdaFields, TypeOK
<1>4. UniquePending'
  BY <1>c DEF IInv, UniquePending
<1>5. RootsBehind'
  BY <1>0, <1>a, <1>b, <1>c, <1>d DEF IInv, RootsBehind, TypeOK
<1>6. Frozen'
  BY <1>a, <1>b, <1>c DEF IInv, Frozen, PdaFields
<1>7. Covered'
  <2> SUFFICES ASSUME NEW n \in Nullifiers, spends[n] > 0, n \notin live
               PROVE  \E i \in 1..Len(leaves) :
                        /\ leaves[i] = n
                        /\ \A e \in DOMAIN epoch_root' :
                              e >= earliest_provable_epoch => i < epoch_root'[e]
    BY <1>c DEF Covered
  <2>1. PICK i \in 1..Len(leaves) :
          /\ leaves[i] = n
          /\ \A e \in DOMAIN epoch_root : e >= earliest_provable_epoch => i < epoch_root[e]
    BY DEF IInv, Covered
  <2>2. i < next_index
    BY <1>a DEF next_index
  <2>3. QED
    BY <1>b, <2>1, <2>2
<1>8. WindowComplete'
  BY <1>0, <1>a, <1>b, <1>c DEF IInv, WindowComplete, TypeOK
<1>9. QueueComplete'
  BY <1>c, <1>d DEF IInv, QueueComplete
<1>10. QED
  BY <1>1, <1>2, <1>3, <1>4, <1>5, <1>6, <1>7, <1>8, <1>9 DEF IInv

\* Moving the window keeps the invariant: only roots are given up.
LEMMA AdvanceEarliestInvariant ==
    ASSUME IInv, NEW new \in 0..current_epoch, AdvanceEarliestProvableEpoch(new)
    PROVE  IInv'
<1> USE ConstantsAssumption
<1>0. TypeOK
  BY DEF IInv
<1>a. /\ live' = live /\ pending_index' = pending_index /\ inserted_epoch' = inserted_epoch
      /\ next_pending_index' = next_pending_index /\ leaves' = leaves /\ spends' = spends
      /\ epoch_root' = epoch_root /\ current_epoch' = current_epoch
      /\ earliest_provable_epoch' = new /\ new >= earliest_provable_epoch
  BY DEF AdvanceEarliestProvableEpoch, pdaVars
<1>b. next_index' = next_index
  BY <1>a DEF next_index
<1>c. new \in Nat /\ new <= current_epoch
  BY <1>0 DEF TypeOK
<1>1. TypeOK'
  BY <1>0, <1>a, <1>c DEF next_index, TypeOK, AdvanceEarliestProvableEpoch
<1>2. IndexOrder'
  BY <1>a, <1>b, <1>c DEF IInv, IndexOrder
<1>3. PdaFields' /\ UniquePending' /\ RootsBehind' /\ Frozen' /\ QueueComplete'
  BY <1>a, <1>b DEF IInv, PdaFields, UniquePending, RootsBehind, Frozen, QueueComplete
<1>4. Covered'
  <2> SUFFICES ASSUME NEW n \in Nullifiers, spends[n] > 0, n \notin live
               PROVE  \E i \in 1..Len(leaves) :
                        /\ leaves[i] = n
                        /\ \A e \in DOMAIN epoch_root : e >= new => i < epoch_root[e]
    BY <1>a DEF Covered
  <2>1. PICK i \in 1..Len(leaves) :
          /\ leaves[i] = n
          /\ \A e \in DOMAIN epoch_root : e >= earliest_provable_epoch => i < epoch_root[e]
    BY DEF IInv, Covered
  <2>2. ASSUME NEW e \in DOMAIN epoch_root, e >= new PROVE e >= earliest_provable_epoch
    BY <1>0, <1>a, <1>c, <2>2 DEF TypeOK
  <2>3. QED
    BY <2>1, <2>2
<1>5. WindowComplete'
  BY <1>0, <1>a, <1>c DEF IInv, WindowComplete, TypeOK
<1>6. QED
  BY <1>1, <1>2, <1>3, <1>4, <1>5 DEF IInv

\* Closing a PDA keeps the invariant: every usable root has its nullifier.
LEMMA CloseNullifierInvariant ==
    ASSUME IInv, NEW n \in Nullifiers, NEW u \in Users, CloseInsertedNullifier(n, u)
    PROVE  IInv'
<1>0. TypeOK
  BY DEF IInv
<1>a. /\ next_pending_index' = next_pending_index /\ leaves' = leaves /\ spends' = spends
      /\ epoch_root' = epoch_root /\ current_epoch' = current_epoch
      /\ earliest_provable_epoch' = earliest_provable_epoch
      /\ live' = live \ {n} /\ n \in live
      /\ inserted_epoch[n] # 0 /\ inserted_epoch[n] < earliest_provable_epoch
  BY DEF CloseInsertedNullifier, treeVars, Closable
<1>b. next_index' = next_index
  BY <1>a DEF next_index
<1>c. \A m \in live' : /\ m \in live /\ pending_index'[m] = pending_index[m]
                       /\ inserted_epoch'[m] = inserted_epoch[m]
  BY <1>0, <1>a DEF CloseInsertedNullifier, TypeOK
<1>1. TypeOK'
  <2>1. pending_index' \in [Nullifiers -> Nat] /\ inserted_epoch' \in [Nullifiers -> Nat]
    BY <1>0 DEF TypeOK, CloseInsertedNullifier
  <2>2. QED
    BY <1>0, <1>a, <2>1 DEF next_index, TypeOK, CloseInsertedNullifier, treeVars
<1>2. IndexOrder' /\ RootsBehind' /\ WindowComplete'
  BY <1>a, <1>b DEF IInv, IndexOrder, RootsBehind, WindowComplete
<1>3. PdaFields'
  BY <1>a, <1>b, <1>c DEF IInv, PdaFields
<1>4. UniquePending'
  BY <1>c DEF IInv, UniquePending
<1>5. Frozen'
  BY <1>a, <1>c DEF IInv, Frozen
<1>6. Covered'
  <2> SUFFICES ASSUME NEW m \in Nullifiers, spends[m] > 0, m \notin live'
               PROVE  \E i \in 1..Len(leaves) :
                        /\ leaves[i] = m
                        /\ \A e \in DOMAIN epoch_root :
                              e >= earliest_provable_epoch => i < epoch_root[e]
    BY <1>a DEF Covered
  <2>1. CASE m = n
    <3>1. /\ pending_index[n] \in 1..(next_pending_index - 1)
          /\ pending_index[n] < next_index
          /\ leaves[pending_index[n]] = n
      BY <1>a DEF IInv, PdaFields
    <3>2. pending_index[n] \in 1..Len(leaves)
      BY <1>0, <3>1 DEF TypeOK, next_index
    <3>3. ASSUME NEW e \in DOMAIN epoch_root, e >= earliest_provable_epoch
          PROVE  pending_index[n] < epoch_root[e]
      BY <1>0, <1>a, <3>3 DEF IInv, Frozen, TypeOK
    <3>4. QED
      BY <2>1, <3>1, <3>2, <3>3
  <2>2. CASE m # n
    BY <1>a, <2>2 DEF IInv, Covered
  <2>3. QED
    BY <2>1, <2>2
<1>7. QueueComplete'
  <2> SUFFICES ASSUME NEW i \in next_index..(next_pending_index - 1)
               PROVE  \E m \in live' : pending_index'[m] = i
    BY <1>a, <1>b DEF QueueComplete
  <2>1. PICK m \in live : pending_index[m] = i
    BY DEF IInv, QueueComplete
  <2>2. m # n
    BY <1>0, <1>a, <2>1 DEF IInv, PdaFields, TypeOK, next_index
  <2>3. QED
    BY <1>a, <1>c, <2>1, <2>2
<1>8. QED
  BY <1>1, <1>2, <1>3, <1>4, <1>5, <1>6, <1>7 DEF IInv

\* Closing an epoch root keeps the invariant: it is before the window.
LEMMA CloseRootInvariant ==
    ASSUME IInv, NEW e \in DOMAIN epoch_root, CloseNullifierEpochRoot(e)
    PROVE  IInv'
<1>0. TypeOK
  BY DEF IInv
<1>a. /\ live' = live /\ pending_index' = pending_index /\ inserted_epoch' = inserted_epoch
      /\ next_pending_index' = next_pending_index /\ leaves' = leaves /\ spends' = spends
      /\ current_epoch' = current_epoch
      /\ earliest_provable_epoch' = earliest_provable_epoch
      /\ e < earliest_provable_epoch
  BY DEF CloseNullifierEpochRoot, treeVars, pdaVars
<1>b. next_index' = next_index
  BY <1>a DEF next_index
<1>c. /\ DOMAIN epoch_root' = DOMAIN epoch_root \ {e}
      /\ \A d \in DOMAIN epoch_root' : epoch_root'[d] = epoch_root[d]
  BY DEF CloseNullifierEpochRoot
<1>1. TypeOK'
  BY <1>0, <1>a, <1>c DEF next_index, TypeOK, CloseNullifierEpochRoot, treeVars
<1>2. IndexOrder' /\ PdaFields' /\ UniquePending' /\ QueueComplete'
  BY <1>a, <1>b DEF IInv, IndexOrder, PdaFields, UniquePending, QueueComplete
<1>3. RootsBehind'
  BY <1>a, <1>b, <1>c DEF IInv, RootsBehind
<1>4. Frozen'
  BY <1>a, <1>c DEF IInv, Frozen
<1>5. Covered'
  BY <1>a, <1>c DEF IInv, Covered
<1>6. WindowComplete'
  BY <1>0, <1>a, <1>c DEF IInv, WindowComplete, TypeOK
<1>7. QED
  BY <1>1, <1>2, <1>3, <1>4, <1>5, <1>6 DEF IInv

\* The clock and stuttering steps keep the invariant.
LEMMA OtherInvariant ==
    ASSUME IInv, Tick \/ UNCHANGED vars
    PROVE  IInv'
<1>a. UNCHANGED <<treeVars, pdaVars, epoch_root, commitments, spends, false_proofs>>
  BY DEF Tick, vars
<1>b. next_index' = next_index
  BY <1>a DEF next_index, treeVars
<1>c. slot' \in Nat
  BY DEF IInv, TypeOK, Tick, vars
<1>d. TypeOK'
  BY <1>a, <1>b, <1>c DEF IInv, TypeOK, treeVars, pdaVars
<1>1. QED
  BY <1>a, <1>b, <1>d DEF IInv, IndexOrder, PdaFields, UniquePending, RootsBehind, Frozen,
     Covered, WindowComplete, QueueComplete, treeVars, pdaVars

-----------------------------------------------------------------------------
\* Every step keeps the invariant: one case per instruction.
LEMMA InductiveStep == IInv /\ [Next]_vars => IInv'
<1> SUFFICES ASSUME IInv, [Next]_vars PROVE IInv'
  OBVIOUS
<1>1. CASE \E ns \in Distinct(N_INS), k \in KnownRoots : ExecuteTransact(ns, k)
  BY <1>1, TransactInvariant
<1>2. CASE \E ns \in Distinct(BATCH), lows \in LowLeaves :
               NullifierBatchInsert(ns, lows)
  BY <1>2, BatchInsertInvariant
<1>3. CASE AdvanceNullifierEpoch
  BY <1>3, AdvanceEpochInvariant
<1>4. CASE \E new \in 0..current_epoch : AdvanceEarliestProvableEpoch(new)
  BY <1>4, AdvanceEarliestInvariant
<1>5. CASE \E n \in Nullifiers, u \in Users : CloseInsertedNullifier(n, u)
  BY <1>5, CloseNullifierInvariant
<1>6. CASE \E e \in DOMAIN epoch_root : CloseNullifierEpochRoot(e)
  BY <1>6, CloseRootInvariant
<1>7. CASE Tick \/ UNCHANGED vars
  BY <1>7, OtherInvariant
<1>8. QED
  BY <1>1, <1>2, <1>3, <1>4, <1>5, <1>6, <1>7 DEF Next

\* The inductive invariant holds throughout, whatever the circuits accept.
THEOREM Invariance == Spec => []IInv
<1>1. QED
  BY InitInvariant, InductiveStep, PTL DEF Spec

\* Every field of the nullifier accounts keeps its type.
THEOREM TypeCorrect == Spec => []TypeOK
<1>1. IInv => TypeOK
  BY DEF IInv
<1>2. QED
  BY Invariance, <1>1, PTL

\* A state of the invariant satisfies I3.
LEMMA CoverageFromInvariant == IInv => CoverageGuarantee
<1> SUFFICES ASSUME IInv, NEW n \in Nullifiers, spends[n] > 0, n \notin live,
                    NEW k \in KnownRoots
             PROVE  n \in Members(k)
  BY DEF CoverageGuarantee
<1>1. PICK i \in 1..Len(leaves) :
        /\ leaves[i] = n
        /\ \A e \in DOMAIN epoch_root : e >= earliest_provable_epoch => i < epoch_root[e]
  BY DEF IInv, Covered
<1>2. i < k
  <2>1. CASE k = next_index
    BY <2>1 DEF next_index, IInv, TypeOK
  <2>2. CASE k # next_index
    BY <1>1, <2>2 DEF KnownRoots
  <2>3. QED
    BY <2>1, <2>2
<1>3. QED
  BY <1>1, <1>2 DEF Members

\* I3 of state/nullifier_tree.rs: closing nullifier PDAs and retiring epoch
\* roots never leaves a consumed nullifier outside a root that
\* verify_nullifier_non_membership_proof still accepts.
THEOREM Coverage == Spec => []CoverageGuarantee
<1>1. QED
  BY Invariance, CoverageFromInvariant, PTL

\* I2 of state/nullifier_tree.rs: the provable window has no gap and each of
\* its roots holds what was inserted up to its epoch.
THEOREM Window == Spec => []ProvableWindow
<1>1. IInv => ProvableWindow
  <2> SUFFICES ASSUME IInv, NEW e \in earliest_provable_epoch..(current_epoch - 1)
               PROVE  /\ e \in DOMAIN epoch_root
                      /\ \A n \in live : inserted_epoch[n] \in 1..e => n \in Members(epoch_root[e])
    BY DEF ProvableWindow
  <2>1. e \in DOMAIN epoch_root
    BY DEF IInv, WindowComplete
  <2>2. ASSUME NEW n \in live, inserted_epoch[n] \in 1..e PROVE n \in Members(epoch_root[e])
    <3>1. pending_index[n] < epoch_root[e]
      BY <2>1, <2>2 DEF IInv, Frozen
    <3>2. /\ leaves[pending_index[n]] = n
          /\ pending_index[n] < next_index /\ pending_index[n] >= 1
          /\ pending_index[n] \in Nat
      BY <2>2 DEF IInv, PdaFields
    <3>3. pending_index[n] \in 1..Len(leaves)
      BY <3>2 DEF next_index, IInv, TypeOK
    <3>4. QED
      BY <3>1, <3>2, <3>3 DEF Members
  <2>3. QED
    BY <2>1, <2>2
<1>2. QED
  BY Invariance, <1>1, PTL

\* I1 of state/nullifier_tree.rs: the batch that NullifierBatchInsert needs
\* next is always there, one open PDA for each index that is still pending.
THEOREM Queue == Spec => []PendingQueue
<1>1. IInv => PendingQueue
  <2> SUFFICES ASSUME IInv, NEW i \in next_index..(next_pending_index - 1)
               PROVE  \E n \in live :
                        /\ pending_index[n] = i
                        /\ inserted_epoch[n] = 0
                        /\ \A m \in live : pending_index[m] = i => m = n
    BY DEF PendingQueue
  <2>1. PICK n \in live : pending_index[n] = i
    BY DEF IInv, QueueComplete
  <2>2. inserted_epoch[n] = 0
    BY <2>1 DEF IInv, PdaFields, TypeOK, next_index
  <2>3. \A m \in live : pending_index[m] = i => m = n
    BY <2>1 DEF IInv, UniquePending
  <2>4. QED
    BY <2>1, <2>2, <2>3
<1>2. QED
  BY Invariance, <1>1, PTL

\* A transaction that consumes a nullifier again proves it absent from a root
\* that holds it: its PDA was closed, so every root the proof may use has it.
LEMMA SpendsStep ==
    ASSUME IInv, DoubleSpendsNeedFalseProofs, [Next]_vars
    PROVE  DoubleSpendsNeedFalseProofs'
<1>1. spends \in [Nullifiers -> Nat] /\ false_proofs \in [Nullifiers -> Nat]
  BY DEF IInv, TypeOK
<1>2. CASE \E ns \in Distinct(N_INS), k \in KnownRoots : ExecuteTransact(ns, k)
  <2>1. PICK ns \in Distinct(N_INS), k \in KnownRoots : ExecuteTransact(ns, k)
    BY <1>2
  <2> SUFFICES ASSUME NEW n \in Nullifiers PROVE spends'[n] <= 1 + false_proofs'[n]
    BY DEF DoubleSpendsNeedFalseProofs
  <2>2. spends[n] \in Nat /\ false_proofs[n] \in Nat /\ spends[n] <= 1 + false_proofs[n]
    BY <1>1 DEF DoubleSpendsNeedFalseProofs
  <2>3. CASE \E i \in 1..N_INS : ns[i] = n
    <3>1. n \notin live
      BY <2>1, <2>3 DEF ExecuteTransact
    <3>2. spends[n] > 0 => n \in Members(k)
      BY <3>1, CoverageFromInvariant DEF CoverageGuarantee
    <3>3. /\ spends'[n] = spends[n] + 1
          /\ false_proofs'[n] = IF n \in Members(k) THEN false_proofs[n] + 1
                                                    ELSE false_proofs[n]
      BY <2>1, <2>3 DEF ExecuteTransact
    <3>4. QED
      BY <2>2, <3>2, <3>3
  <2>4. CASE ~\E i \in 1..N_INS : ns[i] = n
    <3>1. spends'[n] = spends[n] /\ false_proofs'[n] = false_proofs[n]
      BY <2>1, <2>4 DEF ExecuteTransact
    <3>2. QED
      BY <2>2, <3>1
  <2>5. QED
    BY <2>3, <2>4
<1>3. CASE ~\E ns \in Distinct(N_INS), k \in KnownRoots : ExecuteTransact(ns, k)
  <2>1. spends' = spends /\ false_proofs' = false_proofs
    BY <1>3 DEF Next, vars, NullifierBatchInsert, AdvanceNullifierEpoch,
       AdvanceEarliestProvableEpoch, CloseInsertedNullifier, CloseNullifierEpochRoot, Tick
  <2>2. QED
    BY <2>1 DEF DoubleSpendsNeedFalseProofs
<1>4. QED
  BY <1>2, <1>3

\* For every schedule of insertions, epoch advances and account closings, and
\* whatever low leaves provers open, the accounts and roots of the hub let a
\* note be spent again only by a transaction whose non-membership proof denies
\* a value of the very root it is checked against.
THEOREM DoubleSpendsAreFalseProofs == Spec => []DoubleSpendsNeedFalseProofs
<1>1. Init => DoubleSpendsNeedFalseProofs
  BY DEF Init, DoubleSpendsNeedFalseProofs
<1>2. IInv /\ DoubleSpendsNeedFalseProofs /\ [Next]_vars => DoubleSpendsNeedFalseProofs'
  BY SpendsStep
<1>3. QED
  BY Invariance, <1>1, <1>2, PTL DEF Spec
=============================================================================
