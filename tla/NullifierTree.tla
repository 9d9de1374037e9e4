--------------------------- MODULE NullifierTree ---------------------------
(***************************************************************************)
(* The life of a nullifier in the shielded-pool program: ExecuteTransact   *)
(* creates a nullifier PDA, NullifierBatchInsert moves the nullifier into  *)
(* the indexed Merkle tree, AdvanceNullifierEpoch snapshots the root,      *)
(* AdvanceEarliestProvableEpoch retires old snapshots, and the two close   *)
(* instructions give the rent of retired accounts back.                    *)
(*                                                                         *)
(* Abstractions.  The tree is append-only, so its content is the sequence  *)
(* of inserted values and a root is identified with the value next_index   *)
(* had when the root was current (hashes do not collide).  The genesis     *)
(* leaf has index 0, real leaves have indices 1, 2, ...  What the circuits *)
(* accept is what IndexedTree shows they accept: a prover may open any     *)
(* leaf, an unused one included.  A Solana                                 *)
(* instruction is atomic, so a handler that returns an error is a handler  *)
(* that is not enabled.  Lamports and events are left out.                 *)
(***************************************************************************)
EXTENDS Integers, Sequences, FiniteSets

CONSTANTS
    Nullifiers,             \* nullifier values of notes
    Users,                  \* keys that can sign a transaction
    CommitmentTreePda,      \* key of the commitment tree account
    N_INS,                  \* nullifiers per transaction (4 in the code)
    N_OUTS,                 \* commitments per transaction (4)
    BATCH,                  \* size of the batch-insert circuit (4)
    Capacity,               \* leaves of either tree (2^26)
    MIN_SLOTS,              \* MIN_SLOTS_PER_NULLIFIER_EPOCH (9000)
    MIN_PROVABLE,           \* MIN_PROVABLE_NULLIFIER_EPOCHS (30)
    CLEANUP_GRACE_EPOCHS,   \* 43200
    MaxSlot                 \* bound on the clock

ASSUME ConstantsAssumption ==
    /\ N_INS \in Nat \ {0} /\ N_OUTS \in Nat \ {0} /\ BATCH \in Nat \ {0}
    /\ Capacity \in Nat /\ MIN_SLOTS \in Nat /\ MIN_PROVABLE \in Nat \ {0}
    /\ CLEANUP_GRACE_EPOCHS \in Nat /\ MaxSlot \in Nat
    /\ CommitmentTreePda \notin Users

VARIABLES
    leaves,                  \* values in the indexed tree, by index from 1
    opened,                  \* unused leaves that a batch wrote as low leaves
    next_pending_index,
    current_epoch,
    earliest_provable_epoch,
    last_finalized_index,
    last_epoch_slot,
    live,                    \* nullifiers whose PDA account exists
    pending_index,           \* field of the PDA, 0 where there is none
    inserted_epoch,          \* field of the PDA, 0 where there is none
    epoch_root,              \* NullifierEpochRoot accounts: epoch -> root
    commitments,             \* next_index of the commitment tree
    slot,                    \* Clock::slot
    spends,                  \* history: transactions that consumed each value
    false_proofs             \* history: those that proved the value absent from
                             \* a root that holds it

treeVars == <<leaves, opened, next_pending_index, current_epoch, last_finalized_index,
              last_epoch_slot, earliest_provable_epoch>>
pdaVars  == <<live, pending_index, inserted_epoch>>
vars     == <<treeVars, pdaVars, epoch_root, commitments, slot, spends, false_proofs>>

\* Mutant: the genesis leaf is subtracted.
next_index_NoGenesis == Len(leaves) - 1

\* NullifierIndexedTree.next_index.
next_index == Len(leaves) + 1

\* The nullifiers in the tree whose root was current at next_index = k.
Members(k) == {leaves[i] : i \in {j \in 1..Len(leaves) : j < k}}

\* The non-membership circuit has a witness for n against the root k.  A value
\* that is not in the tree has its gap in the genesis list; for a value that is,
\* the prover needs a leaf outside the list that holds it, such as an unused
\* one, and the tree has unused leaves until it is full.
LowLeafVerifies(k, n) == n \notin Members(k) \/ k < Capacity

-----------------------------------------------------------------------------
\* process_initialize: epochs start at 1 so that inserted_epoch = 0 means
\* "not inserted"; the genesis leaf takes index 0.  The cluster is older than
\* one epoch, so the first epoch can be advanced at once.
Init ==
    /\ leaves = << >> /\ opened = {}
    /\ next_pending_index = 1
    /\ current_epoch = 1
    /\ earliest_provable_epoch = 1
    /\ last_finalized_index = 0
    /\ last_epoch_slot = 0
    /\ live = {}
    /\ pending_index = [n \in Nullifiers |-> 0]
    /\ inserted_epoch = [n \in Nullifiers |-> 0]
    /\ epoch_root = [e \in {} |-> 0]
    /\ commitments = 0
    /\ slot = MIN_SLOTS
    /\ spends = [n \in Nullifiers |-> 0]
    /\ false_proofs = [n \in Nullifiers |-> 0]

\* Mutant: retired epoch roots are accepted as long as their account exists.
KnownRoots_Retired == {next_index} \cup {epoch_root[e] : e \in DOMAIN epoch_root}

\* The roots verify_nullifier_non_membership_proof accepts: the current one,
\* or that of an existing epoch root account that is still provable.
KnownRoots ==
    {next_index} \cup
    {epoch_root[e] : e \in {d \in DOMAIN epoch_root : d >= earliest_provable_epoch}}

\* Sequences of distinct nullifiers: creating the same PDA twice in one
\* transaction fails, and the PDAs of a batch have different pending indices.
Distinct(len) == {s \in [1..len -> Nullifiers] :
                    \A i, j \in 1..len : i # j => s[i] # s[j]}

\* The nullifier part of execute_transact, P12 and E1, and the capacity check
\* of E3: the non-membership proof is against a known root k, no PDA of the
\* group exists, and each gets the next pending index.
ExecuteTransact(ns, k) ==
    /\ k \in KnownRoots
    /\ \A i \in 1..N_INS : LowLeafVerifies(k, ns[i])
    /\ \A i \in 1..N_INS : ns[i] \notin live
    /\ commitments + N_OUTS <= Capacity
    /\ live' = live \cup {ns[i] : i \in 1..N_INS}
    /\ pending_index' = [n \in Nullifiers |->
         IF \E i \in 1..N_INS : ns[i] = n
         THEN next_pending_index + (CHOOSE i \in 1..N_INS : ns[i] = n) - 1
         ELSE pending_index[n]]
    /\ inserted_epoch' = [n \in Nullifiers |->
         IF \E i \in 1..N_INS : ns[i] = n THEN 0 ELSE inserted_epoch[n]]
    /\ next_pending_index' = next_pending_index + N_INS
    /\ commitments' = commitments + N_OUTS
    /\ spends' = [n \in Nullifiers |->
         IF \E i \in 1..N_INS : ns[i] = n THEN spends[n] + 1 ELSE spends[n]]
    /\ false_proofs' = [n \in Nullifiers |->
         IF (\E i \in 1..N_INS : ns[i] = n) /\ n \in Members(k)
         THEN false_proofs[n] + 1 ELSE false_proofs[n]]
    /\ UNCHANGED <<leaves, opened, current_epoch, earliest_provable_epoch,
                   last_finalized_index, last_epoch_slot, epoch_root, slot>>

\* Mutants: the order of pending indices is not checked; it is off by one.
InsertablePda_AnyOrder(n, i) ==
    /\ n \in live
    /\ inserted_epoch[n] \in {0, current_epoch}
InsertablePda_OffByOne(n, i) ==
    /\ n \in live
    /\ pending_index[n] = next_index + i
    /\ inserted_epoch[n] \in {0, current_epoch}

\* The checks process_nullifier_batch_insert makes on the PDA at position i.
InsertablePda(n, i) ==
    /\ n \in live
    /\ pending_index[n] = next_index + i - 1
    /\ inserted_epoch[n] \in {0, current_epoch}

\* What the Groth16 proof of nullifier-batch-4 shows: the circuit inserts
\* exactly BATCH values (a batch that is padded with zeros has no proof, since
\* no leaf value is below 0), every index fits the tree height, every append
\* position is still empty, and each value is bracketed by a low leaf.  The
\* prover names the low leaves: those of the genesis list, which has no second
\* place for a value it holds, or leaves that no append has reached, of which
\* lows are opened for the first time.
BatchProofVerifies(ns, lows) ==
    /\ next_index + BATCH <= Capacity
    /\ next_index..(next_index + BATCH - 1) \cap (opened \cup lows) = {}
    /\ (\E i \in 1..BATCH : ns[i] \in Members(next_index)) => opened \cup lows # {}

\* process_nullifier_batch_insert.
NullifierBatchInsert(ns, lows) ==
    /\ \A i \in 1..BATCH : InsertablePda(ns[i], i)
    /\ BatchProofVerifies(ns, lows)
    /\ inserted_epoch' = [n \in Nullifiers |->
         IF (\E i \in 1..BATCH : ns[i] = n) /\ inserted_epoch[n] = 0
         THEN current_epoch ELSE inserted_epoch[n]]
    /\ leaves' = leaves \o ns
    /\ opened' = opened \cup lows
    /\ UNCHANGED <<next_pending_index, current_epoch, earliest_provable_epoch,
                   last_finalized_index, last_epoch_slot, live, pending_index,
                   epoch_root, commitments, slot, spends, false_proofs>>

\* process_advance_nullifier_epoch: permissionless, once per MIN_SLOTS slots.
AdvanceNullifierEpoch ==
    /\ slot >= last_epoch_slot + MIN_SLOTS
    /\ current_epoch \notin DOMAIN epoch_root
    /\ epoch_root' = [e \in DOMAIN epoch_root \cup {current_epoch} |->
         IF e = current_epoch THEN next_index ELSE epoch_root[e]]
    /\ current_epoch' = current_epoch + 1
    /\ last_finalized_index' = next_index
    /\ last_epoch_slot' = slot
    /\ UNCHANGED <<leaves, opened, next_pending_index, earliest_provable_epoch, pdaVars,
                   commitments, slot, spends, false_proofs>>

\* process_advance_earliest_provable_epoch, called by the authority.
AdvanceEarliestProvableEpoch(new) ==
    /\ new >= earliest_provable_epoch
    /\ current_epoch >= MIN_PROVABLE
    /\ new <= current_epoch - MIN_PROVABLE
    /\ earliest_provable_epoch' = new
    /\ UNCHANGED <<leaves, opened, next_pending_index, current_epoch, pdaVars, epoch_root,
                   last_finalized_index, last_epoch_slot, commitments, slot, spends,
                   false_proofs>>

\* Mutant: a PDA may be closed as soon as the value is in the tree.
Closable_Inserted(n) == n \in live /\ inserted_epoch[n] # 0

\* The PDA of n is frozen in all provable roots.
Closable(n) ==
    /\ n \in live
    /\ inserted_epoch[n] # 0
    /\ inserted_epoch[n] < earliest_provable_epoch

InGracePeriod == current_epoch < earliest_provable_epoch + CLEANUP_GRACE_EPOCHS

\* process_close_inserted_nullifier.  Nullifier.authority is the key of the
\* commitment tree account (verify_and_create_nullifier).
CloseInsertedNullifier(n, signer) ==
    /\ Closable(n)
    /\ InGracePeriod => signer = CommitmentTreePda
    /\ live' = live \ {n}
    /\ pending_index' = [pending_index EXCEPT ![n] = 0]
    /\ inserted_epoch' = [inserted_epoch EXCEPT ![n] = 0]
    /\ UNCHANGED <<treeVars, epoch_root, commitments, slot, spends, false_proofs>>

\* Mutant: the oldest provable root may be closed.
CloseNullifierEpochRoot_OffByOne(e) ==
    /\ e \in DOMAIN epoch_root
    /\ e <= earliest_provable_epoch
    /\ epoch_root' = [d \in DOMAIN epoch_root \ {e} |-> epoch_root[d]]
    /\ UNCHANGED <<treeVars, pdaVars, commitments, slot, spends, false_proofs>>

\* process_close_nullifier_epoch_root, called by the authority.
CloseNullifierEpochRoot(e) ==
    /\ e \in DOMAIN epoch_root
    /\ e < earliest_provable_epoch
    /\ epoch_root' = [d \in DOMAIN epoch_root \ {e} |-> epoch_root[d]]
    /\ UNCHANGED <<treeVars, pdaVars, commitments, slot, spends, false_proofs>>

\* The cluster's clock.
Tick ==
    /\ slot < MaxSlot
    /\ slot' = slot + 1
    /\ UNCHANGED <<treeVars, pdaVars, epoch_root, commitments, spends, false_proofs>>

\* The unused leaves a batch may open as low leaves, at most one per value.
LowLeaves == {S \in SUBSET (next_index..(Capacity - 1)) : Cardinality(S) <= BATCH}

Next ==
    \/ \E ns \in Distinct(N_INS), k \in KnownRoots : ExecuteTransact(ns, k)
    \/ \E ns \in Distinct(BATCH), lows \in LowLeaves : NullifierBatchInsert(ns, lows)
    \/ AdvanceNullifierEpoch
    \/ \E new \in 0..current_epoch : AdvanceEarliestProvableEpoch(new)
    \/ \E n \in Nullifiers, u \in Users : CloseInsertedNullifier(n, u)
    \/ \E e \in DOMAIN epoch_root : CloseNullifierEpochRoot(e)
    \/ Tick

Spec == Init /\ [][Next]_vars

\* Batch insertion and epoch advancing are permissionless, and relayers have
\* an interest in both, so neither stays possible for ever without happening.
\* The relayer's batches open no unused leaf; other inserters' may.
Fairness ==
    /\ WF_vars(\E ns \in Distinct(BATCH) : NullifierBatchInsert(ns, {}))
    /\ WF_vars(AdvanceNullifierEpoch)
    /\ WF_vars(Tick)

FairSpec == Spec /\ Fairness
-----------------------------------------------------------------------------
\* The types of the accounts; a leaf that was opened as low leaf is one that
\* no append has reached, or ever will.
TypeOK ==
    /\ leaves \in Seq(Nullifiers)
    /\ opened \subseteq next_index..(Capacity - 1)
    /\ next_pending_index \in Nat /\ current_epoch \in Nat
    /\ earliest_provable_epoch \in Nat /\ last_finalized_index \in Nat
    /\ last_epoch_slot \in Nat /\ commitments \in Nat /\ slot \in Nat
    /\ live \subseteq Nullifiers
    /\ pending_index \in [Nullifiers -> Nat]
    /\ inserted_epoch \in [Nullifiers -> Nat]
    /\ DOMAIN epoch_root \subseteq Nat
    /\ \A e \in DOMAIN epoch_root : epoch_root[e] \in Nat
    /\ spends \in [Nullifiers -> Nat] /\ false_proofs \in [Nullifiers -> Nat]

\* R5 of execute_transact (PDA existence) and the accepted roots leave no way
\* to spend a note twice but through the circuit: every spend after the first
\* proved the nullifier absent from a root that holds it, across every way in
\* which accounts are closed and roots retired.
DoubleSpendsNeedFalseProofs ==
    \A n \in Nullifiers : spends[n] <= 1 + false_proofs[n]

\* I3 of state/nullifier_tree.rs: a nullifier whose PDA was closed is in every
\* root a later transaction may prove non-membership against.
CoverageGuarantee ==
    \A n \in Nullifiers : spends[n] > 0 /\ n \notin live =>
        \A k \in KnownRoots : n \in Members(k)

\* I2 of state/nullifier_tree.rs: every epoch of the provable window has its
\* root account, and the root holds every nullifier inserted up to that epoch.
ProvableWindow ==
    \A e \in earliest_provable_epoch..(current_epoch - 1) :
        /\ e \in DOMAIN epoch_root
        /\ \A n \in live : inserted_epoch[n] \in 1..e => n \in Members(epoch_root[e])

\* I1 of state/nullifier_tree.rs, its safety half: the indices assigned and
\* not yet inserted are carried by one open PDA each, so the batch that is next
\* in order can always be assembled.
PendingQueue ==
    \A i \in next_index..(next_pending_index - 1) :
        \E n \in live :
            /\ pending_index[n] = i
            /\ inserted_epoch[n] = 0
            /\ \A m \in live : pending_index[m] = i => m = n

\* The batches that the tree has leaves for.  The genesis leaf makes it one leaf
\* short of what the commitment tree lets transactions queue.
Batches == 1..((Capacity - 1) \div BATCH)

\* What can keep batch b from being inserted: an append position up to there was
\* opened as a low leaf, or a value up to there is in the tree already.
Obstructed(b) ==
    \/ \E j \in opened : j <= b * BATCH
    \/ \E n \in live : /\ inserted_epoch[n] = 0 /\ pending_index[n] <= b * BATCH
                       /\ n \in Members(next_index)

\* The queue of pending nullifiers drains batch by batch, as far as the tree has
\* leaves and unless one of the two named obstructions stands in the way: no
\* interleaving of transactions, epochs and closings stops the relayers (I1, its
\* liveness half).
QueueDrainsUnlessObstructed ==
    \A b \in Batches :
        (next_pending_index > b * BATCH) ~> (next_index > b * BATCH \/ Obstructed(b))

\* I1 as state/nullifier_tree.rs states it: every pending nullifier "MUST
\* eventually be inserted via NullifierBatchInsert".
QueueDrains ==
    \A b \in Batches :
        (next_pending_index > b * BATCH) ~> (next_index > b * BATCH)
=============================================================================
