-------------------------- MODULE CommitmentTree --------------------------
(***************************************************************************)
(* The two append-only Merkle trees of the hub: the commitment tree with   *)
(* its ring of recent roots, and the receipt tree.  Proofs are made        *)
(* against a root, wait while other transactions execute, and are executed *)
(* if their root is still in the ring.  An execution appends its outputs   *)
(* and a receipt and emits the events from which indexers rebuild both     *)
(* trees.  Hashes are terms, so equal roots mean equal trees.              *)
(***************************************************************************)
EXTENDS Integers, Sequences, FiniteSets, FiniteSetsExt

CONSTANTS
    Commitments,                \* output commitments
    Zero,                       \* zero_bytes()[0], the empty leaf
    N_OUTS,
    COMMITMENT_TREE_HEIGHT, RECEIPT_TREE_HEIGHT,
    ROOT_HISTORY_SIZE,
    MaxProofs                   \* bound on the proofs in flight

ASSUME CommitmentTreeAssumption ==
    /\ Zero \notin Commitments
    /\ N_OUTS \in Nat \ {0}
    /\ COMMITMENT_TREE_HEIGHT \in Nat \ {0} /\ RECEIPT_TREE_HEIGHT \in Nat \ {0}
    /\ ROOT_HISTORY_SIZE \in Nat \ {0}
    /\ MaxProofs \in Nat

VARIABLES
    commitment_tree,            \* CommitmentMerkleTree account
    receipt_tree,               \* ReceiptMerkleTree account
    proofs,                     \* proofs in flight
    commitment_events,          \* NewCommitmentEvents emitted
    receipt_events              \* NewReceiptEvents emitted

vars == <<commitment_tree, receipt_tree, proofs, commitment_events, receipt_events>>

-----------------------------------------------------------------------------
Hash(l, r) == [left |-> l, right |-> r]

\* [0u8; 32], what unused ring entries hold: a term that is no hash.
NullRoot == [null |-> TRUE]

\* zero_bytes()[h]: the root of an empty tree of height h.
ZeroBytes(height) ==
    LET zero[h \in 0..height] == IF h = 0 THEN Zero ELSE Hash(zero[h - 1], zero[h - 1])
    IN  zero

EmptyTree(height) ==
    [next_index |-> 0,
     root       |-> ZeroBytes(height)[height],
     subtrees   |-> [h \in 0..(height - 1) |-> ZeroBytes(height)[h]]]

\* 1 << height.
MaxCapacity(height) ==
    LET capacity[h \in 0..height] == IF h = 0 THEN 1 ELSE 2 * capacity[h - 1]
    IN  capacity[height]

\* current_index at each level of append's loop; even ones are left children.
CurrentIndex(next_index, height) ==
    LET current_index[h \in 0..height] ==
          IF h = 0 THEN next_index ELSE current_index[h - 1] \div 2
    IN  current_index
IsLeft(next_index, height, h) == CurrentIndex(next_index, height)[h] % 2 = 0

\* The hashes on the path from a new leaf to the root, by level.
PathHashes(tree, leaf, height) ==
    LET path[h \in 0..height] ==
          IF h = 0 THEN leaf
          ELSE IF IsLeft(tree.next_index, height, h - 1)
               THEN Hash(path[h - 1], ZeroBytes(height)[h - 1])
               ELSE Hash(tree.subtrees[h - 1], path[h - 1])
    IN  path

\* Mutant: the subtree is saved at right children.
Subtrees_Right(tree, path, height) ==
    [h \in 0..(height - 1) |->
        IF IsLeft(tree.next_index, height, h) THEN tree.subtrees[h] ELSE path[h]]

\* The subtrees saved for later siblings: path hashes that are left children.
Subtrees(tree, path, height) ==
    [h \in 0..(height - 1) |->
        IF IsLeft(tree.next_index, height, h) THEN path[h] ELSE tree.subtrees[h]]

\* What MerkleTree::append and ReceiptMerkleTree::append have in common.
AppendLeaf(tree, leaf, height) ==
    LET path == PathHashes(tree, leaf, height)
    IN  [next_index |-> tree.next_index + 1,
         root       |-> path[height],
         subtrees   |-> Subtrees(tree, path, height)]

NextRootIndex(root_index) == (root_index + 1) % ROOT_HISTORY_SIZE

\* MerkleTree::append: the new root also enters the ring.
AppendCommitment(tree, leaf) ==
    LET appended == AppendLeaf(tree, leaf, COMMITMENT_TREE_HEIGHT)
        i        == NextRootIndex(tree.root_index)
    IN  [next_index   |-> appended.next_index,
         root         |-> appended.root,
         subtrees     |-> appended.subtrees,
         root_index   |-> i,
         root_history |-> [tree.root_history EXCEPT ![i] = appended.root]]

\* append_commitment for each output of a transaction.
AppendCommitments(tree, outputs) ==
    LET after[i \in 0..N_OUTS] ==
          IF i = 0 THEN tree ELSE AppendCommitment(after[i - 1], outputs[i])
    IN  after[N_OUTS]

\* Mutant: the search stops before the oldest entry.
IsKnownRoot_OffByOne(tree, root) ==
    /\ root # NullRoot
    /\ \E offset \in 0..(ROOT_HISTORY_SIZE - 2) :
          root = tree.root_history[(tree.root_index + ROOT_HISTORY_SIZE - offset)
                                       % ROOT_HISTORY_SIZE]

\* MerkleTree::is_known_root.
IsKnownRoot(tree, root) ==
    /\ root # NullRoot
    /\ \E offset \in 0..(ROOT_HISTORY_SIZE - 1) :
          root = tree.root_history[(tree.root_index + ROOT_HISTORY_SIZE - offset)
                                       % ROOT_HISTORY_SIZE]

\* Neither append of a transaction finds its tree full.
HasRoom ==
    /\ commitment_tree.next_index + N_OUTS <= MaxCapacity(COMMITMENT_TREE_HEIGHT)
    /\ receipt_tree.next_index < MaxCapacity(RECEIPT_TREE_HEIGHT)

-----------------------------------------------------------------------------
\* process_initialize and MerkleTree::initialize: the empty root is in the ring,
\* the other entries of the zeroed account are null.
Init ==
    /\ LET empty == EmptyTree(COMMITMENT_TREE_HEIGHT) IN commitment_tree =
         [next_index   |-> empty.next_index,
          root         |-> empty.root,
          subtrees     |-> empty.subtrees,
          root_index   |-> 0,
          root_history |-> [i \in 0..(ROOT_HISTORY_SIZE - 1) |->
                              IF i = 0 THEN empty.root ELSE NullRoot]]
    /\ receipt_tree = EmptyTree(RECEIPT_TREE_HEIGHT)
    /\ proofs = {}
    /\ commitment_events = << >>
    /\ receipt_events = << >>

\* A client proves against the current root and chooses its outputs.
Prove(outputs) ==
    /\ Cardinality(proofs) < MaxProofs
    /\ proofs' = proofs \cup
         {[commitment_root |-> commitment_tree.root, commitments |-> outputs]}
    /\ UNCHANGED <<commitment_tree, receipt_tree, commitment_events, receipt_events>>

\* append_commitment: the event carries the index read before the append.
CommitmentEvents(tree, outputs) ==
    [i \in 1..N_OUTS |-> [index |-> tree.next_index + i - 1, leaf |-> outputs[i]]]

\* Mutant: the index of the next commitment.
ReceiptOf_Next(p, tree) ==
    [commitment_root |-> tree.root, last_commitment_index |-> tree.next_index,
     commitments |-> p.commitments]

\* compute_receipt_and_hash, from the commitment tree after the appends.
ReceiptOf(p, tree) ==
    [commitment_root |-> tree.root, last_commitment_index |-> tree.next_index - 1,
     commitments |-> p.commitments]

\* Mutant: the receipt event carries the index after the append.
ReceiptEvent_After(tree, receipt) == [index |-> tree.next_index + 1, leaf |-> receipt]

\* emit_receipt_event: receipt_index was read before the append.
ReceiptEvent(tree, receipt) == [index |-> tree.next_index, leaf |-> receipt]

\* process_execute_transact, its root check and its steps E3 and E4.  The proof's
\* nullifiers are spent, so it executes once.
ExecuteTransact(p) ==
    LET tree    == AppendCommitments(commitment_tree, p.commitments)
        receipt == ReceiptOf(p, tree)
    IN  /\ p \in proofs
        /\ IsKnownRoot(commitment_tree, p.commitment_root)
        /\ HasRoom
        /\ commitment_tree' = tree
        /\ receipt_tree' = AppendLeaf(receipt_tree, receipt, RECEIPT_TREE_HEIGHT)
        /\ commitment_events' =
             commitment_events \o CommitmentEvents(commitment_tree, p.commitments)
        /\ receipt_events' = Append(receipt_events, ReceiptEvent(receipt_tree, receipt))
        /\ proofs' = proofs \ {p}

Next ==
    \/ \E outputs \in [1..N_OUTS -> Commitments] : Prove(outputs)
    \/ \E p \in proofs : ExecuteTransact(p)

Spec == Init /\ [][Next]_vars

-----------------------------------------------------------------------------
\* The leaf an indexer puts at an index: the last one announced for it.
Announced(events, i) ==
    LET of_i == {k \in DOMAIN events : events[k].index = i}
    IN  IF of_i = {} THEN Zero ELSE events[Max(of_i)].leaf

\* The nodes of the full binary tree over leaves, by level and position.
Nodes(leaves, height) ==
    LET nodes[h \in 0..height] ==
          IF h = 0 THEN leaves
          ELSE [i \in Nat |-> Hash(nodes[h - 1][2 * i], nodes[h - 1][2 * i + 1])]
    IN  nodes

\* The root of the tree over the first n announced leaves.
RebuiltRoot(events, n, height) ==
    LET leaves == [i \in Nat |-> IF i < n THEN Announced(events, i) ELSE Zero]
    IN  Nodes(leaves, height)[height][0]

\* Size n of the commitment tree, in the history of its roots.
RootAt(n) == RebuiltRoot(commitment_events, n, COMMITMENT_TREE_HEIGHT)

\* tree_updates.rs: "Events must match on-chain state for indexer consistency".
\* The trees rebuilt from the events, hashed from the leaves up, have the roots
\* that the appends computed from one saved subtree per level.
EventsRebuildTrees ==
    /\ commitment_tree.root =
         RebuiltRoot(commitment_events, commitment_tree.next_index, COMMITMENT_TREE_HEIGHT)
    /\ receipt_tree.root =
         RebuiltRoot(receipt_events, receipt_tree.next_index, RECEIPT_TREE_HEIGHT)

\* The ring of roots: the commitment tree accepts exactly the roots of its last
\* ROOT_HISTORY_SIZE sizes, before the cursor wraps and after, and never the
\* null root that unused entries hold.
KnownRootsAreRecent ==
    /\ \A n \in 0..commitment_tree.next_index :
          IsKnownRoot(commitment_tree, RootAt(n))
              <=> n > commitment_tree.next_index - ROOT_HISTORY_SIZE
    /\ ~IsKnownRoot(commitment_tree, NullRoot)

\* A receipt proves its outputs: last_commitment_index and commitment_root name
\* a size of the tree, whatever it holds now, that ends with the receipt's
\* commitments.
ReceiptsVerify ==
    \A i \in DOMAIN receipt_events :
        LET r    == receipt_events[i].leaf
            last == r.last_commitment_index
        IN  /\ last < commitment_tree.next_index
            /\ r.commitment_root = RootAt(last + 1)
            /\ \A k \in 1..N_OUTS :
                  r.commitments[k] = Announced(commitment_events, last - N_OUTS + k)
=============================================================================
