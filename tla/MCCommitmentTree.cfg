\* Four transactions fill the tree; the ring of three wraps within the second.
SPECIFICATION Spec
CONSTANTS
    Commitments = {c1, c2}
    Zero = Zero
    N_OUTS = 2
    COMMITMENT_TREE_HEIGHT = 3
    RECEIPT_TREE_HEIGHT = 2
    ROOT_HISTORY_SIZE = 3
    MaxProofs = 2
CHECK_DEADLOCK FALSE
INVARIANTS EventsRebuildTrees KnownRootsAreRecent ReceiptsVerify
