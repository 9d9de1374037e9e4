SPECIFICATION FairSpec
CONSTANTS
    Nullifiers = {n1, n2, n3, n4}
    Users = {u1}
    CommitmentTreePda = CommitmentTreePda
    N_INS = 2
    N_OUTS = 2
    BATCH = 2
    Capacity = 6
    MIN_SLOTS = 1
    MIN_PROVABLE = 1
    CLEANUP_GRACE_EPOCHS = 2
    MaxSlot = 1
CHECK_DEADLOCK FALSE
PROPERTY QueueDrains
