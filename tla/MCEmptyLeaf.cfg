\* IndexedMerkleTreeNonMembership against its own comment.
SPECIFICATION IndexedSpec
CONSTANTS
    Values = {1, 2, 3, 4}
    Capacity = 8
CHECK_DEADLOCK FALSE
INVARIANT NonMembershipSound
