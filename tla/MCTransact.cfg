SPECIFICATION FairSpec
CONSTANTS
    alice = alice
    bob = bob
    n1 = n1
    n2 = n2
    Users = {alice, bob}
    DefaultKey = DefaultKey
    Nullifiers = {n1, n2}
    N_INS = 1
    two_slots = two_slots
    withdrawal = withdrawal
    Zero = Zero
    Bodies = {two_slots, withdrawal}
    Params <- SomeParams
    SessionKeys <- OneSession
    EscrowKeys <- TwoEscrows
    BODY_CHUNKS = 2
    Lengths = {2, 3, 4}
    MAX_SESSION_DATA_LEN = 3
    SESSION_EXPIRY_SLOTS = 1
    Amounts = {1, 3}
    ExpirySlots = {0}
    Supply = 4
    MaxSlot = 2
    MaxEpoch = 1
INVARIANTS EscrowPaysNamedBody EscrowDebitedOnce DebitsMatchExecutions
           WalletsExplained
PROPERTY EscrowResolves
