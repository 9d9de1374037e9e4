\* As in the real field, SCALE times the range of amounts exceeds the prime.
SPECIFICATION Spec
CONSTANTS
    P = 31
    RANGE = 4
    ACCUMULATOR_SCALE = 16
    Assets = {1}
    Pks = {pk}
    DummyRhos = {r1, r2}
    NoRho = NoRho
    nInputNotes = 1
    nOutputNotes = 1
    nPublicLines = 1
    nRosterSlots = 1
    rewardAssetId <- OneLine
    PublicAmounts <- Moves
    MaxAcc = 1
    MaxTransactions = 2
SYMMETRY Symmetry
CHECK_DEADLOCK FALSE
INVARIANT ValueConserved
