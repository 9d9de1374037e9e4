\* Two transactions over two assets, with deposits, withdrawals, padding and a reward.
SPECIFICATION Spec
CONSTANTS
    P = 13
    RANGE = 4
    ACCUMULATOR_SCALE = 2
    Assets = {1, 2}
    Pks = {pk}
    DummyRhos = {r1, r2, r3, r4}
    NoRho = NoRho
    nInputNotes = 2
    nOutputNotes = 2
    nPublicLines = 2
    nRosterSlots = 2
    rewardAssetId <- Registry
    PublicAmounts <- Moves
    MaxAcc = 1
    MaxTransactions = 2
SYMMETRY Symmetry
CHECK_DEADLOCK FALSE
INVARIANTS ClaimsConserved HonestClaimsExact NotesSpendable
