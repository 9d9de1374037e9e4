\* Two authority keys and one that nobody holds, fee rates up to an invalid one.
SPECIFICATION FairNotesSpec
CONSTANTS
    Signers = {alice, bob}
    LostKeys = {lost}
    DefaultKey = DefaultKey
    Amounts = {1, 2, 3}
    FeeRates = {0, 5000, 10001}
    BASIS_POINTS = 10000
    PRECISION = 4
    UPDATE_SLOT_INTERVAL = 1
    max_deposit_amount = 2
    MaxInflow = 4
    Overpay = {0, 1}
    MaxNotes = 2
INVARIANTS TypeOK VaultInvariant PoolCovered ControlNeverLost
           BalanceOwned ClaimsBacked PayoutMatchesProof
PROPERTIES ImplementsRewardPool RewardsReachHolders
