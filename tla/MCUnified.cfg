\* One vault of each kind, harvests against an active authority, donations and epochs.
SPECIFICATION FairSpec
CONSTANTS
    Signers = {alice}
    LostKeys = {}
    DefaultKey = DefaultKey
    Lsts = {wsol, vsol}
    WSOL = wsol
    MAX_LST_CONFIGS = 2
    Rates = {1, 2, 3}
    Amounts = {1}
    SlotTokens = {1, 2, 3}
    FeeRates = {5000, 10001}
    BASIS_POINTS = 10000
    PRECISION = 2
    RATE_PRECISION = 2
    RATE_CHANGE_DIVISOR = 2
    UPDATE_SLOT_INTERVAL = 1
    min_buffer_bps = 5000
    min_buffer_amount = 1
    MaxInflow = 2
    MaxAppreciation = 1
    MaxDonation = 1
    MaxEpoch = 2
INVARIANTS TypeOK ValueCovered VirtualSolAddsUp
PROPERTIES WsolBuffer ImplementsRewardPool CreditsBacked UnifiedSlotsSettle EpochsAdvance
