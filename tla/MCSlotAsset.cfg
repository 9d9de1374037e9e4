\* The same pools; the asset of a line and the pool that serves it.
SPECIFICATION Spec
CONSTANTS
    Signers = {alice}
    LostKeys = {}
    DefaultKey = DefaultKey
    TokenAssets = {usdc, bonk}
    UNIFIED_SOL = usol
    NoAsset = NoAsset
    MaxShielded = 1
    N_REWARD_LINES = 2
    MaxAcc = 1
    MaxOff = 1
    MaxProofs = 1
INVARIANT AssetsBacked
