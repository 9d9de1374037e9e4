---------------------------- MODULE HubRouting ----------------------------
(***************************************************************************)
(* Which pool moves the tokens of a public line: the hub's registry of     *)
(* pools, the switches of hub and pools, and the account checks of         *)
(* execute_transact.  A proof fixes the asset, the mint and the reward     *)
(* accumulators of a line when it is made; whoever executes it chooses the *)
(* accounts.  A pool is named by the asset_id in its configuration.  The   *)
(* lines of a transaction are checked one by one; this module follows one. *)
(***************************************************************************)
EXTENDS Integers, FiniteSetsExt, Authority

CONSTANTS
    TokenAssets,        \* asset ids of the token pools
    UNIFIED_SOL,        \* the reserved asset id of the unified SOL pool
    NoAsset,            \* [0u8; 32] in an unused line
    MaxShielded,        \* bound on the value shielded
    N_REWARD_LINES,     \* reward lines of a proof
    MaxAcc,             \* bound on the finalizations of all pools
    MaxOff,             \* bound on the switches that are off at one time
    MaxProofs           \* bound on the proofs in flight

ASSUME RoutingAssumption ==
    /\ IsFiniteSet(TokenAssets)
    /\ UNIFIED_SOL \notin TokenAssets
    /\ NoAsset \notin TokenAssets \cup {UNIFIED_SOL}
    /\ MaxShielded \in Nat /\ MaxAcc \in Nat
    /\ N_REWARD_LINES \in Nat \ {0} /\ MaxOff \in Nat /\ MaxProofs \in Nat

Assets == TokenAssets \cup {UNIFIED_SOL}
PoolTypes == {"Token", "UnifiedSol"}

VARIABLES
    is_paused,          \* GlobalConfig
    pool_configs,       \* hub PoolConfig accounts: asset id -> type and flag
    pool_active,        \* is_active of the pools' own configurations
    reward_accumulator, \* of the pools
    held,               \* tokens of the pools
    shielded,           \* value of the notes, by asset
    proofs              \* proofs in flight

hubVars  == <<authorityVars, is_paused, pool_configs>>
poolVars == <<pool_active, reward_accumulator>>
vars     == <<hubVars, poolVars, held, shielded, proofs>>

\* asset_ids::is_reserved; the ids of token pools are Poseidon hashes.
is_reserved(asset_id) == asset_id \notin TokenAssets

-----------------------------------------------------------------------------
\* process_initialize for the global configuration; the pools exist.
Init ==
    /\ authority \in Signers
    /\ pending_authority = DefaultKey
    /\ is_paused = FALSE
    /\ pool_configs = [a \in {} |-> 0]
    /\ pool_active = [a \in Assets |-> TRUE]
    /\ reward_accumulator = [a \in Assets |-> 0]
    /\ held = [a \in Assets |-> 0]
    /\ shielded = [a \in Assets |-> 0]
    /\ proofs = {}

\* The switches that are off, for the bound on them.
Off == [hub   |-> is_paused,
        hubs  |-> {a \in DOMAIN pool_configs : ~pool_configs[a].is_active},
        pools |-> {a \in Assets : ~pool_active[a]}]

MaySwitch(on) ==
    on \/ Cardinality(Off.hubs) + Cardinality(Off.pools) + (IF Off.hub THEN 1 ELSE 0) < MaxOff

\* The PoolConfig account of an asset id is created once.
Register(signer, a, type) ==
    /\ IsAuthority(signer)
    /\ a \notin DOMAIN pool_configs
    /\ pool_configs' = [b \in DOMAIN pool_configs \cup {a} |->
         IF b = a THEN [pool_type |-> type, is_active |-> TRUE] ELSE pool_configs[b]]
    /\ UNCHANGED <<authorityVars, is_paused, poolVars, held, shielded, proofs>>

\* process_register_token_pool.
RegisterTokenPool(signer, a) == ~is_reserved(a) /\ Register(signer, a, "Token")

\* process_register_unified_sol_pool.
RegisterUnifiedSolPool(signer, a) == is_reserved(a) /\ Register(signer, a, "UnifiedSol")

\* process_set_pool_config_active.
SetPoolConfigActive(signer, a, active) ==
    /\ IsAuthority(signer)
    /\ a \in DOMAIN pool_configs
    /\ MaySwitch(active)
    /\ pool_configs' = [pool_configs EXCEPT ![a].is_active = active]
    /\ UNCHANGED <<authorityVars, is_paused, poolVars, held, shielded, proofs>>

\* process_set_pool_paused.
SetPoolPaused(signer, paused) ==
    /\ IsAuthority(signer)
    /\ MaySwitch(~paused)
    /\ is_paused' = paused
    /\ UNCHANGED <<authorityVars, pool_configs, poolVars, held, shielded, proofs>>

\* process_transfer_authority and process_accept_authority of the hub.
TransferHubAuthority(signer, new) ==
    /\ TransferAuthority(signer, new)
    /\ UNCHANGED <<is_paused, pool_configs, poolVars, held, shielded, proofs>>

AcceptHubAuthority(signer) ==
    /\ AcceptAuthority(signer)
    /\ UNCHANGED <<is_paused, pool_configs, poolVars, held, shielded, proofs>>

\* The authority of a pool switches it on or off.
SetPoolActive(a, active) ==
    /\ MaySwitch(active)
    /\ pool_active' = [pool_active EXCEPT ![a] = active]
    /\ UNCHANGED <<hubVars, reward_accumulator, held, shielded, proofs>>

\* A pool finalizes its rewards.
FinalizeRewards(a) ==
    /\ MapThenSumSet(LAMBDA b : reward_accumulator[b], Assets) < MaxAcc
    /\ reward_accumulator' = [reward_accumulator EXCEPT ![a] = @ + 1]
    /\ UNCHANGED <<hubVars, pool_active, held, shielded, proofs>>

-----------------------------------------------------------------------------
\* A client makes a proof for one public line.  The circuit relates its asset to
\* a reward line and spends notes it can withdraw; mint only enters the hash of
\* the parameters.  An unused line has no asset and no amount.
Prove(asset, mint, ext_amount) ==
    /\ Cardinality(proofs) < MaxProofs
    /\ asset = NoAsset => ext_amount = 0 /\ mint = NoAsset
    /\ asset # NoAsset => ext_amount # 0
    /\ \E lines \in SUBSET Assets :
          /\ Cardinality(lines) <= N_REWARD_LINES
          /\ asset # NoAsset => asset \in lines
          /\ proofs' = proofs \cup
               {[asset |-> asset, mint |-> mint, ext_amount |-> ext_amount,
                 reward_acc |-> [a \in lines |-> reward_accumulator[a]]]}
    /\ UNCHANGED <<hubVars, poolVars, held, shielded>>

\* build_reward_config_map, validate_token_accumulator and
\* validate_unified_sol_accumulator: the hub's configuration of asset a gives the
\* type, config is the pool configuration passed next to it.
ValidateAccumulator(a, acc, config) ==
    /\ a \in DOMAIN pool_configs
    /\ pool_configs[a].pool_type = (IF a = UNIFIED_SOL THEN "UnifiedSol" ELSE "Token")
    /\ is_reserved(config) <=> a = UNIFIED_SOL
    /\ config = a
    /\ pool_active[config]
    /\ acc = reward_accumulator[config]

\* Mutant: a proof may claim value in a slot that is not executed.
ValidateInactiveSlot_Any(p) == TRUE

\* validate_inactive_slot.
ValidateInactiveSlot(p) == p.asset = NoAsset /\ p.ext_amount = 0

\* Mutant: the asset may be of the other type.
SlotTypeMatches_Any(p, type) == TRUE

\* load_and_validate_pool_config: the unified asset goes to a slot of its type.
SlotTypeMatches(p, type) == (p.asset = UNIFIED_SOL) <=> (type = "UnifiedSol")

\* The account loading of execute_transact and validate_public_slots for an
\* active slot: hub_config is any registered configuration of the slot's type,
\* pool any pool configuration of that type whose mint is the proof's.
ValidateSlot(p, type, hub_config, pool) ==
    /\ p.asset # NoAsset /\ p.ext_amount # 0
    /\ hub_config \in DOMAIN pool_configs /\ pool_configs[hub_config].pool_type = type
    /\ is_reserved(pool) <=> type = "UnifiedSol"
    /\ SlotTypeMatches(p, type)
    /\ pool_active[pool]
    /\ p.mint = pool

\* The checks every transaction passes: the hub is not paused and each reward
\* line carries the accumulator of its pool.
PassesChecks(p, configs) ==
    /\ ~is_paused
    /\ \A a \in DOMAIN p.reward_acc : ValidateAccumulator(a, p.reward_acc[a], configs[a])

\* A proof that passes; its nullifiers make this its last transaction.
Accepts(p, configs) ==
    /\ p \in proofs
    /\ PassesChecks(p, configs)
    /\ proofs' = proofs \ {p}
    /\ UNCHANGED <<hubVars, poolVars>>

\* The circuit's balance: notes of the proof's asset are made or spent.
MoveNotes(p) ==
    IF p.asset = NoAsset
    THEN UNCHANGED shielded
    ELSE /\ shielded[p.asset] + p.ext_amount \in 0..MaxShielded
         /\ shielded' = [shielded EXCEPT ![p.asset] = @ + p.ext_amount]

\* execute_public_slots and the CPI of the slot's type: a deposit or a withdrawal
\* at the pool that was passed.  Fees and rates are in PoolNotes and UnifiedSolPool.
MoveTokens(p, pool) ==
    /\ held[pool] + p.ext_amount >= 0
    /\ held' = [held EXCEPT ![pool] = @ + p.ext_amount]

\* process_execute_transact with SlotPoolType::None.
ExecuteWithoutSlot(p, configs) ==
    /\ Accepts(p, configs)
    /\ ValidateInactiveSlot(p)
    /\ MoveNotes(p)
    /\ UNCHANGED held

\* process_execute_transact with a Token or UnifiedSol slot: the pool that was
\* passed moves the tokens.
ExecuteWithSlot(p, configs, type, hub_config, pool) ==
    /\ Accepts(p, configs)
    /\ ValidateSlot(p, type, hub_config, pool)
    /\ MoveNotes(p)
    /\ MoveTokens(p, pool)

Next ==
    \/ \E s \in Signers, a \in Assets :
         \/ RegisterTokenPool(s, a)
         \/ RegisterUnifiedSolPool(s, a)
         \/ \E on \in BOOLEAN : SetPoolConfigActive(s, a, on)
    \/ \E s \in Signers, on \in BOOLEAN : SetPoolPaused(s, on)
    \/ \E s \in Signers, new \in Pubkeys : TransferHubAuthority(s, new)
    \/ \E s \in Signers : AcceptHubAuthority(s)
    \/ \E a \in Assets, on \in BOOLEAN : SetPoolActive(a, on)
    \/ \E a \in Assets : FinalizeRewards(a)
    \/ \E a, m \in Assets \cup {NoAsset}, x \in {-1, 0, 1} : Prove(a, m, x)
    \/ \E p \in proofs : \E configs \in [DOMAIN p.reward_acc -> Assets] : ExecuteWithoutSlot(p, configs)
    \/ \E p \in proofs, t \in PoolTypes, h, pool \in Assets :
         \E configs \in [DOMAIN p.reward_acc -> Assets] : ExecuteWithSlot(p, configs, t, h, pool)

Spec == Init /\ [][Next]_vars

-----------------------------------------------------------------------------
\* No value appears in a slot that moves no tokens, and none crosses between
\* unified SOL and the token pools: the notes of each class are backed by the
\* tokens of the pools of that class.
ClassesBacked ==
    /\ shielded[UNIFIED_SOL] = held[UNIFIED_SOL]
    /\ MapThenSumSet(LAMBDA a : shielded[a], TokenAssets)
         = MapThenSumSet(LAMBDA a : held[a], TokenAssets)

\* The hub's checks trap no value: while no switch but those of its PoolConfig
\* accounts is off, whoever holds notes of an asset can pass a withdrawal at some
\* pool that has the tokens, whatever was registered, deposited at other pools
\* or withdrawn from them before.
ValueCanLeave ==
    ~is_paused /\ (\A a \in Assets : pool_active[a]) =>
        \A a \in Assets : shielded[a] > 0 =>
            \E type \in PoolTypes, hub_config, pool \in Assets :
                LET p == [asset |-> a, mint |-> pool, ext_amount |-> -1,
                          reward_acc |-> [b \in {a} |-> reward_accumulator[b]]]
                IN  /\ \E configs \in [{a} -> Assets] : PassesChecks(p, configs)
                    /\ ValidateSlot(p, type, hub_config, pool)
                    /\ held[pool] >= 1

\* load_and_validate_pool_config: "Asset ID validation prevents cross-pool
\* attacks".  The notes of an asset are backed by the pool of that asset.
AssetsBacked == \A a \in Assets : shielded[a] = held[a]
=============================================================================
