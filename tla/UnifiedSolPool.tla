--------------------------- MODULE UnifiedSolPool ---------------------------
(***************************************************************************)
(* The unified-sol-pool program: one asset backed by the vaults of several *)
(* LSTs, the two-phase reward epoch (harvest every LST, then finalize) and *)
(* the hub's admission of deposits.                                        *)
(*                                                                         *)
(* Abstractions.  As in TokenPool the clock is the difference slots_elapsed *)
(* and amounts stay far below 2^64.  The notes are not modelled here: a    *)
(* withdrawal is any amount the program itself lets through.  Counters of  *)
(* transactions, events, PDAs, previous_exchange_rate and the token        *)
(* statistics of LstConfig are left out, and so is max_deposit_amount,     *)
(* which the program stores and never reads.                               *)
(***************************************************************************)
EXTENDS Integers, FiniteSetsExt, Authority

CONSTANTS
    Lsts,                   \* mints; WSOL and mints of SPL stake pools
    WSOL,                   \* the mint of pool type Wsol
    MAX_LST_CONFIGS,        \* 16
    Rates,                  \* rates a stake pool may show
    Amounts,                \* token and virtual SOL amounts callers choose
    SlotTokens,             \* |ext_amount| of the slots that provers ask for
    FeeRates,               \* fee rates the authority tries to set
    BASIS_POINTS,           \* 10000
    PRECISION,              \* ACCUMULATOR_PRECISION (10^18)
    RATE_PRECISION,         \* 10^9
    RATE_CHANGE_DIVISOR,    \* 200: the 0.5% of MAX_RATE_CHANGE_BPS
    UPDATE_SLOT_INTERVAL,   \* 2700
    min_buffer_bps, min_buffer_amount,
    MaxInflow,              \* bound on the virtual SOL ever deposited
    MaxAppreciation,        \* bound on the appreciation ever harvested
    MaxDonation,            \* bound on the direct transfers, of all vaults
    MaxEpoch                \* bound on reward_epoch

ASSUME UnifiedAssumption ==
    /\ IsFiniteSet(Lsts) /\ WSOL \in Lsts
    /\ MAX_LST_CONFIGS \in Nat
    /\ Rates \subseteq Nat /\ Amounts \subseteq Nat /\ FeeRates \subseteq Nat
    /\ SlotTokens \subseteq Nat
    /\ BASIS_POINTS \in Nat \ {0} /\ PRECISION \in Nat \ {0}
    /\ RATE_PRECISION \in Nat \ {0} /\ RATE_CHANGE_DIVISOR \in Nat \ {0}
    /\ UPDATE_SLOT_INTERVAL \in Nat
    /\ min_buffer_bps \in Nat /\ min_buffer_amount \in Nat
    /\ MaxInflow \in Nat /\ MaxAppreciation \in Nat
    /\ MaxDonation \in Nat /\ MaxEpoch \in Nat

\* The LSTs of pool type SplStakePool.
StakePools == Lsts \ {WSOL}

VARIABLES
    \* UnifiedSolPoolConfig
    is_active, deposit_fee_rate, withdrawal_fee_rate,
    reward_epoch, reward_accumulator, slots_elapsed,
    finalized_balance, pending_deposits, pending_withdrawals,
    pending_deposit_fees, pending_withdrawal_fees, pending_appreciation,
    total_virtual_sol, total_deposited, total_withdrawn,
    total_deposit_fees, total_withdrawal_fees, total_appreciation,
    total_rewards_distributed,
    \* LstConfig, by mint
    registered, lst_active, exchange_rate, harvested_exchange_rate,
    last_harvest_epoch, lst_virtual_sol, vault_token_balance,
    \* other accounts
    lst_vault,              \* amounts of the vault token accounts
    stake_rate,             \* total_lamports / pool_token_supply
    stake_fresh             \* last_update_epoch is the clock's epoch

adminVars   == <<is_active, deposit_fee_rate, withdrawal_fee_rate>>
epochVars   == <<reward_epoch, reward_accumulator, slots_elapsed, total_rewards_distributed>>
balanceVars == <<finalized_balance, pending_deposits, pending_withdrawals>>
rewardVars  == <<pending_deposit_fees, pending_withdrawal_fees, pending_appreciation>>
totalVars   == <<total_deposited, total_withdrawn, total_deposit_fees,
                 total_withdrawal_fees, total_appreciation>>
valueVars   == <<total_virtual_sol, lst_virtual_sol>>
vaultVars   == <<vault_token_balance, lst_vault>>
rateVars    == <<exchange_rate, harvested_exchange_rate, last_harvest_epoch>>
configVars  == <<registered, lst_active>>
stakeVars   == <<stake_rate, stake_fresh>>
vars        == <<authorityVars, adminVars, epochVars, balanceVars, rewardVars, totalVars,
                 valueVars, vaultVars, rateVars, configVars, stakeVars>>

-----------------------------------------------------------------------------
\* process_init_unified_sol_pool_config; epoch 0 means "never harvested".
Init ==
    /\ authority \in Signers
    /\ pending_authority = DefaultKey
    /\ is_active = TRUE
    /\ deposit_fee_rate \in {r \in FeeRates : r <= BASIS_POINTS}
    /\ withdrawal_fee_rate \in {r \in FeeRates : r <= BASIS_POINTS}
    /\ reward_epoch = 1 /\ reward_accumulator = 0
    /\ slots_elapsed = UPDATE_SLOT_INTERVAL
    /\ finalized_balance = 0 /\ pending_deposits = 0 /\ pending_withdrawals = 0
    /\ pending_deposit_fees = 0 /\ pending_withdrawal_fees = 0 /\ pending_appreciation = 0
    /\ total_virtual_sol = 0 /\ total_deposited = 0 /\ total_withdrawn = 0
    /\ total_deposit_fees = 0 /\ total_withdrawal_fees = 0
    /\ total_appreciation = 0 /\ total_rewards_distributed = 0
    /\ registered = {}
    /\ lst_active = [l \in Lsts |-> FALSE]
    /\ exchange_rate = [l \in Lsts |-> RATE_PRECISION]
    /\ harvested_exchange_rate = [l \in Lsts |-> RATE_PRECISION]
    /\ last_harvest_epoch = [l \in Lsts |-> 0]
    /\ lst_virtual_sol = [l \in Lsts |-> 0]
    /\ vault_token_balance = [l \in Lsts |-> 0]
    /\ lst_vault = [l \in Lsts |-> 0]
    /\ stake_rate \in [StakePools -> Rates]
    /\ stake_fresh = [l \in StakePools |-> TRUE]

\* process_init_lst_config.  The configuration of a mint that is not registered
\* has the values this handler writes; its vault is created here.
InitLstConfig(signer, l) ==
    /\ IsAuthority(signer)
    /\ l \notin registered
    /\ Cardinality(registered) < MAX_LST_CONFIGS
    /\ registered' = registered \cup {l}
    /\ lst_active' = [lst_active EXCEPT ![l] = TRUE]
    /\ UNCHANGED <<authorityVars, adminVars, epochVars, balanceVars, rewardVars, totalVars,
                   valueVars, vaultVars, rateVars, stakeVars>>

Fee(amount, rate) == (amount * rate) \div BASIS_POINTS

\* tokens_to_virtual_sol and virtual_sol_to_tokens, both rounding down.
VirtualSol(tokens, rate) == (tokens * rate) \div RATE_PRECISION

\* Mutant: rounds up.
Tokens_RoundUp(virtual_sol, rate) == (virtual_sol * RATE_PRECISION + rate - 1) \div rate

Tokens(virtual_sol, rate) == (virtual_sol * RATE_PRECISION) \div rate

\* PoolConfig::validate_deposit: the hub insists on a harvest in the previous
\* epoch, where process_deposit would accept a later one too.
HubAcceptsDeposit(l) == last_harvest_epoch[l] = reward_epoch - 1

PoolAcceptsDeposit(l) == last_harvest_epoch[l] >= reward_epoch - 1

\* process_deposit, called by the hub.
Deposit(l, amount) ==
    /\ is_active
    /\ l \in registered /\ lst_active[l]
    /\ HubAcceptsDeposit(l) /\ PoolAcceptsDeposit(l)
    /\ LET virtual_sol == VirtualSol(amount, harvested_exchange_rate[l])
           fee == Fee(virtual_sol, deposit_fee_rate)
           principal == virtual_sol - fee
       IN  /\ total_deposited + total_deposit_fees + virtual_sol <= MaxInflow
           /\ lst_vault' = [lst_vault EXCEPT ![l] = @ + amount]
           /\ vault_token_balance' = [vault_token_balance EXCEPT ![l] = @ + amount]
           /\ lst_virtual_sol' = [lst_virtual_sol EXCEPT ![l] = @ + virtual_sol]
           /\ total_virtual_sol' = total_virtual_sol + virtual_sol
           /\ pending_deposits' = pending_deposits + principal
           /\ total_deposited' = total_deposited + principal
           /\ total_deposit_fees' = total_deposit_fees + fee
           /\ pending_deposit_fees' = pending_deposit_fees + fee
    /\ UNCHANGED <<authorityVars, adminVars, epochVars, finalized_balance,
                   pending_withdrawals, pending_withdrawal_fees, pending_appreciation,
                   total_withdrawn, total_withdrawal_fees, total_appreciation,
                   rateVars, configVars, stakeVars>>

MaxOf(a, b) == IF a > b THEN a ELSE b

\* calculate_required_buffer, for a pool worth virtual_sol.
RequiredBuffer(virtual_sol) ==
    MaxOf((virtual_sol * min_buffer_bps) \div BASIS_POINTS, min_buffer_amount)

\* Mutant: the buffer is compared with the balance before the withdrawal.
BufferAllows_Before(l, tokens) ==
    l = WSOL => lst_vault[l] >= RequiredBuffer(total_virtual_sol)

\* The WSOL buffer gate of process_withdraw.
BufferAllows(l, tokens) ==
    l = WSOL => lst_vault[l] - tokens >= RequiredBuffer(total_virtual_sol)

\* process_withdraw and the hub's transfers out of the vault; the subtractions
\* from the two value counters are checked.
Withdraw(l, virtual_sol) ==
    /\ is_active
    /\ l \in registered /\ lst_active[l]
    /\ LET fee == Fee(virtual_sol, withdrawal_fee_rate)
           net == virtual_sol - fee
           tokens == Tokens(net, harvested_exchange_rate[l])
       IN  /\ BufferAllows(l, tokens)
           /\ tokens <= lst_vault[l] /\ tokens <= vault_token_balance[l]
           /\ net <= lst_virtual_sol[l] /\ net <= total_virtual_sol
           /\ lst_vault' = [lst_vault EXCEPT ![l] = @ - tokens]
           /\ vault_token_balance' = [vault_token_balance EXCEPT ![l] = @ - tokens]
           /\ lst_virtual_sol' = [lst_virtual_sol EXCEPT ![l] = @ - net]
           /\ total_virtual_sol' = total_virtual_sol - net
           /\ pending_withdrawals' = pending_withdrawals + virtual_sol
           /\ total_withdrawn' = total_withdrawn + virtual_sol
           /\ total_withdrawal_fees' = total_withdrawal_fees + fee
           /\ pending_withdrawal_fees' = pending_withdrawal_fees + fee
    /\ UNCHANGED <<authorityVars, adminVars, epochVars, finalized_balance,
                   pending_deposits, pending_deposit_fees, pending_appreciation,
                   total_deposited, total_deposit_fees, total_appreciation,
                   rateVars, configVars, stakeVars>>

-----------------------------------------------------------------------------
Distance(a, b) == IF a > b THEN a - b ELSE b - a

\* The hub's side of a slot of this pool.  validate_fee_unified and
\* check_public_amount_unified admit a deposit of ext tokens whose proof adds
\* public to the notes, ...
AdmitsDeposit(l, ext, fee, public) ==
    LET virtual_sol == VirtualSol(ext, harvested_exchange_rate[l])
    IN  /\ fee \in Fee(virtual_sol, deposit_fee_rate)..virtual_sol
        /\ public = virtual_sol - fee

\* Mutant: the fee of a withdrawal is not checked.
AdmitsWithdrawal_AnyFee(l, ext, fee, public) ==
    LET gross == VirtualSol(ext, harvested_exchange_rate[l]) + fee
    IN  Distance(public, gross) <= 1 /\ (public = 0) = (gross = 0)

\* ... and a withdrawal of ext tokens whose proof takes public from the notes,
\* with a tolerance of one.  It is a difference of negated field elements, where
\* zero is far from its neighbours.
AdmitsWithdrawal(l, ext, fee, public) ==
    LET gross == VirtualSol(ext, harvested_exchange_rate[l]) + fee
    IN  /\ fee >= Fee(public, withdrawal_fee_rate)
        /\ Distance(public, gross) <= 1
        /\ (public = 0) = (gross = 0)

\* execute_unified_sol_slot_cpi: the gross amount the hub withdraws from the
\* pool, recovered from the net tokens, and the tokens it then hands out.
GrossVirtualSol(l, ext) ==
    (VirtualSol(ext, harvested_exchange_rate[l]) * BASIS_POINTS)
        \div (BASIS_POINTS - withdrawal_fee_rate)
SlotOutput(l, ext) ==
    LET gross == GrossVirtualSol(l, ext)
    IN  Tokens(gross - Fee(gross, withdrawal_fee_rate), harvested_exchange_rate[l])

\* The rate a harvest reads: read_spl_stake_pool_rate, or 1:1 for WSOL.
RateRead(l) == IF l = WSOL THEN RATE_PRECISION ELSE stake_rate[l]

\* validate_rate_change.  Its case exchange_rate = 0 never arises.
RateChangeAllowed(l) ==
    Distance(RateRead(l), exchange_rate[l]) <= exchange_rate[l] \div RATE_CHANGE_DIVISOR

\* Mutant: a rate below 1:1 is accepted.
CanHarvest_AnyRate(l) ==
    /\ l \in registered /\ lst_active[l]
    /\ vault_token_balance[l] = lst_vault[l]
    /\ l # WSOL => stake_fresh[l] /\ RateChangeAllowed(l)

\* When process_harvest_lst_appreciation succeeds; it does not ask whether the
\* pool is active.
CanHarvest(l) ==
    /\ l \in registered /\ lst_active[l]
    /\ vault_token_balance[l] = lst_vault[l]
    /\ l # WSOL => /\ stake_fresh[l]
                   /\ stake_rate[l] >= RATE_PRECISION
                   /\ RateChangeAllowed(l)

\* Mutant: a second harvest of an epoch starts from the frozen rate again.
Appreciation_FromFrozen(l) ==
    IF RateRead(l) > harvested_exchange_rate[l]
    THEN (lst_vault[l] * (RateRead(l) - harvested_exchange_rate[l])) \div RATE_PRECISION
    ELSE 0

\* update_exchange_rate: a fall of the rate is no negative appreciation.
Appreciation(l) ==
    IF RateRead(l) > exchange_rate[l]
    THEN (lst_vault[l] * (RateRead(l) - exchange_rate[l])) \div RATE_PRECISION
    ELSE 0

\* process_harvest_lst_appreciation; permissionless.
HarvestLstAppreciation(l) ==
    /\ CanHarvest(l)
    /\ total_appreciation + Appreciation(l) <= MaxAppreciation
    /\ exchange_rate' = [exchange_rate EXCEPT ![l] = RateRead(l)]
    /\ last_harvest_epoch' = [last_harvest_epoch EXCEPT ![l] = reward_epoch]
    /\ pending_appreciation' = pending_appreciation + Appreciation(l)
    /\ total_appreciation' = total_appreciation + Appreciation(l)
    /\ UNCHANGED <<authorityVars, adminVars, epochVars, balanceVars,
                   pending_deposit_fees, pending_withdrawal_fees, total_deposited,
                   total_withdrawn, total_deposit_fees, total_withdrawal_fees, valueVars,
                   vaultVars, harvested_exchange_rate, configVars, stakeVars>>

current_balance == finalized_balance + pending_deposits - pending_withdrawals

total_pending == pending_deposit_fees + pending_withdrawal_fees + pending_appreciation

\* Mutant: an inactive LST must be harvested too.
CanFinalize_AllLsts ==
    /\ is_active
    /\ \A l \in registered : last_harvest_epoch[l] = reward_epoch
    /\ slots_elapsed >= UPDATE_SLOT_INTERVAL
    /\ current_balance >= 0

\* The conditions of process_finalize_unified_rewards.  The caller passes every
\* registered LST once; an inactive one need not be harvested.
CanFinalize ==
    /\ is_active
    /\ \A l \in registered : lst_active[l] => last_harvest_epoch[l] = reward_epoch
    /\ slots_elapsed >= UPDATE_SLOT_INTERVAL
    /\ current_balance >= 0

\* Mutant: the appreciation is not reset.
DistributeRewards_KeepsAppreciation ==
    IF current_balance > 0 /\ total_pending > 0
    THEN /\ reward_accumulator' =
               reward_accumulator + (total_pending * PRECISION) \div current_balance
         /\ total_rewards_distributed' = total_rewards_distributed + total_pending
         /\ pending_deposit_fees' = 0
         /\ pending_withdrawal_fees' = 0
         /\ UNCHANGED pending_appreciation
    ELSE UNCHANGED <<reward_accumulator, total_rewards_distributed, rewardVars>>

\* The accumulator part of UnifiedSolPoolConfig::finalize_rewards.
DistributeRewards ==
    IF current_balance > 0 /\ total_pending > 0
    THEN /\ reward_accumulator' =
               reward_accumulator + (total_pending * PRECISION) \div current_balance
         /\ total_rewards_distributed' = total_rewards_distributed + total_pending
         /\ pending_deposit_fees' = 0
         /\ pending_withdrawal_fees' = 0
         /\ pending_appreciation' = 0
    ELSE UNCHANGED <<reward_accumulator, total_rewards_distributed, rewardVars>>

\* The value of an LST after finalization, at the rate that is then frozen.
FrozenRate(l) == IF lst_active[l] THEN exchange_rate[l] ELSE harvested_exchange_rate[l]

FrozenValue(l) == VirtualSol(vault_token_balance[l], FrozenRate(l))

\* Mutant: inactive LSTs are left out of the sum.
PoolValue_ActiveOnly == MapThenSumSet(FrozenValue, {l \in registered : lst_active[l]})

\* total_pool_virtual_sol: the inactive LSTs count too.
PoolValue == MapThenSumSet(FrozenValue, registered)

\* process_finalize_unified_rewards; permissionless.
FinalizeUnifiedRewards ==
    /\ CanFinalize
    /\ reward_epoch < MaxEpoch
    /\ DistributeRewards
    /\ finalized_balance' = current_balance
    /\ pending_deposits' = 0
    /\ pending_withdrawals' = 0
    /\ slots_elapsed' = 0
    /\ reward_epoch' = reward_epoch + 1
    /\ lst_virtual_sol' =
           [l \in Lsts |-> IF l \in registered THEN FrozenValue(l) ELSE lst_virtual_sol[l]]
    /\ harvested_exchange_rate' =
           [l \in Lsts |-> IF l \in registered THEN FrozenRate(l) ELSE harvested_exchange_rate[l]]
    /\ total_virtual_sol' = PoolValue
    /\ UNCHANGED <<authorityVars, adminVars, totalVars, vaultVars, exchange_rate,
                   last_harvest_epoch, configVars, stakeVars>>

-----------------------------------------------------------------------------
\* process_set_unified_sol_pool_config_active.
SetUnifiedSolPoolConfigActive(signer, active) ==
    /\ IsAuthority(signer)
    /\ is_active' = active
    /\ UNCHANGED <<authorityVars, deposit_fee_rate, withdrawal_fee_rate, epochVars,
                   balanceVars, rewardVars, totalVars, valueVars, vaultVars, rateVars,
                   configVars, stakeVars>>

\* process_set_lst_config_active.
SetLstConfigActive(signer, l, active) ==
    /\ IsAuthority(signer)
    /\ l \in registered
    /\ lst_active' = [lst_active EXCEPT ![l] = active]
    /\ UNCHANGED <<authorityVars, adminVars, epochVars, balanceVars, rewardVars, totalVars,
                   valueVars, vaultVars, rateVars, registered, stakeVars>>

\* process_set_unified_sol_pool_config_fee_rates.
SetFeeRates(signer, deposit_rate, withdrawal_rate) ==
    /\ IsAuthority(signer)
    /\ deposit_rate <= BASIS_POINTS
    /\ withdrawal_rate <= BASIS_POINTS
    /\ deposit_fee_rate' = deposit_rate
    /\ withdrawal_fee_rate' = withdrawal_rate
    /\ UNCHANGED <<authorityVars, is_active, epochVars, balanceVars, rewardVars, totalVars,
                   valueVars, vaultVars, rateVars, configVars, stakeVars>>

\* process_transfer_authority and process_accept_authority.
ChangeAuthority(signer) ==
    /\ \/ \E new \in Pubkeys : TransferAuthority(signer, new)
       \/ AcceptAuthority(signer)
    /\ UNCHANGED <<adminVars, epochVars, balanceVars, rewardVars, totalVars, valueVars,
                   vaultVars, rateVars, configVars, stakeVars>>

\* An SPL transfer into the vault of an LST that the program never sees.
DirectTransfer(l, amount) ==
    /\ l \in registered
    /\ LET uncounted(k) == lst_vault[k] - vault_token_balance[k]
       IN  MapThenSumSet(uncounted, Lsts) + amount <= MaxDonation
    /\ lst_vault' = [lst_vault EXCEPT ![l] = @ + amount]
    /\ UNCHANGED <<authorityVars, adminVars, epochVars, balanceVars, rewardVars, totalVars,
                   valueVars, vault_token_balance, rateVars, configVars, stakeVars>>

\* The stake pool program refreshes the balance of a stake pool.
UpdateStakePoolBalance(l) ==
    /\ \E r \in Rates : stake_rate' = [stake_rate EXCEPT ![l] = r]
    /\ stake_fresh' = [stake_fresh EXCEPT ![l] = TRUE]
    /\ UNCHANGED <<authorityVars, adminVars, epochVars, balanceVars, rewardVars, totalVars,
                   valueVars, vaultVars, rateVars, configVars>>

\* A new Solana epoch begins: every stake pool is out of date.
NewSolanaEpoch ==
    /\ stake_fresh' = [l \in StakePools |-> FALSE]
    /\ UNCHANGED <<authorityVars, adminVars, epochVars, balanceVars, rewardVars, totalVars,
                   valueVars, vaultVars, rateVars, configVars, stake_rate>>

\* The cluster's clock.
Tick ==
    /\ slots_elapsed < UPDATE_SLOT_INTERVAL
    /\ slots_elapsed' = slots_elapsed + 1
    /\ UNCHANGED <<authorityVars, adminVars, reward_epoch, reward_accumulator,
                   total_rewards_distributed, balanceVars, rewardVars, totalVars, valueVars,
                   vaultVars, rateVars, configVars, stakeVars>>

Next ==
    \/ \E s \in Signers, l \in Lsts : InitLstConfig(s, l)
    \/ \E l \in Lsts, amount \in Amounts : Deposit(l, amount)
    \/ \E l \in Lsts, amount \in Amounts : Withdraw(l, amount)
    \/ \E l \in Lsts : HarvestLstAppreciation(l)
    \/ FinalizeUnifiedRewards
    \/ \E s \in Signers, active \in BOOLEAN : SetUnifiedSolPoolConfigActive(s, active)
    \/ \E s \in Signers, l \in Lsts, active \in BOOLEAN : SetLstConfigActive(s, l, active)
    \/ \E s \in Signers, d \in FeeRates, w \in FeeRates : SetFeeRates(s, d, w)
    \/ \E s \in Signers : ChangeAuthority(s)
    \/ \E l \in Lsts, amount \in Amounts : DirectTransfer(l, amount)
    \/ \E l \in StakePools : UpdateStakePoolBalance(l)
    \/ NewSolanaEpoch
    \/ Tick

Spec == Init /\ [][Next]_vars

\* Harvest and finalization are permissionless: holders call them whenever they
\* can, however often the authority or the stake pools get in between.
FairSpec ==
    /\ Spec
    /\ \A l \in Lsts : SF_vars(HarvestLstAppreciation(l))
    /\ SF_vars(FinalizeUnifiedRewards)
    /\ WF_vars(Tick)
-----------------------------------------------------------------------------
\* Rates never fall below 1:1, the invariant that virtual_sol_to_tokens needs
\* for its cast (README, "Exchange Rate Invariant").
TypeOK ==
    /\ authority \in Pubkeys /\ pending_authority \in Pubkeys
    /\ is_active \in BOOLEAN
    /\ deposit_fee_rate \in 0..BASIS_POINTS /\ withdrawal_fee_rate \in 0..BASIS_POINTS
    /\ reward_epoch \in Nat \ {0} /\ reward_accumulator \in Nat
    /\ slots_elapsed \in 0..UPDATE_SLOT_INTERVAL
    /\ finalized_balance \in Nat /\ pending_deposits \in Nat /\ pending_withdrawals \in Nat
    /\ pending_deposit_fees \in Nat /\ pending_withdrawal_fees \in Nat
    /\ pending_appreciation \in Nat
    /\ total_virtual_sol \in Nat /\ total_deposited \in Nat /\ total_withdrawn \in Nat
    /\ total_deposit_fees \in Nat /\ total_withdrawal_fees \in Nat
    /\ total_appreciation \in Nat /\ total_rewards_distributed \in Nat
    /\ registered \subseteq Lsts /\ lst_active \in [Lsts -> BOOLEAN]
    /\ exchange_rate \in [Lsts -> {r \in Nat : r >= RATE_PRECISION}]
    /\ harvested_exchange_rate \in [Lsts -> {r \in Nat : r >= RATE_PRECISION}]
    /\ last_harvest_epoch \in [Lsts -> Nat] /\ lst_virtual_sol \in [Lsts -> Nat]
    /\ vault_token_balance \in [Lsts -> Nat] /\ lst_vault \in [Lsts -> Nat]
    /\ stake_rate \in [StakePools -> Rates] /\ stake_fresh \in [StakePools -> BOOLEAN]

\* However deposits, withdrawals and finalizations round, the tokens counted
\* for an LST are worth at least its total_virtual_sol at the rate that
\* withdrawals use, and the vault holds the tokens counted.
ValueCovered ==
    \A l \in Lsts :
        /\ lst_virtual_sol[l] * RATE_PRECISION
               <= vault_token_balance[l] * harvested_exchange_rate[l]
        /\ vault_token_balance[l] <= lst_vault[l]

\* The pool's total_virtual_sol, which the WSOL buffer is a share of, is the sum
\* over the LSTs, though both are updated piecemeal and recomputed at
\* finalization.
VirtualSolAddsUp ==
    total_virtual_sol = MapThenSumSet(LAMBDA l : lst_virtual_sol[l], registered)

\* The program implements RewardPool: fees and harvested appreciation are handed
\* out exactly once, over the whole balance, and by nothing but a finalization.
Rewards == INSTANCE RewardPool WITH
    balance     <- current_balance,
    collected   <- total_deposit_fees + total_withdrawal_fees + total_appreciation,
    pending     <- total_pending,
    distributed <- total_rewards_distributed,
    accumulator <- reward_accumulator
ImplementsRewardPool == Rewards!Spec

\* The virtual SOL credited: deposits, less withdrawals, plus harvests.
credited == total_deposited + total_deposit_fees + total_appreciation
            - total_withdrawn + total_withdrawal_fees

\* What a step may cost: a rate that falls is not deducted, and tokens move at
\* the frozen rate although a harvest may have moved the rate since.
Leak(l) ==
    vault_token_balance[l] * MaxOf(exchange_rate[l] - exchange_rate'[l], 0)
    + Distance(vault_token_balance'[l], vault_token_balance[l])
        * Distance(exchange_rate[l], harvested_exchange_rate[l])

\* What a step adds to the worth of the tokens counted for an LST, at the rate
\* last read and without the leaks.
Gain(l) ==
    vault_token_balance'[l] * exchange_rate'[l]
    - vault_token_balance[l] * exchange_rate[l] + Leak(l)

\* No credit without tokens: apart from those two leaks every step, with all of
\* its roundings, adds at least as much worth as it credits, so no appreciation
\* is credited twice and none that was not there.
CreditsBacked ==
    [][\/ UNCHANGED <<totalVars, vault_token_balance, exchange_rate>>
       \/ RATE_PRECISION * (credited' - credited) <= MapThenSumSet(Gain, Lsts)]_vars

\* What the notes gain or lose in a slot, what the pool books and what is paid
\* out are computed in three places, through a rate and a fee that round and with
\* a tolerance.  Whatever proof the hub admits, notes never gain more than the
\* pool books, the pool books at most the rounding of two units (before fees)
\* more than the notes lose, and the payout is ext or one token less.
SlotsSettle ==
    \A l \in registered, ext \in SlotTokens :
        LET virtual_sol == VirtualSol(ext, harvested_exchange_rate[l]) IN
        \A fee \in 0..virtual_sol, public \in 0..(2 * virtual_sol + 1) :
            /\ AdmitsDeposit(l, ext, fee, public)
                   => public <= virtual_sol - Fee(virtual_sol, deposit_fee_rate)
            /\ AdmitsWithdrawal(l, ext, fee, public) /\ withdrawal_fee_rate < BASIS_POINTS
                   => /\ (GrossVirtualSol(l, ext) - public)
                              * (BASIS_POINTS - withdrawal_fee_rate) < 2 * BASIS_POINTS
                      /\ SlotOutput(l, ext) \in {ext - 1, ext}
UnifiedSlotsSettle ==
    [][\/ UNCHANGED <<harvested_exchange_rate, registered, deposit_fee_rate, withdrawal_fee_rate>>
       \/ SlotsSettle']_vars

\* No step takes WSOL out of the vault and leaves less than the buffer the pool
\* then requires.
WsolBuffer ==
    [][lst_vault'[WSOL] < lst_vault[WSOL]
           => lst_vault'[WSOL] >= RequiredBuffer(total_virtual_sol')]_lst_vault

\* What excuses an epoch that does not end: the pool is inactive, its balance is
\* negative, or an active LST that still has to be harvested cannot be.
Blocked ==
    \/ ~is_active
    \/ current_balance < 0
    \/ \E l \in registered :
          /\ lst_active[l]
          /\ last_harvest_epoch[l] # reward_epoch
          /\ ~(CanHarvest(l) /\ total_appreciation + Appreciation(l) <= MaxAppreciation)

\* Permissionless harvests and finalizations carry the pool from epoch to epoch
\* unless something blocks them from some point on without a pause.
EpochsAdvance == <>(reward_epoch = MaxEpoch) \/ <>[]Blocked
=============================================================================
