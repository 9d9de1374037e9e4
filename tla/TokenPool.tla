----------------------------- MODULE TokenPool -----------------------------
(***************************************************************************)
(* The token-pool program: the accounting of one TokenPoolConfig account   *)
(* and the balance of its vault.                                           *)
(*                                                                         *)
(* Abstractions.  The clock is read only through current_slot -            *)
(* last_finalized_slot, so the model keeps that difference, saturated at   *)
(* UPDATE_SLOT_INTERVAL.  Amounts are far below 2^64 (a mint's supply is a *)
(* u64), so checked additions do not fail and checked subtractions are     *)
(* guards.  Deposit and withdrawal counters, events and PDAs are left out. *)
(* The hub spends the approval of Withdraw in the same transaction, so the *)
(* tokens leave the vault in the same step.                                *)
(***************************************************************************)
EXTENDS Integers, Authority

CONSTANTS
    Amounts,                \* amounts callers choose
    FeeRates,               \* fee rates the authority tries to set
    BASIS_POINTS,           \* 10000
    PRECISION,              \* ACCUMULATOR_PRECISION (10^18)
    UPDATE_SLOT_INTERVAL,   \* 2700
    max_deposit_amount,     \* fixed by init_pool
    MaxInflow               \* bound on the tokens that ever enter the vault

ASSUME PoolAssumption ==
    /\ Amounts \subseteq Nat /\ FeeRates \subseteq Nat
    /\ BASIS_POINTS \in Nat \ {0} /\ PRECISION \in Nat \ {0}
    /\ UPDATE_SLOT_INTERVAL \in Nat /\ max_deposit_amount \in Nat
    /\ MaxInflow \in Nat

VARIABLES
    is_active, deposit_fee_rate, withdrawal_fee_rate,
    finalized_balance, pending_deposits, pending_withdrawals,
    pending_deposit_fees, pending_withdrawal_fees, pending_funded_rewards,
    total_deposited, total_withdrawn,
    total_deposit_fees, total_withdrawal_fees, total_funded_rewards,
    total_rewards_distributed,
    reward_accumulator,
    slots_elapsed,      \* current_slot - last_finalized_slot, saturated
    vault,              \* amount of the vault token account
    unswept             \* history: direct transfers not yet swept

adminVars   == <<is_active, deposit_fee_rate, withdrawal_fee_rate>>
balanceVars == <<finalized_balance, pending_deposits, pending_withdrawals>>
rewardVars  == <<pending_deposit_fees, pending_withdrawal_fees, pending_funded_rewards>>
accVars     == <<reward_accumulator, total_rewards_distributed, slots_elapsed>>
totalVars   == <<total_deposited, total_withdrawn, total_deposit_fees,
                 total_withdrawal_fees, total_funded_rewards>>
poolVars    == <<authorityVars, adminVars, balanceVars, rewardVars, accVars,
                 totalVars, vault, unswept>>

-----------------------------------------------------------------------------
\* process_init_pool.  last_finalized_slot = 0 lies more than one interval back.
PoolInit ==
    /\ authority \in Signers
    /\ pending_authority = DefaultKey
    /\ is_active = TRUE
    /\ deposit_fee_rate \in {r \in FeeRates : r <= BASIS_POINTS}
    /\ withdrawal_fee_rate \in {r \in FeeRates : r <= BASIS_POINTS}
    /\ finalized_balance = 0 /\ pending_deposits = 0 /\ pending_withdrawals = 0
    /\ pending_deposit_fees = 0 /\ pending_withdrawal_fees = 0
    /\ pending_funded_rewards = 0
    /\ total_deposited = 0 /\ total_withdrawn = 0
    /\ total_deposit_fees = 0 /\ total_withdrawal_fees = 0
    /\ total_funded_rewards = 0 /\ total_rewards_distributed = 0
    /\ reward_accumulator = 0
    /\ slots_elapsed = UPDATE_SLOT_INTERVAL
    /\ vault = 0
    /\ unswept = 0

\* The fee of calculate_deposit_output and calculate_withdrawal_output.
Fee(amount, rate) == (amount * rate) \div BASIS_POINTS

\* current_balance, without its checked_sub.
current_balance == finalized_balance + pending_deposits - pending_withdrawals

total_pending == pending_deposit_fees + pending_withdrawal_fees + pending_funded_rewards

\* The bound on what enters the vault.
Inflow == total_deposited + total_deposit_fees + total_funded_rewards + unswept
Bounded(amount) == Inflow + amount <= MaxInflow

\* process_deposit; current_balance of the event cannot fail here.
Deposit(amount) ==
    /\ is_active
    /\ amount <= max_deposit_amount
    /\ Bounded(amount)
    /\ LET fee == Fee(amount, deposit_fee_rate)
           principal == amount - fee
       IN  /\ vault' = vault + amount
           /\ pending_deposits' = pending_deposits + principal
           /\ total_deposited' = total_deposited + principal
           /\ total_deposit_fees' = total_deposit_fees + fee
           /\ pending_deposit_fees' = pending_deposit_fees + fee
    /\ UNCHANGED <<authorityVars, adminVars, accVars, finalized_balance,
                   pending_withdrawals, pending_withdrawal_fees,
                   pending_funded_rewards, total_withdrawn,
                   total_withdrawal_fees, total_funded_rewards, unswept>>

\* Mutant: the balance is not checked.
Withdraw_Unchecked(amount) ==
    /\ is_active
    /\ LET fee == Fee(amount, withdrawal_fee_rate)
           output == amount - fee
       IN  /\ output <= vault
           /\ vault' = vault - output
           /\ pending_withdrawals' = pending_withdrawals + amount
           /\ total_withdrawn' = total_withdrawn + amount
           /\ total_withdrawal_fees' = total_withdrawal_fees + fee
           /\ pending_withdrawal_fees' = pending_withdrawal_fees + fee
    /\ UNCHANGED <<authorityVars, adminVars, accVars, finalized_balance,
                   pending_deposits, pending_deposit_fees, pending_funded_rewards,
                   total_deposited, total_deposit_fees, total_funded_rewards, unswept>>

\* process_withdraw and the hub's transfers out of the vault.  The balance of
\* the event is a checked subtraction, which aborts a withdrawal that exceeds
\* the balance of the pool.
Withdraw(amount) ==
    /\ is_active
    /\ amount <= current_balance
    /\ LET fee == Fee(amount, withdrawal_fee_rate)
           output == amount - fee
       IN  /\ output <= vault
           /\ vault' = vault - output
           /\ pending_withdrawals' = pending_withdrawals + amount
           /\ total_withdrawn' = total_withdrawn + amount
           /\ total_withdrawal_fees' = total_withdrawal_fees + fee
           /\ pending_withdrawal_fees' = pending_withdrawal_fees + fee
    /\ UNCHANGED <<authorityVars, adminVars, accVars, finalized_balance,
                   pending_deposits, pending_deposit_fees, pending_funded_rewards,
                   total_deposited, total_deposit_fees, total_funded_rewards, unswept>>

\* Mutant: an inactive pool is not finalized.
CanFinalize_Active ==
    is_active /\ slots_elapsed >= UPDATE_SLOT_INTERVAL /\ current_balance >= 0

\* When TokenPoolConfig::finalize_rewards succeeds; it does not ask is_active.
CanFinalize == slots_elapsed >= UPDATE_SLOT_INTERVAL /\ current_balance >= 0

\* Mutant: the funded rewards are not reset.
DistributeRewards_KeepsFunded ==
    IF current_balance > 0 /\ total_pending > 0
    THEN /\ reward_accumulator' =
               reward_accumulator + (total_pending * PRECISION) \div current_balance
         /\ total_rewards_distributed' = total_rewards_distributed + total_pending
         /\ pending_deposit_fees' = 0
         /\ pending_withdrawal_fees' = 0
         /\ UNCHANGED pending_funded_rewards
    ELSE UNCHANGED <<reward_accumulator, total_rewards_distributed, rewardVars>>

\* Pending rewards go to the accumulator, unless nobody would receive them.
DistributeRewards ==
    IF current_balance > 0 /\ total_pending > 0
    THEN /\ reward_accumulator' =
               reward_accumulator + (total_pending * PRECISION) \div current_balance
         /\ total_rewards_distributed' = total_rewards_distributed + total_pending
         /\ pending_deposit_fees' = 0
         /\ pending_withdrawal_fees' = 0
         /\ pending_funded_rewards' = 0
    ELSE UNCHANGED <<reward_accumulator, total_rewards_distributed, rewardVars>>

\* process_finalize_rewards; permissionless.
FinalizeRewards ==
    /\ CanFinalize
    /\ DistributeRewards
    /\ finalized_balance' = current_balance
    /\ pending_deposits' = 0
    /\ pending_withdrawals' = 0
    /\ slots_elapsed' = 0
    /\ UNCHANGED <<authorityVars, adminVars, totalVars, vault, unswept>>

\* process_fund_rewards.
FundRewards(amount) ==
    /\ is_active
    /\ amount > 0
    /\ Bounded(amount)
    /\ vault' = vault + amount
    /\ pending_funded_rewards' = pending_funded_rewards + amount
    /\ total_funded_rewards' = total_funded_rewards + amount
    /\ UNCHANGED <<authorityVars, adminVars, accVars, balanceVars, unswept,
                   pending_deposit_fees, pending_withdrawal_fees, total_deposited,
                   total_withdrawn, total_deposit_fees, total_withdrawal_fees>>

\* The vault balance that process_sweep_excess expects.
expected == total_deposited - total_withdrawn
            + total_deposit_fees + total_withdrawal_fees + total_funded_rewards

\* Mutant: swept tokens become rewards but are not counted as funded.
SweepExcess_Uncounted ==
    /\ total_withdrawn <= total_deposited
    /\ vault > expected
    /\ pending_funded_rewards' = pending_funded_rewards + (vault - expected)
    /\ unswept' = 0
    /\ UNCHANGED <<authorityVars, adminVars, accVars, balanceVars, vault, totalVars,
                   pending_deposit_fees, pending_withdrawal_fees>>

\* process_sweep_excess; permissionless.
SweepExcess ==
    /\ total_withdrawn <= total_deposited
    /\ vault > expected
    /\ pending_funded_rewards' = pending_funded_rewards + (vault - expected)
    /\ total_funded_rewards' = total_funded_rewards + (vault - expected)
    /\ unswept' = 0
    /\ UNCHANGED <<authorityVars, adminVars, accVars, balanceVars, vault,
                   pending_deposit_fees, pending_withdrawal_fees, total_deposited,
                   total_withdrawn, total_deposit_fees, total_withdrawal_fees>>

\* An SPL transfer into the vault that the program never sees.
DirectTransfer(amount) ==
    /\ Bounded(amount)
    /\ vault' = vault + amount
    /\ unswept' = unswept + amount
    /\ UNCHANGED <<authorityVars, adminVars, balanceVars, rewardVars, accVars, totalVars>>

\* Mutant: rates above 100% are stored.
SetFeeRates_Unbounded(signer, deposit_rate, withdrawal_rate) ==
    /\ IsAuthority(signer)
    /\ deposit_fee_rate' = deposit_rate
    /\ withdrawal_fee_rate' = withdrawal_rate
    /\ UNCHANGED <<authorityVars, is_active, balanceVars, rewardVars, accVars,
                   totalVars, vault, unswept>>

\* process_set_fee_rates.
SetFeeRates(signer, deposit_rate, withdrawal_rate) ==
    /\ IsAuthority(signer)
    /\ deposit_rate <= BASIS_POINTS
    /\ withdrawal_rate <= BASIS_POINTS
    /\ deposit_fee_rate' = deposit_rate
    /\ withdrawal_fee_rate' = withdrawal_rate
    /\ UNCHANGED <<authorityVars, is_active, balanceVars, rewardVars, accVars,
                   totalVars, vault, unswept>>

\* process_set_pool_active.
SetPoolActive(signer, active) ==
    /\ IsAuthority(signer)
    /\ is_active' = active
    /\ UNCHANGED <<authorityVars, deposit_fee_rate, withdrawal_fee_rate, balanceVars,
                   rewardVars, accVars, totalVars, vault, unswept>>

\* process_transfer_authority and process_accept_authority.
ChangeAuthority(signer) ==
    /\ \/ \E new \in Pubkeys : TransferAuthority(signer, new)
       \/ AcceptAuthority(signer)
    /\ UNCHANGED <<adminVars, balanceVars, rewardVars, accVars, totalVars, vault, unswept>>

\* The cluster's clock.
Tick ==
    /\ slots_elapsed < UPDATE_SLOT_INTERVAL
    /\ slots_elapsed' = slots_elapsed + 1
    /\ UNCHANGED <<authorityVars, adminVars, balanceVars, rewardVars, totalVars,
                   reward_accumulator, total_rewards_distributed, vault, unswept>>

\* The steps that no note takes part in.
PoolNext ==
    \/ FinalizeRewards
    \/ \E amount \in Amounts : FundRewards(amount)
    \/ SweepExcess
    \/ \E amount \in Amounts : DirectTransfer(amount)
    \/ \E s \in Signers, d \in FeeRates, w \in FeeRates : SetFeeRates(s, d, w)
    \/ \E s \in Signers, active \in BOOLEAN : SetPoolActive(s, active)
    \/ \E s \in Signers : ChangeAuthority(s)
    \/ Tick

Next ==
    \/ \E amount \in Amounts : Deposit(amount)
    \/ \E amount \in Amounts : Withdraw(amount)
    \/ PoolNext

Spec == PoolInit /\ [][Next]_poolVars
-----------------------------------------------------------------------------
TypeOK ==
    /\ authority \in Pubkeys /\ pending_authority \in Pubkeys
    /\ is_active \in BOOLEAN
    /\ deposit_fee_rate \in 0..BASIS_POINTS /\ withdrawal_fee_rate \in 0..BASIS_POINTS
    /\ finalized_balance \in Nat /\ pending_deposits \in Nat /\ pending_withdrawals \in Nat
    /\ pending_deposit_fees \in Nat /\ pending_withdrawal_fees \in Nat
    /\ pending_funded_rewards \in Nat
    /\ total_deposited \in Nat /\ total_withdrawn \in Nat
    /\ total_deposit_fees \in Nat /\ total_withdrawal_fees \in Nat
    /\ total_funded_rewards \in Nat /\ total_rewards_distributed \in Nat
    /\ reward_accumulator \in Nat
    /\ slots_elapsed \in 0..UPDATE_SLOT_INTERVAL
    /\ vault \in Nat /\ unswept \in Nat

\* The theorem of docs/vault-invariant-proof.md: the vault holds what the
\* cumulative counters say, plus exactly the direct transfers that SweepExcess
\* has not picked up yet.
VaultInvariant == vault = expected + unswept

\* "Single validation point" of TokenPoolConfig: pending withdrawals never
\* exceed what is left of the pool, so FinalizeRewards cannot be stuck on its
\* checked subtraction, and SweepExcess cannot on its own.
PoolCovered ==
    /\ pending_withdrawals <= finalized_balance + pending_deposits
    /\ current_balance = total_deposited - total_withdrawn

\* Every token collected as a fee, funded or swept is either still pending or
\* was distributed exactly once, whatever finalizations come between.
RewardsConserved ==
    total_rewards_distributed + total_pending
        = total_deposit_fees + total_withdrawal_fees + total_funded_rewards

\* The program implements RewardPool: through fees, funding and sweeps, and a
\* balance that is split over three fields, a finalization hands out exactly the
\* pending rewards over the whole balance, and nothing else moves them.
Rewards == INSTANCE RewardPool WITH
    balance     <- current_balance,
    collected   <- total_deposit_fees + total_withdrawal_fees + total_funded_rewards,
    pending     <- total_pending,
    distributed <- total_rewards_distributed,
    accumulator <- reward_accumulator
ImplementsRewardPool == Rewards!Spec

\* The config never gets an authority nobody can sign for, though any address
\* may be nominated.
ControlNeverLost == authority \in Signers

\* Pending rewards do not wait for ever while the pool has depositors, active
\* or not.
RewardsReachHolders ==
    (total_pending > 0) ~> (total_pending = 0 \/ current_balance = 0)
=============================================================================
