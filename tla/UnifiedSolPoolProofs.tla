------------------------ MODULE UnifiedSolPoolProofs ------------------------
(***************************************************************************)
(* The accounting of the unified SOL pool for every set of LSTs, every     *)
(* rate, fee and precision: tokens cover the virtual SOL counted for them, *)
(* the pool's total is the sum over the LSTs, the WSOL buffer is kept, no  *)
(* step credits more than it adds, and rewards are handed out once.        *)
(***************************************************************************)
EXTENDS UnifiedSolPool, Arithmetic

\* A mint that is not registered has no value counted for it.
UnregisteredEmpty == \A l \in Lsts \ registered : lst_virtual_sol[l] = 0

\* The inductive invariant.  VirtualSolAddsUp needs UnregisteredEmpty when a
\* mint is registered, and the rates of TypeOK to divide by.
IInv == TypeOK /\ ValueCovered /\ VirtualSolAddsUp /\ UnregisteredEmpty

\* VirtualSolAddsUp in terms of the sums of Arithmetic.
LEMMA AddsUp ==
    VirtualSolAddsUp <=> total_virtual_sol = Sum(lst_virtual_sol, registered)
  BY DEF VirtualSolAddsUp, Sum

\* ... and of the next state.
LEMMA AddsUpNext ==
    VirtualSolAddsUp' <=> total_virtual_sol' = Sum(lst_virtual_sol', registered')
  BY DEF VirtualSolAddsUp, Sum, MapThenSumSet, MapThenFoldSet

\* Registered mints are finitely many.
LEMMA RegisteredFinite ==
    ASSUME TypeOK
    PROVE  IsFiniteSet(registered)
  BY UnifiedAssumption, FS_Subset DEF TypeOK

\* A fee is at most the amount it is taken from.
LEMMA FeeBound ==
    ASSUME NEW amount \in Nat, NEW rate \in 0..BASIS_POINTS
    PROVE  /\ Fee(amount, rate) \in Nat
           /\ Fee(amount, rate) <= amount
  <1>1. BASIS_POINTS \in Nat \ {0} /\ rate \in Nat /\ rate <= BASIS_POINTS
    BY UnifiedAssumption
  <1>2. amount * rate \in Nat
    BY <1>1, ProductNat
  <1>3. amount * rate <= amount * BASIS_POINTS
    BY <1>1
  <1>4. QED
    BY <1>1, <1>2, <1>3, QuotientNat, QuotientBound DEF Fee

\* tokens_to_virtual_sol rounds down.
LEMMA VirtualSolFloor ==
    ASSUME NEW tokens \in Nat, NEW rate \in Nat
    PROVE  /\ VirtualSol(tokens, rate) \in Nat
           /\ VirtualSol(tokens, rate) * RATE_PRECISION <= tokens * rate
  <1>1. RATE_PRECISION \in Nat \ {0} /\ tokens * rate \in Nat
    BY UnifiedAssumption, ProductNat
  <1>2. QED
    BY <1>1, QuotientNat, QuotientFloor DEF VirtualSol

\* virtual_sol_to_tokens rounds down.
LEMMA TokensFloor ==
    ASSUME NEW virtual_sol \in Nat, NEW rate \in Nat \ {0}
    PROVE  /\ Tokens(virtual_sol, rate) \in Nat
           /\ Tokens(virtual_sol, rate) * rate <= virtual_sol * RATE_PRECISION
  <1>1. virtual_sol * RATE_PRECISION \in Nat
    BY UnifiedAssumption, ProductNat
  <1>2. QED
    BY <1>1, QuotientNat, QuotientFloor DEF Tokens

\* The amounts of a deposit.
LEMMA DepositAmounts ==
    ASSUME TypeOK, NEW l \in Lsts, NEW amount \in Amounts
    PROVE  LET virtual_sol == VirtualSol(amount, harvested_exchange_rate[l])
               fee == Fee(virtual_sol, deposit_fee_rate)
           IN  /\ amount \in Nat /\ virtual_sol \in Nat /\ fee \in Nat /\ fee <= virtual_sol
               /\ virtual_sol * RATE_PRECISION <= amount * harvested_exchange_rate[l]
  <1>1. amount \in Nat /\ harvested_exchange_rate[l] \in Nat
    BY UnifiedAssumption DEF TypeOK
  <1>2. QED
    BY <1>1, VirtualSolFloor, FeeBound DEF TypeOK

\* The amounts of a withdrawal.
LEMMA WithdrawAmounts ==
    ASSUME TypeOK, NEW l \in Lsts, NEW virtual_sol \in Amounts
    PROVE  LET fee == Fee(virtual_sol, withdrawal_fee_rate)
               net == virtual_sol - fee
               tokens == Tokens(net, harvested_exchange_rate[l])
           IN  /\ virtual_sol \in Nat /\ fee \in Nat /\ net \in Nat /\ tokens \in Nat
               /\ tokens * harvested_exchange_rate[l] <= net * RATE_PRECISION
  <1> DEFINE fee == Fee(virtual_sol, withdrawal_fee_rate)
  <1> DEFINE net == virtual_sol - fee
  <1>1. virtual_sol \in Nat /\ harvested_exchange_rate[l] \in Nat \ {0}
    BY UnifiedAssumption DEF TypeOK
  <1>2. fee \in Nat /\ fee <= virtual_sol
    BY <1>1, FeeBound DEF TypeOK
  <1>3. net \in Nat
    BY <1>1, <1>2
  <1> HIDE DEF net, fee
  <1>4. /\ Tokens(net, harvested_exchange_rate[l]) \in Nat
        /\ Tokens(net, harvested_exchange_rate[l]) * harvested_exchange_rate[l]
               <= net * RATE_PRECISION
    BY <1>1, <1>3, TokensFloor
  <1>5. QED
    BY <1>1, <1>2, <1>3, <1>4 DEF net, fee

-----------------------------------------------------------------------------
\* process_init_unified_sol_pool_config establishes the invariant.
LEMMA InitInvariant == Init => IInv
  <1> SUFFICES ASSUME Init PROVE IInv
    OBVIOUS
  <1>1. TypeOK
    BY UnifiedAssumption DEF Init, TypeOK, Pubkeys
  <1>2. ValueCovered
    BY UnifiedAssumption DEF Init, ValueCovered
  <1>3. VirtualSolAddsUp
    BY AddsUp, SumEmpty DEF Init
  <1>4. UnregisteredEmpty
    BY DEF Init, UnregisteredEmpty
  <1>5. QED
    BY <1>1, <1>2, <1>3, <1>4 DEF IInv

\* Nothing the value of an LST depends on changes.
ValueKept ==
    UNCHANGED <<valueVars, registered, vault_token_balance, lst_vault, harvested_exchange_rate>>

\* ... which keeps all but the types.
LEMMA ValueKeptInvariant ==
    ASSUME IInv, TypeOK', ValueKept
    PROVE  IInv'
  <1>1. VirtualSolAddsUp'
    BY AddsUp, AddsUpNext DEF IInv, ValueKept, valueVars
  <1>2. ValueCovered' /\ UnregisteredEmpty'
    BY DEF IInv, ValueCovered, UnregisteredEmpty, ValueKept, valueVars
  <1>3. QED
    BY <1>1, <1>2 DEF IInv

\* Registering a mint adds a summand that is zero.
LEMMA RegisterInvariant ==
    ASSUME IInv, NEW s \in Signers, NEW l \in Lsts, InitLstConfig(s, l)
    PROVE  IInv'
  <1>1. TypeOK'
    BY DEF IInv, TypeOK, InitLstConfig, authorityVars, adminVars, epochVars, balanceVars,
           rewardVars, totalVars, valueVars, vaultVars, rateVars, stakeVars
  <1>2. ValueCovered'
    BY DEF IInv, ValueCovered, InitLstConfig, valueVars, vaultVars, rateVars
  <1>3. UnregisteredEmpty'
    BY DEF IInv, UnregisteredEmpty, InitLstConfig, valueVars
  <1>4. VirtualSolAddsUp'
    <2>1. /\ UNCHANGED <<total_virtual_sol, lst_virtual_sol>>
          /\ registered' = registered \cup {l} /\ l \notin registered
      BY DEF InitLstConfig, valueVars
    <2>2. /\ lst_virtual_sol[l] = 0
          /\ \A k \in registered \cup {l} : lst_virtual_sol[k] \in Int
          /\ total_virtual_sol \in Nat
      BY <2>1 DEF IInv, TypeOK, UnregisteredEmpty
    <2>3. IsFiniteSet(registered)
      BY RegisteredFinite DEF IInv
    <2>4. Sum(lst_virtual_sol, registered \cup {l}) = Sum(lst_virtual_sol, registered) + 0
      BY <2>1, <2>2, <2>3, SumAdd
    <2>5. QED
      BY <2>1, <2>2, <2>4, AddsUp, AddsUpNext DEF IInv
  <1>5. QED
    BY <1>1, <1>2, <1>3, <1>4 DEF IInv

\* A change of one LST's virtual SOL and of the total by the same amount.
LEMMA OneLstAddsUp ==
    ASSUME IInv, NEW l \in registered, NEW d \in Int,
           lst_virtual_sol'[l] = lst_virtual_sol[l] + d,
           \A k \in Lsts \ {l} : lst_virtual_sol'[k] = lst_virtual_sol[k],
           total_virtual_sol' = total_virtual_sol + d, UNCHANGED registered
    PROVE  VirtualSolAddsUp' /\ UnregisteredEmpty'
  <1>1. /\ l \in Lsts
        /\ \A k \in registered : lst_virtual_sol[k] \in Int
        /\ registered \subseteq Lsts /\ total_virtual_sol \in Int
    BY DEF IInv, TypeOK
  <1>2. IsFiniteSet(registered)
    BY RegisteredFinite DEF IInv
  <1>3. \A k \in registered \ {l} : lst_virtual_sol'[k] = lst_virtual_sol[k]
    BY <1>1
  <1>4. Sum(lst_virtual_sol', registered) = total_virtual_sol + d
    <2>1. Sum(lst_virtual_sol', registered) = Sum(lst_virtual_sol, registered) + d
      BY <1>1, <1>2, <1>3, SumShift
    <2>2. QED
      BY <2>1, AddsUp DEF IInv
  <1>5. VirtualSolAddsUp'
    BY <1>4, AddsUpNext
  <1>6. UnregisteredEmpty'
    BY <1>1 DEF IInv, UnregisteredEmpty
  <1>7. QED
    BY <1>5, <1>6

\* process_deposit: the tokens are worth at least the virtual SOL counted.
LEMMA DepositInvariant ==
    ASSUME IInv, NEW l \in Lsts, NEW amount \in Amounts, Deposit(l, amount)
    PROVE  IInv'
  <1> DEFINE rate == harvested_exchange_rate[l]
  <1> DEFINE vs == VirtualSol(amount, rate)
  <1> DEFINE fee == Fee(vs, deposit_fee_rate)
  <1>1. /\ amount \in Nat /\ vs \in Nat /\ fee \in Nat /\ fee <= vs
        /\ vs * RATE_PRECISION <= amount * rate
    BY DepositAmounts DEF IInv
  <1>2. /\ lst_vault' = [lst_vault EXCEPT ![l] = @ + amount]
        /\ vault_token_balance' = [vault_token_balance EXCEPT ![l] = @ + amount]
        /\ lst_virtual_sol' = [lst_virtual_sol EXCEPT ![l] = @ + vs]
        /\ total_virtual_sol' = total_virtual_sol + vs
        /\ pending_deposits' = pending_deposits + (vs - fee)
        /\ total_deposited' = total_deposited + (vs - fee)
        /\ total_deposit_fees' = total_deposit_fees + fee
        /\ pending_deposit_fees' = pending_deposit_fees + fee
        /\ UNCHANGED <<registered, harvested_exchange_rate>>
        /\ l \in registered
    BY DEF Deposit, rateVars, configVars
  <1>3. UNCHANGED <<authorityVars, adminVars, epochVars, finalized_balance,
                    pending_withdrawals, pending_withdrawal_fees, pending_appreciation,
                    total_withdrawn, total_withdrawal_fees, total_appreciation,
                    rateVars, configVars, stakeVars>>
    BY DEF Deposit
  <1> HIDE DEF vs, fee
  <1>4. TypeOK'
    BY <1>1, <1>2, <1>3 DEF IInv, TypeOK, authorityVars, adminVars, epochVars, rateVars,
                            configVars, stakeVars
  <1>5. /\ lst_virtual_sol'[l] = lst_virtual_sol[l] + vs
        /\ vault_token_balance'[l] = vault_token_balance[l] + amount
        /\ lst_vault'[l] = lst_vault[l] + amount
        /\ \A k \in Lsts \ {l} : /\ lst_virtual_sol'[k] = lst_virtual_sol[k]
                                 /\ vault_token_balance'[k] = vault_token_balance[k]
                                 /\ lst_vault'[k] = lst_vault[k]
    BY <1>2 DEF IInv, TypeOK
  <1>6. ValueCovered'
    <2>1. (lst_virtual_sol[l] + vs) * RATE_PRECISION <= (vault_token_balance[l] + amount) * rate
      <3>1. lst_virtual_sol[l] * RATE_PRECISION <= vault_token_balance[l] * rate
        BY DEF IInv, ValueCovered
      <3>2. /\ lst_virtual_sol[l] \in Int /\ vault_token_balance[l] \in Int /\ rate \in Int
            /\ RATE_PRECISION \in Int /\ vs \in Int /\ amount \in Int
        BY <1>1, UnifiedAssumption DEF IInv, TypeOK
      <3> HIDE DEF rate
      <3>3. /\ (lst_virtual_sol[l] + vs) * RATE_PRECISION
                    = lst_virtual_sol[l] * RATE_PRECISION + vs * RATE_PRECISION
            /\ lst_virtual_sol[l] * RATE_PRECISION \in Int /\ vs * RATE_PRECISION \in Int
        BY <3>2, Distribute
      <3>4. /\ (vault_token_balance[l] + amount) * rate
                    = vault_token_balance[l] * rate + amount * rate
            /\ vault_token_balance[l] * rate \in Int /\ amount * rate \in Int
        BY <3>2, Distribute
      <3>5. QED
        BY <1>1, <3>1, <3>3, <3>4
    <2>2. vault_token_balance[l] + amount <= lst_vault[l] + amount
      BY <1>1 DEF IInv, TypeOK, ValueCovered
    <2>3. QED
      BY <1>2, <1>5, <2>1, <2>2 DEF IInv, ValueCovered
  <1>7. VirtualSolAddsUp' /\ UnregisteredEmpty'
    BY <1>1, <1>2, <1>5, OneLstAddsUp
  <1>8. QED
    BY <1>4, <1>6, <1>7 DEF IInv

\* process_withdraw: the tokens that leave are worth at most the virtual SOL
\* taken off.
LEMMA WithdrawInvariant ==
    ASSUME IInv, NEW l \in Lsts, NEW amount \in Amounts, Withdraw(l, amount)
    PROVE  IInv'
  <1> DEFINE rate == harvested_exchange_rate[l]
  <1> DEFINE fee == Fee(amount, withdrawal_fee_rate)
  <1> DEFINE net == amount - fee
  <1> DEFINE tokens == Tokens(net, rate)
  <1>1. /\ amount \in Nat /\ fee \in Nat /\ net \in Nat /\ tokens \in Nat
        /\ tokens * rate <= net * RATE_PRECISION
    BY WithdrawAmounts DEF IInv
  <1>2. /\ tokens <= lst_vault[l] /\ tokens <= vault_token_balance[l]
        /\ net <= lst_virtual_sol[l] /\ net <= total_virtual_sol
        /\ lst_vault' = [lst_vault EXCEPT ![l] = @ - tokens]
        /\ vault_token_balance' = [vault_token_balance EXCEPT ![l] = @ - tokens]
        /\ lst_virtual_sol' = [lst_virtual_sol EXCEPT ![l] = @ - net]
        /\ total_virtual_sol' = total_virtual_sol - net
        /\ pending_withdrawals' = pending_withdrawals + amount
        /\ total_withdrawn' = total_withdrawn + amount
        /\ total_withdrawal_fees' = total_withdrawal_fees + fee
        /\ pending_withdrawal_fees' = pending_withdrawal_fees + fee
        /\ UNCHANGED <<registered, harvested_exchange_rate>>
        /\ l \in registered
    BY DEF Withdraw, rateVars, configVars
  <1>3. UNCHANGED <<authorityVars, adminVars, epochVars, finalized_balance,
                    pending_deposits, pending_deposit_fees, pending_appreciation,
                    total_deposited, total_deposit_fees, total_appreciation,
                    rateVars, configVars, stakeVars>>
    BY DEF Withdraw
  <1> HIDE DEF tokens, net, fee
  <1>4. TypeOK'
    BY <1>1, <1>2, <1>3 DEF IInv, TypeOK, authorityVars, adminVars, epochVars, rateVars,
                            configVars, stakeVars
  <1>5. /\ lst_virtual_sol'[l] = lst_virtual_sol[l] - net
        /\ vault_token_balance'[l] = vault_token_balance[l] - tokens
        /\ lst_vault'[l] = lst_vault[l] - tokens
        /\ \A k \in Lsts \ {l} : /\ lst_virtual_sol'[k] = lst_virtual_sol[k]
                                 /\ vault_token_balance'[k] = vault_token_balance[k]
                                 /\ lst_vault'[k] = lst_vault[k]
    BY <1>2 DEF IInv, TypeOK
  <1>6. ValueCovered'
    <2>1. (lst_virtual_sol[l] - net) * RATE_PRECISION <= (vault_token_balance[l] - tokens) * rate
      <3>1. lst_virtual_sol[l] * RATE_PRECISION <= vault_token_balance[l] * rate
        BY DEF IInv, ValueCovered
      <3>2. /\ lst_virtual_sol[l] \in Int /\ vault_token_balance[l] \in Int /\ rate \in Int
            /\ RATE_PRECISION \in Int /\ net \in Int /\ tokens \in Int
        BY <1>1, UnifiedAssumption DEF IInv, TypeOK
      <3> HIDE DEF rate
      <3>3. /\ (lst_virtual_sol[l] - net) * RATE_PRECISION
                    = lst_virtual_sol[l] * RATE_PRECISION - net * RATE_PRECISION
            /\ lst_virtual_sol[l] * RATE_PRECISION \in Int /\ net * RATE_PRECISION \in Int
        BY <3>2, Distribute
      <3>4. /\ (vault_token_balance[l] - tokens) * rate
                    = vault_token_balance[l] * rate - tokens * rate
            /\ vault_token_balance[l] * rate \in Int /\ tokens * rate \in Int
        BY <3>2, Distribute
      <3>5. QED
        BY <1>1, <3>1, <3>3, <3>4
    <2>2. vault_token_balance[l] - tokens <= lst_vault[l] - tokens
      BY <1>1 DEF IInv, TypeOK, ValueCovered
    <2>3. QED
      BY <1>2, <1>5, <2>1, <2>2 DEF IInv, ValueCovered
  <1>7. VirtualSolAddsUp' /\ UnregisteredEmpty'
    <2>1. /\ -net \in Int
          /\ lst_virtual_sol'[l] = lst_virtual_sol[l] + (-net)
          /\ total_virtual_sol' = total_virtual_sol + (-net)
      BY <1>1, <1>2, <1>5 DEF IInv, TypeOK
    <2>2. QED
      BY <1>2, <1>5, <2>1, OneLstAddsUp
  <1>8. QED
    BY <1>4, <1>6, <1>7 DEF IInv

\* What a harvest adds: nothing, or the rise of the rate on the vault, rounded
\* down; and the rate it stores.
LEMMA HarvestAmounts ==
    ASSUME TypeOK, NEW l \in Lsts, CanHarvest(l)
    PROVE  /\ RateRead(l) \in Nat /\ RateRead(l) >= RATE_PRECISION
           /\ Appreciation(l) \in Nat
           /\ RateRead(l) > exchange_rate[l] =>
                  Appreciation(l) * RATE_PRECISION
                      <= vault_token_balance[l] * (RateRead(l) - exchange_rate[l])
           /\ RateRead(l) <= exchange_rate[l] => Appreciation(l) = 0
  <1>1. RateRead(l) \in Nat /\ RateRead(l) >= RATE_PRECISION
    <2>1. CASE l = WSOL
      BY <2>1, UnifiedAssumption DEF RateRead
    <2>2. CASE l # WSOL
      <3>1. stake_rate[l] \in Nat /\ stake_rate[l] >= RATE_PRECISION
        BY <2>2, UnifiedAssumption DEF TypeOK, CanHarvest, StakePools
      <3>2. QED
        BY <2>2, <3>1 DEF RateRead
    <2>3. QED
      BY <2>1, <2>2
  <1>2. /\ exchange_rate[l] \in Nat /\ lst_vault[l] \in Nat
        /\ vault_token_balance[l] = lst_vault[l] /\ RATE_PRECISION \in Nat \ {0}
    BY UnifiedAssumption DEF TypeOK, CanHarvest
  <1>3. CASE RateRead(l) > exchange_rate[l]
    <2> DEFINE worth == lst_vault[l] * (RateRead(l) - exchange_rate[l])
    <2>1. worth \in Nat
      <3>1. RateRead(l) - exchange_rate[l] \in Nat
        BY <1>1, <1>2, <1>3
      <3>2. QED
        BY <1>2, <3>1, ProductNat
    <2>2. Appreciation(l) = worth \div RATE_PRECISION
      BY <1>3 DEF Appreciation
    <2> HIDE DEF worth
    <2>3. Appreciation(l) \in Nat /\ Appreciation(l) * RATE_PRECISION <= worth
      BY <1>2, <2>1, <2>2, QuotientNat, QuotientFloor
    <2>4. QED
      BY <1>1, <1>2, <1>3, <2>3 DEF worth
  <1>4. CASE RateRead(l) <= exchange_rate[l]
    <2>1. Appreciation(l) = 0
      BY <1>1, <1>2, <1>4 DEF Appreciation
    <2>2. QED
      BY <1>1, <1>2, <1>4, <2>1
  <1>5. QED
    BY <1>1, <1>2, <1>3, <1>4

\* process_harvest_lst_appreciation leaves the frozen rate alone.
LEMMA HarvestInvariant ==
    ASSUME IInv, NEW l \in Lsts, HarvestLstAppreciation(l)
    PROVE  IInv'
  <1>1. /\ RateRead(l) \in Nat /\ RateRead(l) >= RATE_PRECISION
        /\ Appreciation(l) \in Nat
    BY HarvestAmounts DEF IInv, HarvestLstAppreciation
  <1>2. TypeOK'
    <2>1. exchange_rate' \in [Lsts -> {r \in Nat : r >= RATE_PRECISION}]
      BY <1>1 DEF IInv, TypeOK, HarvestLstAppreciation
    <2>2. last_harvest_epoch' \in [Lsts -> Nat]
      BY DEF IInv, TypeOK, HarvestLstAppreciation
    <2>3. pending_appreciation' \in Nat /\ total_appreciation' \in Nat
      BY <1>1 DEF IInv, TypeOK, HarvestLstAppreciation
    <2>4. UNCHANGED <<authorityVars, adminVars, epochVars, balanceVars,
                      pending_deposit_fees, pending_withdrawal_fees, total_deposited,
                      total_withdrawn, total_deposit_fees, total_withdrawal_fees, valueVars,
                      vaultVars, harvested_exchange_rate, configVars, stakeVars>>
      BY DEF HarvestLstAppreciation
    <2>5. QED
      BY <2>1, <2>2, <2>3, <2>4
      DEF IInv, TypeOK, authorityVars, adminVars, epochVars, balanceVars, valueVars,
          vaultVars, configVars, stakeVars
  <1>3. ValueKept
    BY DEF HarvestLstAppreciation, ValueKept, valueVars, vaultVars, configVars
  <1>4. QED
    BY <1>2, <1>3, ValueKeptInvariant

\* What finalization writes for an LST.
LEMMA FrozenAmounts ==
    ASSUME TypeOK, NEW l \in Lsts
    PROVE  /\ FrozenRate(l) \in Nat /\ FrozenRate(l) >= RATE_PRECISION
           /\ FrozenValue(l) \in Nat
           /\ FrozenValue(l) * RATE_PRECISION <= vault_token_balance[l] * FrozenRate(l)
  <1>1. FrozenRate(l) \in Nat /\ FrozenRate(l) >= RATE_PRECISION
    BY DEF TypeOK, FrozenRate
  <1>2. vault_token_balance[l] \in Nat
    BY DEF TypeOK
  <1>3. QED
    BY <1>1, <1>2, VirtualSolFloor DEF FrozenValue

\* The fold over the LSTs that finalization computes, as a sum.
LEMMA PoolValueIs ==
    ASSUME TypeOK
    PROVE  PoolValue = Sum([l \in Lsts |-> FrozenValue(l)], registered)
  <1> DEFINE f == [l \in Lsts |-> FrozenValue(l)]
  <1> DEFINE Folds(it) ==
        it = [s \in SUBSET registered |->
                IF s = {} THEN 0 ELSE FrozenValue(Pick(s)) + it[s \ {Pick(s)}]]
  <1>1. PoolValue = (CHOOSE it : Folds(it))[registered]
    BY DEF PoolValue, MapThenSumSet, MapThenFoldSet, Pick
  <1>2. \A s \in SUBSET registered : s # {} => f[Pick(s)] = FrozenValue(Pick(s))
    <2> SUFFICES ASSUME NEW s \in SUBSET registered, s # {}
                 PROVE  f[Pick(s)] = FrozenValue(Pick(s))
      OBVIOUS
    <2>1. Pick(s) \in Lsts
      BY PickIn DEF TypeOK
    <2>2. QED
      BY <2>1
  <1> HIDE DEF f
  <1>3. \A it : Folds(it) <=> IsSum(it, f, registered)
    <2> SUFFICES ASSUME NEW it PROVE Folds(it) <=> IsSum(it, f, registered)
      OBVIOUS
    <2>1. [s \in SUBSET registered |->
             IF s = {} THEN 0 ELSE FrozenValue(Pick(s)) + it[s \ {Pick(s)}]]
          = [s \in SUBSET registered |->
             IF s = {} THEN 0 ELSE f[Pick(s)] + it[s \ {Pick(s)}]]
      BY <1>2
    <2>2. QED
      BY <2>1 DEF IsSum
  <1>4. IsFiniteSet(registered)
    BY RegisteredFinite
  <1>5. \E it : Folds(it)
    BY <1>3, <1>4, SumExists
  <1> DEFINE g == CHOOSE it : Folds(it)
  <1>6. Folds(g)
    BY <1>5
  <1> HIDE DEF g, Folds
  <1>7. IsSum(g, f, registered)
    BY <1>3, <1>6
  <1>8. g[registered] = Sum(f, registered)
    BY <1>4, <1>7, SumIs
  <1>9. QED
    BY <1>1, <1>8 DEF f, g

\* process_finalize_unified_rewards: values and rates are frozen together.
LEMMA FinalizeInvariant ==
    ASSUME IInv, FinalizeUnifiedRewards
    PROVE  IInv'
  <1> DEFINE f == [l \in Lsts |-> FrozenValue(l)]
  <1>1. /\ TypeOK /\ registered \subseteq Lsts /\ IsFiniteSet(registered)
        /\ UNCHANGED <<registered, vault_token_balance, lst_vault>>
    BY RegisteredFinite DEF IInv, TypeOK, FinalizeUnifiedRewards, configVars, vaultVars
  <1>2. \A l \in Lsts : /\ FrozenRate(l) \in Nat /\ FrozenRate(l) >= RATE_PRECISION
                        /\ FrozenValue(l) \in Nat
                        /\ FrozenValue(l) * RATE_PRECISION
                               <= vault_token_balance[l] * FrozenRate(l)
    BY <1>1, FrozenAmounts
  <1>3. /\ lst_virtual_sol' = [l \in Lsts |-> IF l \in registered THEN FrozenValue(l)
                                              ELSE lst_virtual_sol[l]]
        /\ harvested_exchange_rate' = [l \in Lsts |-> IF l \in registered THEN FrozenRate(l)
                                                      ELSE harvested_exchange_rate[l]]
        /\ total_virtual_sol' = PoolValue
    BY DEF FinalizeUnifiedRewards
  <1>4. total_virtual_sol' = Sum(f, registered)
    BY <1>1, <1>3, PoolValueIs
  <1>5. \A l \in registered : f[l] \in Nat /\ f[l] = lst_virtual_sol'[l]
    BY <1>1, <1>2, <1>3
  <1>6. VirtualSolAddsUp'
    <2> HIDE DEF f
    <2>1. Sum(f, registered) = Sum(lst_virtual_sol', registered)
      BY <1>1, <1>5, SumCong
    <2>2. QED
      BY <1>1, <1>4, <2>1, AddsUpNext
  <1>7. UnregisteredEmpty'
    BY <1>1, <1>3 DEF IInv, UnregisteredEmpty
  <1>8. ValueCovered'
    BY <1>1, <1>2, <1>3 DEF IInv, ValueCovered
  <1>9. TypeOK'
    <2>1. lst_virtual_sol' \in [Lsts -> Nat]
      BY <1>1, <1>2, <1>3 DEF TypeOK
    <2>2. harvested_exchange_rate' \in [Lsts -> {r \in Nat : r >= RATE_PRECISION}]
      BY <1>1, <1>2, <1>3 DEF TypeOK
    <2>3. total_virtual_sol' \in Nat
      <3> HIDE DEF f
      <3>1. QED
        BY <1>1, <1>4, <1>5, SumNat
    <2>4. current_balance \in Nat /\ total_pending \in Nat
      BY <1>1 DEF TypeOK, FinalizeUnifiedRewards, CanFinalize, current_balance, total_pending
    <2>5. /\ reward_accumulator' \in Nat /\ total_rewards_distributed' \in Nat
          /\ pending_deposit_fees' \in Nat /\ pending_withdrawal_fees' \in Nat
          /\ pending_appreciation' \in Nat
      <3>1. DistributeRewards
        BY DEF FinalizeUnifiedRewards
      <3>2. current_balance > 0 =>
                (total_pending * PRECISION) \div current_balance \in Nat
        <4>1. total_pending * PRECISION \in Nat
          BY <2>4, ProductNat, UnifiedAssumption
        <4>2. QED
          BY <2>4, <4>1, QuotientNat
      <3>3. QED
        BY <1>1, <2>4, <3>1, <3>2 DEF TypeOK, DistributeRewards, rewardVars
    <2>6. /\ finalized_balance' \in Nat /\ pending_deposits' \in Nat
          /\ pending_withdrawals' \in Nat /\ reward_epoch' \in Nat \ {0}
          /\ slots_elapsed' \in 0..UPDATE_SLOT_INTERVAL
      BY <1>1, <2>4, UnifiedAssumption DEF TypeOK, FinalizeUnifiedRewards
    <2>7. UNCHANGED <<authorityVars, adminVars, totalVars, vaultVars, exchange_rate,
                      last_harvest_epoch, configVars, stakeVars>>
      BY DEF FinalizeUnifiedRewards
    <2>8. QED
      BY <1>1, <2>1, <2>2, <2>3, <2>5, <2>6, <2>7
      DEF TypeOK, authorityVars, adminVars, totalVars, vaultVars, configVars, stakeVars
  <1>10. QED
    BY <1>6, <1>7, <1>8, <1>9 DEF IInv

\* An SPL transfer into a vault only adds to what covers the value.
LEMMA TransferInvariant ==
    ASSUME IInv, NEW l \in Lsts, NEW amount \in Amounts, DirectTransfer(l, amount)
    PROVE  IInv'
  <1>1. /\ lst_vault' = [lst_vault EXCEPT ![l] = @ + amount]
        /\ UNCHANGED <<authorityVars, adminVars, epochVars, balanceVars, rewardVars, totalVars,
                       valueVars, vault_token_balance, rateVars, configVars, stakeVars>>
        /\ amount \in Nat
    BY UnifiedAssumption DEF DirectTransfer
  <1>2. TypeOK'
    BY <1>1 DEF IInv, TypeOK, authorityVars, adminVars, epochVars, balanceVars, rewardVars,
                totalVars, valueVars, rateVars, configVars, stakeVars
  <1>3. \A k \in Lsts : lst_vault[k] \in Nat /\ vault_token_balance[k] \in Nat
                        /\ (lst_vault'[k] = lst_vault[k] \/ lst_vault'[k] = lst_vault[k] + amount)
    BY <1>1 DEF IInv, TypeOK
  <1>4. ValueCovered'
    BY <1>1, <1>3 DEF IInv, ValueCovered, valueVars, rateVars
  <1>5. VirtualSolAddsUp' /\ UnregisteredEmpty'
    BY <1>1, AddsUp, AddsUpNext DEF IInv, UnregisteredEmpty, valueVars, configVars
  <1>6. QED
    BY <1>2, <1>4, <1>5 DEF IInv

\* The authority, the stake pools and the clock change no value.
LEMMA AdminInvariant ==
    ASSUME IInv,
           \/ \E s \in Signers, active \in BOOLEAN : SetUnifiedSolPoolConfigActive(s, active)
           \/ \E s \in Signers, l \in Lsts, active \in BOOLEAN : SetLstConfigActive(s, l, active)
           \/ \E s \in Signers, d \in FeeRates, w \in FeeRates : SetFeeRates(s, d, w)
           \/ \E s \in Signers : ChangeAuthority(s)
           \/ \E l \in StakePools : UpdateStakePoolBalance(l)
           \/ NewSolanaEpoch
           \/ Tick
           \/ UNCHANGED vars
    PROVE  IInv' /\ ValueKept
  <1> USE DEF authorityVars, adminVars, epochVars, balanceVars, rewardVars, totalVars,
              valueVars, vaultVars, rateVars, configVars, stakeVars
  <1>1. CASE \E s \in Signers, active \in BOOLEAN : SetUnifiedSolPoolConfigActive(s, active)
    <2>1. TypeOK'
      BY <1>1 DEF IInv, TypeOK, SetUnifiedSolPoolConfigActive
    <2>2. QED
      BY <1>1, <2>1, ValueKeptInvariant DEF ValueKept, SetUnifiedSolPoolConfigActive
  <1>2. CASE \E s \in Signers, l \in Lsts, active \in BOOLEAN : SetLstConfigActive(s, l, active)
    <2>1. TypeOK'
      BY <1>2 DEF IInv, TypeOK, SetLstConfigActive
    <2>2. QED
      BY <1>2, <2>1, ValueKeptInvariant DEF ValueKept, SetLstConfigActive
  <1>3. CASE \E s \in Signers, d \in FeeRates, w \in FeeRates : SetFeeRates(s, d, w)
    <2>1. TypeOK'
      BY <1>3, UnifiedAssumption DEF IInv, TypeOK, SetFeeRates
    <2>2. QED
      BY <1>3, <2>1, ValueKeptInvariant DEF ValueKept, SetFeeRates
  <1>4. CASE \E s \in Signers : ChangeAuthority(s)
    <2>1. TypeOK'
      BY <1>4 DEF IInv, TypeOK, ChangeAuthority, TransferAuthority, AcceptAuthority, Pubkeys
    <2>2. QED
      BY <1>4, <2>1, ValueKeptInvariant DEF ValueKept, ChangeAuthority
  <1>5. CASE \E l \in StakePools : UpdateStakePoolBalance(l)
    <2>1. TypeOK'
      BY <1>5 DEF IInv, TypeOK, UpdateStakePoolBalance
    <2>2. QED
      BY <1>5, <2>1, ValueKeptInvariant DEF ValueKept, UpdateStakePoolBalance
  <1>6. CASE NewSolanaEpoch
    <2>1. TypeOK'
      BY <1>6 DEF IInv, TypeOK, NewSolanaEpoch
    <2>2. QED
      BY <1>6, <2>1, ValueKeptInvariant DEF ValueKept, NewSolanaEpoch
  <1>7. CASE Tick
    <2>1. TypeOK'
      BY <1>7, UnifiedAssumption DEF IInv, TypeOK, Tick
    <2>2. QED
      BY <1>7, <2>1, ValueKeptInvariant DEF ValueKept, Tick
  <1>8. CASE UNCHANGED vars
    <2>1. TypeOK'
      BY <1>8 DEF IInv, TypeOK, vars
    <2>2. QED
      BY <1>8, <2>1, ValueKeptInvariant DEF ValueKept, vars
  <1>9. QED
    BY <1>1, <1>2, <1>3, <1>4, <1>5, <1>6, <1>7, <1>8

\* IInv holds at every reachable state.
THEOREM Invariance == Spec => []IInv
  <1>1. IInv /\ [Next]_vars => IInv'
    <2> SUFFICES ASSUME IInv, [Next]_vars PROVE IInv'
      OBVIOUS
    <2>1. CASE \E s \in Signers, l \in Lsts : InitLstConfig(s, l)
      BY <2>1, RegisterInvariant
    <2>2. CASE \E l \in Lsts, amount \in Amounts : Deposit(l, amount)
      BY <2>2, DepositInvariant
    <2>3. CASE \E l \in Lsts, amount \in Amounts : Withdraw(l, amount)
      BY <2>3, WithdrawInvariant
    <2>4. CASE \E l \in Lsts : HarvestLstAppreciation(l)
      BY <2>4, HarvestInvariant
    <2>5. CASE FinalizeUnifiedRewards
      BY <2>5, FinalizeInvariant
    <2>6. CASE \E l \in Lsts, amount \in Amounts : DirectTransfer(l, amount)
      BY <2>6, TransferInvariant
    <2>7. QED
      BY <2>1, <2>2, <2>3, <2>4, <2>5, <2>6, AdminInvariant DEF Next
  <1>2. QED
    BY <1>1, InitInvariant, PTL DEF Spec

\* Type correctness of UnifiedSolPoolConfig and LstConfig: no checked
\* subtraction underflows and no rate falls below 1:1.
THEOREM TypeCorrect == Spec => []TypeOK
  BY Invariance, PTL DEF IInv

\* Deposits, withdrawals and finalizations round in the pool's favour: the
\* tokens counted for an LST cover its virtual SOL, and the vault holds them.
THEOREM Covered == Spec => []ValueCovered
  BY Invariance, PTL DEF IInv

\* The pool's total_virtual_sol is the sum over the registered LSTs, for any
\* number of them.
THEOREM TotalAddsUp == Spec => []VirtualSolAddsUp
  BY Invariance, PTL DEF IInv

-----------------------------------------------------------------------------
\* A pool that is worth less requires a smaller buffer.
LEMMA BufferMono ==
    ASSUME NEW a \in Nat, NEW b \in Nat, a <= b
    PROVE  /\ RequiredBuffer(a) \in Nat /\ RequiredBuffer(b) \in Nat
           /\ RequiredBuffer(a) <= RequiredBuffer(b)
  <1>1. /\ min_buffer_bps \in Nat /\ min_buffer_amount \in Nat /\ BASIS_POINTS \in Nat \ {0}
    BY UnifiedAssumption
  <1>2. a * min_buffer_bps \in Nat /\ b * min_buffer_bps \in Nat
    BY <1>1, ProductNat
  <1>3. a * min_buffer_bps <= b * min_buffer_bps
    BY <1>1, ProductMono
  <1> DEFINE qa == (a * min_buffer_bps) \div BASIS_POINTS
  <1> DEFINE qb == (b * min_buffer_bps) \div BASIS_POINTS
  <1>4. qa \in Nat /\ qb \in Nat /\ qa <= qb
    BY <1>1, <1>2, <1>3, QuotientNat, QuotientMono
  <1>5. RequiredBuffer(a) = MaxOf(qa, min_buffer_amount)
        /\ RequiredBuffer(b) = MaxOf(qb, min_buffer_amount)
    BY DEF RequiredBuffer
  <1> HIDE DEF qa, qb
  <1>6. QED
    BY <1>1, <1>4, <1>5 DEF MaxOf

\* The gate of process_withdraw compares with the total before the withdrawal;
\* what is left in the WSOL vault also covers the buffer of the smaller pool
\* that the withdrawal leaves.
THEOREM BufferKept == Spec => WsolBuffer
  <1> DEFINE Kept == lst_vault'[WSOL] < lst_vault[WSOL]
                         => lst_vault'[WSOL] >= RequiredBuffer(total_virtual_sol')
  <1>1. IInv /\ IInv' /\ [Next]_vars => [Kept]_lst_vault
    <2> SUFFICES ASSUME IInv, IInv', [Next]_vars PROVE Kept \/ UNCHANGED lst_vault
      OBVIOUS
    <2>1. WSOL \in Lsts /\ lst_vault[WSOL] \in Nat /\ lst_vault'[WSOL] \in Nat
      BY UnifiedAssumption DEF IInv, TypeOK
    <2>2. CASE \/ \E s \in Signers, l \in Lsts : InitLstConfig(s, l)
               \/ \E l \in Lsts : HarvestLstAppreciation(l)
               \/ FinalizeUnifiedRewards
      BY <2>2 DEF InitLstConfig, HarvestLstAppreciation, FinalizeUnifiedRewards, vaultVars
    <2>3. CASE \E l \in Lsts, amount \in Amounts : Deposit(l, amount) \/ DirectTransfer(l, amount)
      <3>1. PICK l \in Lsts, amount \in Amounts :
                lst_vault' = [lst_vault EXCEPT ![l] = @ + amount]
        BY <2>3 DEF Deposit, DirectTransfer
      <3>2. amount \in Nat
        BY UnifiedAssumption
      <3>3. lst_vault'[WSOL] >= lst_vault[WSOL]
        BY <2>1, <3>1, <3>2 DEF IInv, TypeOK
      <3>4. QED
        BY <2>1, <3>3
    <2>4. CASE \E l \in Lsts, amount \in Amounts : Withdraw(l, amount)
      <3>1. PICK l \in Lsts, amount \in Amounts : Withdraw(l, amount)
        BY <2>4
      <3> DEFINE net == amount - Fee(amount, withdrawal_fee_rate)
      <3> DEFINE tokens == Tokens(net, harvested_exchange_rate[l])
      <3>2. net \in Nat /\ tokens \in Nat
        BY WithdrawAmounts DEF IInv
      <3>3. /\ lst_vault' = [lst_vault EXCEPT ![l] = @ - tokens]
            /\ total_virtual_sol' = total_virtual_sol - net
            /\ BufferAllows(l, tokens)
        BY <3>1 DEF Withdraw
      <3> HIDE DEF net, tokens
      <3>4. CASE l # WSOL
        BY <2>1, <3>3, <3>4 DEF IInv, TypeOK
      <3>5. CASE l = WSOL
        <4>1. lst_vault'[WSOL] = lst_vault[WSOL] - tokens
          BY <2>1, <3>3, <3>5 DEF IInv, TypeOK
        <4>2. lst_vault'[WSOL] >= RequiredBuffer(total_virtual_sol)
          BY <3>3, <3>5, <4>1 DEF BufferAllows
        <4>3. /\ total_virtual_sol \in Nat /\ total_virtual_sol' \in Nat
              /\ total_virtual_sol' <= total_virtual_sol
          BY <3>2, <3>3 DEF IInv, TypeOK
        <4>4. /\ RequiredBuffer(total_virtual_sol') <= RequiredBuffer(total_virtual_sol)
              /\ RequiredBuffer(total_virtual_sol') \in Nat
              /\ RequiredBuffer(total_virtual_sol) \in Nat
          BY <4>3, BufferMono
        <4>5. QED
          BY <2>1, <4>2, <4>4
      <3>6. QED
        BY <3>4, <3>5
    <2>5. CASE ValueKept
      BY <2>5 DEF ValueKept
    <2>6. QED
      BY <2>2, <2>3, <2>4, <2>5, AdminInvariant DEF Next
  <1>2. QED
    BY <1>1, Invariance, PTL DEF Spec, WsolBuffer

\* Deposits, withdrawals and harvests are Collect steps: what they add to the
\* rewards collected they add to the rewards pending.
LEMMA CollectStep ==
    ASSUME IInv, IInv',
           \/ \E l \in Lsts, amount \in Amounts : Deposit(l, amount) \/ Withdraw(l, amount)
           \/ \E l \in Lsts : HarvestLstAppreciation(l)
    PROVE  Rewards!Collect
  <1> DEFINE collected == total_deposit_fees + total_withdrawal_fees + total_appreciation
  <1>1. UNCHANGED <<total_rewards_distributed, reward_accumulator>>
    BY DEF Deposit, Withdraw, HarvestLstAppreciation, epochVars
  <1>2. PICK d \in Nat : collected' = collected + d /\ total_pending' = total_pending + d
    <2>1. CASE \E l \in Lsts, amount \in Amounts : Deposit(l, amount)
      <3>1. PICK l \in Lsts, amount \in Amounts : Deposit(l, amount)
        BY <2>1
      <3> DEFINE fee == Fee(VirtualSol(amount, harvested_exchange_rate[l]), deposit_fee_rate)
      <3>2. fee \in Nat
        BY DepositAmounts DEF IInv
      <3>3. /\ total_deposit_fees' = total_deposit_fees + fee
            /\ pending_deposit_fees' = pending_deposit_fees + fee
            /\ UNCHANGED <<total_withdrawal_fees, total_appreciation, pending_withdrawal_fees,
                           pending_appreciation>>
        BY <3>1 DEF Deposit
      <3> HIDE DEF fee
      <3>4. QED
        BY <3>2, <3>3 DEF IInv, TypeOK, total_pending
    <2>2. CASE \E l \in Lsts, amount \in Amounts : Withdraw(l, amount)
      <3>1. PICK l \in Lsts, amount \in Amounts : Withdraw(l, amount)
        BY <2>2
      <3> DEFINE fee == Fee(amount, withdrawal_fee_rate)
      <3>2. fee \in Nat
        BY WithdrawAmounts DEF IInv
      <3>3. /\ total_withdrawal_fees' = total_withdrawal_fees + fee
            /\ pending_withdrawal_fees' = pending_withdrawal_fees + fee
            /\ UNCHANGED <<total_deposit_fees, total_appreciation, pending_deposit_fees,
                           pending_appreciation>>
        BY <3>1 DEF Withdraw
      <3> HIDE DEF fee
      <3>4. QED
        BY <3>2, <3>3 DEF IInv, TypeOK, total_pending
    <2>3. CASE \E l \in Lsts : HarvestLstAppreciation(l)
      <3>1. PICK l \in Lsts : HarvestLstAppreciation(l)
        BY <2>3
      <3>2. Appreciation(l) \in Nat
        BY <3>1, HarvestAmounts DEF IInv, HarvestLstAppreciation
      <3>3. /\ total_appreciation' = total_appreciation + Appreciation(l)
            /\ pending_appreciation' = pending_appreciation + Appreciation(l)
            /\ UNCHANGED <<total_deposit_fees, total_withdrawal_fees, pending_deposit_fees,
                           pending_withdrawal_fees>>
        BY <3>1 DEF HarvestLstAppreciation
      <3>4. /\ collected' = collected + Appreciation(l)
            /\ total_pending' = total_pending + Appreciation(l)
        BY <3>2, <3>3 DEF IInv, TypeOK, total_pending
      <3>5. QED
        BY <3>2, <3>4
    <2>4. QED
      BY <2>1, <2>2, <2>3
  <1>3. collected \in Int /\ total_pending \in Int /\ current_balance' \in Int
    BY DEF IInv, TypeOK, current_balance, total_pending
  <1> HIDE DEF collected
  <1>4. collected' >= collected /\ total_pending' = total_pending + (collected' - collected)
    BY <1>2, <1>3
  <1>5. QED
    BY <1>1, <1>3, <1>4 DEF Rewards!Collect, collected

\* A finalization is a Distribute step, or a stutter when nothing is pending or
\* nobody would receive it.
LEMMA FinalizeStep ==
    ASSUME IInv, FinalizeUnifiedRewards
    PROVE  Rewards!Distribute \/ UNCHANGED Rewards!poolState
  <1>1. current_balance' = current_balance
    BY DEF IInv, TypeOK, FinalizeUnifiedRewards, current_balance
  <1>2. /\ DistributeRewards
        /\ UNCHANGED <<total_deposit_fees, total_withdrawal_fees, total_appreciation>>
    BY DEF FinalizeUnifiedRewards, totalVars
  <1>3. CASE current_balance > 0 /\ total_pending > 0
    <2>1. /\ reward_accumulator' =
                 reward_accumulator + (total_pending * PRECISION) \div current_balance
          /\ total_rewards_distributed' = total_rewards_distributed + total_pending
          /\ total_pending' = 0
      BY <1>2, <1>3 DEF DistributeRewards, total_pending
    <2>2. QED
      BY <1>1, <1>2, <1>3, <2>1 DEF Rewards!Distribute
  <1>4. CASE ~(current_balance > 0 /\ total_pending > 0)
    <2>1. UNCHANGED <<reward_accumulator, total_rewards_distributed, total_pending>>
      BY <1>2, <1>4 DEF DistributeRewards, rewardVars, total_pending
    <2>2. QED
      BY <1>1, <1>2, <2>1 DEF Rewards!poolState
  <1>5. QED
    BY <1>3, <1>4

\* The unified SOL pool implements RewardPool: fees and harvested appreciation
\* are handed out exactly once, all together and over the whole balance.
THEOREM RewardRefinement == Spec => ImplementsRewardPool
  <1>1. Init => Rewards!Init
    BY DEF Init, Rewards!Init, current_balance, total_pending
  <1>2. IInv /\ IInv' /\ [Next]_vars => [Rewards!Next]_(Rewards!poolState)
    <2> SUFFICES ASSUME IInv, IInv', [Next]_vars
                 PROVE  Rewards!Next \/ UNCHANGED Rewards!poolState
      OBVIOUS
    <2>1. CASE \/ \E l \in Lsts, amount \in Amounts : Deposit(l, amount) \/ Withdraw(l, amount)
               \/ \E l \in Lsts : HarvestLstAppreciation(l)
      BY <2>1, CollectStep DEF Rewards!Next
    <2>2. CASE FinalizeUnifiedRewards
      BY <2>2, FinalizeStep DEF Rewards!Next
    <2>3. CASE \/ \E s \in Signers, l \in Lsts : InitLstConfig(s, l)
               \/ \E l \in Lsts, amount \in Amounts : DirectTransfer(l, amount)
               \/ \E s \in Signers, active \in BOOLEAN : SetUnifiedSolPoolConfigActive(s, active)
               \/ \E s \in Signers, l \in Lsts, active \in BOOLEAN :
                    SetLstConfigActive(s, l, active)
               \/ \E s \in Signers, d \in FeeRates, w \in FeeRates : SetFeeRates(s, d, w)
               \/ \E s \in Signers : ChangeAuthority(s)
               \/ \E l \in StakePools : UpdateStakePoolBalance(l)
               \/ NewSolanaEpoch
               \/ Tick
               \/ UNCHANGED vars
      <3>1. UNCHANGED <<balanceVars, rewardVars, totalVars, reward_accumulator,
                        total_rewards_distributed>>
        BY <2>3 DEF InitLstConfig, DirectTransfer, SetUnifiedSolPoolConfigActive,
                    SetLstConfigActive, SetFeeRates, ChangeAuthority, UpdateStakePoolBalance,
                    NewSolanaEpoch, Tick, vars, epochVars
      <3>2. QED
        BY <3>1 DEF balanceVars, rewardVars, totalVars, current_balance, total_pending,
                    Rewards!poolState
    <2>4. QED
      BY <2>1, <2>2, <2>3 DEF Next
  <1>3. QED
    BY Invariance, <1>1, <1>2, PTL DEF Spec, ImplementsRewardPool, Rewards!Spec

-----------------------------------------------------------------------------
\* The gain of a step, by the tokens and the rates before and after it.
GainOf(b, c, e, f, h) == c * f - b * e + (b * MaxOf(e - f, 0) + Distance(c, b) * Distance(e, h))

\* The gain is an integer.
LEMMA GainType ==
    ASSUME NEW b \in Nat, NEW c \in Nat, NEW e \in Nat, NEW f \in Nat, NEW h \in Nat
    PROVE  GainOf(b, c, e, f, h) \in Int
  <1>1. MaxOf(e - f, 0) \in Int /\ Distance(c, b) \in Int /\ Distance(e, h) \in Int
    BY DEF MaxOf, Distance
  <1>2. /\ c * f \in Int /\ b * e \in Int /\ b * MaxOf(e - f, 0) \in Int
        /\ Distance(c, b) * Distance(e, h) \in Int
    BY <1>1, Distribute
  <1>3. QED
    BY <1>2 DEF GainOf

\* An LST whose tokens and rate stay as they are gains nothing.
LEMMA GainNone ==
    ASSUME NEW b \in Nat, NEW e \in Nat, NEW h \in Nat
    PROVE  GainOf(b, b, e, e, h) = 0
  <1>1. MaxOf(e - e, 0) = 0 /\ Distance(b, b) = 0 /\ Distance(e, h) \in Int
    BY DEF MaxOf, Distance
  <1>2. b * 0 = 0 /\ 0 * Distance(e, h) = 0 /\ b * e \in Int
    BY <1>1, Distribute
  <1>3. QED
    BY <1>1, <1>2 DEF GainOf

\* Tokens that come in at the frozen rate h, v units of credit for a tokens.
LEMMA GainIn ==
    ASSUME NEW b \in Nat, NEW a \in Nat, NEW e \in Nat, NEW h \in Nat,
           NEW v \in Nat, v * RATE_PRECISION <= a * h
    PROVE  RATE_PRECISION * v <= GainOf(b, b + a, e, e, h)
  <1>1. MaxOf(e - e, 0) = 0 /\ Distance(b + a, b) = a /\ Distance(e, h) \in Nat
    BY DEF MaxOf, Distance
  <1>2. GainOf(b, b + a, e, e, h) = (b + a) * e - b * e + (b * 0 + a * Distance(e, h))
    BY <1>1 DEF GainOf
  <1>3. (b + a) * e = b * e + a * e /\ b * e \in Int /\ a * e \in Int /\ b * 0 = 0
    BY Distribute
  <1>4. RATE_PRECISION * v = v * RATE_PRECISION /\ a * h \in Int
        /\ v * RATE_PRECISION \in Int
    BY UnifiedAssumption, Distribute
  <1>5. a * h <= a * e + a * Distance(e, h) /\ a * Distance(e, h) \in Int
    <2>1. CASE e > h
      <3>1. Distance(e, h) = e - h /\ e - h \in Int
        BY <2>1 DEF Distance
      <3>2. a * (e - h) = a * e - a * h /\ a * (e - h) \in Int
        BY <3>1
      <3>3. a * h <= a * e
        BY <2>1
      <3>4. QED
        BY <1>3, <1>4, <3>1, <3>2, <3>3
    <2>2. CASE ~(e > h)
      <3>1. Distance(e, h) = h - e /\ h - e \in Int
        BY <2>2 DEF Distance
      <3>2. a * (h - e) = a * h - a * e
        BY <3>1
      <3>3. QED
        BY <1>3, <1>4, <3>1, <3>2
    <2>3. QED
      BY <2>1, <2>2
  <1>6. QED
    BY <1>2, <1>3, <1>4, <1>5

\* Tokens that go out at the frozen rate h, n units of credit for t tokens.
LEMMA GainOut ==
    ASSUME NEW b \in Nat, NEW t \in Nat, t <= b, NEW e \in Nat, NEW h \in Nat,
           NEW n \in Nat, t * h <= n * RATE_PRECISION
    PROVE  RATE_PRECISION * (-n) <= GainOf(b, b - t, e, e, h)
  <1>1. MaxOf(e - e, 0) = 0 /\ Distance(b - t, b) = t /\ Distance(e, h) \in Nat
    BY DEF MaxOf, Distance
  <1>2. GainOf(b, b - t, e, e, h) = (b - t) * e - b * e + (b * 0 + t * Distance(e, h))
    BY <1>1 DEF GainOf
  <1>3. (b - t) * e = b * e - t * e /\ b * e \in Int /\ t * e \in Int /\ b * 0 = 0
    BY Distribute
  <1>4. RATE_PRECISION * (-n) = -(n * RATE_PRECISION) /\ t * h \in Int
        /\ n * RATE_PRECISION \in Int
    BY UnifiedAssumption
  <1>5. -(t * h) <= t * Distance(e, h) - t * e /\ t * Distance(e, h) \in Int
    <2>1. CASE e > h
      <3>1. Distance(e, h) = e - h /\ e - h \in Int
        BY <2>1 DEF Distance
      <3>2. t * (e - h) = t * e - t * h
        BY <3>1
      <3>3. QED
        BY <1>3, <1>4, <3>1, <3>2
    <2>2. CASE ~(e > h)
      <3>1. Distance(e, h) = h - e /\ h - e \in Int
        BY <2>2 DEF Distance
      <3>2. t * (h - e) = t * h - t * e
        BY <3>1
      <3>3. t * e <= t * h
        BY <2>2
      <3>4. QED
        BY <1>3, <1>4, <3>1, <3>2, <3>3
    <2>3. QED
      BY <2>1, <2>2
  <1>6. QED
    BY <1>2, <1>3, <1>4, <1>5

\* A harvest that reads the rate r and credits a.
LEMMA GainHarvest ==
    ASSUME NEW b \in Nat, NEW e \in Nat, NEW r \in Nat, NEW h \in Nat, NEW a \in Nat,
           r > e => a * RATE_PRECISION <= b * (r - e),
           r <= e => a = 0
    PROVE  RATE_PRECISION * a <= GainOf(b, b, e, r, h)
  <1>1. Distance(b, b) = 0 /\ Distance(e, h) \in Int /\ 0 * Distance(e, h) = 0
    BY DEF Distance
  <1>2. b * r \in Int /\ b * e \in Int
    BY Distribute
  <1>3. CASE r > e
    <2>1. MaxOf(e - r, 0) = 0 /\ b * 0 = 0
      BY <1>3 DEF MaxOf
    <2>2. GainOf(b, b, e, r, h) = b * r - b * e
      BY <1>1, <1>2, <2>1 DEF GainOf
    <2>3. b * (r - e) = b * r - b * e
      OBVIOUS
    <2>4. RATE_PRECISION * a = a * RATE_PRECISION
      BY UnifiedAssumption
    <2>5. QED
      BY <1>3, <2>2, <2>3, <2>4
  <1>4. CASE r <= e
    <2>1. MaxOf(e - r, 0) = e - r
      BY <1>4 DEF MaxOf
    <2>2. b * (e - r) = b * e - b * r
      OBVIOUS
    <2>3. GainOf(b, b, e, r, h) = 0
      BY <1>1, <1>2, <2>1, <2>2 DEF GainOf
    <2>4. RATE_PRECISION * a = 0
      BY <1>4, UnifiedAssumption
    <2>5. QED
      BY <2>3, <2>4
  <1>5. QED
    BY <1>3, <1>4

\* The fold of CreditsBacked, as a sum.
LEMMA GainsAdd ==
    MapThenSumSet(Gain, Lsts) = Sum([l \in Lsts |-> Gain(l)], Lsts)
  <1> DEFINE f == [l \in Lsts |-> Gain(l)]
  <1> DEFINE Folds(it) ==
        it = [s \in SUBSET Lsts |->
                IF s = {} THEN 0 ELSE Gain(Pick(s)) + it[s \ {Pick(s)}]]
  <1>1. MapThenSumSet(Gain, Lsts) = (CHOOSE it : Folds(it))[Lsts]
    BY DEF MapThenSumSet, MapThenFoldSet, Pick
  <1>2. \A s \in SUBSET Lsts : s # {} => f[Pick(s)] = Gain(Pick(s))
    <2> SUFFICES ASSUME NEW s \in SUBSET Lsts, s # {}
                 PROVE  f[Pick(s)] = Gain(Pick(s))
      OBVIOUS
    <2>1. Pick(s) \in Lsts
      BY PickIn
    <2>2. QED
      BY <2>1
  <1> HIDE DEF f
  <1>3. \A it : Folds(it) <=> IsSum(it, f, Lsts)
    <2> SUFFICES ASSUME NEW it PROVE Folds(it) <=> IsSum(it, f, Lsts)
      OBVIOUS
    <2>1. [s \in SUBSET Lsts |->
             IF s = {} THEN 0 ELSE Gain(Pick(s)) + it[s \ {Pick(s)}]]
          = [s \in SUBSET Lsts |->
             IF s = {} THEN 0 ELSE f[Pick(s)] + it[s \ {Pick(s)}]]
      BY <1>2
    <2>2. QED
      BY <2>1 DEF IsSum
  <1>4. IsFiniteSet(Lsts)
    BY UnifiedAssumption
  <1>5. \E it : Folds(it)
    BY <1>3, <1>4, SumExists
  <1> DEFINE g == CHOOSE it : Folds(it)
  <1>6. Folds(g)
    BY <1>5
  <1> HIDE DEF g, Folds
  <1>7. IsSum(g, f, Lsts)
    BY <1>3, <1>6
  <1>8. g[Lsts] = Sum(f, Lsts)
    BY <1>4, <1>7, SumIs
  <1>9. QED
    BY <1>1, <1>8 DEF f, g

\* A step that changes the tokens and the rate of one LST gains what that LST
\* gains.
LEMMA OneLstGains ==
    ASSUME IInv, IInv', NEW l \in Lsts,
           \A k \in Lsts \ {l} : /\ vault_token_balance'[k] = vault_token_balance[k]
                                 /\ exchange_rate'[k] = exchange_rate[k]
    PROVE  MapThenSumSet(Gain, Lsts)
               = GainOf(vault_token_balance[l], vault_token_balance'[l],
                        exchange_rate[l], exchange_rate'[l], harvested_exchange_rate[l])
  <1> DEFINE f == [k \in Lsts |-> Gain(k)]
  <1>1. \A k \in Lsts :
            /\ vault_token_balance[k] \in Nat /\ vault_token_balance'[k] \in Nat
            /\ exchange_rate[k] \in Nat /\ exchange_rate'[k] \in Nat
            /\ harvested_exchange_rate[k] \in Nat
    BY DEF IInv, TypeOK
  <1>2. \A k \in Lsts :
            f[k] = GainOf(vault_token_balance[k], vault_token_balance'[k],
                          exchange_rate[k], exchange_rate'[k], harvested_exchange_rate[k])
    BY DEF Gain, Leak, GainOf
  <1>3. f[l] \in Int
    <2>1. GainOf(vault_token_balance[l], vault_token_balance'[l],
                 exchange_rate[l], exchange_rate'[l], harvested_exchange_rate[l]) \in Int
      BY <1>1, GainType
    <2> HIDE DEF f
    <2>2. QED
      BY <1>2, <2>1
  <1>4. \A k \in Lsts \ {l} : f[k] = 0
    BY <1>1, <1>2, GainNone
  <1> HIDE DEF f
  <1>5. Sum(f, Lsts) = f[l]
    BY <1>3, <1>4, SumSingle, UnifiedAssumption
  <1>6. MapThenSumSet(Gain, Lsts) = Sum(f, Lsts)
    BY GainsAdd DEF f
  <1>7. QED
    BY <1>2, <1>5, <1>6

\* No step credits virtual SOL that the tokens are not worth: each deposit,
\* withdrawal and harvest, with its roundings, adds to the worth of the tokens
\* at least what it credits, but for the leaks CreditsBacked names.
THEOREM CreditsAreBacked == Spec => CreditsBacked
  <1> DEFINE Step == \/ UNCHANGED <<totalVars, vault_token_balance, exchange_rate>>
                     \/ RATE_PRECISION * (credited' - credited) <= MapThenSumSet(Gain, Lsts)
  <1>1. IInv /\ IInv' /\ [Next]_vars => [Step]_vars
    <2> SUFFICES ASSUME IInv, IInv', Next PROVE Step
      OBVIOUS
    <2>1. CASE \E l \in Lsts, amount \in Amounts : Deposit(l, amount)
      <3>1. PICK l \in Lsts, amount \in Amounts : Deposit(l, amount)
        BY <2>1
      <3> DEFINE vs == VirtualSol(amount, harvested_exchange_rate[l])
      <3> DEFINE fee == Fee(vs, deposit_fee_rate)
      <3>2. /\ amount \in Nat /\ vs \in Nat /\ fee \in Nat
            /\ vs * RATE_PRECISION <= amount * harvested_exchange_rate[l]
        BY DepositAmounts DEF IInv
      <3>3. /\ vault_token_balance' = [vault_token_balance EXCEPT ![l] = @ + amount]
            /\ total_deposited' = total_deposited + (vs - fee)
            /\ total_deposit_fees' = total_deposit_fees + fee
            /\ UNCHANGED <<exchange_rate, total_withdrawn, total_withdrawal_fees,
                           total_appreciation>>
        BY <3>1 DEF Deposit, rateVars
      <3> HIDE DEF vs, fee
      <3>4. credited' - credited = vs
        BY <3>2, <3>3 DEF IInv, TypeOK, credited
      <3>5. /\ vault_token_balance'[l] = vault_token_balance[l] + amount
            /\ vault_token_balance[l] \in Nat /\ exchange_rate[l] \in Nat
            /\ harvested_exchange_rate[l] \in Nat
            /\ \A k \in Lsts \ {l} : /\ vault_token_balance'[k] = vault_token_balance[k]
                                     /\ exchange_rate'[k] = exchange_rate[k]
        BY <3>3 DEF IInv, TypeOK
      <3>6. MapThenSumSet(Gain, Lsts)
                = GainOf(vault_token_balance[l], vault_token_balance'[l],
                         exchange_rate[l], exchange_rate'[l], harvested_exchange_rate[l])
        BY <3>5, OneLstGains
      <3>7. RATE_PRECISION * vs
                <= GainOf(vault_token_balance[l], vault_token_balance[l] + amount,
                          exchange_rate[l], exchange_rate[l], harvested_exchange_rate[l])
        BY <3>2, <3>5, GainIn
      <3>8. QED
        BY <3>3, <3>4, <3>5, <3>6, <3>7
    <2>2. CASE \E l \in Lsts, amount \in Amounts : Withdraw(l, amount)
      <3>1. PICK l \in Lsts, amount \in Amounts : Withdraw(l, amount)
        BY <2>2
      <3> DEFINE fee == Fee(amount, withdrawal_fee_rate)
      <3> DEFINE net == amount - fee
      <3> DEFINE tokens == Tokens(net, harvested_exchange_rate[l])
      <3>2. /\ amount \in Nat /\ fee \in Nat /\ net \in Nat /\ tokens \in Nat
            /\ tokens * harvested_exchange_rate[l] <= net * RATE_PRECISION
        BY WithdrawAmounts DEF IInv
      <3>3. /\ tokens <= vault_token_balance[l]
            /\ vault_token_balance' = [vault_token_balance EXCEPT ![l] = @ - tokens]
            /\ total_withdrawn' = total_withdrawn + amount
            /\ total_withdrawal_fees' = total_withdrawal_fees + fee
            /\ UNCHANGED <<exchange_rate, total_deposited, total_deposit_fees,
                           total_appreciation>>
        BY <3>1 DEF Withdraw, rateVars
      <3> HIDE DEF tokens
      <3>4. credited' - credited = -net
        <4> HIDE DEF fee
        <4>1. QED
          BY <3>2, <3>3 DEF IInv, TypeOK, credited
      <3> HIDE DEF net
      <3>5. /\ vault_token_balance'[l] = vault_token_balance[l] - tokens
            /\ vault_token_balance[l] \in Nat /\ exchange_rate[l] \in Nat
            /\ harvested_exchange_rate[l] \in Nat
            /\ \A k \in Lsts \ {l} : /\ vault_token_balance'[k] = vault_token_balance[k]
                                     /\ exchange_rate'[k] = exchange_rate[k]
        BY <3>3 DEF IInv, TypeOK
      <3>6. MapThenSumSet(Gain, Lsts)
                = GainOf(vault_token_balance[l], vault_token_balance'[l],
                         exchange_rate[l], exchange_rate'[l], harvested_exchange_rate[l])
        BY <3>5, OneLstGains
      <3>7. RATE_PRECISION * (-net)
                <= GainOf(vault_token_balance[l], vault_token_balance[l] - tokens,
                          exchange_rate[l], exchange_rate[l], harvested_exchange_rate[l])
        BY <3>2, <3>3, <3>5, GainOut
      <3>8. QED
        BY <3>3, <3>4, <3>5, <3>6, <3>7
    <2>3. CASE \E l \in Lsts : HarvestLstAppreciation(l)
      <3>1. PICK l \in Lsts : HarvestLstAppreciation(l)
        BY <2>3
      <3>2. /\ RateRead(l) \in Nat /\ Appreciation(l) \in Nat
            /\ RateRead(l) > exchange_rate[l] =>
                   Appreciation(l) * RATE_PRECISION
                       <= vault_token_balance[l] * (RateRead(l) - exchange_rate[l])
            /\ RateRead(l) <= exchange_rate[l] => Appreciation(l) = 0
        BY <3>1, HarvestAmounts DEF IInv, HarvestLstAppreciation
      <3>3. /\ exchange_rate' = [exchange_rate EXCEPT ![l] = RateRead(l)]
            /\ total_appreciation' = total_appreciation + Appreciation(l)
            /\ UNCHANGED <<vault_token_balance, total_deposited, total_deposit_fees,
                           total_withdrawn, total_withdrawal_fees>>
        BY <3>1 DEF HarvestLstAppreciation, vaultVars
      <3>4. credited' - credited = Appreciation(l)
        BY <3>2, <3>3 DEF IInv, TypeOK, credited
      <3>5. /\ exchange_rate'[l] = RateRead(l)
            /\ vault_token_balance'[l] = vault_token_balance[l]
            /\ vault_token_balance[l] \in Nat /\ exchange_rate[l] \in Nat
            /\ harvested_exchange_rate[l] \in Nat
            /\ \A k \in Lsts \ {l} : /\ vault_token_balance'[k] = vault_token_balance[k]
                                     /\ exchange_rate'[k] = exchange_rate[k]
        BY <3>3 DEF IInv, TypeOK
      <3>6. MapThenSumSet(Gain, Lsts)
                = GainOf(vault_token_balance[l], vault_token_balance'[l],
                         exchange_rate[l], exchange_rate'[l], harvested_exchange_rate[l])
        BY <3>5, OneLstGains
      <3>7. RATE_PRECISION * Appreciation(l)
                <= GainOf(vault_token_balance[l], vault_token_balance[l],
                          exchange_rate[l], RateRead(l), harvested_exchange_rate[l])
        BY <3>2, <3>5, GainHarvest
      <3>8. QED
        BY <3>4, <3>5, <3>6, <3>7
    <2>4. CASE ~ \/ \E l \in Lsts, amount \in Amounts : Deposit(l, amount) \/ Withdraw(l, amount)
                 \/ \E l \in Lsts : HarvestLstAppreciation(l)
      <3>1. UNCHANGED <<totalVars, vault_token_balance, exchange_rate>>
        BY <2>4 DEF Next, InitLstConfig, FinalizeUnifiedRewards, DirectTransfer,
                    SetUnifiedSolPoolConfigActive, SetLstConfigActive, SetFeeRates,
                    ChangeAuthority, UpdateStakePoolBalance, NewSolanaEpoch, Tick,
                    vaultVars, rateVars
      <3>2. QED
        BY <3>1
    <2>5. QED
      BY <2>1, <2>2, <2>3, <2>4
  <1>2. QED
    BY <1>1, Invariance, PTL DEF Spec, CreditsBacked

-----------------------------------------------------------------------------
\* From tokens to virtual SOL and back loses at most one token.
LEMMA RoundTrip ==
    ASSUME NEW ext \in Nat, NEW rate \in Nat, rate >= RATE_PRECISION
    PROVE  Tokens(VirtualSol(ext, rate), rate) \in {ext - 1, ext}
  <1> DEFINE p == RATE_PRECISION
  <1> DEFINE vs == (ext * rate) \div p
  <1> DEFINE t == (vs * p) \div rate
  <1>1. p \in Nat \ {0} /\ rate \in Nat \ {0} /\ p <= rate /\ ext * rate \in Nat
    BY UnifiedAssumption, ProductNat
  <1> HIDE DEF p
  <1>2. vs \in Nat /\ vs * p <= ext * rate /\ ext * rate < vs * p + p
    BY <1>1, QuotientNat, QuotientFloor
  <1> HIDE DEF vs
  <1>3. vs * p \in Nat
    BY <1>1, <1>2, ProductNat
  <1>4. t \in Nat /\ t * rate <= vs * p /\ vs * p < t * rate + rate
    BY <1>1, <1>3, QuotientNat, QuotientFloor
  <1> HIDE DEF t
  <1>5. t * rate \in Int /\ (t + 2) * rate = t * rate + rate + rate
        /\ (ext + 1) * rate = ext * rate + rate
    BY <1>1, <1>4
  <1>6. t * rate < (ext + 1) * rate
    BY <1>1, <1>2, <1>3, <1>4, <1>5
  <1>7. ext * rate < (t + 2) * rate
    BY <1>1, <1>2, <1>3, <1>4, <1>5
  <1>8. t < ext + 1 /\ ext < t + 2
    BY <1>1, <1>4, <1>6, <1>7, ProductCancel
  <1>9. t \in {ext - 1, ext}
    BY <1>4, <1>8
  <1>10. QED
    BY <1>9 DEF t, vs, p, Tokens, VirtualSol

\* What the pool books for a withdrawal exceeds what the notes lose by less than
\* two units before fees.
LEMMA BooksCovered ==
    ASSUME NEW vs \in Nat, NEW fee \in Nat, NEW public \in Nat, NEW gross \in Nat,
           NEW u \in Nat \ {0}, NEW w \in Nat, w < u,
           gross * (u - w) <= vs * u,
           fee >= (public * w) \div u,
           vs + fee <= public + 1
    PROVE  (gross - public) * (u - w) < 2 * u
  <1> DEFINE q == (public * w) \div u
  <1>1. public * w \in Nat /\ u - w \in Nat \ {0}
    BY ProductNat
  <1>2. q \in Nat /\ public * w < q * u + u
    BY <1>1, QuotientNat, QuotientFloor
  <1>3. q <= fee
    OBVIOUS
  <1> HIDE DEF q
  <1>4. q * u <= fee * u /\ q * u \in Int /\ fee * u \in Int
    BY <1>2, <1>3, ProductMono
  <1>5. (vs + fee) * u = vs * u + fee * u /\ (public + 1) * u = public * u + u
        /\ vs * u \in Int /\ public * u \in Int
    BY Distribute
  <1>6. (vs + fee) * u <= (public + 1) * u
    BY ProductMono
  <1>7. public * (u - w) = public * u - public * w
    OBVIOUS
  <1>8. (gross - public) * (u - w) = gross * (u - w) - public * (u - w)
        /\ gross * (u - w) \in Int
    BY <1>1, Distribute
  <1>9. QED
    BY <1>1, <1>2, <1>4, <1>5, <1>6, <1>7, <1>8

\* The three computations of a slot agree up to their roundings in every state
\* with fees of at most 100% and rates of at least 1:1.
LEMMA SlotsAlwaysSettle == TypeOK => SlotsSettle
  <1> SUFFICES ASSUME TypeOK, NEW l \in registered, NEW ext \in SlotTokens,
                      NEW fee \in 0..VirtualSol(ext, harvested_exchange_rate[l]),
                      NEW public \in 0..(2 * VirtualSol(ext, harvested_exchange_rate[l]) + 1)
               PROVE  LET virtual_sol == VirtualSol(ext, harvested_exchange_rate[l]) IN
                      /\ AdmitsDeposit(l, ext, fee, public)
                             => public <= virtual_sol - Fee(virtual_sol, deposit_fee_rate)
                      /\ AdmitsWithdrawal(l, ext, fee, public)
                             /\ withdrawal_fee_rate < BASIS_POINTS
                         => /\ (GrossVirtualSol(l, ext) - public)
                                    * (BASIS_POINTS - withdrawal_fee_rate) < 2 * BASIS_POINTS
                            /\ SlotOutput(l, ext) \in {ext - 1, ext}
    BY DEF SlotsSettle
  <1> DEFINE rate == harvested_exchange_rate[l]
  <1> DEFINE vs == VirtualSol(ext, rate)
  <1> DEFINE w == withdrawal_fee_rate
  <1>1. /\ l \in Lsts /\ ext \in Nat /\ rate \in Nat /\ rate >= RATE_PRECISION
        /\ w \in Nat /\ BASIS_POINTS \in Nat \ {0}
        /\ deposit_fee_rate \in 0..BASIS_POINTS
    BY UnifiedAssumption DEF TypeOK
  <1>2. vs \in Nat
    BY <1>1, VirtualSolFloor
  <1>3. fee \in Nat /\ public \in Nat
    BY <1>2
  <1>4. ASSUME AdmitsDeposit(l, ext, fee, public)
        PROVE  public <= vs - Fee(vs, deposit_fee_rate)
    <2>1. fee \in Fee(vs, deposit_fee_rate)..vs /\ public = vs - fee
      BY <1>4 DEF AdmitsDeposit
    <2>2. Fee(vs, deposit_fee_rate) \in Nat
      BY <1>1, <1>2, FeeBound
    <2> HIDE DEF vs
    <2>3. QED
      BY <1>2, <1>3, <2>1, <2>2
  <1>5. ASSUME AdmitsWithdrawal(l, ext, fee, public), w < BASIS_POINTS
        PROVE  /\ (GrossVirtualSol(l, ext) - public) * (BASIS_POINTS - w) < 2 * BASIS_POINTS
               /\ SlotOutput(l, ext) \in {ext - 1, ext}
    <2> DEFINE gross == GrossVirtualSol(l, ext)
    <2>1. gross = (vs * BASIS_POINTS) \div (BASIS_POINTS - w)
      BY DEF GrossVirtualSol
    <2>2. fee >= (public * w) \div BASIS_POINTS /\ Distance(public, vs + fee) <= 1
      BY <1>5 DEF AdmitsWithdrawal, Fee
    <2>3. SlotOutput(l, ext) = Tokens(gross - (gross * w) \div BASIS_POINTS, rate)
      BY DEF SlotOutput, Fee
    <2> HIDE DEF vs, gross, w
    <2>4. /\ gross \in Nat
          /\ gross * (BASIS_POINTS - w) <= vs * BASIS_POINTS
          /\ gross - (gross * w) \div BASIS_POINTS = vs
      BY <1>1, <1>2, <1>5, <2>1, GrossNet
    <2>5. vs + fee <= public + 1
      BY <1>2, <1>3, <2>2 DEF Distance
    <2>6. (gross - public) * (BASIS_POINTS - w) < 2 * BASIS_POINTS
      BY <1>1, <1>2, <1>3, <1>5, <2>2, <2>4, <2>5, BooksCovered
    <2>7. SlotOutput(l, ext) = Tokens(vs, rate)
      BY <2>3, <2>4
    <2>8. SlotOutput(l, ext) \in {ext - 1, ext}
      BY <1>1, <2>7, RoundTrip DEF vs
    <2>9. QED
      BY <2>6, <2>8 DEF gross
  <1>6. QED
    BY <1>4, <1>5

\* validate_fee_unified, check_public_amount_unified and
\* execute_unified_sol_slot_cpi settle every slot alike, whatever rates are
\* frozen and whatever fees are set.
THEOREM UnifiedSlotsAlwaysSettle == Spec => UnifiedSlotsSettle
  <1>1. TypeOK' => SlotsSettle'
    BY SlotsAlwaysSettle, PTL
  <1>2. QED
    BY <1>1, TypeCorrect, PTL DEF UnifiedSlotsSettle
=============================================================================
