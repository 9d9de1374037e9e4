-------------------------- MODULE PoolNotesProofs --------------------------
(***************************************************************************)
(* The token pool program by itself (Spec), for all amounts, rates and     *)
(* limits, and then with the notes of its depositors (NotesSpec): the      *)
(* pool's invariants survive the amounts the hub computes, proofs pay out  *)
(* what they promise, the balance is held in notes, and the vault covers   *)
(* the claims of the notes but for two leaks that the invariant measures.  *)
(***************************************************************************)
EXTENDS PoolNotes, Arithmetic, SequenceTheorems

\* The inductive invariant.  VaultInvariant alone is not inductive: SweepExcess
\* is exact only because total_withdrawn <= total_deposited, which follows from
\* PoolCovered, and PoolCovered needs the types of the counters.
IInv ==
    /\ TypeOK
    /\ VaultInvariant
    /\ PoolCovered
    /\ RewardsConserved
    /\ ControlNeverLost

\* A fee is between nothing and the whole amount as long as the rate is at most
\* 100%: the code's checked subtraction amount - fee cannot fail.
LEMMA FeeBound ==
    ASSUME NEW amount \in Nat, NEW rate \in 0..BASIS_POINTS
    PROVE  /\ Fee(amount, rate) \in Nat
           /\ Fee(amount, rate) <= amount
  <1>1. BASIS_POINTS \in Nat \ {0} /\ rate \in Nat /\ rate <= BASIS_POINTS
    BY PoolAssumption
  <1>2. amount * rate \in Nat
    BY <1>1, ProductNat
  <1>3. amount * rate <= amount * BASIS_POINTS
    BY <1>1
  <1>4. QED
    BY <1>1, <1>2, <1>3, QuotientNat, QuotientBound DEF Fee

\* init_pool establishes the invariant.
LEMMA InitInvariant == PoolInit => IInv
  BY PoolAssumption, KeysAssumption
  DEF PoolInit, IInv, TypeOK, VaultInvariant, PoolCovered, RewardsConserved,
      ControlNeverLost, Pubkeys, expected, current_balance, total_pending

\* Deposit: the vault grows by the amount, the counters by principal and fee.
LEMMA DepositInvariant ==
    ASSUME IInv, NEW amount \in Nat, Deposit(amount)
    PROVE  IInv'
  <1> DEFINE fee == Fee(amount, deposit_fee_rate)
  <1>1. amount \in Nat /\ fee \in Nat /\ fee <= amount
    BY PoolAssumption, FeeBound DEF IInv, TypeOK
  <1>2. TypeOK'
    BY <1>1 DEF IInv, TypeOK, Deposit, authorityVars, adminVars, accVars
  <1>3. VaultInvariant'
    BY <1>1 DEF IInv, TypeOK, VaultInvariant, expected, Deposit
  <1>4. PoolCovered'
    BY <1>1 DEF IInv, TypeOK, PoolCovered, current_balance, Deposit
  <1>5. RewardsConserved'
    BY <1>1 DEF IInv, TypeOK, RewardsConserved, total_pending, Deposit, accVars
  <1>6. ControlNeverLost'
    BY DEF IInv, ControlNeverLost, Deposit, authorityVars
  <1>7. QED
    BY <1>2, <1>3, <1>4, <1>5, <1>6 DEF IInv

\* Withdraw: the fee stays in the vault, and the balance check of the event is
\* what keeps PoolCovered.
LEMMA WithdrawInvariant ==
    ASSUME IInv, NEW amount \in Nat, Withdraw(amount)
    PROVE  IInv'
  <1> DEFINE fee == Fee(amount, withdrawal_fee_rate)
  <1>1. amount \in Nat /\ fee \in Nat /\ fee <= amount
    BY PoolAssumption, FeeBound DEF IInv, TypeOK
  <1>2. TypeOK'
    BY <1>1 DEF IInv, TypeOK, Withdraw, authorityVars, adminVars, accVars, current_balance
  <1>3. VaultInvariant'
    BY <1>1 DEF IInv, TypeOK, VaultInvariant, expected, Withdraw
  <1>4. PoolCovered'
    BY <1>1 DEF IInv, TypeOK, PoolCovered, current_balance, Withdraw
  <1>5. RewardsConserved'
    <2>1. /\ total_withdrawal_fees' = total_withdrawal_fees + fee
          /\ pending_withdrawal_fees' = pending_withdrawal_fees + fee
          /\ UNCHANGED <<pending_deposit_fees, pending_funded_rewards, total_deposit_fees,
                         total_funded_rewards, total_rewards_distributed>>
      BY DEF Withdraw, accVars
    <2> HIDE DEF fee
    <2>2. QED
      BY <1>1, <2>1 DEF IInv, TypeOK, RewardsConserved, total_pending
  <1>6. ControlNeverLost'
    BY DEF IInv, ControlNeverLost, Withdraw, authorityVars
  <1>7. QED
    BY <1>2, <1>3, <1>4, <1>5, <1>6 DEF IInv

\* FinalizeRewards moves the balance and the pending rewards, in both branches.
LEMMA FinalizeInvariant ==
    ASSUME IInv, FinalizeRewards
    PROVE  IInv'
  <1>1. current_balance \in Nat /\ total_pending \in Nat
    BY DEF IInv, TypeOK, FinalizeRewards, CanFinalize, current_balance, total_pending
  <1>2. current_balance > 0 =>
            (total_pending * PRECISION) \div current_balance \in Nat
    <2>1. total_pending * PRECISION \in Nat
      BY <1>1, ProductNat, PoolAssumption
    <2>2. QED
      BY <1>1, <2>1, QuotientNat
  <1>3. TypeOK'
    <2>1. reward_accumulator' \in Nat
      BY <1>1, <1>2 DEF IInv, TypeOK, FinalizeRewards, DistributeRewards
    <2>2. total_rewards_distributed' \in Nat
      BY <1>1 DEF IInv, TypeOK, FinalizeRewards, DistributeRewards
    <2>3. /\ pending_deposit_fees' \in Nat /\ pending_withdrawal_fees' \in Nat
          /\ pending_funded_rewards' \in Nat
      BY DEF IInv, TypeOK, FinalizeRewards, DistributeRewards, rewardVars
    <2>4. /\ finalized_balance' \in Nat
          /\ pending_deposits' = 0 /\ pending_withdrawals' = 0
          /\ slots_elapsed' \in 0..UPDATE_SLOT_INTERVAL
      BY <1>1, PoolAssumption DEF FinalizeRewards
    <2>5. QED
      BY <2>1, <2>2, <2>3, <2>4
      DEF IInv, TypeOK, FinalizeRewards, authorityVars, adminVars, totalVars
  <1>4. VaultInvariant'
    BY DEF IInv, VaultInvariant, expected, FinalizeRewards, totalVars
  <1>5. PoolCovered'
    BY <1>1 DEF IInv, TypeOK, PoolCovered, current_balance, FinalizeRewards, totalVars
  <1>6. RewardsConserved'
    <2>1. CASE current_balance > 0 /\ total_pending > 0
      BY <2>1, <1>1
      DEF IInv, TypeOK, RewardsConserved, total_pending, FinalizeRewards, DistributeRewards, totalVars
    <2>2. CASE ~(current_balance > 0 /\ total_pending > 0)
      BY <2>2
      DEF IInv, RewardsConserved, total_pending, FinalizeRewards, DistributeRewards,
          rewardVars, totalVars
    <2>3. QED
      BY <2>1, <2>2
  <1>7. ControlNeverLost'
    BY DEF IInv, ControlNeverLost, FinalizeRewards, authorityVars
  <1>8. QED
    BY <1>3, <1>4, <1>5, <1>6, <1>7 DEF IInv

\* FundRewards: vault, pending and cumulative rewards grow together.
LEMMA FundInvariant ==
    ASSUME IInv, NEW amount \in Amounts, FundRewards(amount)
    PROVE  IInv'
  <1>1. amount \in Nat
    BY PoolAssumption
  <1>2. TypeOK'
    BY <1>1 DEF IInv, TypeOK, FundRewards, authorityVars, adminVars, accVars, balanceVars
  <1>3. VaultInvariant'
    BY <1>1 DEF IInv, TypeOK, VaultInvariant, expected, FundRewards
  <1>4. PoolCovered'
    BY DEF IInv, PoolCovered, current_balance, FundRewards, balanceVars
  <1>5. RewardsConserved'
    BY <1>1 DEF IInv, TypeOK, RewardsConserved, total_pending, FundRewards, accVars
  <1>6. ControlNeverLost'
    BY DEF IInv, ControlNeverLost, FundRewards, authorityVars
  <1>7. QED
    BY <1>2, <1>3, <1>4, <1>5, <1>6 DEF IInv

\* SweepExcess turns exactly the unswept transfers into rewards.
LEMMA SweepInvariant ==
    ASSUME IInv, SweepExcess
    PROVE  IInv'
  <1>1. vault - expected = unswept /\ expected \in Int
    BY DEF IInv, TypeOK, VaultInvariant, expected
  <1>2. /\ pending_funded_rewards' = pending_funded_rewards + unswept
        /\ total_funded_rewards' = total_funded_rewards + unswept
        /\ unswept' = 0
    BY <1>1 DEF SweepExcess
  <1>3. TypeOK'
    BY <1>2 DEF IInv, TypeOK, SweepExcess, authorityVars, adminVars, accVars, balanceVars
  <1>4. VaultInvariant'
    BY <1>2 DEF IInv, TypeOK, VaultInvariant, expected, SweepExcess
  <1>5. PoolCovered'
    BY DEF IInv, PoolCovered, current_balance, SweepExcess, balanceVars
  <1>6. RewardsConserved'
    BY <1>2 DEF IInv, TypeOK, RewardsConserved, total_pending, SweepExcess, accVars
  <1>7. ControlNeverLost'
    BY DEF IInv, ControlNeverLost, SweepExcess, authorityVars
  <1>8. QED
    BY <1>3, <1>4, <1>5, <1>6, <1>7 DEF IInv

\* A transfer the program does not see only widens the excess.
LEMMA DirectTransferInvariant ==
    ASSUME IInv, NEW amount \in Amounts, DirectTransfer(amount)
    PROVE  IInv'
  <1>1. amount \in Nat
    BY PoolAssumption
  <1>2. TypeOK'
    BY <1>1 DEF IInv, TypeOK, DirectTransfer, authorityVars, adminVars, balanceVars,
                rewardVars, accVars, totalVars
  <1>3. VaultInvariant'
    BY <1>1 DEF IInv, TypeOK, VaultInvariant, expected, DirectTransfer, totalVars
  <1>4. QED
    BY <1>2, <1>3
    DEF IInv, PoolCovered, RewardsConserved, ControlNeverLost, current_balance,
        total_pending, DirectTransfer, authorityVars, balanceVars, rewardVars, accVars,
        totalVars

\* The administrative instructions and the clock leave the accounting alone;
\* a key becomes the authority only by signing.
LEMMA AdminInvariant ==
    ASSUME IInv,
           \/ \E s \in Signers, d \in FeeRates, w \in FeeRates : SetFeeRates(s, d, w)
           \/ \E s \in Signers, active \in BOOLEAN : SetPoolActive(s, active)
           \/ \E s \in Signers : ChangeAuthority(s)
           \/ Tick
    PROVE  IInv'
  <1>1. UNCHANGED <<balanceVars, rewardVars, totalVars, reward_accumulator,
                    total_rewards_distributed, vault, unswept>>
    BY DEF SetFeeRates, SetPoolActive, ChangeAuthority, Tick, accVars
  <1>2. authority' \in Signers /\ pending_authority' \in Pubkeys
    BY DEF IInv, TypeOK, ControlNeverLost, SetFeeRates, SetPoolActive, ChangeAuthority,
           Tick, TransferAuthority, AcceptAuthority, authorityVars, Pubkeys
  <1>3. /\ is_active' \in BOOLEAN
        /\ deposit_fee_rate' \in 0..BASIS_POINTS /\ withdrawal_fee_rate' \in 0..BASIS_POINTS
    BY PoolAssumption DEF IInv, TypeOK, SetFeeRates, SetPoolActive, ChangeAuthority, Tick,
                          adminVars
  <1>4. slots_elapsed' \in 0..UPDATE_SLOT_INTERVAL
    BY PoolAssumption DEF IInv, TypeOK, SetFeeRates, SetPoolActive, ChangeAuthority, Tick,
                          accVars
  <1>5. TypeOK'
    BY <1>1, <1>2, <1>3, <1>4 DEF IInv, TypeOK, Pubkeys, balanceVars, rewardVars, totalVars
  <1>6. VaultInvariant' /\ PoolCovered' /\ RewardsConserved'
    BY <1>1 DEF IInv, VaultInvariant, PoolCovered, RewardsConserved, expected,
                current_balance, total_pending, balanceVars, rewardVars, totalVars
  <1>7. QED
    BY <1>2, <1>5, <1>6 DEF IInv, ControlNeverLost

\* A step of the pool with any amounts, such as the gross amounts that the hub
\* computes.
AnyNext ==
    \/ \E amount \in Nat : Deposit(amount) \/ Withdraw(amount)
    \/ PoolNext

\* The pool's own steps are among them.
LEMMA NextIsAnyNext == Next => AnyNext
  BY PoolAssumption DEF Next, AnyNext

\* One step of the pool, or none, keeps the invariant.
LEMMA InductiveStep == IInv /\ [AnyNext]_poolVars => IInv'
  <1> SUFFICES ASSUME IInv, [AnyNext]_poolVars PROVE IInv'
    OBVIOUS
  <1>1. CASE AnyNext
    BY <1>1, DepositInvariant, WithdrawInvariant, FinalizeInvariant, FundInvariant,
       SweepInvariant, DirectTransferInvariant, AdminInvariant
    DEF AnyNext, PoolNext
  <1>2. CASE UNCHANGED poolVars
    BY <1>2 DEF IInv, TypeOK, VaultInvariant, PoolCovered, RewardsConserved,
       ControlNeverLost, expected, current_balance, total_pending, poolVars,
       authorityVars, adminVars, balanceVars, rewardVars, accVars, totalVars
  <1>3. QED
    BY <1>1, <1>2

-----------------------------------------------------------------------------
\* The inductive invariant holds throughout.
THEOREM Invariance == Spec => []IInv
  BY InitInvariant, InductiveStep, NextIsAnyNext, PTL DEF Spec

\* The counters of TokenPoolConfig stay in range: no checked operation of the
\* handlers leaves them outside their types.
THEOREM TypeCorrect == Spec => []TypeOK
  <1>1. IInv => TypeOK
    BY DEF IInv
  <1>2. QED
    BY Invariance, <1>1, PTL

\* The vault theorem of docs/vault-invariant-proof.md, with direct transfers.
THEOREM VaultBalance == Spec => []VaultInvariant
  <1>1. IInv => VaultInvariant
    BY DEF IInv
  <1>2. QED
    BY Invariance, <1>1, PTL

\* Pending withdrawals stay covered, so FinalizeRewards never aborts on them.
THEOREM Covered == Spec => []PoolCovered
  <1>1. IInv => PoolCovered
    BY DEF IInv
  <1>2. QED
    BY Invariance, <1>1, PTL

\* No collected reward is lost or counted twice.
THEOREM Conservation == Spec => []RewardsConserved
  <1>1. IInv => RewardsConserved
    BY DEF IInv
  <1>2. QED
    BY Invariance, <1>1, PTL

\* The two-step transfer never leaves the pool without a usable authority.
THEOREM Control == Spec => []ControlNeverLost
  <1>1. IInv => ControlNeverLost
    BY DEF IInv
  <1>2. QED
    BY Invariance, <1>1, PTL

-----------------------------------------------------------------------------
\* What the steps that neither finalize nor leave everything alone do to the
\* abstract pool: rewards are collected, each into one of the pending counters.
LEMMA CollectStep ==
    ASSUME IInv, IInv',
           \/ \E amount \in Nat : Deposit(amount) \/ Withdraw(amount) \/ FundRewards(amount)
           \/ SweepExcess
    PROVE  Rewards!Collect
  <1> DEFINE collected == total_deposit_fees + total_withdrawal_fees + total_funded_rewards
  <1>1. total_rewards_distributed' = total_rewards_distributed
        /\ reward_accumulator' = reward_accumulator
    BY DEF Deposit, Withdraw, FundRewards, SweepExcess, accVars
  <1>2. total_pending' = total_pending + (collected' - collected)
    BY <1>1 DEF IInv, TypeOK, RewardsConserved, total_pending
  <1>3. collected' >= collected
    <2>1. ASSUME NEW amount \in Nat, Deposit(amount) PROVE collected' >= collected
      <3>1. Fee(amount, deposit_fee_rate) \in Nat
        BY PoolAssumption, FeeBound DEF IInv, TypeOK
      <3>2. QED
        BY <2>1, <3>1 DEF Deposit, IInv, TypeOK
    <2>2. ASSUME NEW amount \in Nat, Withdraw(amount) PROVE collected' >= collected
      <3>1. Fee(amount, withdrawal_fee_rate) \in Nat
        BY PoolAssumption, FeeBound DEF IInv, TypeOK
      <3>2. QED
        BY <2>2, <3>1 DEF Withdraw, IInv, TypeOK
    <2>3. ASSUME NEW amount \in Nat, FundRewards(amount) PROVE collected' >= collected
      BY <2>3, PoolAssumption DEF FundRewards, IInv, TypeOK
    <2>4. ASSUME SweepExcess PROVE collected' >= collected
      BY <2>4 DEF SweepExcess, expected, IInv, TypeOK
    <2>5. QED
      BY <2>1, <2>2, <2>3, <2>4
  <1>4. current_balance' \in Int
    BY DEF IInv, TypeOK, current_balance
  <1>5. QED
    BY <1>1, <1>2, <1>3, <1>4 DEF Rewards!Collect

\* A finalization is a Distribute, or a stutter when nothing is pending or
\* nobody would receive it: moving the pending amounts into finalized_balance
\* leaves the balance as it was.
LEMMA FinalizeStep ==
    ASSUME IInv, FinalizeRewards
    PROVE  Rewards!Distribute \/ UNCHANGED Rewards!poolState
  <1>1. current_balance' = current_balance
    BY DEF IInv, TypeOK, FinalizeRewards, current_balance
  <1>2. UNCHANGED <<total_deposit_fees, total_withdrawal_fees, total_funded_rewards>>
    BY DEF FinalizeRewards, totalVars
  <1>3. CASE current_balance > 0 /\ total_pending > 0
    <2>1. total_pending' = 0
      BY <1>3 DEF FinalizeRewards, DistributeRewards, total_pending
    <2>2. QED
      BY <1>1, <1>2, <1>3, <2>1 DEF FinalizeRewards, DistributeRewards, Rewards!Distribute
  <1>4. CASE ~(current_balance > 0 /\ total_pending > 0)
    BY <1>1, <1>2, <1>4
    DEF FinalizeRewards, DistributeRewards, rewardVars, total_pending, Rewards!poolState
  <1>5. QED
    BY <1>3, <1>4

\* Every step of the pool is a step of RewardPool, or leaves it alone.
LEMMA RewardStep ==
    ASSUME IInv, IInv', [AnyNext]_poolVars
    PROVE  Rewards!Next \/ UNCHANGED Rewards!poolState
  <1>1. CASE \/ \E amount \in Nat : Deposit(amount) \/ Withdraw(amount) \/ FundRewards(amount)
             \/ SweepExcess
    BY <1>1, CollectStep DEF Rewards!Next
  <1>2. CASE FinalizeRewards
    BY <1>2, FinalizeStep DEF Rewards!Next
  <1>3. CASE \/ \E amount \in Amounts : DirectTransfer(amount)
             \/ \E s \in Signers, d \in FeeRates, w \in FeeRates : SetFeeRates(s, d, w)
             \/ \E s \in Signers, active \in BOOLEAN : SetPoolActive(s, active)
             \/ \E s \in Signers : ChangeAuthority(s)
             \/ Tick
             \/ UNCHANGED poolVars
    BY <1>3 DEF DirectTransfer, SetFeeRates, SetPoolActive, ChangeAuthority, Tick, poolVars,
                balanceVars, rewardVars, accVars, totalVars, current_balance, total_pending,
                Rewards!poolState
  <1>4. QED
    BY <1>1, <1>2, <1>3, PoolAssumption DEF AnyNext, PoolNext

\* A new pool is a new RewardPool.
LEMMA RewardInit == PoolInit => Rewards!Init
  BY DEF PoolInit, Rewards!Init, current_balance, total_pending

\* The token pool implements RewardPool: whatever the fee rates and the order of
\* deposits, withdrawals, funding, sweeps and finalizations, rewards reach the
\* accumulator all at once, in full and over the whole balance.
THEOREM RewardRefinement == Spec => ImplementsRewardPool
  <1>1. IInv /\ IInv' /\ [Next]_poolVars => [Rewards!Next]_(Rewards!poolState)
    BY RewardStep, NextIsAnyNext
  <1>2. QED
    BY Invariance, RewardInit, <1>1, PTL DEF Spec, ImplementsRewardPool, Rewards!Spec

-----------------------------------------------------------------------------
\* Notes, and what is summed over them.
Note == [amount : Nat, acc : Nat]
Face == [n \in Note |-> n.amount]
Weight(acc) == [n \in Note |-> n.amount * (acc - n.acc)]

\* The sum of F over the elements of a sequence.
At(F, ns) == [i \in DOMAIN ns |-> F[ns[i]]]
SeqSum(F, ns) == Sum(At(F, ns), DOMAIN ns)

\* The positions of a sequence of notes are finitely many, with integers at them.
LEMMA Positions ==
    ASSUME NEW N, NEW ns \in Seq(N), NEW F \in [N -> Int]
    PROVE  /\ IsFiniteSet(DOMAIN ns)
           /\ DOMAIN ns = 1..Len(ns) /\ Len(ns) \in Nat
           /\ \A i \in DOMAIN ns : At(F, ns)[i] = F[ns[i]] /\ At(F, ns)[i] \in Int
           /\ SeqSum(F, ns) \in Int
  <1>1. DOMAIN ns = 1..Len(ns) /\ Len(ns) \in Nat
    OBVIOUS
  <1>2. IsFiniteSet(1..Len(ns))
    BY <1>1, FS_Interval
  <1>3. \A i \in DOMAIN ns : At(F, ns)[i] = F[ns[i]] /\ At(F, ns)[i] \in Int
    BY DEF At
  <1>4. SeqSum(F, ns) \in Int
    BY <1>1, <1>2, <1>3, SumType DEF SeqSum
  <1>5. QED
    BY <1>1, <1>2, <1>3, <1>4

\* A note that is appended, ...
LEMMA SumAppend ==
    ASSUME NEW N, NEW ns \in Seq(N), NEW F \in [N -> Int], NEW n \in N
    PROVE  SeqSum(F, Append(ns, n)) = SeqSum(F, ns) + F[n]
  <1> DEFINE ms == Append(ns, n)
             k == Len(ns) + 1
             f == At(F, ns)
             g == At(F, ms)
             D == DOMAIN ns
  <1>1. ms \in Seq(N) /\ DOMAIN ms = D \cup {k} /\ k \notin D
    OBVIOUS
  <1>2. \A i \in D : ms[i] = ns[i]
    OBVIOUS
  <1>3. ms[k] = n
    OBVIOUS
  <1>4. IsFiniteSet(D) /\ \A i \in D : f[i] = F[ns[i]]
    BY Positions
  <1> HIDE DEF ms
  <1>5. \A i \in D \cup {k} : g[i] = F[ms[i]] /\ g[i] \in Int
    BY <1>1, Positions
  <1>6. \A i \in D : f[i] = g[i]
    BY <1>2, <1>4, <1>5
  <1>7. g[k] = F[n]
    BY <1>3, <1>5
  <1> HIDE DEF k, f, g, D
  <1>8. Sum(g, D \cup {k}) = Sum(g, D) + g[k]
    <2>1. k \notin D /\ IsFiniteSet(D)
      BY <1>1, <1>4
    <2>2. \A i \in D \cup {k} : g[i] \in Int
      BY <1>5
    <2>3. QED
      BY <2>1, <2>2, SumAdd
  <1>9. Sum(f, D) = Sum(g, D)
    BY <1>4, <1>6, SumCong
  <1>10. QED
    BY <1>1, <1>7, <1>8, <1>9 DEF SeqSum, ms, f, g, D

\* ... one that is replaced, ...
LEMMA SumReplace ==
    ASSUME NEW N, NEW ns \in Seq(N), NEW F \in [N -> Int], NEW i \in DOMAIN ns,
           NEW ms \in Seq(N), DOMAIN ms = DOMAIN ns,
           \A j \in DOMAIN ns \ {i} : ms[j] = ns[j]
    PROVE  SeqSum(F, ms) = SeqSum(F, ns) + F[ms[i]] - F[ns[i]]
  <1> DEFINE f == At(F, ns)
             g == At(F, ms)
             D == DOMAIN ns
             n == ms[i]
  <1>1. ms \in Seq(N) /\ DOMAIN ms = D /\ i \in D
    OBVIOUS
  <1>2. ms[i] = n /\ \A j \in D \ {i} : ms[j] = ns[j]
    OBVIOUS
  <1>3. IsFiniteSet(D) /\ \A j \in D : f[j] = F[ns[j]] /\ f[j] \in Int
    BY Positions
  <1>4. \A j \in D : g[j] = F[ms[j]] /\ g[j] \in Int
    BY <1>1, Positions
  <1>5. \A j \in D \ {i} : g[j] = f[j]
    BY <1>2, <1>3, <1>4
  <1>6. g[i] = F[n] /\ f[i] = F[ns[i]]
    BY <1>1, <1>2, <1>3, <1>4
  <1> HIDE DEF f, g, D
  <1>7. Sum(g, D) = Sum(f, D) + g[i] - f[i]
    <2>1. \A j \in D : f[j] \in Int
      BY <1>3
    <2> DEFINE x == i
    <2>2. x \in D /\ g[x] \in Int /\ IsFiniteSet(D) /\ \A j \in D \ {x} : g[j] = f[j]
      BY <1>1, <1>3, <1>4, <1>5
    <2> HIDE DEF x
    <2>3. Sum(g, D) = Sum(f, D) + g[x] - f[x]
      BY <2>1, <2>2, SumUpdate
    <2>4. QED
      BY <2>3 DEF x
  <1>8. QED
    BY <1>1, <1>6, <1>7 DEF SeqSum, f, g, D

\* ... and one that is taken out, where the later notes move up.
LEMMA SumTaken ==
    ASSUME NEW N, NEW ns \in Seq(N), NEW F \in [N -> Int], NEW i \in DOMAIN ns
    PROVE  /\ RemoveAt(ns, i) \in Seq(N)
           /\ SeqSum(F, RemoveAt(ns, i)) = SeqSum(F, ns) - F[ns[i]]
  <1> DEFINE ms == RemoveAt(ns, i)
             h == [j \in 1..(Len(ns) - 1) |-> IF j < i THEN j ELSE j + 1]
             f == At(F, ns)
             g == At(F, ms)
             D == DOMAIN ns
             E == 1..(Len(ns) - 1)
             R == D \ {i}
  <1>1. Len(ns) \in Nat /\ D = 1..Len(ns) /\ i \in 1..Len(ns)
    OBVIOUS
  <1> DEFINE a == SubSeq(ns, 1, i - 1)
             b == SubSeq(ns, i + 1, Len(ns))
  <1>a. /\ a \in Seq(N) /\ Len(a) = i - 1
        /\ \A j \in 1..(i - 1) : a[j] = ns[j]
    <2>1. 1 \in Int /\ i - 1 \in Int /\ \A j \in 1..(i - 1) : ns[j] \in N
      BY <1>1
    <2>2. /\ a \in Seq(N) /\ Len(a) = IF 1 <= i - 1 THEN i - 1 - 1 + 1 ELSE 0
          /\ \A j \in 1..(i - 1 - 1 + 1) : a[j] = ns[1 + j - 1]
      BY <2>1, SubSeqProperties
    <2> HIDE DEF a
    <2>3. QED
      BY <1>1, <2>2
  <1>b. /\ b \in Seq(N) /\ Len(b) = Len(ns) - i
        /\ \A j \in 1..(Len(ns) - i) : b[j] = ns[i + j]
    <2> DEFINE m == i + 1
    <2>1. m \in Int /\ Len(ns) \in Int /\ \A j \in m..Len(ns) : ns[j] \in N
      BY <1>1
    <2>2. m = i + 1
      OBVIOUS
    <2>3. b = SubSeq(ns, m, Len(ns))
      OBVIOUS
    <2> HIDE DEF m, b
    <2>4. /\ SubSeq(ns, m, Len(ns)) \in Seq(N)
          /\ Len(SubSeq(ns, m, Len(ns))) = IF m <= Len(ns) THEN Len(ns) - m + 1 ELSE 0
          /\ \A j \in 1..(Len(ns) - m + 1) : SubSeq(ns, m, Len(ns))[j] = ns[m + j - 1]
      BY <2>1, SubSeqProperties
    <2>5. /\ b \in Seq(N) /\ Len(b) = IF m <= Len(ns) THEN Len(ns) - m + 1 ELSE 0
          /\ \A j \in 1..(Len(ns) - m + 1) : b[j] = ns[m + j - 1]
      BY <2>3, <2>4
    <2>6. Len(ns) - m + 1 = Len(ns) - i /\ (m <= Len(ns) <=> i < Len(ns))
      BY <1>1, <2>2
    <2>7. ASSUME NEW j \in 1..(Len(ns) - i) PROVE b[j] = ns[i + j]
      <3>1. m + j - 1 = i + j
        BY <1>1, <2>2
      <3>2. QED
        BY <2>5, <2>6, <3>1
    <2>8. QED
      BY <1>1, <2>5, <2>6, <2>7
  <1>c. ms = a \o b
    BY DEF RemoveAt
  <1>2. ms \in Seq(N) /\ Len(ms) = Len(ns) - 1
    <2> HIDE DEF a, b, ms
    <2>1. a \o b \in Seq(N) /\ Len(a \o b) = Len(a) + Len(b)
      BY <1>a, <1>b, ConcatProperties
    <2>2. QED
      BY <1>1, <1>a, <1>b, <1>c, <2>1
  <1>3. ASSUME NEW j \in E PROVE ms[j] = ns[h[j]]
    <2> HIDE DEF a, b, ms
    <2>1. CASE j < i
      <3>1. ms[j] = a[j]
        BY <1>1, <1>a, <1>b, <1>c, <2>1
      <3>2. QED
        BY <1>1, <1>a, <2>1, <3>1
    <2>2. CASE j >= i
      <3>1. ms[j] = b[j - (i - 1)]
        <4>1. \A k \in 1..(Len(a) + Len(b)) :
                 (a \o b)[k] = IF k <= Len(a) THEN a[k] ELSE b[k - Len(a)]
          BY <1>a, <1>b, ConcatProperties
        <4>2. j \in 1..(Len(a) + Len(b)) /\ ~(j <= Len(a))
          BY <1>1, <1>a, <1>b, <2>2
        <4>3. QED
          BY <1>a, <1>c, <4>1, <4>2
      <3>2. j - (i - 1) \in 1..(Len(ns) - i) /\ i + (j - (i - 1)) = j + 1
        BY <1>1, <2>2
      <3>3. b[j - (i - 1)] = ns[j + 1]
        BY <1>b, <3>2
      <3>4. QED
        BY <1>1, <2>2, <3>1, <3>3
    <2>3. QED
      BY <1>1, <2>1, <2>2
  <1>4. DOMAIN ms = E
    BY <1>2
  <1>5. \A j \in E : h[j] \in R
    BY <1>1
  <1>6. \A j, k \in E : h[j] = h[k] => j = k
    BY <1>1
  <1>7. R \subseteq {h[j] : j \in E}
    <2> SUFFICES ASSUME NEW k \in R PROVE \E j \in E : h[j] = k
      OBVIOUS
    <2>1. CASE k < i
      <3>1. k \in E /\ h[k] = k
        BY <1>1, <2>1
      <3>2. QED
        BY <3>1
    <2>2. CASE k > i
      <3>1. k - 1 \in E /\ h[k - 1] = k
        BY <1>1, <2>2
      <3>2. QED
        BY <3>1
    <2>3. QED
      BY <1>1, <2>1, <2>2
  <1>8. IsFiniteSet(D) /\ \A j \in D : f[j] = F[ns[j]] /\ f[j] \in Int
    BY Positions
  <1>9. IsFiniteSet(R) /\ \A j \in R : f[j] \in Int
    BY <1>8, FS_RemoveElement
  <1> HIDE DEF ms
  <1>10. IsFiniteSet(E) /\ \A j \in E : g[j] = F[ms[j]]
    <2> HIDE DEF E
    <2>1. IsFiniteSet(DOMAIN ms) /\ \A j \in DOMAIN ms : g[j] = F[ms[j]]
      BY <1>2, Positions
    <2>2. QED
      BY <1>4, <2>1
  <1>11. ASSUME NEW j \in E PROVE h[j] \in R /\ g[j] = f[h[j]]
    <2>1. h[j] \in R /\ h[j] \in D
      BY <1>5
    <2> HIDE DEF h, f, g, D, E, R
    <2>2. QED
      BY <1>3, <1>8, <1>10, <2>1
  <1> HIDE DEF h, f, g, D, E, R
  <1>12. Sum(g, E) = Sum(f, R)
    <2>1. IsFiniteSet(E) /\ IsFiniteSet(R)
      BY <1>9, <1>10
    <2>2. \A j \in R : f[j] \in Int
      BY <1>9
    <2>3. \A x \in E : h[x] \in R /\ g[x] = f[h[x]]
      BY <1>11
    <2>4. QED
      BY <1>6, <1>7, <2>1, <2>2, <2>3, SumReindex
  <1>13. Sum(f, D) = f[i] + Sum(f, R)
    <2>1. i \in D /\ \A j \in D : f[j] \in Int
      BY <1>1, <1>8
    <2>2. QED
      BY <1>8, <2>1, SumRemove DEF R
  <1>14. Sum(f, R) \in Int
    BY <1>9, SumType
  <1>15. f[i] = F[ns[i]] /\ f[i] \in Int
    BY <1>1, <1>8
  <1>16. Sum(g, E) = Sum(f, D) - F[ns[i]]
    BY <1>12, <1>13, <1>14, <1>15
  <1>17. QED
    BY <1>2, <1>4, <1>16 DEF SeqSum, ms, f, g, D

-----------------------------------------------------------------------------
\* The value of each note under the current accumulator.
Worth == [n \in Note |-> Value(n)]

\* The folds of the model, over sequences, are sums.
LEMMA FaceValueIs ==
    ASSUME notes \in Seq(Note), Face \in [Note -> Int]
    PROVE  FaceValue = SeqSum(Face, notes)
  <1> DEFINE F(n) == n.amount
             f == At(Face, notes)
             S == DOMAIN notes
             Folds(it) == it = [s \in SUBSET S |->
                IF s = {} THEN 0 ELSE it[s \ {Max(s)}] + F(notes[Max(s)])]
  <1>1. FaceValue = (CHOOSE it : Folds(it))[S]
    BY DEF FaceValue, SumOver, FoldLeft, MapThenFoldSet
  <1>2. IsFiniteSet(S) /\ \A i \in S : f[i] = Face[notes[i]] /\ f[i] \in Int
    BY Positions
  <1>3. \A i \in S : f[i] = F(notes[i])
    BY <1>2 DEF Face
  <1>4. \A s \in SUBSET S : s # {} => Max(s) \in s
    <2>1. \A s \in SUBSET S : s \subseteq Int
      OBVIOUS
    <2> HIDE DEF S
    <2>2. QED
      BY <1>2, <2>1, MaxIn
  <1>5. \A s \in SUBSET S : s # {} => f[Max(s)] = F(notes[Max(s)])
    BY <1>3, <1>4
  <1>6. \A i \in S : f[i] \in Int
    BY <1>2
  <1> HIDE DEF F, f, S
  <1>7. \A it : Folds(it) <=> IsFold(it, f, S)
    <2> SUFFICES ASSUME NEW it PROVE Folds(it) <=> IsFold(it, f, S)
      OBVIOUS
    <2>1. [s \in SUBSET S |-> IF s = {} THEN 0 ELSE it[s \ {Max(s)}] + F(notes[Max(s)])]
          = [s \in SUBSET S |-> IF s = {} THEN 0 ELSE it[s \ {Max(s)}] + f[Max(s)]]
      BY <1>5
    <2>2. QED
      BY <2>1 DEF IsFold
  <1>8. \E it : Folds(it)
    <2>1. IsFold([s \in SUBSET S |-> Sum(f, s)], f, S)
      BY <1>2, <1>4, <1>6, FoldExists
    <2>2. QED
      BY <1>7, <2>1
  <1> DEFINE g == CHOOSE it : Folds(it)
  <1>9. Folds(g)
    BY <1>8
  <1> HIDE DEF g, Folds
  <1>10. IsFold(g, f, S)
    BY <1>7, <1>9
  <1>11. g[S] = Sum(f, S)
    BY <1>2, <1>4, <1>6, <1>10, FoldIs
  <1>12. QED
    BY <1>1, <1>11 DEF f, g, S, SeqSum

\* Likewise for the claims of the holders.
LEMMA ClaimsIs ==
    ASSUME notes \in Seq(Note), Worth \in [Note -> Int]
    PROVE  Claims = SeqSum(Worth, notes)
  <1> DEFINE F(n) == Value(n)
             f == At(Worth, notes)
             S == DOMAIN notes
             Folds(it) == it = [s \in SUBSET S |->
                IF s = {} THEN 0 ELSE it[s \ {Max(s)}] + F(notes[Max(s)])]
  <1>1. Claims = (CHOOSE it : Folds(it))[S]
    BY DEF Claims, SumOver, FoldLeft, MapThenFoldSet
  <1>2. IsFiniteSet(S) /\ \A i \in S : f[i] = Worth[notes[i]] /\ f[i] \in Int
    BY Positions
  <1>3. \A i \in S : f[i] = F(notes[i])
    BY <1>2 DEF Worth
  <1>4. \A s \in SUBSET S : s # {} => Max(s) \in s
    <2>1. \A s \in SUBSET S : s \subseteq Int
      OBVIOUS
    <2> HIDE DEF S
    <2>2. QED
      BY <1>2, <2>1, MaxIn
  <1>5. \A s \in SUBSET S : s # {} => f[Max(s)] = F(notes[Max(s)])
    BY <1>3, <1>4
  <1>6. \A i \in S : f[i] \in Int
    BY <1>2
  <1> HIDE DEF F, f, S
  <1>7. \A it : Folds(it) <=> IsFold(it, f, S)
    <2> SUFFICES ASSUME NEW it PROVE Folds(it) <=> IsFold(it, f, S)
      OBVIOUS
    <2>1. [s \in SUBSET S |-> IF s = {} THEN 0 ELSE it[s \ {Max(s)}] + F(notes[Max(s)])]
          = [s \in SUBSET S |-> IF s = {} THEN 0 ELSE it[s \ {Max(s)}] + f[Max(s)]]
      BY <1>5
    <2>2. QED
      BY <2>1 DEF IsFold
  <1>8. \E it : Folds(it)
    <2>1. IsFold([s \in SUBSET S |-> Sum(f, s)], f, S)
      BY <1>2, <1>4, <1>6, FoldExists
    <2>2. QED
      BY <1>7, <2>1
  <1> DEFINE g == CHOOSE it : Folds(it)
  <1>9. Folds(g)
    BY <1>8
  <1> HIDE DEF g, Folds
  <1>10. IsFold(g, f, S)
    BY <1>7, <1>9
  <1>11. g[S] = Sum(f, S)
    BY <1>2, <1>4, <1>6, <1>10, FoldIs
  <1>12. QED
    BY <1>1, <1>11 DEF f, g, S, SeqSum

-----------------------------------------------------------------------------
FaceSum   == SeqSum(Face, notes)
WeightSum == SeqSum(Weight(reward_accumulator), notes)

\* No note is from the future of the accumulator.
NotesTyped ==
    /\ notes \in Seq(Note)
    /\ \A i \in DOMAIN notes : notes[i].acc <= reward_accumulator
    /\ promised \in Nat /\ overpaid \in Nat /\ fee_gap \in Nat /\ uncounted \in Int

Owned == current_balance <= FaceSum + overpaid

\* ClaimsBacked before any division, in fractions of 1 / PRECISION: what the
\* notes have accrued, and the face value and gifts beyond the balance that do
\* not come from the fees of withdrawals, were distributed or are uncounted.
Backed ==
    WeightSum + (FaceSum + overpaid - current_balance - fee_gap) * PRECISION
        <= total_rewards_distributed * PRECISION + uncounted

NotesInv ==
    /\ IInv
    /\ NotesTyped
    /\ PayoutMatchesProof
    /\ Owned
    /\ Backed

\* The sums after a step.
LEMMA SumsNext ==
    /\ FaceSum' = SeqSum(Face, notes')
    /\ WeightSum' = SeqSum(Weight(reward_accumulator'), notes')
  BY DEF FaceSum, WeightSum, SeqSum, At, Face, Weight, Note, Sum, MapThenSumSet, MapThenFoldSet

\* The face value of a note is its amount.
LEMMA FaceType == Face \in [Note -> Int] /\ \A n \in Note : Face[n] = n.amount
  BY DEF Face, Note

\* The weight of a note is its amount times the growth of the accumulator.
LEMMA WeightType ==
    ASSUME NEW acc \in Nat
    PROVE  /\ Weight(acc) \in [Note -> Int]
           /\ \A n \in Note : Weight(acc)[n] = n.amount * (acc - n.acc)
  <1>1. \A n \in Note : n.amount \in Nat /\ n.acc \in Nat
    BY DEF Note
  <1>2. \A n \in Note : n.amount * (acc - n.acc) \in Int
    BY <1>1
  <1>3. QED
    BY <1>2 DEF Weight

\* The sums are integers.
LEMMA SumsType ==
    ASSUME NotesInv
    PROVE  FaceSum \in Int /\ WeightSum \in Int /\ current_balance \in Int
           /\ total_rewards_distributed \in Nat /\ overpaid \in Nat
           /\ reward_accumulator \in Nat /\ PRECISION \in Nat \ {0}
           /\ fee_gap \in Nat /\ uncounted \in Int
  <1>1. /\ reward_accumulator \in Nat /\ total_rewards_distributed \in Nat /\ overpaid \in Nat
        /\ fee_gap \in Nat /\ uncounted \in Int
    BY DEF NotesInv, IInv, TypeOK, NotesTyped
  <1>2. notes \in Seq(Note)
    BY DEF NotesInv, NotesTyped
  <1>3. FaceSum \in Int /\ WeightSum \in Int
    BY <1>1, <1>2, FaceType, WeightType, Positions DEF FaceSum, WeightSum
  <1>4. current_balance \in Int
    BY DEF NotesInv, IInv, TypeOK, current_balance
  <1>5. QED
    BY <1>1, <1>3, <1>4, PoolAssumption

\* Notes are worth their face amount and more.
LEMMA ValueBound ==
    ASSUME NEW n \in Note, reward_accumulator \in Nat, n.acc <= reward_accumulator
    PROVE  /\ Value(n) \in Nat /\ n.amount <= Value(n) /\ n.amount \in Nat
           /\ n.amount * (reward_accumulator - n.acc) \in Nat
           /\ (Value(n) - n.amount) * PRECISION <= n.amount * (reward_accumulator - n.acc)
  <1> DEFINE w == n.amount * (reward_accumulator - n.acc)
             q == w \div PRECISION
  <1>1. n.amount \in Nat /\ n.acc \in Nat /\ reward_accumulator - n.acc \in Nat
    BY DEF Note
  <1>2. w \in Nat
    BY <1>1, ProductNat
  <1> HIDE DEF w
  <1>3. q \in Nat /\ q * PRECISION <= w
    BY <1>2, PoolAssumption, QuotientNat, QuotientFloor
  <1>4. Value(n) = n.amount + q
    BY DEF Value, q, w
  <1> HIDE DEF q
  <1>5. Value(n) - n.amount = q
    BY <1>1, <1>3, <1>4
  <1>6. QED
    BY <1>1, <1>2, <1>3, <1>4, <1>5 DEF w

\* What a step on notes must do to keep Owned and Backed: face value and gifts
\* gain what the balance and the fee gap gain, and the reward r that a note
\* realises, whose weight the notes lose.
LEMMA Slack ==
    ASSUME NEW f \in Int, NEW o \in Nat, NEW c \in Int, NEW k \in Nat, NEW w \in Int,
           NEW d \in Nat, NEW u \in Int, NEW m \in Nat \ {0},
           c <= f + o, w + (f + o - c - k) * m <= d * m + u,
           NEW g \in Int, NEW q \in Nat, NEW e \in Int, NEW j \in Nat, NEW x \in Int,
           NEW r \in Nat, g + q - e - j = r, x + r * m <= w
    PROVE  /\ c + e <= (f + g) + (o + q)
           /\ x + ((f + g) + (o + q) - (c + e) - (k + j)) * m <= d * m + u
  <1> DEFINE y == f + o - c - k
             z == (f + g) + (o + q) - (c + e) - (k + j)
  <1>1. y \in Int /\ z = y + r
    OBVIOUS
  <1>2. w + y * m <= d * m + u
    OBVIOUS
  <1>3. c + e <= (f + g) + (o + q)
    OBVIOUS
  <1> HIDE DEF y, z
  <1>4. z * m = y * m + r * m /\ y * m \in Int /\ r * m \in Int /\ d * m \in Int
    BY <1>1, Distribute
  <1>5. x + z * m <= d * m + u
    BY <1>2, <1>4
  <1>6. QED
    BY <1>3, <1>5 DEF z

\* A step keeps Owned and Backed if balance, gifts, fee gap and the weight of a
\* note pay for the face value it adds.
LEMMA NotesStep ==
    ASSUME NotesInv, NEW face \in Int, NEW gift \in Nat, NEW balance \in Int,
           NEW gap \in Nat, NEW reward \in Nat,
           FaceSum' = FaceSum + face, overpaid' = overpaid + gift,
           current_balance' = current_balance + balance, fee_gap' = fee_gap + gap,
           uncounted' = uncounted, face + gift - balance - gap = reward,
           WeightSum' \in Int, WeightSum' + reward * PRECISION <= WeightSum,
           total_rewards_distributed' = total_rewards_distributed
    PROVE  Owned' /\ Backed'
  <1> DEFINE x == WeightSum'
  <1>1. /\ FaceSum \in Int /\ WeightSum \in Int /\ current_balance \in Int
        /\ total_rewards_distributed \in Nat /\ overpaid \in Nat /\ PRECISION \in Nat \ {0}
        /\ fee_gap \in Nat /\ uncounted \in Int
    BY SumsType
  <1>2. /\ current_balance <= FaceSum + overpaid
        /\ WeightSum + (FaceSum + overpaid - current_balance - fee_gap) * PRECISION
               <= total_rewards_distributed * PRECISION + uncounted
    BY DEF NotesInv, Owned, Backed
  <1>3. x \in Int /\ x + reward * PRECISION <= WeightSum
    OBVIOUS
  <1> HIDE DEF x
  <1>4. /\ current_balance + balance <= (FaceSum + face) + (overpaid + gift)
        /\ x + ((FaceSum + face) + (overpaid + gift) - (current_balance + balance)
                 - (fee_gap + gap)) * PRECISION
               <= total_rewards_distributed * PRECISION + uncounted
    BY <1>1, <1>2, <1>3, Slack
  <1>5. QED
    BY <1>4 DEF Owned, Backed, x

\* Weights of new notes are zero.
LEMMA NewNoteWeight ==
    ASSUME reward_accumulator \in Nat, NEW amount \in Nat
    PROVE  /\ NewNote(amount) \in Note
           /\ NewNote(amount).amount = amount /\ NewNote(amount).acc = reward_accumulator
           /\ Face[NewNote(amount)] = amount
           /\ Weight(reward_accumulator)[NewNote(amount)] = 0
  <1>1. /\ NewNote(amount) \in Note
        /\ NewNote(amount).amount = amount /\ NewNote(amount).acc = reward_accumulator
    BY DEF NewNote, Note
  <1>2. amount * (reward_accumulator - reward_accumulator) = 0
    OBVIOUS
  <1>3. QED
    BY <1>1, <1>2, FaceType, WeightType

\* The pool's part of every step is a step of the pool.
LEMMA PoolStep ==
    ASSUME IInv, [AnyNext]_poolVars
    PROVE  /\ IInv'
           /\ current_balance' \in Int /\ reward_accumulator' \in Nat
  <1>1. IInv'
    BY InductiveStep
  <1>2. QED
    BY <1>1 DEF IInv, TypeOK, current_balance

\* A deposit: the new note is what the balance gains, less what was given away.
LEMMA ShieldInvariant ==
    ASSUME NotesInv, NEW amount \in Amounts, NEW extra \in Overpay,
           Shield(amount, Fee(amount, deposit_fee_rate) + extra)
    PROVE  NotesInv'
  <1> DEFINE required == Fee(amount, deposit_fee_rate)
             fee == required + extra
             n == NewNote(amount - fee)
             acc == reward_accumulator
  <1>1. /\ IInv /\ notes \in Seq(Note) /\ promised \in Nat /\ overpaid \in Nat
        /\ fee_gap \in Nat /\ uncounted \in Int
        /\ \A i \in DOMAIN notes : notes[i].acc <= acc
    BY DEF NotesInv, NotesTyped
  <1>2. amount \in Nat /\ extra \in Nat /\ required \in Nat /\ acc \in Nat
    BY <1>1, PoolAssumption, NotesAssumption, FeeBound DEF IInv, TypeOK
  <1>3. /\ fee <= amount /\ Deposit(amount)
        /\ notes' = Append(notes, n)
        /\ overpaid' = overpaid + fee - required
        /\ promised' = promised /\ fee_gap' = fee_gap /\ uncounted' = uncounted
    BY DEF Shield
  <1>4. IInv' /\ current_balance' \in Int
    BY <1>1, <1>2, <1>3, PoolStep DEF AnyNext
  <1>5. /\ current_balance' = current_balance + (amount - required)
        /\ reward_accumulator' = acc
        /\ total_rewards_distributed' = total_rewards_distributed
        /\ total_withdrawn' = total_withdrawn /\ total_withdrawal_fees' = total_withdrawal_fees
    <2> HIDE DEF required
    <2>1. /\ pending_deposits' = pending_deposits + (amount - required)
          /\ UNCHANGED <<finalized_balance, pending_withdrawals, total_withdrawn,
                         total_withdrawal_fees, accVars>>
      BY <1>3 DEF Deposit, required
    <2>2. QED
      BY <1>1, <1>2, <2>1 DEF IInv, TypeOK, current_balance, accVars
  <1> HIDE DEF required
  <1>6. amount - fee \in Nat /\ overpaid' = overpaid + extra /\ overpaid' \in Nat
    BY <1>1, <1>2, <1>3
  <1>7. /\ n \in Note /\ n.acc = acc /\ Face[n] = amount - fee /\ Weight(acc)[n] = 0
    BY <1>2, <1>6, NewNoteWeight
  <1> HIDE DEF n, fee
  <1>8. FaceSum' = FaceSum + (amount - fee) /\ FaceSum \in Int
    <2>1. SeqSum(Face, Append(notes, n)) = SeqSum(Face, notes) + Face[n]
      BY <1>1, <1>7, FaceType, SumAppend
    <2>2. QED
      BY <1>3, <1>7, <2>1, SumsNext, SumsType DEF FaceSum
  <1>9. WeightSum' = WeightSum + 0 /\ WeightSum \in Int
    <2> DEFINE W == Weight(acc)
    <2>1. W \in [Note -> Int] /\ notes \in Seq(Note) /\ n \in Note
      BY <1>1, <1>2, <1>7, WeightType
    <2> HIDE DEF W
    <2>2. SeqSum(W, Append(notes, n)) = SeqSum(W, notes) + W[n]
      BY <2>1, SumAppend
    <2>3. QED
      BY <1>3, <1>5, <1>7, <2>2, SumsNext, SumsType DEF WeightSum, W
  <1>10. fee = required + extra /\ current_balance \in Int
    BY SumsType DEF fee
  <1>11. Owned' /\ Backed'
    <2> DEFINE face == amount - fee
               balance == amount - required
    <2>1. face \in Int /\ balance \in Int /\ face + extra - balance - 0 = 0
      BY <1>2, <1>6, <1>10
    <2>2. WeightSum' \in Int /\ WeightSum' + 0 * PRECISION <= WeightSum
      BY <1>9, PoolAssumption
    <2>3. /\ FaceSum' = FaceSum + face /\ overpaid' = overpaid + extra
          /\ current_balance' = current_balance + balance
          /\ fee_gap' = fee_gap + 0 /\ uncounted' = uncounted
          /\ total_rewards_distributed' = total_rewards_distributed
      BY <1>1, <1>3, <1>5, <1>6, <1>8
    <2> HIDE DEF face, balance
    <2>4. QED
      BY <1>2, <2>1, <2>2, <2>3, NotesStep
  <1>12. NotesTyped'
    <2>1. Append(notes, n) \in Seq(Note)
      BY <1>1, <1>7
    <2>2. \A i \in DOMAIN Append(notes, n) : Append(notes, n)[i].acc <= acc
      BY <1>1, <1>2, <1>7
    <2>3. QED
      BY <1>1, <1>3, <1>5, <1>6, <2>1, <2>2 DEF NotesTyped
  <1>13. PayoutMatchesProof'
    BY <1>3, <1>5 DEF NotesInv, PayoutMatchesProof
  <1>14. QED
    BY <1>4, <1>11, <1>12, <1>13 DEF NotesInv

\* A note that is replaced by a current one, or taken out: what the sums lose
\* and gain.
LEMMA ReplaceSums ==
    ASSUME NotesInv, NEW i \in DOMAIN notes, NEW amount \in Nat,
           notes' = [notes EXCEPT ![i] = NewNote(amount)],
           reward_accumulator' = reward_accumulator
    PROVE  /\ notes' \in Seq(Note)
           /\ \A j \in DOMAIN notes' : notes'[j].acc <= reward_accumulator
           /\ FaceSum' = FaceSum + (amount - notes[i].amount)
           /\ WeightSum' \in Int
           /\ WeightSum' + (Value(notes[i]) - notes[i].amount) * PRECISION <= WeightSum
  <1> DEFINE n == NewNote(amount)
             acc == reward_accumulator
             W == Weight(acc)
  <1>1. /\ notes \in Seq(Note) /\ acc \in Nat /\ FaceSum \in Int /\ WeightSum \in Int
        /\ \A j \in DOMAIN notes : notes[j].acc <= acc
    BY SumsType DEF NotesInv, NotesTyped
  <1>2. n \in Note /\ n.acc = acc /\ Face[n] = amount /\ W[n] = 0
    BY <1>1, NewNoteWeight
  <1>3. notes[i] \in Note
    BY <1>1
  <1>4. /\ Face[notes[i]] = notes[i].amount /\ notes[i].amount \in Nat
        /\ W[notes[i]] \in Nat
        /\ (Value(notes[i]) - notes[i].amount) * PRECISION <= W[notes[i]]
        /\ Value(notes[i]) \in Nat
    BY <1>1, <1>3, FaceType, WeightType, ValueBound
  <1> HIDE DEF n, W
  <1> DEFINE ms == [notes EXCEPT ![i] = n]
  <1>5. /\ ms \in Seq(Note) /\ DOMAIN ms = DOMAIN notes /\ ms[i] = n
        /\ \A j \in DOMAIN notes \ {i} : ms[j] = notes[j]
    BY <1>1, <1>2
  <1>6. Face \in [Note -> Int] /\ W \in [Note -> Int]
    BY <1>1, FaceType, WeightType DEF W
  <1>7. notes' = ms
    BY DEF n
  <1> HIDE DEF ms
  <1>8. /\ SeqSum(Face, ms) = SeqSum(Face, notes) + Face[ms[i]] - Face[notes[i]]
        /\ SeqSum(W, ms) = SeqSum(W, notes) + W[ms[i]] - W[notes[i]]
    BY <1>1, <1>5, <1>6, SumReplace
  <1>9. FaceSum' = FaceSum + (amount - notes[i].amount)
    BY <1>1, <1>2, <1>4, <1>5, <1>7, <1>8, SumsNext DEF FaceSum
  <1>10. WeightSum' = WeightSum - W[notes[i]]
    <2>1. WeightSum' = SeqSum(W, ms) /\ WeightSum = SeqSum(W, notes)
      BY <1>7, SumsNext DEF WeightSum, W
    <2>2. QED
      BY <1>1, <1>2, <1>4, <1>5, <1>8, <2>1
  <1>11. /\ WeightSum' \in Int
         /\ WeightSum' + (Value(notes[i]) - notes[i].amount) * PRECISION <= WeightSum
    <2> DEFINE z == (Value(notes[i]) - notes[i].amount) * PRECISION
    <2>1. z \in Int
      BY <1>4, PoolAssumption
    <2>2. z <= W[notes[i]]
      BY <1>4
    <2> HIDE DEF z
    <2>3. WeightSum' \in Int /\ WeightSum' + z <= WeightSum
      BY <1>1, <1>4, <1>10, <2>1, <2>2
    <2>4. QED
      BY <2>3 DEF z
  <1>12. \A j \in DOMAIN ms : ms[j].acc <= acc
    BY <1>1, <1>2, <1>5
  <1>13. QED
    BY <1>5, <1>7, <1>9, <1>11, <1>12

\* What spending a note takes from the sums over the notes.
LEMMA TakenSums ==
    ASSUME NotesInv, NEW i \in DOMAIN notes, notes' = RemoveAt(notes, i),
           reward_accumulator' = reward_accumulator
    PROVE  /\ notes' \in Seq(Note)
           /\ \A j \in DOMAIN notes' : notes'[j].acc <= reward_accumulator
           /\ FaceSum' = FaceSum + (0 - notes[i].amount)
           /\ WeightSum' \in Int
           /\ WeightSum' + (Value(notes[i]) - notes[i].amount) * PRECISION <= WeightSum
  <1> DEFINE acc == reward_accumulator
             W == Weight(acc)
             N == {n \in Note : n.acc <= acc}
             ms == RemoveAt(notes, i)
  <1>1. /\ notes \in Seq(Note) /\ acc \in Nat /\ FaceSum \in Int /\ WeightSum \in Int
        /\ \A j \in DOMAIN notes : notes[j].acc <= acc
    BY SumsType DEF NotesInv, NotesTyped
  <1>2. notes[i] \in Note
    BY <1>1
  <1>3. /\ Face[notes[i]] = notes[i].amount /\ notes[i].amount \in Nat
        /\ W[notes[i]] \in Nat
        /\ (Value(notes[i]) - notes[i].amount) * PRECISION <= W[notes[i]]
        /\ Value(notes[i]) \in Nat
    BY <1>1, <1>2, FaceType, WeightType, ValueBound
  <1>4. ms \in Seq(Note) /\ SeqSum(Face, ms) = SeqSum(Face, notes) - Face[notes[i]]
    BY <1>1, FaceType, SumTaken
  <1>5. SeqSum(W, ms) = SeqSum(W, notes) - W[notes[i]]
    BY <1>1, WeightType, SumTaken
  <1>6. ms \in Seq(N)
    <2>1. notes \in Seq(N)
      BY <1>1
    <2>2. [n \in N |-> 0] \in [N -> Int]
      OBVIOUS
    <2> HIDE DEF N
    <2>3. QED
      BY <2>1, <2>2, SumTaken
  <1>7. \A j \in DOMAIN ms : ms[j].acc <= acc
    <2> HIDE DEF ms
    <2>1. QED
      BY <1>6
  <1> HIDE DEF ms, W
  <1>8. notes' = ms
    BY DEF ms
  <1>9. FaceSum' = FaceSum + (0 - notes[i].amount)
    BY <1>1, <1>3, <1>4, <1>8, SumsNext DEF FaceSum
  <1>10. WeightSum' = WeightSum - W[notes[i]]
    BY <1>1, <1>3, <1>5, <1>8, SumsNext DEF WeightSum, W
  <1>11. /\ WeightSum' \in Int
         /\ WeightSum' + (Value(notes[i]) - notes[i].amount) * PRECISION <= WeightSum
    <2> DEFINE z == (Value(notes[i]) - notes[i].amount) * PRECISION
    <2>1. z \in Int
      BY <1>3, PoolAssumption
    <2>2. z <= W[notes[i]]
      BY <1>3
    <2> HIDE DEF z
    <2>3. WeightSum' \in Int /\ WeightSum' + z <= WeightSum
      BY <1>1, <1>3, <1>10, <2>1, <2>2
    <2>4. QED
      BY <2>3 DEF z
  <1>12. QED
    BY <1>4, <1>7, <1>8, <1>9, <1>11

\* A transfer turns the reward of a note into face value.
LEMMA TransferInvariant ==
    ASSUME NotesInv, NEW i \in DOMAIN notes, Transfer(i)
    PROVE  NotesInv'
  <1> DEFINE v == Value(notes[i])
  <1>1. /\ notes \in Seq(Note) /\ promised \in Nat /\ overpaid \in Nat
        /\ reward_accumulator \in Nat /\ notes[i].acc <= reward_accumulator
        /\ FaceSum \in Int /\ current_balance \in Int
        /\ fee_gap \in Nat /\ uncounted \in Int
    BY SumsType DEF NotesInv, NotesTyped
  <1>2. v \in Nat /\ notes[i].amount <= v /\ notes[i].amount \in Nat
    <2>1. notes[i] \in Note
      BY <1>1
    <2>2. QED
      BY <1>1, <2>1, ValueBound
  <1>3. notes' = [notes EXCEPT ![i] = NewNote(v)]
    BY DEF Transfer
  <1>4. /\ UNCHANGED poolVars /\ reward_accumulator' = reward_accumulator
        /\ total_rewards_distributed' = total_rewards_distributed
        /\ total_withdrawn' = total_withdrawn /\ total_withdrawal_fees' = total_withdrawal_fees
        /\ current_balance' = current_balance
        /\ promised' = promised /\ overpaid' = overpaid
        /\ fee_gap' = fee_gap /\ uncounted' = uncounted
    BY DEF Transfer, poolVars, accVars, totalVars, balanceVars, historyVars, current_balance
  <1> HIDE DEF v
  <1>5. /\ notes' \in Seq(Note)
        /\ \A j \in DOMAIN notes' : notes'[j].acc <= reward_accumulator
        /\ FaceSum' = FaceSum + (v - notes[i].amount)
        /\ WeightSum' \in Int /\ WeightSum' + (v - notes[i].amount) * PRECISION <= WeightSum
    BY <1>2, <1>3, <1>4, ReplaceSums DEF v
  <1>6. Owned' /\ Backed'
    <2> DEFINE face == v - notes[i].amount
    <2>1. face \in Nat /\ face \in Int /\ face + 0 - 0 - 0 = face
      BY <1>2
    <2>2. /\ FaceSum' = FaceSum + face /\ overpaid' = overpaid + 0
          /\ current_balance' = current_balance + 0
          /\ fee_gap' = fee_gap + 0 /\ uncounted' = uncounted
          /\ WeightSum' \in Int /\ WeightSum' + face * PRECISION <= WeightSum
      BY <1>1, <1>4, <1>5
    <2> HIDE DEF face
    <2>3. QED
      BY <1>4, <1>5, <2>1, <2>2, NotesStep
  <1>7. NotesTyped'
    BY <1>1, <1>4, <1>5 DEF NotesTyped
  <1>8. PayoutMatchesProof'
    BY <1>4 DEF NotesInv, PayoutMatchesProof
  <1>9. IInv'
    BY <1>4, PoolStep DEF NotesInv
  <1>10. QED
    BY <1>6, <1>7, <1>8, <1>9 DEF NotesInv

\* A withdrawal: the roundings on the way to the gross amount and back lose
\* nothing, and the note gives up no more than the balance.
LEMMA UnshieldInvariant ==
    ASSUME NotesInv, NEW i \in DOMAIN notes, NEW net \in Amounts, NEW extra \in Overpay,
           Unshield(i, net, Fee(net, withdrawal_fee_rate) + extra)
    PROVE  NotesInv'
  <1> DEFINE rate == withdrawal_fee_rate
             required == Fee(net, rate)
             burned == net + (required + extra)
             gross == GrossAmount(net, rate)
             charged == Fee(gross, rate)
             v == Value(notes[i])
             acc == reward_accumulator
  <1>1. /\ IInv /\ notes \in Seq(Note) /\ promised \in Nat /\ overpaid \in Nat
        /\ \A j \in DOMAIN notes : notes[j].acc <= acc
        /\ acc \in Nat /\ fee_gap \in Nat /\ uncounted \in Int
    BY SumsType DEF NotesInv, NotesTyped
  <1>2. /\ net \in Nat /\ extra \in Nat /\ rate \in Nat /\ rate < BASIS_POINTS
        /\ rate \in 0..BASIS_POINTS /\ BASIS_POINTS \in Nat \ {0}
    BY <1>1, PoolAssumption, NotesAssumption DEF IInv, TypeOK, Unshield
  <1>3. required \in Nat
    BY <1>2, FeeBound
  <1>4. gross \in Nat /\ charged \in Nat /\ gross - charged = net
    BY <1>2, GrossNet DEF GrossAmount, Fee
  <1>5. net + required <= gross
    BY <1>2, GrossCovers DEF GrossAmount, Fee
  <1>6. /\ burned <= v /\ Withdraw(gross)
        /\ notes' = Spend(i, burned)
        /\ promised' = promised + net
        /\ overpaid' = overpaid + (required + extra) - required
        /\ fee_gap' = fee_gap + gross - net - required /\ uncounted' = uncounted
    BY DEF Unshield
  <1>7. IInv'
    <2> HIDE DEF gross
    <2>1. AnyNext
      BY <1>4, <1>6 DEF AnyNext
    <2>2. QED
      BY <1>1, <2>1, PoolStep
  <1>8. /\ pending_withdrawals' = pending_withdrawals + gross
        /\ total_withdrawn' = total_withdrawn + gross
        /\ total_withdrawal_fees' = total_withdrawal_fees + charged
        /\ UNCHANGED <<finalized_balance, pending_deposits, accVars>>
    <2> HIDE DEF gross
    <2>1. QED
      BY <1>6 DEF Withdraw
  <1>9. v \in Nat /\ notes[i].amount <= v /\ notes[i].amount \in Nat
    <2>1. notes[i] \in Note /\ notes[i].acc <= acc
      BY <1>1
    <2>2. QED
      BY <1>1, <2>1, ValueBound
  <1>10. notes' = IF burned = v THEN RemoveAt(notes, i)
                                ELSE [notes EXCEPT ![i] = NewNote(v - burned)]
    BY <1>6 DEF Spend
  <1> HIDE DEF required, gross, charged, v
  <1>11. /\ reward_accumulator' = acc
         /\ total_rewards_distributed' = total_rewards_distributed
    BY <1>8 DEF accVars
  <1>12. current_balance' = current_balance + (0 - gross)
    BY <1>1, <1>4, <1>8 DEF IInv, TypeOK, current_balance
  <1>13. overpaid' = overpaid + extra /\ overpaid' \in Nat /\ promised' \in Nat
    BY <1>1, <1>2, <1>3, <1>6
  <1>14. burned \in Nat /\ v - burned \in Nat
    BY <1>2, <1>3, <1>6, <1>9
  <1> DEFINE face == (v - burned) - notes[i].amount
             reward == v - notes[i].amount
  <1> HIDE DEF burned
  <1>15. /\ notes' \in Seq(Note)
         /\ \A j \in DOMAIN notes' : notes'[j].acc <= acc
         /\ FaceSum' = FaceSum + face
         /\ WeightSum' \in Int /\ WeightSum' + reward * PRECISION <= WeightSum
    <2>1. CASE burned = v
      <3>1. notes' = RemoveAt(notes, i)
        BY <1>10, <2>1
      <3>2. face = 0 - notes[i].amount
        BY <1>9, <2>1
      <3> HIDE DEF face
      <3>3. QED
        BY <1>11, <3>1, <3>2, TakenSums DEF v
    <2>2. CASE burned # v
      <3> DEFINE a == v - burned
      <3>1. notes' = [notes EXCEPT ![i] = NewNote(a)] /\ a \in Nat
        BY <1>10, <1>14, <2>2
      <3>2. face = a - notes[i].amount
        OBVIOUS
      <3> HIDE DEF face, a
      <3>3. QED
        BY <1>11, <3>1, <3>2, ReplaceSums DEF v
    <2>3. QED
      BY <2>1, <2>2
  <1> DEFINE gap == gross - net - required
  <1>16. /\ face \in Int /\ 0 - gross \in Int /\ reward \in Nat /\ gap \in Nat
         /\ face + extra - (0 - gross) - gap = reward /\ fee_gap' = fee_gap + gap
    <2>1. burned = net + (required + extra)
      BY DEF burned
    <2>2. gap \in Nat
      BY <1>2, <1>3, <1>4, <1>5
    <2>3. fee_gap' = fee_gap + gap
      BY <1>1, <1>2, <1>3, <1>4, <1>6
    <2>4. face \in Int /\ 0 - gross \in Int /\ reward \in Nat
      BY <1>4, <1>9, <1>14
    <2>5. face + extra - (0 - gross) - gap = reward
      BY <1>2, <1>3, <1>4, <1>9, <2>1
    <2>6. QED
      BY <2>2, <2>3, <2>4, <2>5
  <1> HIDE DEF face, gap, reward
  <1>17. Owned' /\ Backed'
    <2> DEFINE balance == 0 - gross
    <2>1. /\ balance \in Int /\ face + extra - balance - gap = reward
          /\ current_balance' = current_balance + balance
      BY <1>12, <1>16
    <2> HIDE DEF balance
    <2>2. QED
      BY <1>2, <1>6, <1>11, <1>13, <1>15, <1>16, <2>1, NotesStep
  <1>18. NotesTyped'
    BY <1>1, <1>6, <1>16, <1>11, <1>13, <1>15 DEF NotesTyped
  <1>19. PayoutMatchesProof'
    <2>1. /\ total_withdrawn \in Nat /\ total_withdrawal_fees \in Nat
          /\ total_withdrawn - total_withdrawal_fees = promised
      BY DEF NotesInv, IInv, TypeOK, PayoutMatchesProof
    <2>2. QED
      BY <1>2, <1>4, <1>6, <1>8, <2>1 DEF PayoutMatchesProof
  <1>20. QED
    BY <1>7, <1>17, <1>18, <1>19 DEF NotesInv

\* Steps of the pool that leave balance and accumulator alone.
LEMMA OtherInvariant ==
    ASSUME NotesInv, [AnyNext]_poolVars, NotesIdle \/ UNCHANGED <<notes, historyVars>>,
           current_balance' = current_balance,
           UNCHANGED <<reward_accumulator, total_rewards_distributed,
                       total_withdrawn, total_withdrawal_fees>>
    PROVE  NotesInv'
  <1>1. IInv'
    BY PoolStep DEF NotesInv
  <1>2. /\ notes' = notes /\ promised' = promised /\ overpaid' = overpaid
        /\ fee_gap' = fee_gap /\ uncounted' = uncounted
    BY DEF historyVars, NotesIdle
  <1>3. FaceSum' = FaceSum /\ WeightSum' = WeightSum
    BY <1>2, SumsNext DEF FaceSum, WeightSum
  <1>4. NotesTyped'
    BY <1>2 DEF NotesInv, NotesTyped
  <1>5. PayoutMatchesProof'
    BY <1>2 DEF NotesInv, PayoutMatchesProof
  <1>6. Owned' /\ Backed'
    BY <1>2, <1>3 DEF NotesInv, Owned, Backed
  <1>7. QED
    BY <1>1, <1>4, <1>5, <1>6 DEF NotesInv

\* A distribution of t over the balance c adds t * m \div c per unit of face: no
\* more than t * m over the balance, the rest is uncounted.
LEMMA Share ==
    ASSUME NEW f \in Int, NEW c \in Nat \ {0}, NEW w \in Int, NEW y \in Int,
           NEW d \in Nat, NEW t \in Nat, NEW u \in Int, NEW m \in Nat \ {0},
           w + y * m <= d * m + u
    PROVE  LET q == (t * m) \div c
           IN  (w + q * f) + y * m <= (d + t) * m + (u + q * (f - c))
  <1> DEFINE q == (t * m) \div c
  <1>1. t * m \in Nat /\ d * m \in Nat /\ y * m \in Int
    BY ProductNat
  <1>2. q \in Nat /\ q * c <= t * m
    BY <1>1, QuotientNat, QuotientFloor
  <1> HIDE DEF q
  <1>3. q * (f - c) = q * f - q * c /\ q * f \in Int /\ q * c \in Int
    BY <1>2
  <1>4. (d + t) * m = d * m + t * m
    BY Distribute
  <1>5. (w + q * f) + y * m <= (d + t) * m + (u + q * (f - c))
    BY <1>1, <1>2, <1>3, <1>4
  <1>6. QED
    BY <1>5 DEF q

\* The weights of the notes grow with the accumulator, by their face amounts.
LEMMA WeightGrowth ==
    ASSUME NEW ns \in Seq(Note), NEW acc \in Nat, NEW q \in Nat
    PROVE  SeqSum(Weight(acc + q), ns) = SeqSum(Weight(acc), ns) + q * SeqSum(Face, ns)
  <1> DEFINE W == Weight(acc)
             V == Weight(acc + q)
             D == DOMAIN ns
             f == At(W, ns)
             g == At(Face, ns)
             h == At(V, ns)
  <1>1. /\ W \in [Note -> Int] /\ V \in [Note -> Int] /\ Face \in [Note -> Int]
        /\ \A n \in Note : V[n] = W[n] + q * Face[n]
    <2>1. acc + q \in Nat
      OBVIOUS
    <2>2. /\ W \in [Note -> Int] /\ V \in [Note -> Int]
          /\ \A n \in Note : W[n] = n.amount * (acc - n.acc)
          /\ \A n \in Note : V[n] = n.amount * ((acc + q) - n.acc)
      <3> HIDE DEF W, V
      <3>1. W \in [Note -> Int] /\ \A n \in Note : W[n] = n.amount * (acc - n.acc)
        BY WeightType DEF W
      <3>2. V \in [Note -> Int] /\ \A n \in Note : V[n] = n.amount * ((acc + q) - n.acc)
        BY <2>1, WeightType DEF V
      <3>3. QED
        BY <3>1, <3>2
    <2> HIDE DEF W, V
    <2>3. ASSUME NEW n \in Note PROVE V[n] = W[n] + q * Face[n]
      <3> DEFINE a == n.amount
                 b == n.acc
      <3>1. a \in Nat /\ b \in Nat /\ Face[n] = a
        BY FaceType DEF Note
      <3>2. W[n] = a * (acc - b) /\ V[n] = a * ((acc + q) - b)
        BY <2>2
      <3> HIDE DEF a, b
      <3>3. a * ((acc + q) - b) = a * (acc - b) + q * a
        BY <3>1
      <3>4. QED
        BY <3>1, <3>2, <3>3
    <2>4. QED
      BY <2>2, <2>3, FaceType
  <1> HIDE DEF W, V
  <1>2. IsFiniteSet(D)
    <2>1. Face \in [Note -> Int]
      BY <1>1
    <2>2. QED
      BY <2>1, Positions
  <1>3. \A i \in D : f[i] = W[ns[i]] /\ f[i] \in Int
    BY <1>1, Positions
  <1>4. \A i \in D : g[i] = Face[ns[i]] /\ g[i] \in Int
    BY <1>1, Positions
  <1>5. \A i \in D : h[i] = V[ns[i]]
    BY DEF At
  <1>6. ASSUME NEW i \in D PROVE f[i] \in Int /\ g[i] \in Int /\ h[i] = f[i] + q * g[i]
    <2>1. ns[i] \in Note
      OBVIOUS
    <2>2. V[ns[i]] = W[ns[i]] + q * Face[ns[i]]
      BY <1>1, <2>1
    <2> HIDE DEF f, g, h
    <2>3. QED
      BY <1>3, <1>4, <1>5, <2>2
  <1> HIDE DEF f, g, h, D
  <1>7. q \in Int
    OBVIOUS
  <1>8. Sum(h, D) = Sum(f, D) + q * Sum(g, D)
    BY <1>2, <1>6, <1>7, SumLinear
  <1>9. QED
    BY <1>8 DEF SeqSum, D, f, g, h, W, V

\* FinalizeRewards: no note is from the future, and the accumulator hands out no
\* more than was pending.
LEMMA FinalizeNotesInvariant ==
    ASSUME NotesInv, FinalizeRewards, NotesIdle
    PROVE  NotesInv'
  <1>1. AnyNext
    BY DEF AnyNext, PoolNext
  <1>2. IInv'
    BY <1>1, PoolStep DEF NotesInv
  <1>3. /\ current_balance' = current_balance
        /\ total_withdrawn' = total_withdrawn /\ total_withdrawal_fees' = total_withdrawal_fees
    BY DEF NotesInv, IInv, TypeOK, FinalizeRewards, current_balance, totalVars
  <1>4. CASE ~(current_balance > 0 /\ total_pending > 0)
    <2>1. UNCHANGED <<reward_accumulator, total_rewards_distributed>>
      BY <1>4 DEF FinalizeRewards, DistributeRewards
    <2>2. QED
      BY <1>1, <1>3, <2>1, OtherInvariant
  <1>5. CASE current_balance > 0 /\ total_pending > 0
    <2> DEFINE q == (total_pending * PRECISION) \div current_balance
               acc == reward_accumulator
    <2>1. /\ reward_accumulator' = acc + q
          /\ total_rewards_distributed' = total_rewards_distributed + total_pending
      BY <1>5 DEF FinalizeRewards, DistributeRewards
    <2>2. /\ FaceSum \in Int /\ WeightSum \in Int /\ total_rewards_distributed \in Nat
          /\ overpaid \in Nat /\ acc \in Nat /\ PRECISION \in Nat \ {0}
          /\ current_balance \in Int /\ fee_gap \in Nat /\ uncounted \in Int
      BY SumsType
    <2>3. total_pending \in Nat /\ current_balance \in Nat \ {0}
      BY <1>5, <2>2 DEF NotesInv, IInv, TypeOK, total_pending
    <2>4. q \in Nat
      BY <2>2, <2>3, ProductNat, QuotientNat
    <2>5. notes \in Seq(Note) /\ \A i \in DOMAIN notes : notes[i].acc <= acc
      BY DEF NotesInv, NotesTyped
    <2> HIDE DEF q
    <2>6. /\ notes' = notes /\ promised' = promised /\ overpaid' = overpaid
          /\ fee_gap' = fee_gap
          /\ uncounted' = uncounted + q * (FaceSum - current_balance)
      <3>1. FaceValue = FaceSum
        BY FaceType, FaceValueIs DEF NotesInv, NotesTyped, FaceSum
      <3>2. (acc + q) - acc = q
        BY <2>2, <2>4
      <3>3. CASE q = 0
        <4>1. uncounted' = uncounted /\ 0 * (FaceSum - current_balance) = 0
          BY <2>1, <2>2, <3>3 DEF NotesIdle
        <4>2. QED
          BY <2>2, <3>3, <4>1 DEF NotesIdle
      <3>4. CASE q # 0
        BY <2>1, <2>2, <2>4, <3>1, <3>2, <3>4 DEF NotesIdle
      <3>5. QED
        BY <3>3, <3>4
    <2>7. FaceSum' = FaceSum /\ WeightSum' = WeightSum + q * FaceSum
      <3>1. SeqSum(Weight(acc + q), notes) = SeqSum(Weight(acc), notes) + q * SeqSum(Face, notes)
        BY <2>2, <2>4, <2>5, WeightGrowth
      <3>2. QED
        BY <2>1, <2>6, <3>1, SumsNext DEF FaceSum, WeightSum
    <2>8. NotesTyped'
      <3>1. ASSUME NEW i \in DOMAIN notes PROVE notes[i].acc \in Nat
        <4>1. notes[i] \in Note
          BY <2>5
        <4>2. QED
          BY <4>1 DEF Note
      <3>2. \A i \in DOMAIN notes : notes[i].acc <= acc + q
        BY <2>2, <2>4, <2>5, <3>1
      <3>3. QED
        BY <2>1, <2>2, <2>4, <2>5, <2>6, <3>2 DEF NotesInv, NotesTyped
    <2>9. PayoutMatchesProof'
      BY <1>3, <2>6 DEF NotesInv, PayoutMatchesProof
    <2>10. Owned'
      BY <1>3, <2>6, <2>7 DEF NotesInv, Owned
    <2>11. Backed'
      <3> DEFINE y == FaceSum + overpaid - current_balance - fee_gap
      <3>1. y \in Int
        BY <2>2
      <3>2. WeightSum + y * PRECISION <= total_rewards_distributed * PRECISION + uncounted
        BY DEF NotesInv, Backed
      <3> HIDE DEF y
      <3>3. (WeightSum + q * FaceSum) + y * PRECISION
              <= (total_rewards_distributed + total_pending) * PRECISION
                   + (uncounted + q * (FaceSum - current_balance))
        BY <2>2, <2>3, <3>1, <3>2, Share DEF q
      <3>4. QED
        BY <1>3, <2>1, <2>6, <2>7, <3>3 DEF Backed, y
    <2>12. QED
      BY <1>2, <2>8, <2>9, <2>10, <2>11 DEF NotesInv
  <1>6. QED
    BY <1>4, <1>5

-----------------------------------------------------------------------------
\* A pool without notes satisfies the invariant.
LEMMA NotesInit == Init => NotesInv
  <1> SUFFICES ASSUME Init PROVE NotesInv
    OBVIOUS
  <1>1. IInv
    BY InitInvariant DEF Init
  <1>2. notes = << >> /\ promised = 0 /\ overpaid = 0 /\ fee_gap = 0 /\ uncounted = 0
    BY DEF Init
  <1>3. /\ reward_accumulator = 0 /\ total_withdrawn = 0 /\ total_withdrawal_fees = 0
        /\ total_rewards_distributed = 0 /\ current_balance = 0
    BY DEF Init, PoolInit, current_balance
  <1>4. NotesTyped
    BY <1>2 DEF NotesTyped
  <1>5. FaceSum = 0 /\ WeightSum = 0
    <2>1. DOMAIN notes = {}
      BY <1>2
    <2>2. QED
      BY <2>1, SumEmpty DEF FaceSum, WeightSum, SeqSum
  <1>6. (0 + 0 - 0 - 0) * PRECISION = 0 /\ 0 * PRECISION = 0
    BY PoolAssumption
  <1>7. QED
    BY <1>1, <1>2, <1>3, <1>4, <1>5, <1>6 DEF NotesInv, PayoutMatchesProof, Owned, Backed

\* The pool's share of a step with notes.
LEMMA NotesPoolStep ==
    ASSUME NotesInv, [NotesNext]_vars
    PROVE  [AnyNext]_poolVars
  <1>1. IInv
    BY DEF NotesInv
  <1>2. ASSUME NEW amount \in Amounts, NEW extra \in Overpay,
               Shield(amount, Fee(amount, deposit_fee_rate) + extra)
        PROVE  AnyNext
    BY <1>2, PoolAssumption DEF Shield, AnyNext
  <1>3. ASSUME NEW i \in DOMAIN notes, NEW net \in Amounts, NEW extra \in Overpay,
               Unshield(i, net, Fee(net, withdrawal_fee_rate) + extra)
        PROVE  AnyNext
    <2> DEFINE gross == GrossAmount(net, withdrawal_fee_rate)
    <2>1. gross \in Nat
      <3>1. /\ net \in Nat /\ withdrawal_fee_rate \in Nat /\ BASIS_POINTS \in Nat \ {0}
            /\ withdrawal_fee_rate < BASIS_POINTS
        BY <1>1, <1>3, PoolAssumption DEF IInv, TypeOK, Unshield
      <3>2. QED
        BY <3>1, GrossNet DEF GrossAmount
    <2>2. Withdraw(gross)
      BY <1>3 DEF Unshield
    <2> HIDE DEF gross
    <2>3. QED
      BY <2>1, <2>2 DEF AnyNext
  <1>4. ASSUME NEW i \in DOMAIN notes, Transfer(i) PROVE UNCHANGED poolVars
    BY <1>4 DEF Transfer
  <1>5. PoolNext => AnyNext
    BY DEF AnyNext
  <1>6. UNCHANGED vars => UNCHANGED poolVars
    BY DEF vars
  <1>7. QED
    BY <1>2, <1>3, <1>4, <1>5, <1>6 DEF NotesNext

\* One step of the pool with its notes, or none, keeps the invariant.
LEMMA NotesInductive == NotesInv /\ [NotesNext]_vars => NotesInv'
  <1> SUFFICES ASSUME NotesInv, [NotesNext]_vars PROVE NotesInv'
    OBVIOUS
  <1>1. [AnyNext]_poolVars
    BY NotesPoolStep
  <1>2. ASSUME NEW amount \in Amounts, NEW extra \in Overpay,
               Shield(amount, Fee(amount, deposit_fee_rate) + extra)
        PROVE  NotesInv'
    BY <1>2, ShieldInvariant
  <1>3. ASSUME NEW i \in DOMAIN notes, Transfer(i) PROVE NotesInv'
    BY <1>3, TransferInvariant
  <1>4. ASSUME NEW i \in DOMAIN notes, NEW net \in Amounts, NEW extra \in Overpay,
               Unshield(i, net, Fee(net, withdrawal_fee_rate) + extra)
        PROVE  NotesInv'
    BY <1>4, UnshieldInvariant
  <1>5. CASE PoolNext /\ NotesIdle
    <2>1. CASE FinalizeRewards
      BY <1>5, <2>1, FinalizeNotesInvariant
    <2>2. CASE ~FinalizeRewards
      <3>1. /\ current_balance' = current_balance
            /\ UNCHANGED <<reward_accumulator, total_rewards_distributed,
                           total_withdrawn, total_withdrawal_fees>>
        BY <1>5, <2>2 DEF PoolNext, FundRewards, SweepExcess, DirectTransfer, SetFeeRates,
           SetPoolActive, ChangeAuthority, Tick, accVars, balanceVars, totalVars, current_balance
      <3>2. QED
        BY <1>1, <1>5, <3>1, OtherInvariant
    <2>3. QED
      BY <2>1, <2>2
  <1>6. CASE UNCHANGED vars
    <2>1. /\ current_balance' = current_balance
          /\ UNCHANGED <<reward_accumulator, total_rewards_distributed,
                         total_withdrawn, total_withdrawal_fees, notes, historyVars>>
      BY <1>6 DEF vars, poolVars, accVars, totalVars, balanceVars, current_balance
    <2>2. QED
      BY <1>1, <2>1, OtherInvariant
  <1>7. QED
    BY <1>2, <1>3, <1>4, <1>5, <1>6 DEF NotesNext

\* The invariant of a token pool whose deposits and withdrawals are those of
\* execute_transact.
THEOREM NotesInvariance == NotesSpec => []NotesInv
  BY NotesInit, NotesInductive, PTL DEF NotesSpec

\* Recipients and relayers get exactly what their proofs promise, through the
\* gross amount of execute_token_slot_cpi and the pool's own fee.
THEOREM PayoutsMatchProofs == NotesSpec => []PayoutMatchesProof
  <1>1. NotesInv => PayoutMatchesProof
    BY DEF NotesInv
  <1>2. QED
    BY NotesInvariance, <1>1, PTL

\* The balance FinalizeRewards divides by is held in notes or was given away.
THEOREM BalanceIsOwned == NotesSpec => []BalanceOwned
  <1>1. NotesInv => BalanceOwned
    <2> SUFFICES ASSUME NotesInv PROVE BalanceOwned
      OBVIOUS
    <2>1. FaceValue = FaceSum
      BY FaceType, FaceValueIs DEF NotesInv, NotesTyped, FaceSum
    <2>2. QED
      BY <2>1 DEF NotesInv, Owned, BalanceOwned
  <1>2. QED
    BY NotesInvariance, <1>1, PTL

\* What the holders may claim, times PRECISION: the rewards of the notes are
\* rounded down.
LEMMA ClaimsBound ==
    ASSUME NotesInv
    PROVE  Claims \in Int /\ PRECISION * Claims <= WeightSum + PRECISION * FaceSum
  <1> DEFINE P == PRECISION
             acc == reward_accumulator
             W == Weight(acc)
             D == DOMAIN notes
             f == At(Face, notes)
             w == At(W, notes)
             v == At(Worth, notes)
             z == [i \in D |-> 0]
             h == [i \in D |-> w[i] + P * f[i]]
             k == [i \in D |-> 0 + P * v[i]]
  <1>1. /\ notes \in Seq(Note) /\ acc \in Nat /\ P \in Nat \ {0}
        /\ \A i \in D : notes[i].acc <= acc
    BY SumsType DEF NotesInv, NotesTyped
  <1>2. W \in [Note -> Int] /\ Face \in [Note -> Int]
    BY <1>1, WeightType, FaceType
  <1>3. Worth \in [Note -> Int]
    <2>1. ASSUME NEW n \in Note PROVE Value(n) \in Int
      <3> DEFINE x == n.amount * (acc - n.acc)
      <3>1. n.amount \in Nat /\ x \in Int
        BY <1>1 DEF Note
      <3> HIDE DEF x
      <3>2. x \div P \in Int
        BY <1>1, <3>1
      <3>3. QED
        BY <3>1, <3>2 DEF Value, x
    <2>2. QED
      BY <2>1 DEF Worth
  <1>4. Claims = SeqSum(Worth, notes) /\ Claims \in Int
    <2>1. Claims = SeqSum(Worth, notes)
      BY <1>1, <1>3, ClaimsIs
    <2>2. SeqSum(Worth, notes) \in Int
      BY <1>1, <1>3, Positions
    <2>3. QED
      BY <2>1, <2>2
  <1>5. ASSUME NEW i \in D
        PROVE  /\ f[i] \in Int /\ w[i] \in Int /\ v[i] \in Int
               /\ P * v[i] <= w[i] + P * f[i]
    <2> DEFINE n == notes[i]
               a == n.amount
               x == a * (acc - n.acc)
               q == x \div P
    <2>1. n \in Note /\ n.acc <= acc
      BY <1>1
    <2>2. f[i] = Face[n] /\ w[i] = W[n] /\ v[i] = Worth[n]
      BY DEF At
    <2> HIDE DEF n
    <2>3. Face[n] = a /\ W[n] = x /\ Worth[n] = a + q
      <3>1. Face[n] = a
        BY <2>1, FaceType
      <3>2. W[n] = x
        BY <1>1, <2>1, WeightType
      <3>3. Worth[n] = a + q
        BY <2>1 DEF Worth, Value
      <3>4. QED
        BY <3>1, <3>2, <3>3
    <2>4. a \in Nat /\ x \in Nat
      BY <1>1, <2>1, ValueBound
    <2> HIDE DEF x, a
    <2>5. q \in Nat /\ q * P <= x
      BY <1>1, <2>4, QuotientNat, QuotientFloor
    <2> HIDE DEF q
    <2>6. P * (a + q) = P * a + q * P /\ P * a \in Int /\ q * P \in Int
      BY <1>1, <2>4, <2>5, Distribute
    <2>7. P * (a + q) <= x + P * a
      BY <2>4, <2>5, <2>6
    <2> HIDE DEF f, w, v, W, P
    <2>8. QED
      BY <2>2, <2>3, <2>4, <2>5, <2>7
  <1>6. IsFiniteSet(D)
    BY <1>1, <1>2, Positions
  <1> HIDE DEF f, w, v, W
  <1>7. \A i \in D : /\ f[i] \in Int /\ w[i] \in Int /\ v[i] \in Int
                     /\ z[i] = 0 /\ h[i] = w[i] + P * f[i] /\ k[i] = 0 + P * v[i]
    BY <1>5
  <1>8. \A i \in D : k[i] = z[i] + P * v[i] /\ z[i] \in Int
    BY <1>7
  <1>9. \A i \in D : k[i] \in Int /\ h[i] \in Int /\ k[i] <= h[i]
    BY <1>1, <1>5, <1>7
  <1> HIDE DEF z, h, k, D
  <1>10. P \in Int
    BY <1>1
  <1> HIDE DEF P
  <1>11. Sum(h, D) = Sum(w, D) + P * Sum(f, D)
    <2>1. \A i \in D : w[i] \in Int /\ f[i] \in Int /\ h[i] = w[i] + P * f[i]
      BY <1>7
    <2>2. QED
      BY <1>6, <1>10, <2>1, SumLinear
  <1>12. Sum(k, D) = Sum(z, D) + P * Sum(v, D)
    <2>1. \A i \in D : z[i] \in Int /\ v[i] \in Int /\ k[i] = z[i] + P * v[i]
      BY <1>7, <1>8
    <2>2. QED
      BY <1>6, <1>10, <2>1, SumLinear
  <1>13. Sum(z, D) = 0
    BY <1>6, <1>7, SumZero
  <1>14. Sum(k, D) <= Sum(h, D)
    BY <1>6, <1>9, SumMono
  <1>15. Sum(w, D) = WeightSum /\ Sum(f, D) = FaceSum /\ Sum(v, D) = Claims
    BY <1>4 DEF WeightSum, FaceSum, SeqSum, f, w, v, W, D
  <1>16. 0 + P * Claims <= WeightSum + P * FaceSum
    BY <1>11, <1>12, <1>13, <1>14, <1>15
  <1>17. P * Claims \in Int
    BY <1>4, <1>10
  <1>18. QED
    BY <1>4, <1>16, <1>17 DEF P

\* The last division of ClaimsBacked.
LEMMA Unscaled ==
    ASSUME NEW s \in Int, NEW f \in Int, NEW w \in Int, NEW y \in Int, NEW d \in Nat,
           NEW u \in Int, NEW m \in Nat \ {0},
           m * s <= w + m * f, w + y * m <= d * m + u
    PROVE  s + y - f - d <= u \div m
  <1> DEFINE x == s + y - f - d
             q == u \div m
             rest == u % m
  <1>1. x * m = m * s + y * m - m * f - d * m
    <2>1. m * s = s * m /\ m * f = f * m
      OBVIOUS
    <2>2. /\ x * m = (s + y - f) * m - d * m /\ (s + y - f) * m = (s + y) * m - f * m
          /\ (s + y) * m = s * m + y * m
      BY Distribute
    <2>3. QED
      BY <2>1, <2>2
  <1>2. x \in Int /\ m * s \in Int /\ m * f \in Int /\ y * m \in Int /\ d * m \in Int
    OBVIOUS
  <1> HIDE DEF x
  <1>3. x * m <= u
    BY <1>1, <1>2
  <1>4. q \in Int /\ rest \in 0..(m - 1) /\ u = m * q + rest
    OBVIOUS
  <1> HIDE DEF q, rest
  <1>5. SUFFICES ASSUME q < x PROVE FALSE
    BY <1>2, <1>4 DEF q, x
  <1>6. x - q - 1 \in Nat
    BY <1>2, <1>4, <1>5
  <1>7. (x - q - 1) * m \in Nat
    BY <1>6, ProductNat
  <1>8. (x - q - 1) * m = x * m - q * m - m /\ q * m = m * q /\ q * m \in Int /\ x * m \in Int
    <2>1. (x - q - 1) * m = (x - q) * m - 1 * m /\ (x - q) * m = x * m - q * m
      BY <1>2, <1>4, Distribute
    <2>2. 1 * m = m /\ q * m = m * q /\ q * m \in Int /\ x * m \in Int
      BY <1>2, <1>4
    <2>3. QED
      BY <2>1, <2>2
  <1>9. QED
    BY <1>3, <1>4, <1>7, <1>8

\* For any number of notes, any amounts, rates and order of finalizations and
\* spends, the vault covers what it owes up to the gross amounts booked without
\* being burned and the rewards accrued on uncounted face value.
THEOREM ClaimsAreBacked == NotesSpec => []ClaimsBacked
  <1>1. NotesInv => ClaimsBacked
    <2> SUFFICES ASSUME NotesInv PROVE ClaimsBacked
      OBVIOUS
    <2> DEFINE y == FaceSum + overpaid - current_balance - fee_gap
               q == uncounted \div PRECISION
    <2>1. /\ FaceSum \in Int /\ WeightSum \in Int /\ total_rewards_distributed \in Nat
          /\ overpaid \in Nat /\ PRECISION \in Nat \ {0} /\ current_balance \in Int
          /\ fee_gap \in Nat /\ uncounted \in Int
      BY SumsType
    <2>2. Claims \in Int /\ PRECISION * Claims <= WeightSum + PRECISION * FaceSum
      BY ClaimsBound
    <2>3. WeightSum + y * PRECISION <= total_rewards_distributed * PRECISION + uncounted
      BY DEF NotesInv, Backed
    <2>4. y \in Int /\ q \in Int
      BY <2>1
    <2>5. y - FaceSum = overpaid - current_balance - fee_gap
      BY <2>1
    <2> HIDE DEF y
    <2>6. Claims + y - FaceSum - total_rewards_distributed <= q
      BY <2>1, <2>2, <2>3, <2>4, Unscaled
    <2> HIDE DEF q
    <2>7. /\ vault = expected + unswept
          /\ current_balance = total_deposited - total_withdrawn
          /\ total_rewards_distributed + total_pending
                 = total_deposit_fees + total_withdrawal_fees + total_funded_rewards
      BY DEF NotesInv, IInv, VaultInvariant, PoolCovered, RewardsConserved
    <2>8. /\ total_deposited \in Nat /\ total_withdrawn \in Nat /\ total_pending \in Nat
          /\ total_deposit_fees \in Nat /\ total_withdrawal_fees \in Nat
          /\ total_funded_rewards \in Nat /\ unswept \in Nat
      BY DEF NotesInv, IInv, TypeOK, total_pending
    <2>9. vault = current_balance + total_rewards_distributed + total_pending + unswept
      BY <2>1, <2>7, <2>8 DEF expected
    <2>10. Claims + overpaid + total_pending + unswept <= vault + fee_gap + q
      BY <2>1, <2>2, <2>4, <2>5, <2>6, <2>8, <2>9
    <2>11. QED
      BY <2>10 DEF ClaimsBacked, q
  <1>2. QED
    BY NotesInvariance, <1>1, PTL

\* With the amounts of execute_transact the pool still keeps its own invariant:
\* its vault is explained, its withdrawals covered, its rewards conserved.
THEOREM PoolUnderHub == NotesSpec => [](VaultInvariant /\ PoolCovered /\ RewardsConserved)
  <1>1. NotesInv => VaultInvariant /\ PoolCovered /\ RewardsConserved
    BY DEF NotesInv, IInv
  <1>2. QED
    BY NotesInvariance, <1>1, PTL

\* The pool under the hub implements RewardPool: the notes add nothing to it but
\* the amounts of its deposits and withdrawals.
THEOREM NotesRefinement == NotesSpec => ImplementsRewardPool
  <1>1. NotesInv /\ NotesInv' /\ [NotesNext]_vars => [Rewards!Next]_(Rewards!poolState)
    <2> SUFFICES ASSUME NotesInv, NotesInv', [NotesNext]_vars
                 PROVE  [Rewards!Next]_(Rewards!poolState)
      OBVIOUS
    <2>1. [AnyNext]_poolVars
      BY NotesPoolStep
    <2>2. IInv /\ IInv'
      BY DEF NotesInv
    <2>3. QED
      BY <2>1, <2>2, RewardStep
  <1>2. Init => Rewards!Init
    BY RewardInit DEF Init
  <1>3. QED
    BY NotesInvariance, <1>1, <1>2, PTL DEF NotesSpec, ImplementsRewardPool, Rewards!Spec
=============================================================================
