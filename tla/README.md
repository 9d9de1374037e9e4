# TLA+ models of the Zorb shielded pool

The repository holds three Solana programs and the circuits they verify. The hub, `programs/shielded-pool`,
keeps the commitment tree, the nullifiers and the receipts and executes transactions. Two pool programs keep
the tokens: `programs/token-pool`, one pool per mint, and `programs/unified-sol-pool`, one pool for SOL and
liquid staking tokens (LSTs). `crates/zorb-pool-interface` is what the hub and the pools share, and
`circuits/circom` has the transaction circuit and the two nullifier circuits.

This directory models them, checks the models with TLC on small instances and proves every safety
property of the passing runs with TLAPS for all values of the constants. `PROJECT.json` maps every definition
to the lines it models, and lists the runs, mutants, hazards, findings and theorems.

## 1. Inventory

| component | state | operations | talks to |
|---|---|---|---|
| Nullifier life cycle (`state/nullifier_tree.rs`, `instructions/nullifier_tree/*`, `execute_transact/nullifier.rs`) | indexed tree (`next_index`, `next_pending_index`, epochs), one PDA per nullifier, one account per epoch root | create nullifiers in `execute_transact`; `nullifier_batch_insert`, `advance_nullifier_epoch`, `advance_earliest_provable_epoch`, `close_inserted_nullifier`, `close_nullifier_epoch_root` | proofs of the nullifier circuits; clock |
| Indexed tree circuits (`lib/indexed-merkle-tree.circom`, `lib/nullifier-tree.circom`) | a sorted linked list in the leaves | insert, prove non-membership | nullifier life cycle |
| Commitment and receipt trees (`merkle_tree.rs`, `state/receipt_tree.rs`, `tree_updates.rs`) | saved subtrees, root, ring of recent roots | append, `is_known_root`, events | `execute_transact`, clients, indexers |
| Sessions and escrows (`instructions/transact/*`, `instructions/deposit_escrow/*`) | session accounts with uploaded bytes; escrow accounts with a vault | init, upload, close session; init, close escrow; `execute_transact` | pools by CPI, relayers |
| Token pool | counters (pending, finalized, cumulative), accumulator, vault | deposit, withdraw, fund, sweep, finalize, fee rates, active flag, authority | hub, SPL Token |
| Unified SOL pool | pool counters, per-LST rates, virtual SOL and vaults | the same, plus `init_lst_config`, harvest, finalize over all LSTs | hub, SPL stake pools |
| Notes (hub and pools) | face amount and accumulator of each note | shield, transfer, unshield, realise rewards | pools, through public amounts |
| Transaction circuit (`transaction.circom`, `lib/*`) | none; a relation between public inputs and a witness | routes notes and public lines to roster slots, conserves value per slot, derives nullifiers and output randomness | hub: registry of accumulators, public lines, roots, nullifiers |
| Hub administration (`instructions/admin/*`, `state/pool_config.rs`) | pause flag, authority, one `PoolConfig` per registered asset | initialize, pause, register, activate, authority | everything |
| Slot routing (`accounts.rs`, `slot_validation.rs`, `validators.rs`) | none of its own | which configuration, pool and accumulator each line of a proof may use | hub registry, pools |

What is hard here: proofs are made off chain against roots and accumulators that other people's transactions
move before the proof arrives; nullifiers are protected by a PDA first and by a tree later, and the PDA is
closed in between by anybody; batches, epochs and account closings are permissionless and may come in any
order; an escrow, its session and its execution belong to three different signers; the counters of the pools
are updated piecemeal and reset at finalization, while the vaults can be changed from outside; fees, exchange
rates and rewards are rounded in different programs and in the circuit, whose equations hold in a field and not
in the integers; and whoever executes a transaction supplies its accounts. `PROJECT.json` lists these under
"hazards", each at its line with the properties that would notice it going wrong.

## 2. Modules

| module | models | composed from |
|---|---|---|
| `NullifierSpends` | abstract: a transaction consumes fresh nullifiers; what `Transact` takes for granted | |
| `NullifierTree` | nullifier life cycle | |
| `NullifierTreeProofs` | its theorems | `NullifierTree` |
| `IndexedTree` | what the indexed tree circuits accept, leaf by leaf | |
| `CommitmentTree` | commitment tree, ring of roots, receipt tree, events | |
| `MerkleTreeProofs` | the theorems of both | `IndexedTree`, `CommitmentTree` |
| `Authority` | two-step authority transfer of `zorb-pool-interface` | |
| `RewardPool` | abstract: rewards are collected and handed out all together over the balance | |
| `TokenPool` | token pool program; implements `RewardPool` | `Authority`, `RewardPool` |
| `Arithmetic` | rounding, remainders, sums over finite sets and folds: the lemmas of the proofs | |
| `PoolNotes`, `PoolNotesProofs` | a token pool and the notes of its depositors; the theorems of both | `TokenPool` |
| `JoinSplit`, `JoinSplitProofs` | the transaction circuit and the hub's part in it; its theorems | |
| `Transact`, `TransactProofs` | sessions, escrows, `execute_transact` with its recipients and relayers; its theorems | `NullifierSpends` |
| `UnifiedSolPool`, `UnifiedSolPoolProofs` | unified SOL pool program, the hub's admission of its slots; its theorems; implements `RewardPool` | `Authority`, `RewardPool` |
| `HubRouting`, `HubRoutingProofs` | registry of pools, switches, account checks of `execute_transact`; its theorems | `Authority` |
| `MC*` | instances for TLC | |

Every variable has the name of the account field it stands for; variables marked "history" in the modules are
not in the code and only record what happened. An action is a whole instruction: what fails a check fails the
transaction and changes nothing, because Solana rolls it back. Operators whose name ends in `_Something` and
whose comment says "Mutant" are wrong versions of the definition after them. No specification uses them; they
show that the properties notice such an error.

### Abstractions

* **Proofs and hashes.** A Groth16 proof verifies exactly when its statement holds; hashes are injective. In
  `CommitmentTree` a hash is the pair of its arguments, in `IndexedTree` a Merkle path opens an index to its
  leaf, in `NullifierTree` a root is the number of leaves under it.
* **Provers.** Provers are not assumed to be honest: they open any leaf, pick any remainder and route notes in any way
  that satisfies the constraints. What the nullifier circuits accept enters `NullifierTree` as two definitions, which
  are what `IndexedTree` shows of them. `LowLeafVerifies`: a value that is not in the tree has a witness in the list of
  the genesis leaf, and one that is in the tree has one in a leaf outside its list, such as an unused leaf.
  `BatchProofVerifies`: append positions are empty, and low leaves are those of the genesis list or leaves that no
  append has reached; which of these were opened is kept in `opened`.
* **What modules take from each other.** `Transact` uses `NullifierSpends`: a body's nullifiers are fresh. By the finding
  `empty_leaf` the circuit does not give that, so `Transact` is about the sessions, escrows and wallets of a program whose
  non-membership proofs are sound; `NullifierTree` makes no such assumption.
* **Clock.** Slots are counted where windows are compared. In the pools only the distance to the last
  finalization matters, saturated at the interval. In `NullifierTree` the clock stops at `MaxSlot`.
* **Sessions.** The uploaded bytes are chunks, each holding a piece of a body or zero; a body parses if its
  chunks are in place. Later bytes are ignored by the parser and not by the escrow's hash, as in the code.
* **Numbers.** The u64 and u128 arithmetic of the code is checked, so an overflow is a failed instruction;
  subtractions that can fail are guards. `MaxInflow`, `MaxAppreciation`, `MaxDonation`, `Supply` and
  `MaxNotes` bound what enters the system.
* **Rates.** `RATE_PRECISION`, `PRECISION` and `BASIS_POINTS` are parameters; small values make rounding show
  in small states.
* **Routing.** `HubRouting` follows one public line, since the lines are checked one by one. A pool stands for its
  configuration, vault and mint, and is named by its asset id; amounts are units without fees.
* **Circuit.** `JoinSplit` has a small prime `P` in place of the field's, and the range of amounts and the
  accumulator's scale as parameters; sums, selections and the conservation equation are taken modulo `P`. A selector is
  the set of its ones; a commitment is the note it commits to; keys are public keys. The witness is quantified:
  `TransactStep` takes every transaction for which some roster, selectors, values and output randomness satisfy the
  constraints, the quotients of the reward division among them.
* **Slots of the unified pool.** The hub's conversion of a slot is checked in every state of the pool for every amount,
  fee and public amount it admits, rather than taken as a step: the pool's own operations are already explored for
  all amounts.
* **Left out.** Account owners and discriminators (the framework checks them), addresses except those that choose a
  pool or configuration, rent, events except
  those of the two trees, log messages, compute limits.

## 3. Runs

| run | module / cfg | shows |
|---|---|---|
| `nullifier_tree` | `NullifierTree` / `MCNullifierTree` | spent nullifiers are always protected by a PDA or every usable root, so that a second spend needs a proof of absence from a root that holds the value; epoch roots in the provable window exist; the queue has no gaps and drains batch by batch unless one of two named obstructions stands in the way |
| `indexed_tree` | `IndexedTree` / `MCIndexedTree` | whatever low leaves provers open, the leaves form sorted lists; a witness speaks for the list it opens; absent values always have a witness in the genesis list |
| `commitment_tree` | `CommitmentTree` / `MCCommitmentTree` | incremental roots are the roots of full trees over the announced leaves; the ring knows exactly the last `ROOT_HISTORY_SIZE` roots; receipts stay verifiable |
| `pool_notes` | `PoolNotes` / `MCPoolNotes` | vault = counters + unswept transfers; balance covered; authority never lost; the program implements `RewardPool`; the divisor of a distribution is owned by notes; the vault covers all claims up to two named leaks; recipients get what their proofs say; rewards reach holders even in an inactive pool |
| `join_split` | `MCJoinSplit` | notes of each asset hold at most what was paid in plus claimed rewards; claims are never below the rounded reward, and value is exact, as integers, while none was above it; every unspent note stays spendable |
| `transact` | `MCTransact` | an escrow pays once, only for the body its depositor named, never for a body executed twice; every wallet is explained by the executed bodies, whatever accounts the executor passes; an escrow is consumed or reclaimed in the end |
| `unified_pool` | `UnifiedSolPool` / `MCUnified` | vaults cover virtual SOL through all roundings; totals add up; implements `RewardPool`; no credit without tokens but for two named leaks; admitted slots agree with what is booked and paid; WSOL buffer respected; epochs advance unless blocked |
| `hub_routing` | `HubRouting` / `MCHubRouting` | value moves only with tokens of its class (unified or token); no note is trapped: some pool that has the tokens passes its withdrawal |
| `empty_leaf`, `queue_blocked`, `slot_asset`, `remainder` | | violations, section 6 |

### Bounds

* `nullifier_tree`: four nullifiers in transactions of two and up to three transactions, so that inputs overlap in every
  way and values are spent again when provers open unused leaves; batches of two, windows of one or two epochs, four
  slots. Each tree has six leaves: two batches fit next to the genesis leaf, and what a third transaction queues must stay
  protected by its PDAs. An epoch can be advanced, become unprovable and be closed while the first transaction's
  nullifiers are inserted and the second's are pending.
* `queue_blocked`: the same with one slot.
* `indexed_tree`, `empty_leaf`: values 1 to 4 in a tree of eight leaves, `Capacity = 8`. Seven insertions of four values
  cover every insertion order, repeated values, and lists that start at unused leaves at every stage, up to a full tree.
* `commitment_tree`: four transactions of two outputs fill a tree of height 3, and a ring of three roots wraps
  inside the second one; two proofs in flight see their root evicted or kept.
* `pool_notes`: two notes, amounts 1 to 3 with a deposit limit of 2, fees at and above the required one, fee rates 0,
  one half and one above the maximum, an inflow of four tokens, two keys and a lost one. `TokenPool` is explored as a
  part of it and has no run of its own.
* `join_split`: two transactions of two inputs, two outputs, two public lines and two roster slots over two assets, with
  a registry of three lines one of which is unused; amounts below 4 in a field of 13 elements, the smallest in which the sums of honest transactions do
  not reach the prime (`SumsFit`), while a withdrawal is a number close to it; one finalization with a scale of 2, so that
  rewards round and the quotients that are not the floor create value in some behaviours. Two transactions are the least in which a note is made, earns and is spent, and two notes can share a rho;
  longer chains are not explored.
  `Permutations` of the padding randomness is a symmetry, since only equality of rhos matters.
* `remainder`: one of each, and a scale that exceeds the prime when multiplied by the range, as in the real field.
* `transact`: a deposit over both slots and a withdrawal, two escrows of one depositor, one session of the relayer
  with lengths at a body, above a body and above the limit, two slots and one finalization; a withdrawal to the depositor
  that the relayer may try to execute with any account. An escrow of zero slots expires in the next slot, so that closing it and creating it again under the same nonce both happen.
* `unified_pool`: WSOL and one LST with stake pool rates 1/2, 1 and 3/2 in units of two, so that conversions round;
  two epochs, slots of one to three tokens, one unit of appreciation and one of donations, and a WSOL buffer of one
  half of the value and at least one token.
* `hub_routing`: two token pools and the unified one, a unit of value in each, one proof in flight with two reward
  lines, one finalization and one switch off at a time. A proof can meet every combination of accounts, a pool that
  was switched off or has finalized since, and an asset that is not registered yet.

Symmetry is used in `join_split` and `remainder` (padding randomness), which check invariants
only and tell these values apart by equality only; the other runs check temporal properties or have no symmetric
constants.

### Fairness

* `NullifierTree`: weak fairness of batch insertion, of advancing the epoch and of the clock. Both instructions are
  permissionless and stay enabled until somebody executes them; relayers have an interest in doing so. The fair inserter
  opens no unused leaf, as the client does; other inserters may.
* `PoolNotes`: weak fairness of `finalize_rewards` and of the clock, for the same reason.
* `Transact`: a depositor reclaims an escrow when possible; the clock.
* `UnifiedSolPool`: strong fairness of harvest and finalization, which are permissionless but are disabled again and
  again by the authority's switches and by cluster epochs; whoever tries often enough meets an enabled state.
  `EpochsAdvance` says what may still hold an epoch up: an inactive pool, a negative balance, or an active LST
  that cannot be harvested, without a pause from some point on.

Nothing is assumed of users, of the authority or of the stake pools. Deadlock is checked except where the system
really ends: full trees (`CommitmentTree`, `IndexedTree`), the end of the bounded clock (`NullifierTree`) and of the
bounded number of transactions (`JoinSplit`).

## 4. Proofs

`NullifierTreeProofs` proves, for all sets of nullifiers and users, all group and batch sizes, capacities and
windows, and whatever leaves provers open: `TypeCorrect`, `Coverage`, `Window`, `Queue` and
`DoubleSpendsAreFalseProofs`. None of these is inductive alone. A spent nullifier without a PDA is safe
because it is in every usable root; that is preserved when an epoch root is added only because pending indices are
unique and inserted in order, and when the window moves only because closing a PDA waited for it. `IInv` says so in
nine parts: types, the order of the indices (`IndexOrder`), what a PDA's fields mean (`PdaFields`), unique pending
indices, roots behind the current one (`RootsBehind`), what a frozen root contains (`Frozen`), coverage by an index
rather than by membership (`Covered`), and the completeness of window and queue. There is a lemma per action, and
`InductiveStep` puts them together. `DoubleSpendsAreFalseProofs` follows step by step: a value that is spent again has no
PDA, so by coverage it is in the root that the proof was made against.

`PoolNotesProofs` first proves, of the token pool by itself, `TypeCorrect`, `VaultBalance`, `Covered`, `Conservation` and `Control` for all amounts,
rates and limits. The inductive invariant is the conjunction of the five: `SweepExcess` is exact only while
withdrawals do not exceed deposits, which follows from the covered balance, whose preservation needs the fee bound
`FeeBound` and the types. `RewardRefinement` proves that the program implements `RewardPool`: every action but
finalization is a `Collect` step or a stutter (`CollectStep`), and finalization is `Distribute` or a stutter
(`FinalizeStep`), because moving the pending balances into the finalized one leaves their sum alone.

Its second part carries the token pool over to the specification the run checks, in which the hub computes the
amounts. Its `NotesInv` is the pool's invariant with four more parts. Withdrawals use gross amounts that need not be
in `Amounts`; the pool's step is therefore proved for every natural number (`AnyNext`), and `PoolUnderHub` and
`NotesRefinement` follow. `PayoutsMatchProofs` rests on `GrossNet`: enlarging a net amount by the fee rate, rounded
down, and taking off the fee of the result, rounded down, returns it. `BalanceIsOwned` is inductive only next to the
types (no note is newer than the accumulator) and to `GrossCovers`: a note never gives up more than the pool books.
`ClaimsAreBacked` is stated about quotients and not inductive: `Backed` says it before any division, as a bound on the
sum of amount times accumulator difference over all notes, with the two leaks as terms. `fee_gap` grows when a withdrawal
books more than its proof burns. `uncounted` grows when an accumulator moves: by its growth, times the face value of the
notes beyond the balance that the growth was computed from. Both come from the code. The first is described
in section 6; the second is there because a transfer turns rewards into face value, which then earns, while
`current_balance` counts deposits and withdrawals only. A finalization adds at most what was pending (`Share`,
`WeightGrowth`), and `ClaimsBound` and `Unscaled` bring the divisions back.

`MerkleTreeProofs` proves, of the indexed tree, `ChainsAreSorted`, `NonMembershipHoldsInChain` and `NonMembershipIsComplete`,
for every capacity and order of insertions and every choice of low leaves. An insertion through an unused leaf starts a
second list, so the history variable `chain` keeps for every leaf where its list starts, and the invariant `ListInv`
speaks of lists: pointers lead to leaves of the same list (`PointersLead`), no value of the list lies in the gap between a
leaf and its successor (`GapsEmpty`), and values of a list differ (`ValuesDiffer`). That a gap accepts a value then says
that the list does not hold it, and no more: soundness for the tree is what `empty_leaf` refutes. Completeness
needs that every value lies in one gap of the genesis list (`OneGap`).

Of the commitment and receipt trees it proves all three properties, for every height, number of outputs, size of the ring
and number of proofs in flight: `IndexersAgree`, `RingIsRecent` and `ReceiptsStayValid`. Their invariant `TreesInv`
compares each tree with the full tree over the leaves its events announce. `EventsOf`: the k-th event announces index
k - 1, so no announcement replaces another. `TreeOf`: the root is that of the full tree, and at each level where the
path of the *next* leaf is a right child the saved subtree is the node to its left; elsewhere the saved subtree is
stale, and `append` overwrites it before it is read. `RingOf`: the cursor is the size modulo the length of the ring,
and each of the last sizes has the root of that size in its entry. An append leaves the nodes left of its path as they
were and those right of it empty, so each level of its loop computes one node of the new full tree. A ring
entry is found by the roots of the last sizes and by no other because roots of different sizes differ: equal roots have equal leaves (hashes are terms), and the tree
without a leaf has the empty leaf there, which no commitment equals.

`UnifiedSolPoolProofs` proves, for any set of LSTs, rates, precisions, fees and buffers, everything that is not
liveness. `Covered`, the solvency of each LST, needs the types (rates of at least 1:1) and `TotalAddsUp` needs that an
unregistered LST has no virtual SOL; `IInv` is those four. `CreditsAreBacked`, `BufferKept` and `UnifiedSlotsAlwaysSettle`
are step properties from `IInv`, one lemma per instruction on what its roundings do. `RewardRefinement` is the second
implementation of `RewardPool`.

`TransactProofs` proves the four safety properties of escrows and wallets, for any finite set of bodies, slots, users and
nonces. `execute_transact` settles its slots one after the other on a record of escrows, vaults, wallets and debits;
`EscrowsSound` is what holds of that record between two slots (an escrow that has paid stays live and consumed, a debit
names the body of its escrow), so it is preserved by a fold over the slots, not only by actions. `ExecutedOnce` ties
executions to spent nullifiers, which is why a body must have at least one nullifier: the assumption
`Params[b].nullifiers # {}`, which the circuit's fixed number of inputs justifies. `BalancesExplained` is the sum of wallets,
escrows and debits of a user and is what moves piecewise during the fold.

`HubRoutingProofs` proves `ClassesBacked` and `ValueCanLeave` for any number of pools. A registered asset keeps the type
its id demands (`ConfigsTyped`), notes exist only of registered assets (`Registered`), and by `ClassesBacked` some pool of
the class has the tokens that a note needs (`SomePoolHolds`).

`JoinSplitProofs` proves `NotesSpendable` for any field, set of assets, registry, number of slots and notes, under
`nOutputNotes <= nInputNotes`, which the compiled circuits satisfy (2/2, 4/4, 16/2) and without which section 8.1 leaves
the rho of an output free. The property is about unspent notes only; the invariant is about the chain of all of them:
the rho of every enabled leaf is the nullifier of an earlier input (`LeavesRooted`), so a new output, whose rho is fresh,
differs from every leaf (`RhosUnique`), and a nullifier can only come from the leaf it commits to (`NullifiersRooted`).
`OneHotSelects` shows that a selector with one bit and the right value selects the slot, and then the registry line, of the
note's asset although the circuit compares sums in the field.

`ClaimsAreConserved` and `HonestClaimsAreExact` are about the equations of section 10, which hold modulo `P`, and about
every prover. They share the invariant `LedgerInv`: the ranges of amounts and accumulators of all leaves, and that
consumed leaves are spent. The slots of a roster have distinct assets, so the sum of a slot is the sum of an asset
(`SlotEquation`), and a transaction changes the ledger of each asset by sums whose remainders agree (`AssetStep`).
Outputs are range checked and public amounts have 64 bits, so outputs and withdrawals of a slot stay below the prime
(`OutputsFit(B)`, with `B` the bound on public amounts): what goes in is never less than what comes out, and more only by
multiples of the prime (`FieldLoss`). That is `ClaimsAreConserved`, in which a claim is whatever quotient the prover
picked. `HonestClaimsAreExact` compares claims with the floor. The remainder is range checked and the product of
amount and accumulator difference is below the prime, so every quotient is at least the floor (`QuotientAtLeast`); if no
claim was above it the inputs stay below the prime too, and equal remainders are equal integers (`FieldBalance`). Its
hypotheses are `NoWrap(W, B)`, which the range checks (248 bits of a prime of 254, at most 16 notes) provide for every `W`
below the prime, and `ProductsBounded(W)` on the behaviour: the range checks do not bound the product of an amount and
an accumulator, and the hub does, whose 64-bit amounts and 128-bit accumulators stay below `W = P - 1`. Primality of
`P` is not needed. `MCJoinSplit` assumes `NoWrap` of its constants (`SumsFit`), and TLC evaluates it.

`Arithmetic` has what these share. Sums (`MapThenSumSet`) and folds over sequences (`FoldLeft`) are recursive functions on the
subsets of a finite set. Facts about them are proved without an induction schema: the subsets on which a fact fails form a
set of subsets of a finite set, which has a minimal element if it is not empty (`MinimalSubset`, from the
well-foundedness of strict inclusion), and removing one element from that leads to a contradiction. Recursive functions over
the levels of a tree are treated in the same way with `LeastNat`: a least level at which a fact fails has a level below it,
where it holds. That such a function exists and satisfies its equation at every level is proved first, the same way
(`IndexRec`, `ZeroRec`, `NodesRec`, `PathRec`, `AfterRec` of `MerkleTreeProofs`). Of the field the proofs need `Remainder` and
`RemainderSum`, and that close integers with equal remainders are equal (`RemainderClose`).

Assumptions: those of the modules on their constants, which TLC evaluates in the runs; `nOutputNotes <= nInputNotes`,
`OutputsFit`, `NoWrap` and `ProductsBounded` where the statement names them. No theorem restricts provers beyond the
constraints of the circuits.

Only model-checked: liveness (fairness and ENABLED are beyond the prover), that is `QueueDrainsUnlessObstructed` and the other properties
with a leads-to or an eventually; and, of course, the violations of section 6. Every invariant and every action property of
the passing runs is a theorem.

## 5. Plan

Done in this order: nullifier life cycle and its proof, indexed tree, token pool and its proof, notes, sessions
and escrows, unified pool, commitment tree, registry and routing, the abstract reward pool and its refinement by both
pools, credits and slots of the unified pool, recipients, the transaction circuit; then the proofs of the modules one by
one, `CommitmentTree` and the conservation of value in `JoinSplit` last.

What would come next: the two trees in one specification, so that `LowLeafVerifies` and `BatchProofVerifies` of
`NullifierTree` are replaced by the constraints of `IndexedTree`; and the progress properties, with a prover that handles
ENABLED.

## 6. Findings

Each is a run in which TLC finds the behaviour; `PROJECT.json` quotes the text that says otherwise.

* `empty_leaf`: the non-membership circuit accepts every leaf index as the low leaf. A leaf that was never written
  has the hash of the genesis leaf, which passes for the start and the end of the list. This is why the project does not
  claim that no note is spent twice: `DoubleSpendsNeedFalseProofs` says that the program adds no other way to do it, and
  `NonMembershipInChain` what a witness does show.
* `queue_blocked`: the insertion circuit leaves the low leaf as free. A batch that writes an unused leaf takes the position
  from the append that comes to it later, and batches are inserted in order. `QueueDrainsUnlessObstructed` is what does hold.
* `slot_asset`: a token slot is checked against the proof's mint and for not being the unified asset; that its pool is
  the pool of the line's asset is documented and not checked. `ClassesBacked` is what does hold.
* `remainder`: `DivByAccumulatorScale` documents a floor and constrains an equation in the field and the remainder. The
  equation has one quotient for every remainder in range, and only the client's is the floor. No quotient is below the floor
  (`HonestClaimsExact`); nothing in the circuit bounds it from above.

Disagreements that the models have in their definitions and that no run of its own is spent on:

* The hub's switch of an asset. `set_pool_config_active.rs:50` says "When inactive, deposits/withdrawals for this asset will
  fail."; `execute_transact` compares the type of the `PoolConfig` and does not read its flag. `HubRouting` therefore has
  the flag and no guard on it, and `ValueCanLeave` is stated without it: withdrawals pass while it is off. The switches that
  work are those of the pools and of the hub.
* The base of the withdrawal fee. `types.rs:67` says of public amounts "Withdrawals: gross (before withdrawal fee)". The
  proof burns the net amount and the fee of the net amount (`validate_fee`, `utils.rs:300`), the pool books the gross
  amount (`public_slots.rs:316`), which is larger when the rate is positive: a withdrawal of 1 at a rate of one half
  burns 1 and takes 2 off the pool's balance. The difference leaves the balance and stays in notes; `ClaimsBacked` has it as
  `fee_gap`.
* The first rate of an LST. `unified-sol-pool/src/state.rs:901` says "First rate update, allow anything", for a rate of 0;
  `init_lst_config` writes 1:1, so the branch never runs and an LST whose stake pool is further from 1:1 than the limit
  cannot be harvested. `EpochsAdvance` has such an LST among its blockers.

Smaller ones: `token-pool/src/state.rs` says that an underflow of the balance is
impossible during transactions, and the withdrawal of a note with realised rewards can meet the checked subtraction that
`withdraw.rs` does for its event, since realised rewards are not part of `current_balance` (they also earn without being counted in what the next
accumulator is computed from, the term `uncounted` of `ClaimsBacked`, about which the documents say nothing); `initialize.rs` documents a nullifier tree that starts at
epoch 0, and the code starts at 1; `state/nullifier_tree.rs` names two ways to advance an epoch, and the code has one; the
grace period of `close_inserted_nullifier` is measured from `earliest_provable_epoch` and so begins again when that
moves; `harvest_lst_appreciation.rs` bounds the divergence of the two rates by the limit of a single harvest, and an
LST may be harvested several times in an epoch; `deposit.rs` of the unified pool reasons about deposits between
harvest and finalization, which the hub refuses; the unified pool's `max_deposit_amount` is never read;
`init_deposit_escrow.rs` says that tokens can be reclaimed after expiry,
and what a consumed escrow holds beyond deposit and relayer fee cannot; `harvest_lst_appreciation.rs` calls direct
transfers to a vault free equity, and after one the equality its check demands never holds again.

## 7. Not modelled

* Groth16 verification, Poseidon, key derivation: cryptography, taken to be ideal.
* Sections 1 and 11 of the transaction circuit (version tag and binding of public inputs): they fix values that the
  models have fixed already.
* Addresses of vaults, programs and escrow authorities in `slot_validation.rs` and `accounts.rs`: equality checks on
  derived addresses, without state. Which pool and recipient they select is modelled.
* `vendor/panchor`: the account framework; its checks of owners and discriminators are taken as given.
* Events other than those of the trees, IDL files, scripts, client code in the tests.
