----------------------------- MODULE JoinSplit -----------------------------
(***************************************************************************)
(* The transaction circuit: which shielded transactions have a proof, and  *)
(* what the value held in notes can therefore do.  The sections of         *)
(* transaction.circom are predicates over the witness, in arithmetic       *)
(* modulo the field's prime; the hub's part is to supply the reward        *)
(* registry and the public lines, to refuse used nullifiers and to append  *)
(* the commitments.                                                        *)
(*                                                                         *)
(* Abstractions.  Poseidon is injective, so a commitment is the note, and a *)
(* Merkle proof for a known root shows that the note is a leaf.  The       *)
(* prover may reuse blindings, so they do not tell notes apart.  A         *)
(* selector is the set of positions whose bit is 1.  version is always 0.  *)
(***************************************************************************)
EXTENDS Integers, Sequences, FiniteSets, FiniteSetsExt

CONSTANTS
    P,                      \* the prime of the scalar field
    RANGE,                  \* amounts and accumulators lie below it (2^248)
    ACCUMULATOR_SCALE,      \* 10^18
    Assets,                 \* asset ids: field elements other than 0
    Pks,                    \* public keys of owners
    DummyRhos, NoRho,       \* rho of padding inputs, and of padding outputs
    nInputNotes, nOutputNotes, nPublicLines, nRosterSlots,
    rewardAssetId,          \* the reward registry's asset of each line
    PublicAmounts,          \* what lines move: deposits > 0, withdrawals < 0
    MaxAcc, MaxTransactions \* bounds on accumulators and transactions

Slots   == 1..nRosterSlots
Lines   == DOMAIN rewardAssetId
Inputs  == 1..nInputNotes
Outputs == 1..nOutputNotes
Publics == 1..nPublicLines

ASSUME JoinSplitAssumption ==
    /\ P \in Nat \ {0, 1}
    /\ RANGE \in 1..P /\ ACCUMULATOR_SCALE \in 1..(P - 1)
    /\ Assets \subseteq 1..(P - 1)
    /\ rewardAssetId \in Seq(Assets \cup {0})
    /\ nInputNotes \in Nat /\ nOutputNotes \in Nat
    /\ nPublicLines \in Nat /\ nRosterSlots \in Nat
    /\ PublicAmounts \subseteq Int /\ MaxAcc \in 0..(RANGE - 1)

VARIABLES
    leaves,         \* the notes committed to in the commitment tree
    nullifiers,     \* the nullifiers of executed transactions
    rewardAcc,      \* the accumulator of each asset's pool
    inflow,         \* history: net public amount of each asset
    earned,         \* history: rewards of spent notes, rounded down
    claimed,        \* history: rewards that provers gave to spent notes
    consumed        \* history: positions of the leaves that were inputs

vars == <<leaves, nullifiers, rewardAcc, inflow, earned, claimed, consumed>>
-----------------------------------------------------------------------------
\* Fr of the hub's signed amounts; withdrawals are FIELD_SIZE - |amount|.
ToField(x) == x % P

\* Mutant: no range check.
Num2Bits_Any(x) == TRUE

\* Num2Bits(248): the value has a representation below RANGE.
Num2Bits(x) == x < RANGE

\* The sum of f over a set of positions, as an integer and in the field.
Total(f, S) == MapThenSumSet(LAMBDA x : f[x], S)
FieldSum(f, S) == Total(f, S) % P

\* OneHotValidator.
OneHot(bits, enabled, values, expectedSum, expectedDot) ==
    /\ bits \subseteq enabled
    /\ Cardinality(bits) = expectedSum
    /\ FieldSum(values, bits) = expectedDot

\* A flag as a field element.
Bit(b) == IF b THEN 1 ELSE 0

\* DivByAccumulatorScale: the prover picks the remainder, which fixes the
\* quotient; the quotient itself has no range check.
Quotients(dividend) ==
    {q \in 0..(P - 1) : \E remainder \in 0..(ACCUMULATOR_SCALE - 1) :
        (q * ACCUMULATOR_SCALE + remainder) % P = dividend}

\* ComputeReward: the rewards the prover can give to a note, and the value of an
\* input with its reward.
RewardChoices(note, globalAcc) == Quotients((note.amount * (globalAcc - note.acc)) % P)
TotalValue(in) == (in.note.amount + in.reward) % P

\* ComputeNullifier, independent of the position; nk is derived with pk.
Nullifier(note) == [nk |-> note.pk, rho |-> note.rho, commitment |-> note]

\* Section 6: a note whose amount is zero is a dummy.
Enabled(note) == note.amount # 0

\* A padding note; nothing binds its rho.
Dummy(pk, rho) == [assetId |-> 0, amount |-> 0, pk |-> pk, acc |-> 0, rho |-> rho]
-----------------------------------------------------------------------------
\* Sections 2 and 3: disabled slots are zeroed, enabled ones hold different
\* assets.  A roster maps its slots to assets and on is the set of enabled ones.
RosterValid(roster, on) ==
    /\ \A j \in Slots \ on : roster[j] = 0
    /\ \A a, b \in on : a # b => roster[a] # roster[b]

\* Section 4: every enabled slot selects a line of the registry for its asset,
\* and so an accumulator.  The hub checks the lines that name an asset; an
\* unused line carries no asset's accumulator.
LineAccs ==
    [k \in Lines |-> IF rewardAssetId[k] = 0 THEN 0 ELSE rewardAcc[rewardAssetId[k]]]
SlotAccs(roster, on) ==
    {acc \in [Slots -> 0..MaxAcc] : \A j \in Slots : \E bits \in SUBSET Lines :
        /\ OneHot(bits, Lines, rewardAssetId, Bit(j \in on), roster[j])
        /\ acc[j] = FieldSum(LineAccs, bits)}

\* Section 5: a public line is unused, or it selects the slot of its asset.
\* The hub demands that unused lines are zero and that used ones name an asset.
PublicChoices(roster, on) ==
    {line \in [assetId : Assets \cup {0}, amount : PublicAmounts \cup {0}, sel : SUBSET on] :
        /\ line.assetId = 0 => line.amount = 0
        /\ OneHot(line.sel, on, roster, Bit(line.assetId # 0), line.assetId)}

\* Section 6: the accumulator of the slot that a note selects.
SlotAcc(acc, bits) == FieldSum(acc, bits)

\* Sections 6 and 7 on one input: the leaf at position pos, or a dummy (pos = 0,
\* no Merkle proof), routed to a slot, with an accumulator that is not in the
\* future, and the reward the prover computes for it.
InputChoices(roster, on, acc) ==
    LET notes == [pos : {0}, note : {Dummy(pk, rho) : pk \in Pks, rho \in DummyRhos}]
                 \cup {[pos |-> i, note |-> leaves[i]] : i \in DOMAIN leaves}
        routed == {[pos |-> c.pos, note |-> c.note, sel |-> bits] :
                      c \in notes, bits \in SUBSET on}
        valid(c) == /\ OneHot(c.sel, on, roster, Bit(Enabled(c.note)), c.note.assetId)
                    /\ Enabled(c.note) => c.note.acc <= SlotAcc(acc, c.sel)
                    /\ Num2Bits(c.note.amount)
    IN  UNION {{[pos |-> c.pos, note |-> c.note, sel |-> c.sel, reward |-> r] :
                   r \in RewardChoices(c.note, SlotAcc(acc, c.sel))} :
               c \in {d \in routed : valid(d)}}

\* Section 6: an output carries the accumulator of its slot.
OutputAcc(note, bits, acc) == Enabled(note) => note.acc = SlotAcc(acc, bits)

\* Sections 6 and 8 on one output, before it gets its rho.
OutputChoices(roster, on, acc) ==
    LET notes == {Dummy(pk, NoRho) : pk \in Pks} \cup
                 [assetId : Assets, amount : {x \in 1..(P - 1) : Num2Bits(x)},
                  pk : Pks, acc : 0..MaxAcc, rho : {NoRho}]
    IN  {c \in [note : notes, sel : SUBSET on] :
            /\ OneHot(c.sel, on, roster, Bit(Enabled(c.note)), c.note.assetId)
            /\ OutputAcc(c.note, c.sel, acc)}

\* Mutant: the rho of an output is free.
OutputRhos_Free(nfs) == [Outputs -> {nfs[i] : i \in Inputs} \cup DummyRhos]

\* Section 8.1: output j carries the nullifier of input j, if there is one.
OutputRhos(nfs) ==
    {rhos \in [Outputs -> {nfs[i] : i \in Inputs} \cup DummyRhos] :
        \A j \in Outputs \cap Inputs : rhos[j] = nfs[j]}

\* A dummy output has any rho.
OutputNote(note, rho) == IF Enabled(note) THEN [note EXCEPT !.rho = rho] ELSE note

\* Mutant: two inputs may have the same nullifier.
NullifiersUnique_Not(nfs) == TRUE

\* Section 9.
NullifiersUnique(nfs) == \A i, j \in Inputs : i # j => nfs[i] # nfs[j]

\* The sums of value over the items that are routed to each slot: publicBySlot,
\* sumInBySlot and sumOutBySlot of the tuples of lines, inputs and outputs.
BySlot(items, value(_)) ==
    LET values == [n \in DOMAIN items |-> value(items[n])]
    IN  [j \in Slots |-> FieldSum(values, {n \in DOMAIN items : j \in items[n].sel})]
Tuples(D, choices, value(_)) ==
    {[items |-> items, bySlot |-> BySlot(items, value)] : items \in [D -> choices]}

\* Section 10: inputs + public delta = outputs, per slot and in the field.
Conserved(in, public, out) ==
    \A j \in Slots : (in.bySlot[j] + public.bySlot[j]) % P = out.bySlot[j]
-----------------------------------------------------------------------------
Init ==
    /\ leaves = << >>
    /\ nullifiers = {}
    /\ rewardAcc = [a \in Assets |-> 0]
    /\ inflow = [a \in Assets |-> 0]
    /\ earned = [a \in Assets |-> 0]
    /\ claimed = [a \in Assets |-> 0]
    /\ consumed = {}

\* The reward of a note by the definition of ComputeReward's comment.
Reward(note) ==
    (note.amount * (rewardAcc[note.assetId] - note.acc)) \div ACCUMULATOR_SCALE

\* execute_transact with a proof of the circuit: the nullifiers are fresh, the
\* reward registry is current, and the outputs are appended.
Transact(ins, lines, notes) ==
    LET moved(a) == {i \in Publics : lines[i].assetId = a}
        spent(a) == {n \in Inputs : ins[n].note.assetId = a}
    IN  /\ nullifiers' = nullifiers \cup {Nullifier(ins[n].note) : n \in Inputs}
        /\ leaves' = leaves \o notes
        /\ inflow' = [a \in Assets |-> inflow[a]
             + Total([i \in moved(a) |-> lines[i].amount], moved(a))]
        /\ earned' = [a \in Assets |-> earned[a]
             + Total([n \in spent(a) |-> Reward(ins[n].note)], spent(a))]
        /\ claimed' = [a \in Assets |-> claimed[a]
             + Total([n \in spent(a) |-> ins[n].reward], spent(a))]
        /\ consumed' = consumed \cup ({ins[n].pos : n \in Inputs} \ {0})
        /\ UNCHANGED rewardAcc

\* The transactions that have a proof.
TransactStep ==
    LET lineValue(line) == ToField(line.amount)
        inValue(in)     == TotalValue(in)
        outAmount(out)  == out.note.amount
    IN  /\ Len(leaves) < MaxTransactions * nOutputNotes
        /\ \E on \in SUBSET Slots : \E roster \in [Slots -> Assets \cup {0}] :
           /\ RosterValid(roster, on)
           /\ \E acc \in SlotAccs(roster, on) :
              \E public \in Tuples(Publics, PublicChoices(roster, on), lineValue),
                 out \in Tuples(Outputs, OutputChoices(roster, on, acc), outAmount),
                 in \in Tuples(Inputs, InputChoices(roster, on, acc), inValue) :
                 LET nfs == [n \in Inputs |-> Nullifier(in.items[n].note)] IN
                 /\ Conserved(in, public, out)
                 /\ NullifiersUnique(nfs)
                 /\ \A n \in Inputs : nfs[n] \notin nullifiers
                 /\ \E rhos \in OutputRhos(nfs) :
                      Transact(in.items, public.items, [n \in Outputs |->
                          OutputNote(out.items[n].note, rhos[n])])

\* finalize_rewards of an asset's pool.
Accrue(a) ==
    /\ rewardAcc[a] < MaxAcc
    /\ rewardAcc' = [rewardAcc EXCEPT ![a] = @ + 1]
    /\ UNCHANGED <<leaves, nullifiers, inflow, earned, claimed, consumed>>

Next == TransactStep \/ \E a \in Assets : Accrue(a)

Spec == Init /\ [][Next]_vars
-----------------------------------------------------------------------------
\* Notes that hold value: not spent, and not padding.
Unspent(a) == {i \in DOMAIN leaves \ consumed : leaves[i].assetId = a}

\* What the notes of an asset hold.
Held(a) == Total([i \in Unspent(a) |-> leaves[i].amount], Unspent(a))

\* Whatever quotients provers pick, the notes of an asset hold at most what was
\* paid in, less what was paid out, plus the rewards claimed, as integers, and
\* less than that only by multiples of the prime: routing to slots, padding,
\* range checks and double spends open no other way to make value or lose it.
ClaimsConserved ==
    \A a \in Assets : LET lost == inflow[a] + claimed[a] - Held(a)
                      IN  lost >= 0 /\ lost % P = 0

\* Nobody can claim less than the reward of ComputeReward's comment, and as long
\* as nobody claimed more, value is conserved to the unit.
HonestClaimsExact ==
    \A a \in Assets :
        /\ earned[a] <= claimed[a]
        /\ claimed[a] = earned[a] => Held(a) = inflow[a] + earned[a]

\* "Value conservation is enforced per-asset": as integers, and not only
\* modulo the prime, the notes of an asset are worth what was paid in, less
\* what was paid out, plus the rewards of the notes spent on the way, each
\* rounded down.
ValueConserved == \A a \in Assets : Held(a) = inflow[a] + earned[a]

\* What a slot pays out stays below the prime, if B bounds the amounts of public
\* lines.
OutputsFit(B) ==
    /\ B \in Nat /\ PublicAmounts \subseteq -B..B
    /\ nOutputNotes * (RANGE - 1) + nPublicLines * B < P

\* So does what it takes in with rewards rounded down, if W bounds the products
\* of amounts and accumulators ...
NoWrap(W, B) ==
    /\ OutputsFit(B) /\ W \in 0..(P - 1)
    /\ nInputNotes * (RANGE - 1 + W \div ACCUMULATOR_SCALE) + nPublicLines * B < P

\* ... as W does.
ProductsBounded(W) ==
    \A i \in DOMAIN leaves : Enabled(leaves[i]) =>
        leaves[i].amount * rewardAcc[leaves[i].assetId] <= W

\* "each output rho is unique": no note becomes worthless because another note
\* has its nullifier, or because no registry line or accumulator admits it.
NotesSpendable ==
    \A i \in DOMAIN leaves \ consumed : Enabled(leaves[i]) =>
        /\ Nullifier(leaves[i]) \notin nullifiers
        /\ \E k \in Lines : rewardAssetId[k] = leaves[i].assetId
        /\ leaves[i].acc <= rewardAcc[leaves[i].assetId]
=============================================================================
