----------------------------- MODULE PoolNotes -----------------------------
(***************************************************************************)
(* A token pool together with the shielded notes of its asset: what        *)
(* execute_transact and the transaction circuit do to the value held in    *)
(* notes when they call the pool.  A note is its face amount and the       *)
(* reward accumulator it was created under.  The prover chooses ext_amount *)
(* and the fee; the hub checks them against the public amount of the proof *)
(* and turns them into the amounts of the pool call.                       *)
(***************************************************************************)
EXTENDS TokenPool, Sequences, SequencesExt

CONSTANTS
    Overpay,        \* how much more than the required fee provers offer
    MaxNotes        \* bound on the notes held at one time

ASSUME NotesAssumption == Overpay \subseteq Nat /\ MaxNotes \in Nat

VARIABLES
    notes,          \* the unspent notes of the asset
    promised,       \* history: sum of |ext_amount| of the withdrawals
    overpaid,       \* history: fees offered beyond the required ones
    fee_gap,        \* history: gross amounts booked beyond net and required fee
    uncounted       \* history: accumulator growth times the face value beyond
                    \* the balance it was computed from, in 1 / PRECISION

historyVars == <<promised, overpaid, fee_gap, uncounted>>
vars        == <<poolVars, notes, historyVars>>

\* ComputeReward of lib/rewards.circom: face amount and accrued reward.
Value(note) ==
    note.amount + (note.amount * (reward_accumulator - note.acc)) \div PRECISION

\* Mutant: an output note keeps an old accumulator.
NewNote_Stale(amount) == [amount |-> amount, acc |-> 0]

\* Output notes carry the current accumulator (section 6 of transaction.circom).
NewNote(amount) == [amount |-> amount, acc |-> reward_accumulator]

\* Mutant: the rest of a note is lost.
Spend_NoChange(i, amount) == RemoveAt(notes, i)

\* Spending notes[i] for less than its value leaves a note of the rest.
Spend(i, amount) ==
    IF amount = Value(notes[i])
    THEN RemoveAt(notes, i)
    ELSE [notes EXCEPT ![i] = NewNote(Value(notes[i]) - amount)]

\* Mutant: the pool is called with the net amount.
GrossAmount_Net(net, rate) == net

\* execute_token_slot_cpi: the gross amount of a withdrawal from its net one.
GrossAmount(net, rate) == (net * BASIS_POINTS) \div (BASIS_POINTS - rate)

\* validate_fee: the proof pays at least the fee of the pool's rate.
FeePaid(fee, amount, rate) == fee >= Fee(amount, rate)

Init ==
    /\ PoolInit
    /\ notes = << >>
    /\ promised = 0 /\ overpaid = 0 /\ fee_gap = 0 /\ uncounted = 0

\* A deposit: check_public_amount makes the new note worth ext_amount - fee.
Shield(ext_amount, fee) ==
    /\ Len(notes) < MaxNotes
    /\ FeePaid(fee, ext_amount, deposit_fee_rate)
    /\ fee <= ext_amount
    /\ Deposit(ext_amount)
    /\ notes' = Append(notes, NewNote(ext_amount - fee))
    /\ overpaid' = overpaid + fee - Fee(ext_amount, deposit_fee_rate)
    /\ UNCHANGED <<promised, fee_gap, uncounted>>

\* A private transfer: a note is replaced by one of the same value.
Transfer(i) ==
    /\ notes[i] # NewNote(Value(notes[i]))
    /\ notes' = [notes EXCEPT ![i] = NewNote(Value(notes[i]))]
    /\ UNCHANGED <<poolVars, historyVars>>

\* A withdrawal of net tokens: check_public_amount makes the proof burn
\* net + fee, validate_fee requires the fee of the net amount, and the pool is
\* called with the gross amount.
Unshield(i, net, fee) ==
    /\ FeePaid(fee, net, withdrawal_fee_rate)
    /\ net + fee <= Value(notes[i])
    /\ withdrawal_fee_rate < BASIS_POINTS
    /\ Withdraw(GrossAmount(net, withdrawal_fee_rate))
    /\ notes' = Spend(i, net + fee)
    /\ promised' = promised + net
    /\ overpaid' = overpaid + fee - Fee(net, withdrawal_fee_rate)
    /\ fee_gap' = fee_gap + GrossAmount(net, withdrawal_fee_rate)
                     - net - Fee(net, withdrawal_fee_rate)
    /\ UNCHANGED uncounted

SumOver(f(_)) == FoldLeft(LAMBDA s, note : s + f(note), 0, notes)
FaceValue == LET face(note) == note.amount IN SumOver(face)
Claims    == SumOver(Value)

\* Notes look on while the pool takes a step: one that moves the accumulator
\* serves their face value, computed from the balance of the pool.
NotesIdle ==
    /\ uncounted' = IF reward_accumulator' = reward_accumulator
                    THEN uncounted
                    ELSE uncounted + (reward_accumulator' - reward_accumulator)
                                         * (FaceValue - current_balance)
    /\ UNCHANGED <<notes, promised, overpaid, fee_gap>>

NotesNext ==
    \/ \E amount \in Amounts, extra \in Overpay :
         Shield(amount, Fee(amount, deposit_fee_rate) + extra)
    \/ \E i \in DOMAIN notes : Transfer(i)
    \/ \E i \in DOMAIN notes, net \in Amounts, extra \in Overpay :
         Unshield(i, net, Fee(net, withdrawal_fee_rate) + extra)
    \/ PoolNext /\ NotesIdle

NotesSpec == Init /\ [][NotesNext]_vars

\* FinalizeRewards is permissionless: somebody who holds a note calls it.
FairNotesSpec ==
    /\ NotesSpec
    /\ WF_vars(FinalizeRewards /\ NotesIdle)
    /\ WF_vars(Tick /\ NotesIdle)
-----------------------------------------------------------------------------
\* The principal that FinalizeRewards divides by is held in notes: no part of
\* a distribution goes to a balance nobody owns, unless a prover gave it away.
BalanceOwned == current_balance <= FaceValue + overpaid

\* The vault covers all that it owes, the claims of the notes with their
\* rewards, gifts, pending rewards and direct transfers, up to two leaks: the
\* gross amounts that withdrawals book beyond what their proofs burn, and the
\* rewards accrued on face value that the balance does not count, as that of
\* rewards which a transfer turned into principal.  No rounding, order of
\* finalizations and spends, or change of rates adds a third.
ClaimsBacked ==
    Claims + overpaid + total_pending + unswept
        <= vault + fee_gap + uncounted \div PRECISION

\* Recipients and relayers get exactly the |ext_amount| of their proofs: the
\* detour over the gross amount and its two roundings loses nothing.
PayoutMatchesProof == total_withdrawn - total_withdrawal_fees = promised
=============================================================================
