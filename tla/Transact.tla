------------------------------ MODULE Transact ------------------------------
(***************************************************************************)
(* The two-phase path of a shielded transaction: a transact session that   *)
(* is uploaded in chunks, deposit escrows that bind tokens to the hash of  *)
(* one session body, and execute_transact, which reads the session,        *)
(* consumes nullifiers and moves the tokens of its public slots.           *)
(*                                                                         *)
(* Abstractions.  A body (proof, params and encrypted outputs) is a value *)
(* with the public Params the hub acts on, its proofs verify, and it fills *)
(* BODY_CHUNKS chunks.  SHA256 is injective, so the hash of a session body *)
(* is its data.  All slots are of one mint.  Rent, events and trees are    *)
(* left out; the nullifier machinery is what NullifierSpends promises.     *)
(***************************************************************************)
EXTENDS Integers, Sequences, FiniteSetsExt

CONSTANTS
    Users,                  \* keys that can sign
    DefaultKey,             \* Pubkey::default()
    Nullifiers, N_INS,
    Bodies,                 \* the session bodies provers produce
    Params,                 \* what the hub reads in each body
    Zero,                   \* contents of a chunk nobody has written
    SessionKeys,            \* PDA seeds <<authority, nonce>> of sessions
    EscrowKeys,             \* PDA seeds <<depositor, nonce>> of escrows
    BODY_CHUNKS,            \* length of a complete body
    Lengths,                \* data_len values callers choose
    MAX_SESSION_DATA_LEN,   \* 4096
    SESSION_EXPIRY_SLOTS,   \* 216000
    Amounts, ExpirySlots,   \* arguments of init_deposit_escrow
    Supply,                 \* tokens each user starts with
    MaxSlot, MaxEpoch       \* bounds on the clock and on finalizations

Slots == 1..2               \* N_PUBLIC_LINES

ASSUME TransactAssumption ==
    /\ DefaultKey \notin Users
    /\ IsFiniteSet(Bodies) /\ IsFiniteSet(EscrowKeys)
    /\ SessionKeys \subseteq Users \X Nat /\ EscrowKeys \subseteq Users \X Nat
    /\ BODY_CHUNKS \in Nat \ {0} /\ Lengths \subseteq Nat
    /\ MAX_SESSION_DATA_LEN \in Nat /\ SESSION_EXPIRY_SLOTS \in Nat
    /\ Amounts \subseteq Nat /\ ExpirySlots \subseteq Nat
    /\ Supply \in Nat /\ MaxSlot \in Nat /\ MaxEpoch \in Nat
    /\ Zero \notin Bodies
    /\ DOMAIN Params = Bodies
    /\ \A b \in Bodies :
         /\ Params[b].nullifiers \subseteq Nullifiers /\ Params[b].nullifiers # {}
         /\ Params[b].relayer \in Users
         /\ \A i \in Slots : /\ Params[b].ext_amounts[i] \in Int
                              /\ Params[b].relayer_fees[i] \in Nat
                              /\ Params[b].recipients[i] \in Users \cup {DefaultKey}
         /\ Params[b].slot_expiry \in Nat /\ Params[b].reward_acc \in Nat

VARIABLES
    sessions,       \* TransactSession accounts
    escrows,        \* DepositEscrow accounts
    escrow_vault,   \* balances of the escrow vaults
    wallet,         \* balances of the users' token accounts
    pool,           \* balance of the pool's vault
    reward_acc,     \* the pool's reward_accumulator, counted in finalizations
    is_paused, slot,
    spends,         \* of NullifierSpends
    executions,     \* history: how often each body was executed
    debits          \* history: what executions took from escrows

vars == <<sessions, escrows, escrow_vault, wallet, pool, reward_acc, is_paused,
          slot, spends, executions, debits>>
chainVars == <<reward_acc, is_paused, slot>>

\* An account that does not exist.
NoSession == [live |-> FALSE, data |-> << >>, created_slot |-> 0]
NoEscrow  == [live |-> FALSE, proof_hash |-> << >>, authorized_relayer |-> DefaultKey,
              expiry_slot |-> 0, consumed |-> FALSE]

Nulls == INSTANCE NullifierSpends

Init ==
    /\ sessions = [k \in SessionKeys |-> NoSession]
    /\ escrows = [k \in EscrowKeys |-> NoEscrow]
    /\ escrow_vault = [k \in EscrowKeys |-> 0]
    /\ wallet = [u \in Users |-> Supply]
    /\ pool = 0
    /\ reward_acc = 0
    /\ is_paused = FALSE
    /\ slot = 0
    /\ Nulls!Init
    /\ executions = [b \in Bodies |-> 0]
    /\ debits = {}
-----------------------------------------------------------------------------
\* process_init_transact_session.
InitTransactSession(k, data_len) ==
    /\ ~sessions[k].live
    /\ data_len <= MAX_SESSION_DATA_LEN
    /\ sessions' = [sessions EXCEPT ![k] =
         [live |-> TRUE, data |-> [i \in 1..data_len |-> Zero], created_slot |-> slot]]
    /\ UNCHANGED <<escrows, escrow_vault, wallet, pool, chainVars, spends,
                   executions, debits>>

\* process_upload_transact_chunk: any order, overlaps overwrite.
UploadTransactChunk(signer, k, offset, chunk) ==
    /\ sessions[k].live
    /\ signer = k[1]
    /\ offset <= Len(sessions[k].data)
    /\ sessions' = [sessions EXCEPT ![k].data[offset] = chunk]
    /\ UNCHANGED <<escrows, escrow_vault, wallet, pool, chainVars, spends,
                   executions, debits>>

\* process_close_transact_session.
CloseTransactSession(signer, k) ==
    /\ sessions[k].live
    /\ signer = k[1] \/ slot - sessions[k].created_slot >= SESSION_EXPIRY_SLOTS
    /\ sessions' = [sessions EXCEPT ![k] = NoSession]
    /\ UNCHANGED <<escrows, escrow_vault, wallet, pool, chainVars, spends,
                   executions, debits>>

\* process_init_deposit_escrow.  The depositor names the body by its hash; the
\* expiry is bounded by the model's clock.
InitDepositEscrow(k, hash, amount, relayer, expiry_slots) ==
    /\ ~escrows[k].live
    /\ amount <= wallet[k[1]]
    /\ slot + expiry_slots < MaxSlot
    /\ wallet' = [wallet EXCEPT ![k[1]] = @ - amount]
    /\ escrow_vault' = [escrow_vault EXCEPT ![k] = @ + amount]
    /\ escrows' = [escrows EXCEPT ![k] =
         [live |-> TRUE, proof_hash |-> hash, authorized_relayer |-> relayer,
          expiry_slot |-> slot + expiry_slots, consumed |-> FALSE]]
    /\ UNCHANGED <<sessions, pool, chainVars, spends, executions, debits>>

is_expired(escrow) == slot > escrow.expiry_slot

\* Mutant: nothing is given back while the pool is paused.
CloseDepositEscrow_NotPaused(signer, k) ==
    /\ ~is_paused
    /\ escrows[k].live
    /\ signer = k[1]
    /\ ~escrows[k].consumed
    /\ is_expired(escrows[k])
    /\ wallet' = [wallet EXCEPT ![signer] = @ + escrow_vault[k]]
    /\ escrow_vault' = [escrow_vault EXCEPT ![k] = 0]
    /\ escrows' = [escrows EXCEPT ![k] = NoEscrow]
    /\ UNCHANGED <<sessions, pool, chainVars, spends, executions, debits>>

\* process_close_deposit_escrow.
CloseDepositEscrow(signer, k) ==
    /\ escrows[k].live
    /\ signer = k[1]
    /\ ~escrows[k].consumed
    /\ is_expired(escrows[k])
    /\ wallet' = [wallet EXCEPT ![signer] = @ + escrow_vault[k]]
    /\ escrow_vault' = [escrow_vault EXCEPT ![k] = 0]
    /\ escrows' = [escrows EXCEPT ![k] = NoEscrow]
    /\ UNCHANGED <<sessions, pool, chainVars, spends, executions, debits>>
-----------------------------------------------------------------------------
\* parse_session_data succeeds with body b; bytes after it are ignored.
ParsesAs(data, b) ==
    /\ Len(data) >= BODY_CHUNKS
    /\ \A i \in 1..BODY_CHUNKS : data[i] = b

\* Mutants: the proof hash is not compared; the consumed flag is not read.
VerifyEscrowForDeposit_AnyProof(escrow, data, relayer) ==
    /\ escrow.live
    /\ escrow.authorized_relayer \in {DefaultKey, relayer}
    /\ ~escrow.consumed
    /\ ~is_expired(escrow)
VerifyEscrowForDeposit_Reusable(escrow, data, relayer) ==
    /\ escrow.live
    /\ escrow.proof_hash = data
    /\ escrow.authorized_relayer \in {DefaultKey, relayer}
    /\ ~is_expired(escrow)

\* verify_escrow_for_deposit.
VerifyEscrowForDeposit(escrow, data, relayer) ==
    /\ escrow.live
    /\ escrow.proof_hash = data
    /\ escrow.authorized_relayer \in {DefaultKey, relayer}
    /\ ~escrow.consumed
    /\ ~is_expired(escrow)

\* Mutant: whoever executes picks the account that gets a withdrawal.
ValidateSlotTokenAccounts_AnyRecipient(b, i, u) ==
    LET ext == Params[b].ext_amounts[i]
        fee == Params[b].relayer_fees[i]
    IN  ext < 0 => fee <= -ext /\ (fee < -ext => u \in Users)

\* validate_slot_token_accounts: the recipient's token account is the one in the
\* body; it need only be a real one if something is left after the relayer's fee.
ValidateSlotTokenAccounts(b, i, u) ==
    LET ext == Params[b].ext_amounts[i]
        fee == Params[b].relayer_fees[i]
    IN  /\ u = Params[b].recipients[i]
        /\ ext < 0 => fee <= -ext /\ (fee < -ext => u # DefaultKey)

\* validate_inactive_slot, of the fields this model has.
InactiveSlot(b, i) ==
    Params[b].recipients[i] = DefaultKey /\ Params[b].relayer_fees[i] = 0

\* One round of execute_public_slots.  st is the token state of the running
\* instruction, e the escrow and u the recipient's account passed for the slot;
\* the relayer is paid from the escrow or from the withdrawal.  P5 makes the
\* relayer's account the one of the body's relayer.
ExecutePublicSlot(st, b, data, i, e, u) ==
    LET ext == Params[b].ext_amounts[i]
        fee == Params[b].relayer_fees[i]
        relayer == Params[b].relayer
        paid(w, net) == [v \in Users |-> w[v] + (IF v = u THEN net ELSE 0)
                                             + (IF v = relayer THEN fee ELSE 0)]
    IN  IF ext = 0 THEN [st EXCEPT !.ok = @ /\ InactiveSlot(b, i)]
        ELSE IF ext > 0
        THEN [ok |-> /\ st.ok
                     /\ ValidateSlotTokenAccounts(b, i, u)
                     /\ VerifyEscrowForDeposit(st.escrows[e], data, relayer)
                     /\ ext + fee <= st.escrow_vault[e],
              escrows |-> [st.escrows EXCEPT ![e].consumed = TRUE],
              escrow_vault |-> [st.escrow_vault EXCEPT ![e] = @ - ext - fee],
              wallet |-> paid(st.wallet, 0),
              pool |-> st.pool + ext,
              debits |-> st.debits \cup {[escrow |-> e, body |-> b, slot |-> i,
                                           named |-> st.escrows[e].proof_hash]}]
        ELSE [st EXCEPT !.ok = @ /\ ValidateSlotTokenAccounts(b, i, u) /\ -ext <= st.pool,
                        !.wallet = paid(@, -ext - fee),
                        !.pool = @ + ext]

\* validate_token_accumulator: a proof is good only for the accumulator it was
\* made with, so a finalization makes the proofs in flight stale.
AccumulatorsMatch(b) == Params[b].reward_acc = reward_acc

\* process_execute_transact: P2 to P12 check the body against the clock, the
\* pause flag and the accumulators, E1 consumes the nullifiers, E2 runs the
\* slots.  The relayer of the body signs and picks the accounts of the slots;
\* anybody may have made the session.
ExecuteTransact(k, b, es, us) ==
    LET data == sessions[k].data
        st0  == [ok |-> TRUE, escrows |-> escrows, escrow_vault |-> escrow_vault,
                 wallet |-> wallet, pool |-> pool, debits |-> debits]
        st1  == ExecutePublicSlot(st0, b, data, 1, es[1], us[1])
        st2  == ExecutePublicSlot(st1, b, data, 2, es[2], us[2])
    IN  /\ sessions[k].live
        /\ ParsesAs(data, b)
        /\ Params[b].slot_expiry > 0 => slot <= Params[b].slot_expiry
        /\ ~is_paused
        /\ AccumulatorsMatch(b)
        /\ Nulls!Spend(Params[b].nullifiers)
        /\ st2.ok
        /\ escrows' = st2.escrows
        /\ escrow_vault' = st2.escrow_vault
        /\ wallet' = st2.wallet
        /\ pool' = st2.pool
        /\ debits' = st2.debits
        /\ executions' = [executions EXCEPT ![b] = @ + 1]
        /\ UNCHANGED <<sessions, chainVars>>
-----------------------------------------------------------------------------
\* finalize_rewards of the pool changes the accumulator proofs refer to.
FinalizeRewards ==
    /\ reward_acc < MaxEpoch
    /\ reward_acc' = reward_acc + 1
    /\ UNCHANGED <<sessions, escrows, escrow_vault, wallet, pool, is_paused, slot,
                   spends, executions, debits>>

\* process_set_pool_paused, called by the authority.
SetPoolPaused(paused) ==
    /\ is_paused' = paused
    /\ UNCHANGED <<sessions, escrows, escrow_vault, wallet, pool, reward_acc, slot,
                   spends, executions, debits>>

\* The cluster's clock.
Tick ==
    /\ slot < MaxSlot
    /\ slot' = slot + 1
    /\ UNCHANGED <<sessions, escrows, escrow_vault, wallet, pool, reward_acc,
                   is_paused, spends, executions, debits>>

\* The hash of the session that holds exactly the body b.
HashOf(b) == [i \in 1..BODY_CHUNKS |-> b]

Next ==
    \/ \E k \in SessionKeys, n \in Lengths : InitTransactSession(k, n)
    \/ \E s \in Users, k \in SessionKeys, i \in 1..MAX_SESSION_DATA_LEN, b \in Bodies :
         UploadTransactChunk(s, k, i, b)
    \/ \E s \in Users, k \in SessionKeys : CloseTransactSession(s, k)
    \/ \E k \in EscrowKeys, b \in Bodies, a \in Amounts,
          r \in Users \cup {DefaultKey}, x \in ExpirySlots :
         InitDepositEscrow(k, HashOf(b), a, r, x)
    \/ \E s \in Users, k \in EscrowKeys : CloseDepositEscrow(s, k)
    \/ \E k \in SessionKeys, b \in Bodies, es \in [Slots -> EscrowKeys],
          us \in [Slots -> Users \cup {DefaultKey}] : ExecuteTransact(k, b, es, us)
    \/ FinalizeRewards
    \/ \E paused \in BOOLEAN : SetPoolPaused(paused)
    \/ Tick

Spec == Init /\ [][Next]_vars

\* Depositors reclaim what they may reclaim.
FairSpec ==
    /\ Spec
    /\ WF_vars(Tick)
    /\ \A k \in EscrowKeys : WF_vars(CloseDepositEscrow(k[1], k))
-----------------------------------------------------------------------------
\* "The relayer can only consume the escrow if they execute the exact proof the
\* user authorized": whatever is uploaded, overwritten or executed in between,
\* an escrow pays for the body its depositor named.
EscrowPaysNamedBody == \A d \in debits : d.named = HashOf(d.body)

\* The replay protection of the consumed flag: an escrow address pays once in
\* its life, through expiry, closing, re-creation under the same nonce, and two
\* slots of one transaction that are given the same escrow.
EscrowDebitedOnce == \A c, d \in debits : c.escrow = d.escrow => c = d

\* Every execution of a deposit is paid for slot by slot, each by an escrow of
\* its own, and no body is executed twice though its session stays open.
DepositSlots(b) == {i \in Slots : Params[b].ext_amounts[i] > 0}
DebitsMatchExecutions ==
    \A b \in Bodies :
        /\ executions[b] <= 1
        /\ Cardinality({d \in debits : d.body = b})
             = executions[b] * Cardinality(DepositSlots(b))

\* What an execution of b pays out to u, and what escrows of u paid for.
Received(b, u) ==
    LET ext(i) == Params[b].ext_amounts[i]
        fee(i) == Params[b].relayer_fees[i]
        rest(i) == IF Params[b].recipients[i] = u /\ ext(i) < 0 THEN -ext(i) - fee(i) ELSE 0
    IN  MapThenSumSet(rest, Slots)
        + (IF Params[b].relayer = u THEN MapThenSumSet(fee, Slots) ELSE 0)
Charged(u) ==
    LET charge(d) == Params[d.body].ext_amounts[d.slot] + Params[d.body].relayer_fees[d.slot]
    IN  MapThenSumSet(charge, {d \in debits : d.escrow[1] = u})

\* Each user's tokens are accounted for by the bodies alone, whoever uploads,
\* executes or closes and whatever accounts they pass: recipients and relayers
\* get what the executed bodies name, depositors are charged what their escrows
\* paid, and everything else is in the wallet or in a vault of their escrows,
\* what a consumed escrow held too much included.
WalletsExplained ==
    \A u \in Users :
        LET received(b) == executions[b] * Received(b, u)
            held(k) == escrow_vault[k]
        IN  wallet[u] + MapThenSumSet(held, {k \in EscrowKeys : k[1] = u})
              = Supply + MapThenSumSet(received, Bodies) - Charged(u)

\* No escrow waits for ever: whatever happens to its proof (expired, made stale
\* by a finalization, never uploaded) and even while the pool is paused, it is
\* consumed or its depositor gets the tokens back.
EscrowResolves ==
    \A k \in EscrowKeys :
        (escrows[k].live /\ ~escrows[k].consumed) ~>
        (escrows[k].consumed \/ ~escrows[k].live)
=============================================================================
