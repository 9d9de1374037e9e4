--------------------------- MODULE TransactProofs ---------------------------
(***************************************************************************)
(* Escrows and executions for every set of bodies, users and escrows: an   *)
(* escrow pays once and for the body its depositor named, no body executes *)
(* twice, and every wallet is explained by the bodies that executed.       *)
(***************************************************************************)
EXTENDS Transact, Arithmetic

\* The contents of the accounts.
Hashes == {HashOf(b) : b \in Bodies} \cup {<< >>}
EscrowRecords == [live : BOOLEAN, proof_hash : Hashes,
                  authorized_relayer : Users \cup {DefaultKey}, expiry_slot : Nat,
                  consumed : BOOLEAN]
DebitRecords == [escrow : EscrowKeys, body : Bodies, slot : Slots, named : Hashes]

\* The token state that execute_public_slots carries from slot to slot.
TokenStates == [ok : BOOLEAN, escrows : [EscrowKeys -> EscrowRecords],
                escrow_vault : [EscrowKeys -> Int], wallet : [Users -> Int],
                pool : Int, debits : SUBSET DebitRecords]

TokenState == [ok |-> TRUE, escrows |-> escrows, escrow_vault |-> escrow_vault,
               wallet |-> wallet, pool |-> pool, debits |-> debits]

\* Live escrows name a body; an escrow that has paid is consumed and stays in
\* its account, which is what keeps its nonce from being used again; and what
\* it paid for is the body it named.
EscrowsSound(st) ==
    /\ \A k \in EscrowKeys : st.escrows[k].live =>
           \E b \in Bodies : st.escrows[k].proof_hash = HashOf(b)
    /\ \A d \in st.debits : /\ st.escrows[d.escrow].live
                            /\ st.escrows[d.escrow].consumed
                            /\ d.named = HashOf(d.body)
    /\ \A c, d \in st.debits : c.escrow = d.escrow => c = d
    /\ IsFiniteSet(st.debits)

\* A session that parses as b and has the hash an escrow names is exactly b.
LEMMA NamedBody ==
    ASSUME NEW data, NEW b \in Bodies, NEW c \in Bodies, ParsesAs(data, b), data = HashOf(c)
    PROVE  data = HashOf(b)
  <1>1. 1 \in 1..BODY_CHUNKS
    BY TransactAssumption
  <1>2. data[1] = b /\ data[1] = c
    BY <1>1 DEF ParsesAs, HashOf
  <1>3. QED
    BY <1>2

\* What the parameters of a slot are.
LEMMA SlotParams ==
    ASSUME NEW b \in Bodies, NEW i \in Slots
    PROVE  /\ Params[b].ext_amounts[i] \in Int
           /\ Params[b].relayer_fees[i] \in Nat
           /\ Params[b].recipients[i] \in Users \cup {DefaultKey}
           /\ Params[b].relayer \in Users
  BY TransactAssumption

\* A slot takes a token state to a token state, and one that follows a failed
\* one fails.
LEMMA SlotType ==
    ASSUME NEW st \in TokenStates, NEW b \in Bodies, NEW data, NEW i \in Slots,
           NEW e \in EscrowKeys, NEW u, NEW r, r = ExecutePublicSlot(st, b, data, i, e, u)
    PROVE  r \in TokenStates /\ (r.ok => st.ok)
  <1> DEFINE ext == Params[b].ext_amounts[i]
             fee == Params[b].relayer_fees[i]
  <1>1. ext \in Int /\ fee \in Nat
    BY SlotParams
  <1>2. /\ st.escrows \in [EscrowKeys -> EscrowRecords] /\ st.escrow_vault \in [EscrowKeys -> Int]
        /\ st.wallet \in [Users -> Int] /\ st.pool \in Int /\ st.debits \in SUBSET DebitRecords
        /\ st.ok \in BOOLEAN
    BY DEF TokenStates
  <1>4. CASE ext = 0
    <2>1. r = [st EXCEPT !.ok = @ /\ InactiveSlot(b, i)]
      BY <1>4 DEF ExecutePublicSlot
    <2>2. QED
      BY <2>1 DEF TokenStates
  <1>5. CASE ext > 0
    <2> DEFINE ok == /\ st.ok
                     /\ ValidateSlotTokenAccounts(b, i, u)
                     /\ VerifyEscrowForDeposit(st.escrows[e], data, Params[b].relayer)
                     /\ ext + fee <= st.escrow_vault[e]
               taken == [st.escrows EXCEPT ![e].consumed = TRUE]
               left == [st.escrow_vault EXCEPT ![e] = @ - ext - fee]
               given == [v \in Users |-> st.wallet[v] + (IF v = u THEN 0 ELSE 0)
                           + (IF v = Params[b].relayer THEN fee ELSE 0)]
               d == [escrow |-> e, body |-> b, slot |-> i, named |-> st.escrows[e].proof_hash]
    <2>1. r = [ok |-> ok, escrows |-> taken, escrow_vault |-> left, wallet |-> given,
               pool |-> st.pool + ext, debits |-> st.debits \cup {d}]
      <3>1. ~(ext = 0) /\ ext > 0
        BY <1>1, <1>5
      <3>2. QED
        BY <3>1, Zenon DEF ExecutePublicSlot
    <2>2. taken \in [EscrowKeys -> EscrowRecords]
      <3>1. [st.escrows[e] EXCEPT !.consumed = TRUE] \in EscrowRecords
        BY <1>2 DEF EscrowRecords
      <3>2. QED
        BY <1>2, <3>1
    <2>3. d \in DebitRecords
      BY <1>2 DEF EscrowRecords, DebitRecords
    <2>4. left \in [EscrowKeys -> Int] /\ given \in [Users -> Int]
      BY <1>1, <1>2
    <2>5. ok \in BOOLEAN /\ (ok => st.ok)
      OBVIOUS
    <2> HIDE DEF ok, taken, left, given, d
    <2>6. QED
      BY <1>1, <1>2, <2>1, <2>2, <2>3, <2>4, <2>5 DEF TokenStates
  <1>6. CASE ext < 0
    <2> DEFINE paid == [v \in Users |-> st.wallet[v] + (IF v = u THEN -ext - fee ELSE 0)
                           + (IF v = Params[b].relayer THEN fee ELSE 0)]
               ok == st.ok /\ ValidateSlotTokenAccounts(b, i, u) /\ -ext <= st.pool
    <2>1. r = [st EXCEPT !.ok = @ /\ ValidateSlotTokenAccounts(b, i, u) /\ -ext <= st.pool,
                         !.wallet = paid, !.pool = @ + ext]
      BY <1>1, <1>6 DEF ExecutePublicSlot
    <2>2. paid \in [Users -> Int]
      BY <1>1, <1>2
    <2>3. /\ r.ok = ok
          /\ r.wallet = paid /\ r.pool = st.pool + ext
          /\ r.escrows = st.escrows /\ r.escrow_vault = st.escrow_vault
          /\ r.debits = st.debits
          /\ r = [ok |-> r.ok, escrows |-> r.escrows, escrow_vault |-> r.escrow_vault,
                  wallet |-> r.wallet, pool |-> r.pool, debits |-> r.debits]
      BY <2>1 DEF TokenStates
    <2>4. ok \in BOOLEAN /\ (ok => st.ok)
      OBVIOUS
    <2> HIDE DEF ok, paid
    <2>5. QED
      BY <1>1, <1>2, <2>2, <2>3, <2>4 DEF TokenStates
  <1>7. QED
    BY <1>1, <1>4, <1>5, <1>6

\* One slot that succeeds: an inactive one, ...
LEMMA InactiveStep ==
    ASSUME NEW st \in TokenStates, NEW b \in Bodies, NEW data, NEW i \in Slots,
           NEW e \in EscrowKeys, NEW u, Params[b].ext_amounts[i] = 0,
           ExecutePublicSlot(st, b, data, i, e, u).ok
    PROVE  /\ st.ok /\ Params[b].relayer_fees[i] = 0
           /\ ExecutePublicSlot(st, b, data, i, e, u) = st
  <1>1. ExecutePublicSlot(st, b, data, i, e, u) = [st EXCEPT !.ok = @ /\ InactiveSlot(b, i)]
    BY DEF ExecutePublicSlot
  <1>2. [st EXCEPT !.ok = @ /\ InactiveSlot(b, i)].ok = (st.ok /\ InactiveSlot(b, i))
    BY DEF TokenStates
  <1>3. st.ok /\ InactiveSlot(b, i)
    BY <1>1, <1>2
  <1>4. [st EXCEPT !.ok = @ /\ InactiveSlot(b, i)] = st
    BY <1>3 DEF TokenStates
  <1>5. QED
    BY <1>1, <1>3, <1>4 DEF InactiveSlot

\* What one slot of b takes out of an escrow, and what it pays to v.
Charge == [d \in DebitRecords |->
             Params[d.body].ext_amounts[d.slot] + Params[d.body].relayer_fees[d.slot]]
SlotReceived(b, i, v) ==
    (IF Params[b].recipients[i] = v /\ Params[b].ext_amounts[i] < 0
     THEN -Params[b].ext_amounts[i] - Params[b].relayer_fees[i] ELSE 0)
    + (IF Params[b].relayer = v THEN Params[b].relayer_fees[i] ELSE 0)

\* ... a deposit, which takes its tokens from an escrow that has not paid yet ...
LEMMA DepositStep ==
    ASSUME NEW st \in TokenStates, NEW b \in Bodies, NEW data, NEW i \in Slots,
           NEW e \in EscrowKeys, NEW u, Params[b].ext_amounts[i] > 0,
           EscrowsSound(st), ParsesAs(data, b),
           NEW r, r = ExecutePublicSlot(st, b, data, i, e, u), r.ok,
           NEW d, d = [escrow |-> e, body |-> b, slot |-> i,
                       named |-> st.escrows[e].proof_hash]
    PROVE  /\ st.ok /\ r \in TokenStates /\ EscrowsSound(r)
           /\ d \in DebitRecords /\ d \notin st.debits /\ r.debits = st.debits \cup {d}
           /\ r.escrow_vault = [st.escrow_vault EXCEPT ![e] = @ - Charge[d]]
           /\ r.wallet = [v \in Users |-> st.wallet[v] + SlotReceived(b, i, v)]
  <1> DEFINE ext == Params[b].ext_amounts[i]
             fee == Params[b].relayer_fees[i]
             escrow == st.escrows[e]
  <1>1. /\ ext \in Int /\ ext > 0 /\ fee \in Nat
        /\ Params[b].relayer \in Users
    BY SlotParams
  <1> DEFINE ok == /\ st.ok
                   /\ ValidateSlotTokenAccounts(b, i, u)
                   /\ VerifyEscrowForDeposit(escrow, data, Params[b].relayer)
                   /\ ext + fee <= st.escrow_vault[e]
             taken == [st.escrows EXCEPT ![e].consumed = TRUE]
             left == [st.escrow_vault EXCEPT ![e] = @ - ext - fee]
             paid == [v \in Users |-> st.wallet[v] + (IF v = u THEN 0 ELSE 0)
                         + (IF v = Params[b].relayer THEN fee ELSE 0)]
  <1>r. r = [ok |-> ok, escrows |-> taken, escrow_vault |-> left, wallet |-> paid,
             pool |-> st.pool + ext, debits |-> st.debits \cup {d}]
    <2>1. ~(ext = 0) /\ ext > 0
      BY <1>1
    <2>2. QED
      BY <2>1, Zenon DEF ExecutePublicSlot
  <1>2. /\ st.ok
        /\ VerifyEscrowForDeposit(escrow, data, Params[b].relayer)
        /\ r.ok = TRUE
    <2> HIDE DEF taken, left, paid
    <2>1. r.ok = ok
      <3> HIDE DEF ok
      <3>1. QED
        BY <1>r
    <2>2. QED
      BY <2>1
  <1>3. /\ r.escrows = taken /\ r.escrow_vault = left /\ r.wallet = paid
        /\ r.pool = st.pool + ext
        /\ r.debits = st.debits \cup {d}
        /\ r = [ok |-> r.ok, escrows |-> r.escrows, escrow_vault |-> r.escrow_vault,
                wallet |-> r.wallet, pool |-> r.pool, debits |-> r.debits]
    <2> HIDE DEF ok, taken, left, paid
    <2>1. QED
      BY <1>r
  <1>4. escrow.live /\ ~escrow.consumed /\ escrow.proof_hash = HashOf(b)
    BY <1>2, NamedBody DEF VerifyEscrowForDeposit, EscrowsSound
  <1>5. d \in DebitRecords /\ d.escrow = e /\ d.body = b /\ d.slot = i /\ d.named = HashOf(b)
    BY <1>4 DEF DebitRecords, Hashes
  <1>6. d \notin st.debits /\ \A c \in st.debits : c.escrow # e
    BY <1>4, <1>5 DEF EscrowsSound
  <1>7. Charge[d] = ext + fee
    BY <1>5 DEF Charge
  <1>8. r.escrow_vault = [st.escrow_vault EXCEPT ![e] = @ - Charge[d]]
    <2>1. st.escrow_vault[e] - ext - fee = st.escrow_vault[e] - (ext + fee)
      BY <1>1 DEF TokenStates
    <2>2. QED
      BY <1>3, <1>7, <2>1
  <1>9. r.wallet = [v \in Users |-> st.wallet[v] + SlotReceived(b, i, v)]
    <2>1. ASSUME NEW v \in Users
          PROVE  st.wallet[v] + (IF v = u THEN 0 ELSE 0)
                   + (IF v = Params[b].relayer THEN fee ELSE 0)
                 = st.wallet[v] + SlotReceived(b, i, v)
      BY <1>1 DEF TokenStates, SlotReceived
    <2>2. QED
      BY <1>3, <2>1
  <1>11. r \in TokenStates
    BY SlotType
  <1>12. EscrowsSound(r)
    <2>1. ASSUME NEW k \in EscrowKeys
          PROVE  /\ r.escrows[k].live = st.escrows[k].live
                 /\ r.escrows[k].proof_hash = st.escrows[k].proof_hash
                 /\ st.escrows[k].consumed => r.escrows[k].consumed
      BY <1>3 DEF TokenStates, EscrowRecords
    <2>2. r.escrows[e].consumed
      BY <1>3 DEF TokenStates, EscrowRecords
    <2>3. \A c \in st.debits : c.escrow \in EscrowKeys
      BY DEF TokenStates, DebitRecords
    <2>4. IsFiniteSet(r.debits)
      BY <1>3, FS_AddElement DEF EscrowsSound
    <2>5. \A c, f \in r.debits : c.escrow = f.escrow => c = f
      BY <1>3, <1>5, <1>6 DEF EscrowsSound
    <2>6. \A f \in r.debits : /\ r.escrows[f.escrow].live
                              /\ r.escrows[f.escrow].consumed
                              /\ f.named = HashOf(f.body)
      BY <1>3, <1>4, <1>5, <2>1, <2>2, <2>3 DEF EscrowsSound
    <2>7. QED
      BY <2>1, <2>4, <2>5, <2>6 DEF EscrowsSound
  <1>13. QED
    BY <1>2, <1>3, <1>5, <1>6, <1>8, <1>9, <1>11, <1>12

\* ... or a withdrawal, which pays the recipient the body names.
LEMMA WithdrawStep ==
    ASSUME NEW st \in TokenStates, NEW b \in Bodies, NEW data, NEW i \in Slots,
           NEW e \in EscrowKeys, NEW u, Params[b].ext_amounts[i] < 0,
           EscrowsSound(st),
           NEW r, r = ExecutePublicSlot(st, b, data, i, e, u), r.ok
    PROVE  /\ st.ok /\ r \in TokenStates /\ EscrowsSound(r)
           /\ r.debits = st.debits /\ r.escrow_vault = st.escrow_vault
           /\ r.wallet = [v \in Users |-> st.wallet[v] + SlotReceived(b, i, v)]
  <1> DEFINE ext == Params[b].ext_amounts[i]
             fee == Params[b].relayer_fees[i]
             paid == [v \in Users |-> st.wallet[v] + (IF v = u THEN -ext - fee ELSE 0)
                         + (IF v = Params[b].relayer THEN fee ELSE 0)]
  <1>1. /\ ext \in Int /\ ext < 0 /\ fee \in Nat
        /\ Params[b].relayer \in Users
    BY SlotParams
  <1>2. r = [st EXCEPT !.ok = @ /\ ValidateSlotTokenAccounts(b, i, u) /\ -ext <= st.pool,
                       !.wallet = paid, !.pool = @ + ext]
    BY <1>1 DEF ExecutePublicSlot
  <1>3. /\ r.ok = (st.ok /\ ValidateSlotTokenAccounts(b, i, u) /\ -ext <= st.pool)
        /\ r.wallet = paid /\ r.pool = st.pool + ext
        /\ r.escrows = st.escrows /\ r.escrow_vault = st.escrow_vault
        /\ r.debits = st.debits
        /\ r = [ok |-> r.ok, escrows |-> r.escrows, escrow_vault |-> r.escrow_vault,
                wallet |-> r.wallet, pool |-> r.pool, debits |-> r.debits]
    BY <1>2 DEF TokenStates
  <1>4. st.ok /\ u = Params[b].recipients[i] /\ r.ok = TRUE
    BY <1>3 DEF ValidateSlotTokenAccounts
  <1>5. r.wallet = [v \in Users |-> st.wallet[v] + SlotReceived(b, i, v)]
    <2>1. ASSUME NEW v \in Users
          PROVE  paid[v] = st.wallet[v] + SlotReceived(b, i, v)
      BY <1>1, <1>4 DEF TokenStates, SlotReceived
    <2>2. QED
      BY <1>3, <2>1
  <1>7. r \in TokenStates
    BY SlotType
  <1>8. EscrowsSound(r)
    BY <1>3 DEF EscrowsSound
  <1>9. QED
    BY <1>3, <1>4, <1>5, <1>7, <1>8

-----------------------------------------------------------------------------
\* The wallet of v, the vaults of its escrows, and what these have paid.
EscrowsOf(v)     == {k \in EscrowKeys : k[1] = v}
DebitsOf(st, v)  == {d \in st.debits : d.escrow[1] = v}
Balance(st, v)   == st.wallet[v] + Sum(st.escrow_vault, EscrowsOf(v)) + Sum(Charge, DebitsOf(st, v))

\* The debits of a slot: one of its own if it is a deposit, otherwise none.
SlotDebits(st, r, b, i) ==
    IF Params[b].ext_amounts[i] > 0
    THEN \E d \in r.debits : /\ d \notin st.debits /\ r.debits = st.debits \cup {d}
                             /\ d.body = b /\ d.slot = i
    ELSE r.debits = st.debits

\* What a debit charges is an integer.
LEMMA ChargeType == \A d \in DebitRecords : Charge[d] \in Int
  BY SlotParams DEF Charge, DebitRecords

\* The sums in a balance are sums of integers over finite sets.
LEMMA BalanceParts ==
    ASSUME NEW st \in TokenStates, IsFiniteSet(st.debits), NEW v \in Users
    PROVE  /\ IsFiniteSet(EscrowsOf(v)) /\ IsFiniteSet(DebitsOf(st, v))
           /\ \A k \in EscrowsOf(v) : st.escrow_vault[k] \in Int
           /\ \A d \in DebitsOf(st, v) : Charge[d] \in Int
           /\ Sum(st.escrow_vault, EscrowsOf(v)) \in Int
           /\ Sum(Charge, DebitsOf(st, v)) \in Int
  <1>1. IsFiniteSet(EscrowsOf(v))
    BY TransactAssumption, FS_Subset DEF EscrowsOf
  <1>2. IsFiniteSet(DebitsOf(st, v))
    BY FS_Subset DEF DebitsOf
  <1>3. \A k \in EscrowsOf(v) : st.escrow_vault[k] \in Int
    BY DEF TokenStates, EscrowsOf
  <1>4. \A d \in DebitsOf(st, v) : Charge[d] \in Int
    BY ChargeType DEF TokenStates, DebitsOf
  <1>5. Sum(st.escrow_vault, EscrowsOf(v)) \in Int
    BY <1>1, <1>3, SumType
  <1>6. Sum(Charge, DebitsOf(st, v)) \in Int
    BY <1>2, <1>4, SumType
  <1>7. QED
    BY <1>1, <1>2, <1>3, <1>4, <1>5, <1>6

\* What a deposit takes from a vault is charged to the owner of the escrow.
LEMMA DepositBalance ==
    ASSUME NEW st \in TokenStates, NEW r \in TokenStates, IsFiniteSet(st.debits),
           NEW d \in DebitRecords, d \notin st.debits, r.debits = st.debits \cup {d},
           r.escrow_vault = [st.escrow_vault EXCEPT ![d.escrow] = @ - Charge[d]],
           NEW v \in Users
    PROVE  Sum(r.escrow_vault, EscrowsOf(v)) + Sum(Charge, DebitsOf(r, v))
             = Sum(st.escrow_vault, EscrowsOf(v)) + Sum(Charge, DebitsOf(st, v))
  <1> DEFINE e == d.escrow
             f == st.escrow_vault
             g == r.escrow_vault
             K == EscrowsOf(v)
             D == DebitsOf(st, v)
             c == Charge[d]
             m == -Charge[d]
  <1>1. e \in EscrowKeys /\ c \in Int /\ m \in Int
    BY ChargeType DEF DebitRecords
  <1>2. IsFiniteSet(K) /\ IsFiniteSet(D) /\ Sum(f, K) \in Int /\ Sum(Charge, D) \in Int
    BY BalanceParts
  <1>3. (\A k \in K : f[k] \in Int) /\ (\A x \in D : Charge[x] \in Int)
    BY BalanceParts
  <1>4. g[e] = f[e] + m /\ \A k \in EscrowKeys \ {e} : g[k] = f[k]
    BY <1>1 DEF TokenStates
  <1>5. K \subseteq EscrowKeys
    BY DEF EscrowsOf
  <1>6. CASE e[1] = v
    <2>1. e \in K
      BY <1>1, <1>6 DEF EscrowsOf
    <2>2. DebitsOf(r, v) = D \cup {d} /\ d \notin D
      BY <1>6 DEF DebitsOf
    <2>3. \A y \in K \ {e} : g[y] = f[y]
      BY <1>4, <1>5
    <2> HIDE DEF f, g, K, D, c, m
    <2>4. Sum(g, K) = Sum(f, K) + m
      BY <1>1, <1>2, <1>3, <1>4, <2>1, <2>3, SumShift
    <2>5. \A x \in D \cup {d} : Charge[x] \in Int
      BY <1>1, <1>3 DEF c
    <2>6. Sum(Charge, D \cup {d}) = Sum(Charge, D) + Charge[d]
      <3>1. d \notin D /\ IsFiniteSet(D)
        BY <1>2, <2>2
      <3>2. QED
        BY <2>5, <3>1, SumAdd
    <2>7. Sum(g, K) + Sum(Charge, D \cup {d}) = Sum(f, K) + Sum(Charge, D)
      BY <1>1, <1>2, <2>4, <2>6 DEF c, m
    <2>8. QED
      BY <2>2, <2>7 DEF f, g, K, D
  <1>7. CASE e[1] # v
    <2>1. DebitsOf(r, v) = D
      BY <1>7 DEF DebitsOf
    <2>2. \A k \in K : f[k] = g[k]
      BY <1>4, <1>5, <1>7 DEF EscrowsOf
    <2> HIDE DEF f, g, K, D
    <2>3. Sum(f, K) = Sum(g, K)
      BY <1>2, <2>2, SumCong
    <2>4. QED
      BY <2>1, <2>3 DEF f, g, K, D
  <1>8. QED
    BY <1>6, <1>7

\* Any slot that succeeds: escrows stay sound, every balance grows by what the
\* body names, and the debits by those of the slot.
LEMMA SlotStep ==
    ASSUME NEW st \in TokenStates, NEW b \in Bodies, NEW data, NEW i \in Slots,
           NEW e \in EscrowKeys, NEW u, EscrowsSound(st), ParsesAs(data, b),
           NEW r, r = ExecutePublicSlot(st, b, data, i, e, u), r.ok
    PROVE  /\ EscrowsSound(r) /\ SlotDebits(st, r, b, i)
           /\ \A v \in Users : Balance(r, v) = Balance(st, v) + SlotReceived(b, i, v)
  <1> DEFINE ext == Params[b].ext_amounts[i]
             fee == Params[b].relayer_fees[i]
             d == [escrow |-> e, body |-> b, slot |-> i, named |-> st.escrows[e].proof_hash]
  <1>1. ext \in Int /\ fee \in Nat
    BY SlotParams
  <1>2. r \in TokenStates /\ IsFiniteSet(st.debits)
    BY SlotType DEF EscrowsSound
  <1>3. \A v \in Users : /\ SlotReceived(b, i, v) \in Int /\ st.wallet[v] \in Int
                         /\ Sum(st.escrow_vault, EscrowsOf(v)) \in Int
                         /\ Sum(Charge, DebitsOf(st, v)) \in Int
    BY <1>1, <1>2, BalanceParts DEF SlotReceived, TokenStates
  <1>4. CASE ext = 0
    <2>1. r = st /\ fee = 0
      BY <1>4, InactiveStep
    <2>2. \A v \in Users : SlotReceived(b, i, v) = 0
      BY <1>4, <2>1 DEF SlotReceived
    <2>3. \A v \in Users : Balance(r, v) = Balance(st, v) + SlotReceived(b, i, v)
      BY <1>3, <2>1, <2>2 DEF Balance
    <2>4. QED
      BY <1>4, <2>1, <2>3 DEF SlotDebits
  <1>5. CASE ext > 0
    <2>1. /\ EscrowsSound(r)
          /\ d \in DebitRecords /\ d \notin st.debits /\ r.debits = st.debits \cup {d}
          /\ r.escrow_vault = [st.escrow_vault EXCEPT ![e] = @ - Charge[d]]
          /\ r.wallet = [v \in Users |-> st.wallet[v] + SlotReceived(b, i, v)]
      BY <1>5, DepositStep
    <2>2. d.escrow = e /\ d.body = b /\ d.slot = i
      OBVIOUS
    <2> HIDE DEF d
    <2>3. SlotDebits(st, r, b, i)
      BY <1>5, <2>1, <2>2 DEF SlotDebits
    <2>4. r.escrow_vault = [st.escrow_vault EXCEPT ![d.escrow] = @ - Charge[d]]
      BY <2>1, <2>2
    <2>5. ASSUME NEW v \in Users
          PROVE  Balance(r, v) = Balance(st, v) + SlotReceived(b, i, v)
      <3>1. Sum(r.escrow_vault, EscrowsOf(v)) + Sum(Charge, DebitsOf(r, v))
              = Sum(st.escrow_vault, EscrowsOf(v)) + Sum(Charge, DebitsOf(st, v))
        BY <1>2, <2>1, <2>4, DepositBalance
      <3>2. r.wallet[v] = st.wallet[v] + SlotReceived(b, i, v)
        BY <2>1
      <3>3. /\ Sum(r.escrow_vault, EscrowsOf(v)) \in Int
            /\ Sum(Charge, DebitsOf(r, v)) \in Int
        <4>1. IsFiniteSet(r.debits)
          BY <2>1 DEF EscrowsSound
        <4>2. QED
          BY <1>2, <4>1, BalanceParts
      <3>4. QED
        BY <1>3, <3>1, <3>2, <3>3 DEF Balance
    <2>6. QED
      BY <2>1, <2>3, <2>5
  <1>6. CASE ext < 0
    <2>1. /\ EscrowsSound(r)
          /\ r.debits = st.debits /\ r.escrow_vault = st.escrow_vault
          /\ r.wallet = [v \in Users |-> st.wallet[v] + SlotReceived(b, i, v)]
      BY <1>6, WithdrawStep
    <2>2. SlotDebits(st, r, b, i)
      BY <1>1, <1>6, <2>1 DEF SlotDebits
    <2>3. ASSUME NEW v \in Users
          PROVE  Balance(r, v) = Balance(st, v) + SlotReceived(b, i, v)
      <3>1. DebitsOf(r, v) = DebitsOf(st, v)
        BY <2>1 DEF DebitsOf
      <3>2. r.wallet[v] = st.wallet[v] + SlotReceived(b, i, v)
        BY <2>1
      <3>3. QED
        BY <1>3, <2>1, <3>1, <3>2 DEF Balance
    <2>4. QED
      BY <2>1, <2>2, <2>3
  <1>7. QED
    BY <1>1, <1>4, <1>5, <1>6

-----------------------------------------------------------------------------
\* A body that was executed has spent its nullifiers, so it is not executed again.
ExecutedOnce ==
    /\ spends \in [Nullifiers -> {0, 1}]
    /\ executions \in [Bodies -> {0, 1}]
    /\ \A b \in Bodies : executions[b] = 1 =>
           \A n \in Params[b].nullifiers : spends[n] = 1

\* The debits are those of the deposit slots of the executed bodies, one each.
DebitsPaired ==
    /\ \A d \in debits : executions[d.body] = 1 /\ d.slot \in DepositSlots(d.body)
    /\ \A c, d \in debits : c.body = d.body /\ c.slot = d.slot => c = d
    /\ \A b \in Bodies : executions[b] = 1 =>
           \A i \in DepositSlots(b) : \E d \in debits : d.body = b /\ d.slot = i

\* What the executions in ex have paid to v, body by body.
Payment(b, v) == SlotReceived(b, 1, v) + SlotReceived(b, 2, v)
Payments(ex, v) == [b \in Bodies |-> ex[b] * Payment(b, v)]
BalancesExplained ==
    \A v \in Users : Balance(TokenState, v) = Supply + Sum(Payments(executions, v), Bodies)

IInv ==
    /\ slot \in Nat
    /\ TokenState \in TokenStates
    /\ EscrowsSound(TokenState)
    /\ ExecutedOnce
    /\ DebitsPaired
    /\ BalancesExplained

\* The invariant on balances after a step.
LEMMA BalancesNext ==
    BalancesExplained' <=>
        \A v \in Users : Balance(TokenState', v) = Supply + Sum(Payments(executions', v), Bodies)
  BY DEF BalancesExplained, Balance, EscrowsOf, DebitsOf, Charge, Payments, Payment,
         SlotReceived, DebitRecords, Hashes, HashOf, Slots,
         Sum, MapThenSumSet, MapThenFoldSet

\* So are the tokens.
LEMMA TokensNext ==
    /\ (TokenState \in TokenStates)' <=> TokenState' \in TokenStates
    /\ EscrowsSound(TokenState)' <=> EscrowsSound(TokenState')
  BY DEF EscrowsSound, TokenState, TokenStates, EscrowRecords, DebitRecords, Hashes, HashOf, Slots

\* Tokens that move between a wallet and a vault of the same user.
LEMMA MoveBalance ==
    ASSUME NEW st \in TokenStates, NEW r \in TokenStates, IsFiniteSet(st.debits),
           NEW k \in EscrowKeys, NEW m \in Int, r.debits = st.debits,
           r.wallet = [st.wallet EXCEPT ![k[1]] = @ - m],
           r.escrow_vault[k] = st.escrow_vault[k] + m,
           \A j \in EscrowKeys \ {k} : r.escrow_vault[j] = st.escrow_vault[j],
           NEW v \in Users
    PROVE  Balance(r, v) = Balance(st, v)
  <1> DEFINE f == st.escrow_vault
             g == r.escrow_vault
             K == EscrowsOf(v)
  <1>1. /\ IsFiniteSet(K) /\ Sum(f, K) \in Int
        /\ \A j \in K : f[j] \in Int
        /\ Sum(Charge, DebitsOf(st, v)) \in Int
    BY BalanceParts
  <1>2. DebitsOf(r, v) = DebitsOf(st, v)
    BY DEF DebitsOf
  <1>3. st.wallet \in [Users -> Int] /\ k[1] \in Users
    BY TransactAssumption DEF TokenStates
  <1>4. CASE k[1] = v
    <2>1. k \in K /\ \A j \in K \ {k} : g[j] = f[j]
      BY <1>4 DEF EscrowsOf
    <2>2. g[k] = f[k] + m
      OBVIOUS
    <2>3. r.wallet[v] = st.wallet[v] - m
      BY <1>3, <1>4
    <2> HIDE DEF f, g, K
    <2>4. Sum(g, K) = Sum(f, K) + m
      <3>1. k \in K /\ IsFiniteSet(K) /\ m \in Int
        BY <1>1, <2>1
      <3>2. \A j \in K : f[j] \in Int
        BY <1>1
      <3>3. \A j \in K \ {k} : g[j] = f[j]
        BY <2>1
      <3>4. QED
        BY <2>2, <3>1, <3>2, <3>3, SumShift
    <2>5. r.wallet[v] + Sum(g, K) + Sum(Charge, DebitsOf(st, v))
            = st.wallet[v] + Sum(f, K) + Sum(Charge, DebitsOf(st, v))
      BY <1>1, <1>3, <2>3, <2>4
    <2>6. QED
      BY <1>2, <2>5 DEF Balance, f, g, K
  <1>5. CASE k[1] # v
    <2>1. \A j \in K : f[j] = g[j]
      BY <1>5 DEF EscrowsOf
    <2>2. r.wallet[v] = st.wallet[v]
      BY <1>3, <1>5
    <2> HIDE DEF f, g, K
    <2>3. Sum(f, K) = Sum(g, K)
      BY <1>1, <2>1, SumCong
    <2>4. QED
      BY <1>2, <2>2, <2>3 DEF Balance, f, g, K
  <1>6. QED
    BY <1>4, <1>5

\* Without sessions, escrows and debits there is nothing to explain.
LEMMA InitInvariant == Init => IInv
  <1> SUFFICES ASSUME Init PROVE IInv
    OBVIOUS
  <1>1. slot \in Nat /\ ExecutedOnce /\ DebitsPaired
    BY DEF Init, Nulls!Init, ExecutedOnce, DebitsPaired
  <1>2. TokenState \in TokenStates
    <2>1. NoEscrow \in EscrowRecords
      BY DEF NoEscrow, EscrowRecords, Hashes
    <2>2. QED
      BY <2>1, TransactAssumption DEF Init, TokenState, TokenStates
  <1>3. EscrowsSound(TokenState)
    <2>1. IsFiniteSet({})
      BY FS_EmptySet
    <2>2. QED
      BY <2>1 DEF Init, TokenState, EscrowsSound, NoEscrow
  <1>4. ASSUME NEW v \in Users
        PROVE  Balance(TokenState, v) = Supply + Sum(Payments(executions, v), Bodies)
    <2> DEFINE f == TokenState.escrow_vault
               h == Payments(executions, v)
    <2>1. DebitsOf(TokenState, v) = {} /\ TokenState.wallet[v] = Supply
      BY DEF Init, TokenState, DebitsOf
    <2>2. \A k \in EscrowsOf(v) : f[k] = 0
      BY DEF Init, TokenState, EscrowsOf
    <2>3. \A b \in Bodies : h[b] = 0
      <3> SUFFICES ASSUME NEW b \in Bodies PROVE h[b] = 0
        OBVIOUS
      <3>1. Payment(b, v) \in Int
        BY SlotParams DEF Payment, SlotReceived, Slots
      <3>2. QED
        BY <3>1 DEF Init, Payments
    <2>4. IsFiniteSet(EscrowsOf(v)) /\ IsFiniteSet(Bodies)
      BY TransactAssumption, FS_Subset DEF EscrowsOf
    <2> HIDE DEF f, h
    <2>5. Sum(f, EscrowsOf(v)) = 0
      BY <2>2, <2>4, SumZero
    <2>6. Sum(h, Bodies) = 0
      BY <2>3, <2>4, SumZero
    <2>7. Sum(Charge, {}) = 0
      BY SumEmpty
    <2>8. QED
      BY <2>1, <2>5, <2>6, <2>7, TransactAssumption DEF Balance, f, h
  <1>5. QED
    BY <1>1, <1>2, <1>3, <1>4 DEF IInv, BalancesExplained

\* Steps that touch neither tokens nor nullifiers: sessions, finalizations, the
\* pause flag and the clock.
LEMMA QuietInvariant ==
    ASSUME IInv, slot' \in Nat,
           UNCHANGED <<escrows, escrow_vault, wallet, pool, spends, executions, debits>>
    PROVE  IInv'
  <1>1. TokenState' = TokenState
    BY DEF TokenState
  <1>2. (TokenState \in TokenStates)' /\ EscrowsSound(TokenState)'
    BY <1>1, TokensNext DEF IInv
  <1>3. ExecutedOnce' /\ DebitsPaired'
    BY DEF IInv, ExecutedOnce, DebitsPaired
  <1>4. BalancesExplained'
    BY <1>1, BalancesNext DEF IInv, BalancesExplained
  <1>5. QED
    BY <1>2, <1>3, <1>4 DEF IInv

\* A new escrow: its account was closed or never used, so it has paid nothing.
LEMMA InitEscrowInvariant ==
    ASSUME IInv, NEW k \in EscrowKeys, NEW b \in Bodies, NEW a \in Amounts,
           NEW relayer \in Users \cup {DefaultKey}, NEW x \in ExpirySlots,
           InitDepositEscrow(k, HashOf(b), a, relayer, x)
    PROVE  IInv'
  <1> DEFINE st == TokenState
             r == TokenState'
             new == [live |-> TRUE, proof_hash |-> HashOf(b), authorized_relayer |-> relayer,
                     expiry_slot |-> slot + x, consumed |-> FALSE]
  <1>1. /\ st \in TokenStates /\ EscrowsSound(st) /\ slot \in Nat /\ a \in Nat /\ x \in Nat
        /\ k[1] \in Users
    BY TransactAssumption DEF IInv
  <1>2. /\ escrows \in [EscrowKeys -> EscrowRecords] /\ escrow_vault \in [EscrowKeys -> Int]
        /\ wallet \in [Users -> Int] /\ pool \in Int /\ debits \in SUBSET DebitRecords
    BY <1>1 DEF TokenState, TokenStates
  <1>3. new \in EscrowRecords
    BY <1>1 DEF EscrowRecords, Hashes
  <1>4. /\ ~escrows[k].live
        /\ wallet' = [wallet EXCEPT ![k[1]] = @ - a]
        /\ escrow_vault' = [escrow_vault EXCEPT ![k] = @ + a]
        /\ escrows' = [escrows EXCEPT ![k] = new]
        /\ pool' = pool /\ spends' = spends /\ executions' = executions /\ debits' = debits
        /\ slot' = slot
    BY DEF InitDepositEscrow, chainVars
  <1> HIDE DEF new
  <1>5. r \in TokenStates
    <2>1. /\ escrows' \in [EscrowKeys -> EscrowRecords] /\ escrow_vault' \in [EscrowKeys -> Int]
          /\ wallet' \in [Users -> Int]
      BY <1>1, <1>2, <1>3, <1>4
    <2>2. QED
      BY <1>2, <1>4, <2>1 DEF TokenState, TokenStates
  <1>6. EscrowsSound(r)
    <2>1. new.live /\ new.proof_hash = HashOf(b)
      BY DEF new
    <2>2. \A d \in debits : d.escrow # k /\ d.escrow \in EscrowKeys
      BY <1>1, <1>2, <1>4 DEF EscrowsSound, TokenState, DebitRecords
    <2>3. escrows'[k] = new /\ \A j \in EscrowKeys \ {k} : escrows'[j] = escrows[j]
      BY <1>2, <1>4
    <2>4. \A j \in EscrowKeys : escrows'[j].live =>
             \E c \in Bodies : escrows'[j].proof_hash = HashOf(c)
      BY <1>1, <2>1, <2>3 DEF EscrowsSound, TokenState
    <2>5. \A d \in debits : /\ escrows'[d.escrow].live /\ escrows'[d.escrow].consumed
                            /\ d.named = HashOf(d.body)
      BY <1>1, <2>2, <2>3 DEF EscrowsSound, TokenState
    <2>6. QED
      BY <1>1, <1>4, <2>4, <2>5 DEF EscrowsSound, TokenState
  <1>7. \A v \in Users : Balance(r, v) = Balance(st, v)
    <2> SUFFICES ASSUME NEW v \in Users PROVE Balance(r, v) = Balance(st, v)
      OBVIOUS
    <2>1. /\ r.debits = st.debits
          /\ r.wallet = [st.wallet EXCEPT ![k[1]] = @ - a]
          /\ r.escrow_vault[k] = st.escrow_vault[k] + a
          /\ \A j \in EscrowKeys \ {k} : r.escrow_vault[j] = st.escrow_vault[j]
      BY <1>2, <1>4 DEF TokenState
    <2>2. IsFiniteSet(st.debits) /\ a \in Int
      BY <1>1 DEF EscrowsSound
    <2> HIDE DEF st, r
    <2>3. QED
      BY <1>1, <1>5, <2>1, <2>2, MoveBalance
  <1>8. ExecutedOnce' /\ DebitsPaired'
    BY <1>4 DEF IInv, ExecutedOnce, DebitsPaired
  <1>9. BalancesExplained'
    BY <1>4, <1>7, BalancesNext DEF IInv, BalancesExplained
  <1>10. QED
    BY <1>1, <1>4, <1>5, <1>6, <1>8, <1>9, TokensNext DEF IInv

\* An escrow that is closed has paid nothing either, and its vault goes back.
LEMMA CloseEscrowInvariant ==
    ASSUME IInv, NEW s \in Users, NEW k \in EscrowKeys, CloseDepositEscrow(s, k)
    PROVE  IInv'
  <1> DEFINE st == TokenState
             r == TokenState'
             m == -escrow_vault[k]
  <1>1. st \in TokenStates /\ EscrowsSound(st) /\ slot \in Nat
    BY DEF IInv
  <1>2. /\ escrows \in [EscrowKeys -> EscrowRecords] /\ escrow_vault \in [EscrowKeys -> Int]
        /\ wallet \in [Users -> Int] /\ pool \in Int /\ debits \in SUBSET DebitRecords
    BY <1>1 DEF TokenState, TokenStates
  <1>3. NoEscrow \in EscrowRecords
    BY DEF NoEscrow, EscrowRecords, Hashes
  <1>4. /\ ~escrows[k].consumed /\ s = k[1]
        /\ wallet' = [wallet EXCEPT ![s] = @ + escrow_vault[k]]
        /\ escrow_vault' = [escrow_vault EXCEPT ![k] = 0]
        /\ escrows' = [escrows EXCEPT ![k] = NoEscrow]
        /\ pool' = pool /\ spends' = spends /\ executions' = executions /\ debits' = debits
        /\ slot' = slot
    BY DEF CloseDepositEscrow, chainVars
  <1>5. r \in TokenStates
    <2>1. /\ escrows' \in [EscrowKeys -> EscrowRecords] /\ escrow_vault' \in [EscrowKeys -> Int]
          /\ wallet' \in [Users -> Int]
      BY <1>1, <1>2, <1>3, <1>4
    <2>2. QED
      BY <1>2, <1>4, <2>1 DEF TokenState, TokenStates
  <1>6. EscrowsSound(r)
    <2>1. ~NoEscrow.live
      BY DEF NoEscrow
    <2>2. \A d \in debits : d.escrow # k /\ d.escrow \in EscrowKeys
      BY <1>1, <1>2, <1>4 DEF EscrowsSound, TokenState, DebitRecords
    <2>3. escrows'[k] = NoEscrow /\ \A j \in EscrowKeys \ {k} : escrows'[j] = escrows[j]
      BY <1>2, <1>4
    <2>4. \A j \in EscrowKeys : escrows'[j].live =>
             \E c \in Bodies : escrows'[j].proof_hash = HashOf(c)
      BY <1>1, <2>1, <2>3 DEF EscrowsSound, TokenState
    <2>5. \A d \in debits : /\ escrows'[d.escrow].live /\ escrows'[d.escrow].consumed
                            /\ d.named = HashOf(d.body)
      BY <1>1, <2>2, <2>3 DEF EscrowsSound, TokenState
    <2>6. QED
      BY <1>1, <1>4, <2>4, <2>5 DEF EscrowsSound, TokenState
  <1>7. \A v \in Users : Balance(r, v) = Balance(st, v)
    <2> SUFFICES ASSUME NEW v \in Users PROVE Balance(r, v) = Balance(st, v)
      OBVIOUS
    <2>1. m \in Int /\ wallet[s] + escrow_vault[k] = wallet[s] - m /\ escrow_vault[k] + m = 0
      BY <1>2
    <2> HIDE DEF m
    <2>2. /\ r.debits = st.debits
          /\ r.wallet = [st.wallet EXCEPT ![k[1]] = @ - m]
          /\ r.escrow_vault[k] = st.escrow_vault[k] + m
          /\ \A j \in EscrowKeys \ {k} : r.escrow_vault[j] = st.escrow_vault[j]
      BY <1>2, <1>4, <2>1 DEF TokenState
    <2>3. IsFiniteSet(st.debits)
      BY <1>1 DEF EscrowsSound
    <2> HIDE DEF st, r
    <2>4. QED
      BY <1>1, <1>5, <2>1, <2>2, <2>3, MoveBalance
  <1>8. ExecutedOnce' /\ DebitsPaired'
    BY <1>4 DEF IInv, ExecutedOnce, DebitsPaired
  <1>9. BalancesExplained'
    BY <1>4, <1>7, BalancesNext DEF IInv, BalancesExplained
  <1>10. QED
    BY <1>1, <1>4, <1>5, <1>6, <1>8, <1>9, TokensNext DEF IInv

\* The payments of one user are a sum of integers.
LEMMA PaymentsType ==
    ASSUME NEW ex \in [Bodies -> {0, 1}], NEW v \in Users
    PROVE  /\ \A b \in Bodies : Payment(b, v) \in Int
           /\ \A b \in Bodies : Payments(ex, v)[b] \in Int
           /\ Sum(Payments(ex, v), Bodies) \in Int
  <1> DEFINE f == Payments(ex, v)
  <1>1. \A c \in Bodies : Payment(c, v) \in Int
    BY SlotParams DEF Payment, SlotReceived, Slots
  <1>2. \A c \in Bodies : f[c] \in Int
    <2> SUFFICES ASSUME NEW c \in Bodies PROVE f[c] \in Int
      OBVIOUS
    <2>1. f[c] = ex[c] * Payment(c, v)
      BY DEF Payments
    <2>2. ex[c] = 0 \/ ex[c] = 1
      OBVIOUS
    <2>3. QED
      BY <1>1, <2>1, <2>2
  <1> HIDE DEF f
  <1>3. Sum(f, Bodies) \in Int
    BY <1>2, SumType, TransactAssumption
  <1>4. QED
    BY <1>1, <1>2, <1>3 DEF f

\* The payments after the first execution of b.
LEMMA PaymentsAdd ==
    ASSUME NEW ex \in [Bodies -> {0, 1}], NEW b \in Bodies, ex[b] = 0, NEW v \in Users
    PROVE  Sum(Payments([ex EXCEPT ![b] = @ + 1], v), Bodies)
             = Sum(Payments(ex, v), Bodies) + Payment(b, v)
  <1> DEFINE f == Payments(ex, v)
             g == Payments([ex EXCEPT ![b] = @ + 1], v)
             p == Payment(b, v)
  <1>1. Payment(b, v) \in Int /\ \A c \in Bodies : f[c] \in Int
    BY PaymentsType
  <1>3. g[b] = f[b] + p
    <2>1. f[b] = 0 * Payment(b, v) /\ g[b] = (0 + 1) * Payment(b, v)
      BY DEF Payments
    <2>2. QED
      BY <1>1, <2>1
  <1>4. \A c \in Bodies \ {b} : g[c] = f[c]
    BY DEF Payments
  <1>5. IsFiniteSet(Bodies) /\ p \in Int
    BY <1>1, TransactAssumption
  <1> HIDE DEF f, g, p
  <1>6. Sum(g, Bodies) = Sum(f, Bodies) + p
    <2>1. \A c \in Bodies : f[c] \in Int
      BY <1>1
    <2>2. b \in Bodies /\ IsFiniteSet(Bodies) /\ g[b] \in Int
      BY <1>3, <1>5, <2>1
    <2>3. Sum(g, Bodies) = Sum(f, Bodies) + g[b] - f[b]
      BY <1>4, <2>1, <2>2, SumUpdate
    <2>4. Sum(f, Bodies) \in Int
      BY <1>5, <2>1, SumType
    <2>5. QED
      BY <1>3, <1>5, <2>1, <2>2, <2>3, <2>4
  <1>7. QED
    BY <1>6 DEF f, g, p

\* The debits of an execution belong to its deposit slots.
LEMMA ExecuteDebits ==
    ASSUME DebitsPaired, NEW b \in Bodies, executions \in [Bodies -> {0, 1}],
           executions[b] = 0, executions' = [executions EXCEPT ![b] = @ + 1],
           debits \in SUBSET DebitRecords,
           NEW st1, NEW st2, SlotDebits(TokenState, st1, b, 1), SlotDebits(st1, st2, b, 2),
           debits' = st2.debits
    PROVE  DebitsPaired'
  <1> DEFINE ext(i) == Params[b].ext_amounts[i]
  <1>1. /\ \A d \in debits : d.body \in Bodies /\ d.body # b
        /\ \A d \in debits : executions[d.body] = 1
    BY DEF DebitsPaired, DebitRecords
  <1>2. /\ \A c \in Bodies \ {b} : executions'[c] = executions[c]
        /\ executions'[b] = 1
    BY SMT
  <1>3. \A i \in Slots : i \in DepositSlots(b) <=> ext(i) > 0
    BY DEF DepositSlots
  <1>4. Slots = {1, 2}
    BY DEF Slots
  <1>5. /\ debits \subseteq debits'
        /\ \A d \in debits' \ debits :
              d.body = b /\ (d.slot = 1 \/ d.slot = 2) /\ ext(d.slot) > 0
        /\ \A c, d \in debits' \ debits : c.slot = d.slot => c = d
        /\ ext(1) > 0 => \E d \in debits' : d.body = b /\ d.slot = 1
        /\ ext(2) > 0 => \E d \in debits' : d.body = b /\ d.slot = 2
    <2>0. TokenState.debits = debits
      BY DEF TokenState
    <2>1. CASE ext(1) > 0
      <3>1. PICK d \in st1.debits : /\ d \notin debits /\ st1.debits = debits \cup {d}
                                    /\ d.body = b /\ d.slot = 1
        BY <2>0, <2>1 DEF SlotDebits
      <3>2. CASE ext(2) > 0
        <4>1. PICK c \in st2.debits : /\ c \notin st1.debits /\ st2.debits = st1.debits \cup {c}
                                      /\ c.body = b /\ c.slot = 2
          BY <3>2 DEF SlotDebits
        <4>2. debits' = debits \cup {d, c}
          BY <3>1, <4>1
        <4>3. QED
          BY <2>1, <3>1, <3>2, <4>1, <4>2
      <3>3. CASE ~(ext(2) > 0)
        <4>1. debits' = debits \cup {d}
          BY <3>1, <3>3 DEF SlotDebits
        <4>2. QED
          BY <2>1, <3>1, <3>3, <4>1
      <3>4. QED
        BY <3>2, <3>3
    <2>2. CASE ~(ext(1) > 0)
      <3>1. st1.debits = debits
        BY <2>0, <2>2 DEF SlotDebits
      <3>2. CASE ext(2) > 0
        <4>1. PICK c \in st2.debits : /\ c \notin st1.debits /\ st2.debits = st1.debits \cup {c}
                                      /\ c.body = b /\ c.slot = 2
          BY <3>2 DEF SlotDebits
        <4>2. debits' = debits \cup {c}
          BY <3>1, <4>1
        <4>3. QED
          BY <2>2, <3>1, <3>2, <4>1, <4>2
      <3>3. CASE ~(ext(2) > 0)
        <4>1. debits' = debits
          BY <3>1, <3>3 DEF SlotDebits
        <4>2. QED
          BY <2>2, <3>3, <4>1
      <3>4. QED
        BY <3>2, <3>3
    <2>3. QED
      BY <2>1, <2>2
  <1> HIDE DEF ext
  <1>6. \A d \in debits' : executions'[d.body] = 1 /\ d.slot \in DepositSlots(d.body)
    <2> SUFFICES ASSUME NEW d \in debits'
                 PROVE  executions'[d.body] = 1 /\ d.slot \in DepositSlots(d.body)
      OBVIOUS
    <2>1. CASE d \in debits
      BY <1>1, <1>2, <2>1 DEF DebitsPaired
    <2>2. CASE d \notin debits
      BY <1>2, <1>3, <1>4, <1>5, <2>2
    <2>3. QED
      BY <2>1, <2>2
  <1>7. \A c, d \in debits' : c.body = d.body /\ c.slot = d.slot => c = d
    BY <1>1, <1>5 DEF DebitsPaired
  <1>8. ASSUME NEW c \in Bodies, executions'[c] = 1, NEW i \in DepositSlots(c)
        PROVE  \E d \in debits' : d.body = c /\ d.slot = i
    <2>1. CASE c = b
      <3>1. i \in Slots /\ ext(i) > 0
        BY <1>3, <1>8, <2>1 DEF DepositSlots
      <3>2. QED
        BY <1>4, <1>5, <2>1, <3>1
    <2>2. CASE c # b
      <3>1. \E d \in debits : d.body = c /\ d.slot = i
        BY <1>2, <1>8, <2>2 DEF DebitsPaired
      <3>2. QED
        BY <1>5, <3>1
    <2>3. QED
      BY <2>1, <2>2
  <1>9. QED
    BY <1>6, <1>7, <1>8 DEF DebitsPaired, DepositSlots, Slots

\* An execution: both slots, on the token state of the running instruction.
LEMMA ExecuteInvariant ==
    ASSUME IInv, NEW k \in SessionKeys, NEW b \in Bodies, NEW es \in [Slots -> EscrowKeys],
           NEW us \in [Slots -> Users \cup {DefaultKey}], ExecuteTransact(k, b, es, us)
    PROVE  IInv'
  <1> DEFINE data == sessions[k].data
             st1 == ExecutePublicSlot(TokenState, b, data, 1, es[1], us[1])
             st2 == ExecutePublicSlot(st1, b, data, 2, es[2], us[2])
  <1>1. /\ TokenState \in TokenStates /\ EscrowsSound(TokenState) /\ slot \in Nat
        /\ ExecutedOnce /\ DebitsPaired
    BY DEF IInv
  <1>2. 1 \in Slots /\ 2 \in Slots /\ es[1] \in EscrowKeys /\ es[2] \in EscrowKeys
    BY DEF Slots
  <1>3. /\ ParsesAs(data, b) /\ Nulls!Spend(Params[b].nullifiers) /\ st2.ok
        /\ escrows' = st2.escrows /\ escrow_vault' = st2.escrow_vault
        /\ wallet' = st2.wallet /\ pool' = st2.pool /\ debits' = st2.debits
        /\ executions' = [executions EXCEPT ![b] = @ + 1]
        /\ slot' = slot
    BY DEF ExecuteTransact, TokenState, chainVars
  <1> HIDE DEF data
  <1>4. st1 \in TokenStates /\ st2 \in TokenStates /\ st1.ok
    <2>1. st1 \in TokenStates
      BY <1>1, <1>2, SlotType
    <2> HIDE DEF st1
    <2>2. QED
      BY <1>2, <1>3, <2>1, SlotType
  <1>5. /\ EscrowsSound(st1) /\ SlotDebits(TokenState, st1, b, 1)
        /\ \A v \in Users : Balance(st1, v) = Balance(TokenState, v) + SlotReceived(b, 1, v)
    BY <1>1, <1>2, <1>3, <1>4, SlotStep
  <1>6. /\ EscrowsSound(st2) /\ SlotDebits(st1, st2, b, 2)
        /\ \A v \in Users : Balance(st2, v) = Balance(st1, v) + SlotReceived(b, 2, v)
    <2> HIDE DEF st1
    <2>1. QED
      BY <1>2, <1>3, <1>4, <1>5, SlotStep
  <1> HIDE DEF st1, st2
  <1>7. TokenState' = st2
    <2>1. st2.ok = TRUE
      BY <1>3, <1>4 DEF TokenStates
    <2>2. TokenState' = [ok |-> TRUE, escrows |-> st2.escrows, escrow_vault |-> st2.escrow_vault,
                         wallet |-> st2.wallet, pool |-> st2.pool, debits |-> st2.debits]
      BY <1>3 DEF TokenState
    <2>3. QED
      BY <1>4, <2>1, <2>2 DEF TokenStates
  <1>8. executions \in [Bodies -> {0, 1}] /\ executions[b] = 0
    <2>1. PICK n \in Params[b].nullifiers : TRUE
      BY TransactAssumption
    <2>2. spends[n] = 0
      BY <1>3 DEF Nulls!Spend
    <2>3. QED
      BY <1>1, <2>1, <2>2 DEF ExecutedOnce
  <1>9. ExecutedOnce'
    <2>1. /\ spends \in [Nullifiers -> {0, 1}]
          /\ spends' = [n \in Nullifiers |-> IF n \in Params[b].nullifiers THEN 1 ELSE spends[n]]
      BY <1>1, <1>3 DEF ExecutedOnce, Nulls!Spend
    <2>2. \A c \in Bodies : Params[c].nullifiers \subseteq Nullifiers
      BY TransactAssumption
    <2>3. spends' \in [Nullifiers -> {0, 1}] /\ executions' \in [Bodies -> {0, 1}]
      BY <1>3, <1>8, <2>1
    <2>4. ASSUME NEW c \in Bodies, executions'[c] = 1, NEW n \in Params[c].nullifiers
          PROVE  spends'[n] = 1
      <3>1. n \in Nullifiers
        BY <2>2
      <3>2. CASE n \in Params[b].nullifiers
        BY <2>1, <3>1, <3>2
      <3>3. CASE n \notin Params[b].nullifiers
        <4>1. c # b
          BY <3>3
        <4>2. executions[c] = 1
          BY <1>3, <1>8, <2>4, <4>1
        <4>3. spends[n] = 1
          BY <1>1, <4>2 DEF ExecutedOnce
        <4>4. QED
          BY <2>1, <3>1, <3>3, <4>3
      <3>4. QED
        BY <3>2, <3>3
    <2>5. QED
      BY <2>3, <2>4 DEF ExecutedOnce
  <1>10. DebitsPaired'
    <2>1. debits \in SUBSET DebitRecords
      BY <1>1 DEF TokenState, TokenStates
    <2>2. QED
      BY <1>1, <1>3, <1>5, <1>6, <1>8, <2>1, ExecuteDebits
  <1>11. ASSUME NEW v \in Users
         PROVE  Balance(TokenState', v) = Supply + Sum(Payments(executions', v), Bodies)
    <2>1. /\ Payment(b, v) \in Int
          /\ Sum(Payments(executions, v), Bodies) \in Int
          /\ Sum(Payments(executions', v), Bodies)
               = Sum(Payments(executions, v), Bodies) + Payment(b, v)
      BY <1>3, <1>8, PaymentsAdd, PaymentsType
    <2>2. Balance(TokenState, v) = Supply + Sum(Payments(executions, v), Bodies)
      BY DEF IInv, BalancesExplained
    <2>3. SlotReceived(b, 1, v) \in Int /\ SlotReceived(b, 2, v) \in Int
      BY <1>2, SlotParams DEF SlotReceived
    <2>4. /\ Balance(st1, v) = Balance(TokenState, v) + SlotReceived(b, 1, v)
          /\ Balance(st2, v) = Balance(st1, v) + SlotReceived(b, 2, v)
      BY <1>5, <1>6
    <2>5. Payment(b, v) = SlotReceived(b, 1, v) + SlotReceived(b, 2, v)
      BY DEF Payment
    <2>6. Balance(st2, v) = Supply + Sum(Payments(executions', v), Bodies)
      BY <2>1, <2>2, <2>3, <2>4, <2>5, TransactAssumption
    <2>7. QED
      BY <1>7, <2>6
  <1>12. BalancesExplained'
    BY <1>11, BalancesNext
  <1>13. QED
    BY <1>1, <1>3, <1>4, <1>6, <1>7, <1>9, <1>10, <1>12, TokensNext DEF IInv

\* Every step keeps the invariant: one case per instruction.
LEMMA InductiveStep == IInv /\ [Next]_vars => IInv'
  <1> SUFFICES ASSUME IInv, [Next]_vars PROVE IInv'
    OBVIOUS
  <1>1. slot \in Nat
    BY DEF IInv
  <1>2. ASSUME NEW k \in SessionKeys, NEW n \in Lengths, InitTransactSession(k, n)
        PROVE  IInv'
    BY <1>1, <1>2, QuietInvariant DEF InitTransactSession, chainVars
  <1>3. ASSUME NEW s \in Users, NEW k \in SessionKeys, NEW i \in 1..MAX_SESSION_DATA_LEN,
               NEW b \in Bodies, UploadTransactChunk(s, k, i, b)
        PROVE  IInv'
    BY <1>1, <1>3, QuietInvariant DEF UploadTransactChunk, chainVars
  <1>4. ASSUME NEW s \in Users, NEW k \in SessionKeys, CloseTransactSession(s, k)
        PROVE  IInv'
    BY <1>1, <1>4, QuietInvariant DEF CloseTransactSession, chainVars
  <1>5. ASSUME FinalizeRewards \/ (\E paused \in BOOLEAN : SetPoolPaused(paused)) \/ Tick
        PROVE  IInv'
    BY <1>1, <1>5, QuietInvariant DEF FinalizeRewards, SetPoolPaused, Tick
  <1>6. CASE UNCHANGED vars
    BY <1>1, <1>6, QuietInvariant DEF vars
  <1>7. QED
    BY <1>2, <1>3, <1>4, <1>5, <1>6, InitEscrowInvariant, CloseEscrowInvariant,
       ExecuteInvariant DEF Next

\* The inductive invariant: sound escrows, spent nullifiers of what was executed,
\* debits paired with deposit slots, and explained balances.
THEOREM Invariance == Spec => []IInv
  BY InitInvariant, InductiveStep, PTL DEF Spec

\* An escrow pays for the body its depositor named, whatever is uploaded,
\* overwritten or executed in between.
THEOREM EscrowsPayNamedBody == Spec => []EscrowPaysNamedBody
  <1>1. IInv => EscrowPaysNamedBody
    BY DEF IInv, EscrowsSound, TokenState, EscrowPaysNamedBody
  <1>2. QED
    BY <1>1, Invariance, PTL

\* An escrow address pays at most once, through closing and re-creation.
THEOREM EscrowsPayOnce == Spec => []EscrowDebitedOnce
  <1>1. IInv => EscrowDebitedOnce
    BY DEF IInv, EscrowsSound, TokenState, EscrowDebitedOnce
  <1>2. QED
    BY <1>1, Invariance, PTL

\* There are two slots.
LEMMA SlotsFinite == Slots = {1, 2} /\ IsFiniteSet(Slots)
  <1>1. Slots = {1} \cup {2}
    BY DEF Slots
  <1>2. IsFiniteSet({1})
    BY FS_Singleton
  <1>3. IsFiniteSet({1} \cup {2})
    BY <1>2, FS_AddElement
  <1>4. QED
    BY <1>1, <1>3

\* The debits of an executed body are as many as its deposit slots.
LEMMA DebitsCounted ==
    ASSUME IInv, NEW b \in Bodies
    PROVE  /\ executions[b] <= 1
           /\ Cardinality({d \in debits : d.body = b})
                = executions[b] * Cardinality(DepositSlots(b))
  <1> DEFINE D == {d \in debits : d.body = b}
             f == [d \in D |-> d.slot]
             n == Cardinality(DepositSlots(b))
  <1>1. executions[b] \in {0, 1}
    BY DEF IInv, ExecutedOnce
  <1>2. IsFiniteSet(D)
    BY FS_Subset DEF IInv, EscrowsSound, TokenState
  <1>3. IsFiniteSet(DepositSlots(b))
    <2>1. IsFiniteSet(Slots)
      BY SlotsFinite
    <2>2. QED
      BY <2>1, FS_Subset DEF DepositSlots
  <1>4. n \in Nat
    BY <1>3, FS_CardinalityType
  <1>5. CASE executions[b] = 0
    <2>1. D = {}
      BY <1>5 DEF IInv, DebitsPaired
    <2>2. Cardinality(D) = 0
      BY <2>1, FS_EmptySet
    <2> HIDE DEF D, n
    <2>3. Cardinality(D) = executions[b] * n
      BY <1>4, <1>5, <2>2
    <2>4. QED
      BY <1>5, <2>3 DEF D, n
  <1>6. CASE executions[b] = 1
    <2>1. f \in [D -> DepositSlots(b)]
      BY DEF IInv, DebitsPaired
    <2>2. \A c, d \in D : f[c] = f[d] => c = d
      BY DEF IInv, DebitsPaired
    <2>3. \A i \in DepositSlots(b) : \E d \in D : f[d] = i
      BY <1>6 DEF IInv, DebitsPaired
    <2> HIDE DEF D, f, n
    <2>4. f \in Bijection(D, DepositSlots(b))
      BY <2>1, <2>2, <2>3 DEF Bijection, Injection, Surjection, IsInjective
    <2>5. ExistsBijection(D, DepositSlots(b))
      BY <2>4 DEF ExistsBijection
    <2>6. n = Cardinality(D)
      BY <1>2, <2>5, FS_Bijection DEF n
    <2>7. Cardinality(D) = executions[b] * n
      BY <1>4, <1>6, <2>6
    <2>8. QED
      BY <1>6, <2>7 DEF D, n
  <1>7. QED
    BY <1>1, <1>5, <1>6

\* Every execution of a deposit is paid for slot by slot, and no body is
\* executed twice.
THEOREM DebitsCountExecutions == Spec => []DebitsMatchExecutions
  <1>1. IInv => DebitsMatchExecutions
    BY DebitsCounted DEF DebitsMatchExecutions
  <1>2. QED
    BY <1>1, Invariance, PTL

\* The fold of Charged, as a sum.
LEMMA ChargedAdds ==
    ASSUME IInv, NEW u \in Users
    PROVE  Charged(u) = Sum(Charge, {d \in debits : d.escrow[1] = u})
  <1> DEFINE charge(d) == Params[d.body].ext_amounts[d.slot] + Params[d.body].relayer_fees[d.slot]
             f == Charge
             S == {d \in debits : d.escrow[1] = u}
             Folds(it) == it = [s \in SUBSET S |->
                IF s = {} THEN 0 ELSE charge(Pick(s)) + it[s \ {Pick(s)}]]
  <1>1. Charged(u) = (CHOOSE it : Folds(it))[S]
    BY DEF Charged, MapThenSumSet, MapThenFoldSet, Pick
  <1>2. \A s \in SUBSET S : s # {} => f[Pick(s)] = charge(Pick(s))
    <2> SUFFICES ASSUME NEW s \in SUBSET S, s # {} PROVE f[Pick(s)] = charge(Pick(s))
      OBVIOUS
    <2>1. Pick(s) \in DebitRecords
      BY PickIn DEF IInv, TokenState, TokenStates
    <2>2. QED
      BY <2>1 DEF Charge
  <1>3. IsFiniteSet(S)
    BY FS_Subset DEF IInv, EscrowsSound, TokenState
  <1> HIDE DEF charge, f, S
  <1>4. \A it : Folds(it) <=> IsSum(it, f, S)
    <2> SUFFICES ASSUME NEW it PROVE Folds(it) <=> IsSum(it, f, S)
      OBVIOUS
    <2>1. [s \in SUBSET S |-> IF s = {} THEN 0 ELSE charge(Pick(s)) + it[s \ {Pick(s)}]]
          = [s \in SUBSET S |-> IF s = {} THEN 0 ELSE f[Pick(s)] + it[s \ {Pick(s)}]]
      BY <1>2
    <2>2. QED
      BY <2>1 DEF IsSum
  <1>5. \E it : Folds(it)
    BY <1>3, <1>4, SumExists
  <1> DEFINE g == CHOOSE it : Folds(it)
  <1>6. Folds(g)
    BY <1>5
  <1> HIDE DEF g, Folds
  <1>7. IsSum(g, f, S)
    BY <1>4, <1>6
  <1>8. g[S] = Sum(f, S)
    BY <1>3, <1>7, SumIs
  <1>9. QED
    BY <1>1, <1>8 DEF f, g, S

\* The two parts of what a slot of b pays to v.
RestOf(b, v, i) ==
    IF Params[b].recipients[i] = v /\ Params[b].ext_amounts[i] < 0
    THEN -Params[b].ext_amounts[i] - Params[b].relayer_fees[i] ELSE 0
FeeOf(b, i) == Params[b].relayer_fees[i]

\* The first fold of Received, ...
LEMMA RestsAdd ==
    ASSUME NEW b \in Bodies, NEW u \in Users
    PROVE  MapThenSumSet(LAMBDA i : RestOf(b, u, i), Slots) = Sum([i \in Slots |-> RestOf(b, u, i)], Slots)
  <1> DEFINE F(i) == RestOf(b, u, i)
             f == [i \in Slots |-> RestOf(b, u, i)]
             S == Slots
             Folds(it) == it = [s \in SUBSET S |->
                IF s = {} THEN 0 ELSE F(Pick(s)) + it[s \ {Pick(s)}]]
  <1>1. MapThenSumSet(LAMBDA i : RestOf(b, u, i), Slots) = (CHOOSE it : Folds(it))[S]
    BY DEF MapThenSumSet, MapThenFoldSet, Pick
  <1>2. \A s \in SUBSET S : s # {} => f[Pick(s)] = F(Pick(s))
    <2> SUFFICES ASSUME NEW s \in SUBSET S, s # {} PROVE f[Pick(s)] = F(Pick(s))
      OBVIOUS
    <2>1. Pick(s) \in Slots
      BY PickIn
    <2>2. QED
      BY <2>1
  <1>3. IsFiniteSet(S)
    BY SlotsFinite
  <1> HIDE DEF F, f, S
  <1>4. \A it : Folds(it) <=> IsSum(it, f, S)
    <2> SUFFICES ASSUME NEW it PROVE Folds(it) <=> IsSum(it, f, S)
      OBVIOUS
    <2>1. [s \in SUBSET S |-> IF s = {} THEN 0 ELSE F(Pick(s)) + it[s \ {Pick(s)}]]
          = [s \in SUBSET S |-> IF s = {} THEN 0 ELSE f[Pick(s)] + it[s \ {Pick(s)}]]
      BY <1>2
    <2>2. QED
      BY <2>1 DEF IsSum
  <1>5. \E it : Folds(it)
    BY <1>3, <1>4, SumExists
  <1> DEFINE g == CHOOSE it : Folds(it)
  <1>6. Folds(g)
    BY <1>5
  <1> HIDE DEF g, Folds
  <1>7. IsSum(g, f, S)
    BY <1>4, <1>6
  <1>8. g[S] = Sum(f, S)
    BY <1>3, <1>7, SumIs
  <1>9. QED
    BY <1>1, <1>8 DEF f, g, S

\* ... and the second.
LEMMA FeesAdd ==
    ASSUME NEW b \in Bodies
    PROVE  MapThenSumSet(LAMBDA i : FeeOf(b, i), Slots) = Sum([i \in Slots |-> FeeOf(b, i)], Slots)
  <1> DEFINE F(i) == FeeOf(b, i)
             f == [i \in Slots |-> FeeOf(b, i)]
             S == Slots
             Folds(it) == it = [s \in SUBSET S |->
                IF s = {} THEN 0 ELSE F(Pick(s)) + it[s \ {Pick(s)}]]
  <1>1. MapThenSumSet(LAMBDA i : FeeOf(b, i), Slots) = (CHOOSE it : Folds(it))[S]
    BY DEF MapThenSumSet, MapThenFoldSet, Pick
  <1>2. \A s \in SUBSET S : s # {} => f[Pick(s)] = F(Pick(s))
    <2> SUFFICES ASSUME NEW s \in SUBSET S, s # {} PROVE f[Pick(s)] = F(Pick(s))
      OBVIOUS
    <2>1. Pick(s) \in Slots
      BY PickIn
    <2>2. QED
      BY <2>1
  <1>3. IsFiniteSet(S)
    BY SlotsFinite
  <1> HIDE DEF F, f, S
  <1>4. \A it : Folds(it) <=> IsSum(it, f, S)
    <2> SUFFICES ASSUME NEW it PROVE Folds(it) <=> IsSum(it, f, S)
      OBVIOUS
    <2>1. [s \in SUBSET S |-> IF s = {} THEN 0 ELSE F(Pick(s)) + it[s \ {Pick(s)}]]
          = [s \in SUBSET S |-> IF s = {} THEN 0 ELSE f[Pick(s)] + it[s \ {Pick(s)}]]
      BY <1>2
    <2>2. QED
      BY <2>1 DEF IsSum
  <1>5. \E it : Folds(it)
    BY <1>3, <1>4, SumExists
  <1> DEFINE g == CHOOSE it : Folds(it)
  <1>6. Folds(g)
    BY <1>5
  <1> HIDE DEF g, Folds
  <1>7. IsSum(g, f, S)
    BY <1>4, <1>6
  <1>8. g[S] = Sum(f, S)
    BY <1>3, <1>7, SumIs
  <1>9. QED
    BY <1>1, <1>8 DEF f, g, S

\* What a body pays is what its two slots pay.
LEMMA ReceivedIs ==
    ASSUME NEW b \in Bodies, NEW u \in Users
    PROVE  Received(b, u) = Payment(b, u)
  <1> DEFINE f == [i \in Slots |-> RestOf(b, u, i)]
             g == [i \in Slots |-> FeeOf(b, i)]
  <1>1. Slots = {1, 2}
    BY SlotsFinite
  <1>2. /\ f[1] = RestOf(b, u, 1) /\ f[2] = RestOf(b, u, 2)
        /\ g[1] = FeeOf(b, 1) /\ g[2] = FeeOf(b, 2)
    BY <1>1
  <1>3. /\ RestOf(b, u, 1) \in Int /\ RestOf(b, u, 2) \in Int
        /\ FeeOf(b, 1) \in Int /\ FeeOf(b, 2) \in Int
    <2>1. 1 \in Slots /\ 2 \in Slots
      BY <1>1
    <2>2. QED
      BY <2>1, SlotParams DEF RestOf, FeeOf
  <1>4. Received(b, u) = MapThenSumSet(LAMBDA i : RestOf(b, u, i), Slots)
            + (IF Params[b].relayer = u THEN MapThenSumSet(LAMBDA i : FeeOf(b, i), Slots) ELSE 0)
    BY DEF Received, RestOf, FeeOf
  <1>5. /\ MapThenSumSet(LAMBDA i : RestOf(b, u, i), Slots) = Sum(f, Slots)
        /\ MapThenSumSet(LAMBDA i : FeeOf(b, i), Slots) = Sum(g, Slots)
    BY RestsAdd, FeesAdd
  <1> HIDE DEF f, g
  <1>6. Sum(f, {1, 2}) = f[1] + f[2] /\ Sum(g, {1, 2}) = g[1] + g[2]
    <2>1. f[1] \in Int /\ f[2] \in Int /\ g[1] \in Int /\ g[2] \in Int /\ 1 # 2
      BY <1>2, <1>3
    <2>2. QED
      BY <2>1, SumPair
  <1>7. Received(b, u) = (RestOf(b, u, 1) + RestOf(b, u, 2))
            + (IF Params[b].relayer = u THEN FeeOf(b, 1) + FeeOf(b, 2) ELSE 0)
    BY <1>1, <1>2, <1>4, <1>5, <1>6
  <1>8. /\ SlotReceived(b, 1, u) = RestOf(b, u, 1) + (IF Params[b].relayer = u THEN FeeOf(b, 1) ELSE 0)
        /\ SlotReceived(b, 2, u) = RestOf(b, u, 2) + (IF Params[b].relayer = u THEN FeeOf(b, 2) ELSE 0)
    BY DEF SlotReceived, RestOf, FeeOf
  <1>9. QED
    BY <1>3, <1>7, <1>8 DEF Payment

\* The fold of WalletsExplained, as a sum.
LEMMA PaymentsAddUp ==
    ASSUME NEW u \in Users
    PROVE  MapThenSumSet(LAMBDA b : executions[b] * Received(b, u), Bodies) = Sum(Payments(executions, u), Bodies)
  <1> DEFINE F(b) == executions[b] * Received(b, u)
             f == Payments(executions, u)
             S == Bodies
             Folds(it) == it = [s \in SUBSET S |->
                IF s = {} THEN 0 ELSE F(Pick(s)) + it[s \ {Pick(s)}]]
  <1>1. MapThenSumSet(LAMBDA b : executions[b] * Received(b, u), Bodies) = (CHOOSE it : Folds(it))[S]
    BY DEF MapThenSumSet, MapThenFoldSet, Pick
  <1>2. \A s \in SUBSET S : s # {} => f[Pick(s)] = F(Pick(s))
    <2> SUFFICES ASSUME NEW s \in SUBSET S, s # {} PROVE f[Pick(s)] = F(Pick(s))
      OBVIOUS
    <2>1. Pick(s) \in Bodies
      BY PickIn
    <2>2. QED
      BY <2>1, ReceivedIs DEF Payments
  <1>3. IsFiniteSet(S)
    BY TransactAssumption
  <1> HIDE DEF F, f, S
  <1>4. \A it : Folds(it) <=> IsSum(it, f, S)
    <2> SUFFICES ASSUME NEW it PROVE Folds(it) <=> IsSum(it, f, S)
      OBVIOUS
    <2>1. [s \in SUBSET S |-> IF s = {} THEN 0 ELSE F(Pick(s)) + it[s \ {Pick(s)}]]
          = [s \in SUBSET S |-> IF s = {} THEN 0 ELSE f[Pick(s)] + it[s \ {Pick(s)}]]
      BY <1>2
    <2>2. QED
      BY <2>1 DEF IsSum
  <1>5. \E it : Folds(it)
    BY <1>3, <1>4, SumExists
  <1> DEFINE g == CHOOSE it : Folds(it)
  <1>6. Folds(g)
    BY <1>5
  <1> HIDE DEF g, Folds
  <1>7. IsSum(g, f, S)
    BY <1>4, <1>6
  <1>8. g[S] = Sum(f, S)
    BY <1>3, <1>7, SumIs
  <1>9. QED
    BY <1>1, <1>8 DEF f, g, S

\* Every wallet is explained by the bodies that executed.
THEOREM WalletsAreExplained == Spec => []WalletsExplained
  <1>1. IInv => WalletsExplained
    <2> SUFFICES ASSUME IInv, NEW u \in Users
                 PROVE  wallet[u] + MapThenSumSet(LAMBDA k : escrow_vault[k],
                                                  {k \in EscrowKeys : k[1] = u})
                          = Supply + MapThenSumSet(LAMBDA b : executions[b] * Received(b, u),
                                                   Bodies) - Charged(u)
      BY DEF WalletsExplained
    <2>1. MapThenSumSet(LAMBDA b : executions[b] * Received(b, u), Bodies)
            = Sum(Payments(executions, u), Bodies)
      BY PaymentsAddUp
    <2>2. Charged(u) = Sum(Charge, DebitsOf(TokenState, u))
      BY ChargedAdds DEF DebitsOf, TokenState
    <2>3. MapThenSumSet(LAMBDA k : escrow_vault[k], {k \in EscrowKeys : k[1] = u})
            = Sum(TokenState.escrow_vault, EscrowsOf(u))
      <3>1. TokenState.escrow_vault = escrow_vault
        BY DEF TokenState
      <3>2. MapThenSumSet(LAMBDA k : escrow_vault[k], {k \in EscrowKeys : k[1] = u})
              = Sum(escrow_vault, EscrowsOf(u))
        BY DEF Sum, EscrowsOf
      <3>3. QED
        BY <3>1, <3>2
    <2>4. wallet[u] + Sum(TokenState.escrow_vault, EscrowsOf(u)) + Sum(Charge, DebitsOf(TokenState, u))
            = Supply + Sum(Payments(executions, u), Bodies)
      BY DEF IInv, BalancesExplained, Balance, TokenState
    <2>5. /\ wallet[u] \in Int
          /\ Sum(TokenState.escrow_vault, EscrowsOf(u)) \in Int
          /\ Sum(Charge, DebitsOf(TokenState, u)) \in Int
      <3>1. TokenState \in TokenStates /\ IsFiniteSet(TokenState.debits)
        BY DEF IInv, EscrowsSound
      <3>2. wallet[u] \in Int
        BY <3>1 DEF TokenState, TokenStates
      <3>3. QED
        BY <3>1, <3>2, BalanceParts
    <2>6. Sum(Payments(executions, u), Bodies) \in Int
      BY PaymentsType DEF IInv, ExecutedOnce
    <2>7. wallet[u] + Sum(TokenState.escrow_vault, EscrowsOf(u))
            = Supply + Sum(Payments(executions, u), Bodies) - Sum(Charge, DebitsOf(TokenState, u))
      BY <2>4, <2>5, <2>6, TransactAssumption
    <2>8. QED
      BY <2>1, <2>2, <2>3, <2>7, Zenon
  <1>2. QED
    BY <1>1, Invariance, PTL
=============================================================================
