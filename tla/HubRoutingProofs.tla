-------------------------- MODULE HubRoutingProofs --------------------------
(***************************************************************************)
(* The hub's account checks for every set of token pools, every registry   *)
(* and every number of proofs in flight: notes and tokens stay balanced    *)
(* within unified SOL and within the token pools together, and the checks  *)
(* leave a way out for every note that has value.                          *)
(***************************************************************************)
EXTENDS HubRouting, Arithmetic

\* The balances, and the asset and the amount of the proofs in flight.
RoutingType ==
    /\ held \in [Assets -> Int]
    /\ shielded \in [Assets -> Int]
    /\ \A p \in proofs : p.asset \in Assets \cup {NoAsset} /\ p.ext_amount \in Int

\* The inductive invariant: the sums only keep step if both are sums of numbers.
IInv == RoutingType /\ ClassesBacked

\* The steps that move no value.
Quiet ==
    /\ UNCHANGED <<held, shielded>>
    /\ proofs \subseteq proofs'

\* ClassesBacked in terms of the sums of Arithmetic.
LEMMA Classes ==
    ClassesBacked <=>
        /\ shielded[UNIFIED_SOL] = held[UNIFIED_SOL]
        /\ Sum(shielded, TokenAssets) = Sum(held, TokenAssets)
  BY DEF ClassesBacked, Sum

\* ... and of the next state.
LEMMA ClassesNext ==
    ClassesBacked' <=>
        /\ shielded'[UNIFIED_SOL] = held'[UNIFIED_SOL]
        /\ Sum(shielded', TokenAssets) = Sum(held', TokenAssets)
  BY DEF ClassesBacked, Sum, MapThenSumSet, MapThenFoldSet

\* Empty pools, no notes and no proofs.
LEMMA InitInvariant == Init => IInv
  <1> SUFFICES ASSUME Init PROVE IInv
    OBVIOUS
  <1>1. RoutingType
    BY DEF Init, RoutingType
  <1>2. Sum(shielded, TokenAssets) = 0 /\ Sum(held, TokenAssets) = 0
    <2>1. /\ IsFiniteSet(TokenAssets)
          /\ \A a \in TokenAssets : shielded[a] = 0 /\ held[a] = 0
      BY RoutingAssumption DEF Init, Assets
    <2>2. QED
      BY <2>1, SumZero
  <1>3. shielded[UNIFIED_SOL] = held[UNIFIED_SOL]
    BY DEF Init, Assets
  <1>4. QED
    BY <1>1, <1>2, <1>3, Classes DEF IInv

\* An execution moves the same amount of notes and of tokens of one class.
LEMMA SlotInvariant ==
    ASSUME IInv, NEW p \in proofs, NEW configs, NEW type \in PoolTypes,
           NEW hub_config \in Assets, NEW pool \in Assets,
           ExecuteWithSlot(p, configs, type, hub_config, pool)
    PROVE  IInv'
  <1> DEFINE x == p.ext_amount
  <1>1. /\ p.asset \in Assets /\ x \in Int
        /\ (p.asset = UNIFIED_SOL) <=> (pool = UNIFIED_SOL)
        /\ p.asset # UNIFIED_SOL => p.asset \in TokenAssets /\ pool \in TokenAssets
    BY RoutingAssumption
    DEF IInv, RoutingType, ExecuteWithSlot, ValidateSlot, SlotTypeMatches, is_reserved, Assets
  <1>2. /\ shielded' = [shielded EXCEPT ![p.asset] = @ + x]
        /\ held' = [held EXCEPT ![pool] = @ + x]
        /\ proofs' \subseteq proofs
    BY DEF ExecuteWithSlot, MoveNotes, MoveTokens, Accepts, ValidateSlot
  <1>3. RoutingType'
    BY <1>1, <1>2 DEF IInv, RoutingType
  <1>4. /\ shielded'[p.asset] = shielded[p.asset] + x
        /\ held'[pool] = held[pool] + x
        /\ \A a \in Assets \ {p.asset} : shielded'[a] = shielded[a]
        /\ \A a \in Assets \ {pool} : held'[a] = held[a]
    BY <1>1, <1>2 DEF IInv, RoutingType
  <1>5. /\ shielded[UNIFIED_SOL] = held[UNIFIED_SOL]
        /\ Sum(shielded, TokenAssets) = Sum(held, TokenAssets)
        /\ IsFiniteSet(TokenAssets)
        /\ TokenAssets \subseteq Assets /\ UNIFIED_SOL \in Assets \ TokenAssets
        /\ \A a \in Assets : shielded[a] \in Int /\ held[a] \in Int
    BY Classes, RoutingAssumption DEF IInv, RoutingType, Assets
  <1>6. CASE p.asset = UNIFIED_SOL
    <2>1. shielded'[UNIFIED_SOL] = held'[UNIFIED_SOL]
      BY <1>1, <1>4, <1>5, <1>6
    <2>2. \A a \in TokenAssets : shielded[a] = shielded'[a] /\ held[a] = held'[a]
      BY <1>1, <1>4, <1>5, <1>6
    <2>3. /\ Sum(shielded, TokenAssets) = Sum(shielded', TokenAssets)
          /\ Sum(held, TokenAssets) = Sum(held', TokenAssets)
      BY <1>5, <2>2, SumCong
    <2>4. QED
      BY <1>3, <1>5, <2>1, <2>3, ClassesNext DEF IInv
  <1>7. CASE p.asset # UNIFIED_SOL
    <2>1. p.asset \in TokenAssets /\ pool \in TokenAssets
      BY <1>1, <1>7
    <2>2. shielded'[UNIFIED_SOL] = held'[UNIFIED_SOL]
      BY <1>4, <1>5, <2>1
    <2>3. Sum(shielded', TokenAssets)
              = Sum(shielded, TokenAssets) + shielded'[p.asset] - shielded[p.asset]
      <3>1. shielded'[p.asset] \in Int /\ \A a \in TokenAssets : shielded[a] \in Int
        BY <1>1, <1>4, <1>5
      <3>2. \A a \in TokenAssets \ {p.asset} : shielded'[a] = shielded[a]
        BY <1>4, <1>5
      <3>3. QED
        BY <1>5, <2>1, <3>1, <3>2, SumUpdate
    <2>4. Sum(held', TokenAssets) = Sum(held, TokenAssets) + held'[pool] - held[pool]
      <3>1. held'[pool] \in Int /\ \A a \in TokenAssets : held[a] \in Int
        BY <1>1, <1>4, <1>5
      <3>2. \A a \in TokenAssets \ {pool} : held'[a] = held[a]
        BY <1>4, <1>5
      <3>3. QED
        BY <1>5, <2>1, <3>1, <3>2, SumUpdate
    <2>5. Sum(shielded, TokenAssets) \in Int /\ Sum(held, TokenAssets) \in Int
      BY <1>5, SumType
    <2>6. Sum(shielded', TokenAssets) = Sum(held', TokenAssets)
      <3>1. shielded[p.asset] \in Int /\ held[pool] \in Int
        BY <1>1, <1>5
      <3>2. QED
        BY <1>1, <1>4, <1>5, <2>3, <2>4, <2>5, <3>1
    <2>7. QED
      BY <1>3, <2>2, <2>6, ClassesNext DEF IInv
  <1>8. QED
    BY <1>6, <1>7

\* A transaction without a slot has neither notes nor tokens to move: its proof
\* names no asset.
LEMMA NoSlotInvariant ==
    ASSUME IInv, NEW p \in proofs, NEW configs, ExecuteWithoutSlot(p, configs)
    PROVE  IInv'
  <1>1. UNCHANGED <<held, shielded>> /\ proofs' \subseteq proofs
    BY DEF ExecuteWithoutSlot, ValidateInactiveSlot, MoveNotes, Accepts
  <1>2. RoutingType'
    BY <1>1 DEF IInv, RoutingType
  <1>3. QED
    BY <1>1, <1>2, Classes, ClassesNext DEF IInv

\* A step that moves no value and adds a well-formed proof at most.
LEMMA QuietInvariant ==
    ASSUME IInv, UNCHANGED <<held, shielded>>,
           \A p \in proofs' \ proofs :
               p.asset \in Assets \cup {NoAsset} /\ p.ext_amount \in Int
    PROVE  IInv'
  <1>1. RoutingType'
    BY DEF IInv, RoutingType
  <1>2. QED
    BY <1>1, Classes, ClassesNext DEF IInv

\* A proof names an asset and an amount.
LEMMA ProveInvariant ==
    ASSUME IInv, NEW a \in Assets \cup {NoAsset}, NEW m, NEW x \in {-1, 0, 1}, Prove(a, m, x)
    PROVE  IInv'
  <1>1. /\ UNCHANGED <<held, shielded>>
        /\ \A p \in proofs' \ proofs : p.asset = a /\ p.ext_amount = x
    BY DEF Prove
  <1>2. QED
    BY <1>1, QuietInvariant

\* A step leaves value and proofs alone, makes a proof or executes one.
LEMMA NextCases ==
    ASSUME Next
    PROVE  \/ Quiet /\ proofs' = proofs
           \/ \E a, m \in Assets \cup {NoAsset}, x \in {-1, 0, 1} : Prove(a, m, x)
           \/ \E p \in proofs : \E configs \in [DOMAIN p.reward_acc -> Assets] :
                ExecuteWithoutSlot(p, configs)
           \/ \E p \in proofs, t \in PoolTypes, h, pool \in Assets :
                \E configs \in [DOMAIN p.reward_acc -> Assets] :
                    ExecuteWithSlot(p, configs, t, h, pool)
  <1>1. CASE \E s \in Signers, a \in Assets : RegisterTokenPool(s, a)
    BY <1>1 DEF RegisterTokenPool, Register, Quiet
  <1>2. CASE \E s \in Signers, a \in Assets : RegisterUnifiedSolPool(s, a)
    BY <1>2 DEF RegisterUnifiedSolPool, Register, Quiet
  <1>3. CASE \E s \in Signers, a \in Assets, on \in BOOLEAN : SetPoolConfigActive(s, a, on)
    BY <1>3 DEF SetPoolConfigActive, Quiet
  <1>4. CASE \E s \in Signers, on \in BOOLEAN : SetPoolPaused(s, on)
    BY <1>4 DEF SetPoolPaused, Quiet
  <1>5. CASE \E s \in Signers, new \in Pubkeys : TransferHubAuthority(s, new)
    BY <1>5 DEF TransferHubAuthority, Quiet
  <1>6. CASE \E s \in Signers : AcceptHubAuthority(s)
    BY <1>6 DEF AcceptHubAuthority, Quiet
  <1>7. CASE \E a \in Assets, on \in BOOLEAN : SetPoolActive(a, on)
    BY <1>7 DEF SetPoolActive, Quiet
  <1>8. CASE \E a \in Assets : FinalizeRewards(a)
    BY <1>8 DEF FinalizeRewards, Quiet
  <1>9. QED
    BY <1>1, <1>2, <1>3, <1>4, <1>5, <1>6, <1>7, <1>8 DEF Next

\* IInv holds at every reachable state.
THEOREM Invariance == Spec => []IInv
  <1>1. IInv /\ [Next]_vars => IInv'
    <2> SUFFICES ASSUME IInv, [Next]_vars PROVE IInv'
      OBVIOUS
    <2>1. CASE Quiet /\ proofs' = proofs
      BY <2>1, QuietInvariant DEF Quiet
    <2>2. CASE \E a, m \in Assets \cup {NoAsset}, x \in {-1, 0, 1} : Prove(a, m, x)
      BY <2>2, ProveInvariant
    <2>3. CASE \E p \in proofs : \E configs \in [DOMAIN p.reward_acc -> Assets] :
                 ExecuteWithoutSlot(p, configs)
      BY <2>3, NoSlotInvariant
    <2>4. CASE \E p \in proofs, t \in PoolTypes, h, pool \in Assets :
                 \E configs \in [DOMAIN p.reward_acc -> Assets] :
                     ExecuteWithSlot(p, configs, t, h, pool)
      BY <2>4, SlotInvariant
    <2>5. CASE UNCHANGED vars
      BY <2>5, QuietInvariant DEF vars
    <2>6. QED
      BY <2>1, <2>2, <2>3, <2>4, <2>5, NextCases
  <1>2. QED
    BY <1>1, InitInvariant, PTL DEF Spec

\* validate_inactive_slot and load_and_validate_pool_config: whatever accounts
\* are passed, the notes of unified SOL are backed by the unified pool, and the
\* notes of all tokens by the token pools together.
THEOREM ClassesAreBacked == Spec => []ClassesBacked
  BY Invariance, PTL DEF IInv

-----------------------------------------------------------------------------
\* The pool type that an asset's reward line asks of the registry.
TypeOf(a) == IF a = UNIFIED_SOL THEN "UnifiedSol" ELSE "Token"

\* The registry's accounts.
ConfigsTyped ==
    \A a \in DOMAIN pool_configs : pool_configs[a] \in [pool_type : PoolTypes, is_active : BOOLEAN]

\* What lets value leave: nobody is in debt, and an asset that has notes has been
\* registered with its type, because the proof that made them had a reward line
\* for it.
Registered ==
    /\ ConfigsTyped
    /\ \A p \in proofs : p.asset # NoAsset => p.asset \in DOMAIN p.reward_acc
    /\ \A a \in Assets : shielded[a] >= 0 /\ held[a] >= 0
    /\ \A a \in Assets : shielded[a] > 0 =>
           a \in DOMAIN pool_configs /\ pool_configs[a].pool_type = TypeOf(a)

\* The registry only grows, and the type of an entry stays.
RegistryGrows ==
    \A a \in DOMAIN pool_configs :
        a \in DOMAIN pool_configs' /\ pool_configs'[a].pool_type = pool_configs[a].pool_type

\* A registration adds an entry.
LEMMA RegisterGrows ==
    ASSUME ConfigsTyped, NEW s, NEW a, NEW type \in PoolTypes, Register(s, a, type)
    PROVE  ConfigsTyped' /\ RegistryGrows
  <1>1. /\ DOMAIN pool_configs' = DOMAIN pool_configs \cup {a}
        /\ pool_configs'[a] = [pool_type |-> type, is_active |-> TRUE]
        /\ \A b \in DOMAIN pool_configs : pool_configs'[b] = pool_configs[b]
    BY DEF Register
  <1>2. pool_configs'[a] \in [pool_type : PoolTypes, is_active : BOOLEAN]
    BY <1>1
  <1>3. ConfigsTyped'
    BY <1>1, <1>2 DEF ConfigsTyped
  <1>4. RegistryGrows
    BY <1>1 DEF RegistryGrows
  <1>5. QED
    BY <1>3, <1>4

\* A switch changes the flag of an entry only.
LEMMA SwitchGrows ==
    ASSUME ConfigsTyped, NEW s, NEW a, NEW on \in BOOLEAN, SetPoolConfigActive(s, a, on)
    PROVE  ConfigsTyped' /\ RegistryGrows
  <1>1. /\ DOMAIN pool_configs' = DOMAIN pool_configs
        /\ pool_configs'[a] = [pool_configs[a] EXCEPT !.is_active = on]
        /\ \A b \in DOMAIN pool_configs \ {a} : pool_configs'[b] = pool_configs[b]
        /\ a \in DOMAIN pool_configs
    BY DEF SetPoolConfigActive
  <1>2. pool_configs[a] \in [pool_type : PoolTypes, is_active : BOOLEAN]
    BY <1>1 DEF ConfigsTyped
  <1>3. /\ pool_configs'[a].pool_type = pool_configs[a].pool_type
        /\ pool_configs'[a] \in [pool_type : PoolTypes, is_active : BOOLEAN]
    BY <1>1, <1>2
  <1>4. QED
    BY <1>1, <1>3 DEF ConfigsTyped, RegistryGrows

\* No step removes an entry of the registry.
LEMMA StepGrows ==
    ASSUME ConfigsTyped, [Next]_vars
    PROVE  ConfigsTyped' /\ RegistryGrows
  <1>1. CASE \E s \in Signers, a \in Assets : RegisterTokenPool(s, a)
    BY <1>1, RegisterGrows DEF RegisterTokenPool, PoolTypes
  <1>2. CASE \E s \in Signers, a \in Assets : RegisterUnifiedSolPool(s, a)
    BY <1>2, RegisterGrows DEF RegisterUnifiedSolPool, PoolTypes
  <1>3. CASE \E s \in Signers, a \in Assets, on \in BOOLEAN : SetPoolConfigActive(s, a, on)
    BY <1>3, SwitchGrows
  <1>4. CASE UNCHANGED pool_configs
    BY <1>4 DEF ConfigsTyped, RegistryGrows
  <1>5. QED
    BY <1>1, <1>2, <1>3, <1>4 DEF Next, vars, hubVars, SetPoolPaused, TransferHubAuthority,
       AcceptHubAuthority, SetPoolActive, FinalizeRewards, Prove, ExecuteWithoutSlot,
       ExecuteWithSlot, Accepts

\* What moved value left it in pools and notes that are in no debt, of an asset
\* that is registered.
LEMMA ExecuteRegistered ==
    ASSUME IInv, Registered, NEW p \in proofs, NEW configs, NEW type \in PoolTypes,
           NEW hub_config \in Assets, NEW pool \in Assets,
           ExecuteWithSlot(p, configs, type, hub_config, pool)
    PROVE  /\ \A a \in Assets : shielded'[a] >= 0 /\ held'[a] >= 0
           /\ \A a \in Assets : shielded'[a] > 0 =>
                  a \in DOMAIN pool_configs /\ pool_configs[a].pool_type = TypeOf(a)
  <1>1. /\ p.asset \in Assets /\ p.asset # NoAsset /\ p.ext_amount \in Int
        /\ \A a \in Assets : shielded[a] \in Int /\ held[a] \in Int
    BY DEF IInv, RoutingType, ExecuteWithSlot, ValidateSlot
  <1>2. /\ shielded'[p.asset] >= 0 /\ held'[pool] >= 0
        /\ \A a \in Assets \ {p.asset} : shielded'[a] = shielded[a]
        /\ \A a \in Assets \ {pool} : held'[a] = held[a]
    <2>1. /\ shielded[p.asset] + p.ext_amount \in 0..MaxShielded
          /\ shielded' = [shielded EXCEPT ![p.asset] = @ + p.ext_amount]
          /\ held[pool] + p.ext_amount >= 0
          /\ held' = [held EXCEPT ![pool] = @ + p.ext_amount]
      BY <1>1 DEF ExecuteWithSlot, MoveNotes, MoveTokens
    <2>2. QED
      BY <1>1, <2>1, RoutingAssumption DEF IInv, RoutingType
  <1>3. p.asset \in DOMAIN pool_configs /\ pool_configs[p.asset].pool_type = TypeOf(p.asset)
    <2>1. p.asset \in DOMAIN p.reward_acc
      BY <1>1 DEF Registered
    <2>2. ValidateAccumulator(p.asset, p.reward_acc[p.asset], configs[p.asset])
      BY <2>1 DEF ExecuteWithSlot, Accepts, PassesChecks
    <2>3. QED
      BY <2>2 DEF ValidateAccumulator, TypeOf
  <1>4. QED
    BY <1>2, <1>3 DEF Registered

\* Every step keeps Registered.
LEMMA RegisteredStep ==
    ASSUME IInv, Registered, [Next]_vars
    PROVE  Registered'
  <1>1. ConfigsTyped' /\ RegistryGrows
    BY StepGrows DEF Registered
  <1>2. ASSUME \A p \in proofs' \ proofs : p.asset # NoAsset => p.asset \in DOMAIN p.reward_acc,
               \A a \in Assets : shielded'[a] >= 0 /\ held'[a] >= 0,
               \A a \in Assets : shielded'[a] > 0 =>
                   a \in DOMAIN pool_configs /\ pool_configs[a].pool_type = TypeOf(a)
        PROVE  Registered'
    <2>1. \A a \in Assets : shielded'[a] > 0 =>
              a \in DOMAIN pool_configs' /\ pool_configs'[a].pool_type = TypeOf(a)
      BY <1>1, <1>2 DEF RegistryGrows
    <2>2. \A p \in proofs' : p.asset # NoAsset => p.asset \in DOMAIN p.reward_acc
      BY <1>2 DEF Registered
    <2>3. QED
      BY <1>1, <1>2, <2>1, <2>2 DEF Registered, TypeOf
  <1>3. CASE (Quiet /\ proofs' = proofs) \/ UNCHANGED vars
    <2>1. UNCHANGED <<held, shielded, proofs>>
      BY <1>3 DEF Quiet, vars
    <2>2. QED
      BY <1>2, <2>1 DEF Registered
  <1>4. CASE \E a, m \in Assets \cup {NoAsset}, x \in {-1, 0, 1} : Prove(a, m, x)
    <2>1. /\ UNCHANGED <<held, shielded>>
          /\ \A p \in proofs' \ proofs : p.asset # NoAsset => p.asset \in DOMAIN p.reward_acc
      BY <1>4 DEF Prove
    <2>2. QED
      BY <1>2, <2>1 DEF Registered
  <1>5. CASE \E p \in proofs : \E configs \in [DOMAIN p.reward_acc -> Assets] :
                ExecuteWithoutSlot(p, configs)
    <2>1. UNCHANGED <<held, shielded>> /\ proofs' \subseteq proofs
      BY <1>5 DEF ExecuteWithoutSlot, ValidateInactiveSlot, MoveNotes, Accepts
    <2>2. QED
      BY <1>2, <2>1 DEF Registered
  <1>6. CASE \E p \in proofs, t \in PoolTypes, h, pool \in Assets :
                \E configs \in [DOMAIN p.reward_acc -> Assets] :
                    ExecuteWithSlot(p, configs, t, h, pool)
    <2>1. PICK p \in proofs, t \in PoolTypes, h \in Assets, pool \in Assets :
              \E configs \in [DOMAIN p.reward_acc -> Assets] :
                  ExecuteWithSlot(p, configs, t, h, pool)
      BY <1>6
    <2>2. PICK configs : ExecuteWithSlot(p, configs, t, h, pool)
      BY <2>1
    <2>3. proofs' \subseteq proofs
      BY <2>2 DEF ExecuteWithSlot, Accepts
    <2>4. QED
      BY <1>2, <2>2, <2>3, ExecuteRegistered
  <1>7. QED
    BY <1>3, <1>4, <1>5, <1>6, NextCases

\* Notes of an asset mean tokens in some pool that serves the asset.
LEMMA SomePoolHolds ==
    ASSUME IInv, Registered, NEW a \in Assets, shielded[a] > 0
    PROVE  \E pool \in Assets :
               (pool = UNIFIED_SOL <=> a = UNIFIED_SOL) /\ held[pool] >= 1
  <1>1. /\ shielded[UNIFIED_SOL] = held[UNIFIED_SOL]
        /\ Sum(shielded, TokenAssets) = Sum(held, TokenAssets)
        /\ IsFiniteSet(TokenAssets)
        /\ TokenAssets \subseteq Assets /\ UNIFIED_SOL \notin TokenAssets
        /\ \A b \in Assets : shielded[b] \in Nat /\ held[b] \in Nat
    BY Classes, RoutingAssumption DEF IInv, RoutingType, Registered, Assets
  <1>2. CASE a = UNIFIED_SOL
    BY <1>1, <1>2
  <1>3. CASE a # UNIFIED_SOL
    <2>1. a \in TokenAssets
      BY <1>3 DEF Assets
    <2>2. Sum(shielded, TokenAssets) >= shielded[a] /\ Sum(shielded, TokenAssets) \in Nat
      BY <1>1, <2>1, SumNat
    <2>3. Sum(held, TokenAssets) # 0
      BY <1>1, <2>2
    <2>4. PICK pool \in TokenAssets : held[pool] # 0
      BY <1>1, <2>3, SumZero
    <2>5. QED
      BY <1>1, <1>3, <2>4
  <1>4. QED
    BY <1>2, <1>3

\* Value can always leave: whatever was registered, switched in the registry or
\* served by other pools, the hub's checks accept a withdrawal of an asset that
\* has notes, at a pool that has the tokens, while hub and pools are switched on.
THEOREM ValueIsNeverTrapped == Spec => []ValueCanLeave
  <1>1. Init => Registered
    BY DEF Init, Registered, ConfigsTyped
  <1>2. IInv /\ Registered /\ [Next]_vars => Registered'
    BY RegisteredStep
  <1>3. IInv /\ Registered => ValueCanLeave
    <2> SUFFICES ASSUME IInv, Registered, ~is_paused, \A b \in Assets : pool_active[b],
                        NEW a \in Assets, shielded[a] > 0
                 PROVE  \E type \in PoolTypes, hub_config, pool \in Assets :
                            LET p == [asset |-> a, mint |-> pool, ext_amount |-> -1,
                                      reward_acc |-> [b \in {a} |-> reward_accumulator[b]]]
                            IN  /\ \E configs \in [{a} -> Assets] : PassesChecks(p, configs)
                                /\ ValidateSlot(p, type, hub_config, pool)
                                /\ held[pool] >= 1
      BY DEF ValueCanLeave
    <2>1. PICK pool \in Assets : (pool = UNIFIED_SOL <=> a = UNIFIED_SOL) /\ held[pool] >= 1
      BY SomePoolHolds
    <2>2. /\ a \in DOMAIN pool_configs /\ pool_configs[a].pool_type = TypeOf(a)
          /\ TypeOf(a) \in PoolTypes /\ a # NoAsset
      BY RoutingAssumption DEF Registered, TypeOf, PoolTypes, Assets
    <2> DEFINE p == [asset |-> a, mint |-> pool, ext_amount |-> -1,
                     reward_acc |-> [b \in {a} |-> reward_accumulator[b]]]
    <2>3. PassesChecks(p, [b \in {a} |-> a])
      <3>1. ValidateAccumulator(a, reward_accumulator[a], a)
        BY <2>2, RoutingAssumption DEF ValidateAccumulator, TypeOf, is_reserved, Assets
      <3>2. QED
        BY <3>1 DEF PassesChecks
    <2>4. ValidateSlot(p, TypeOf(a), a, pool)
      BY <2>1, <2>2, RoutingAssumption DEF ValidateSlot, SlotTypeMatches, TypeOf, is_reserved, Assets
    <2>5. [b \in {a} |-> a] \in [{a} -> Assets]
      OBVIOUS
    <2>6. \E configs \in [{a} -> Assets] : PassesChecks(p, configs)
      BY <2>3, <2>5
    <2>7. QED
      BY <2>1, <2>2, <2>4, <2>6
  <1>4. QED
    BY <1>1, <1>2, <1>3, Invariance, PTL DEF Spec
=============================================================================
