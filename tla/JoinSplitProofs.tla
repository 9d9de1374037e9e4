-------------------------- MODULE JoinSplitProofs --------------------------
(***************************************************************************)
(* The transaction circuit, for every field, number of slots, lines, notes *)
(* and assets: a note that holds value stays spendable, and the notes of   *)
(* an asset hold what was paid in, paid out and claimed as rewards.        *)
(***************************************************************************)
EXTENDS JoinSplit, Arithmetic, SequenceTheorems

\* Some registry line is for the asset.
HasLine(asset) == \E k \in Lines : rewardAssetId[k] = asset

\* Enabled leaves: their rho is the nullifier of a spent input, they have a line
\* in the registry, and their accumulator is not in the future.
LeavesRooted ==
    \A i \in DOMAIN leaves : Enabled(leaves[i]) =>
        /\ leaves[i].rho \in nullifiers
        /\ HasLine(leaves[i].assetId)
        /\ leaves[i].assetId \in Assets
        /\ leaves[i].acc \in Nat
        /\ leaves[i].acc <= rewardAcc[leaves[i].assetId]

\* No two of them share a rho.
RhosUnique ==
    \A i, j \in DOMAIN leaves :
        Enabled(leaves[i]) /\ Enabled(leaves[j]) /\ leaves[i].rho = leaves[j].rho => i = j

\* A nullifier that was not of padding is of a leaf ...
NullifiersRooted ==
    \A x \in nullifiers : Enabled(x.commitment) =>
        \E i \in DOMAIN leaves : leaves[i] = x.commitment

\* ... that was consumed.
UnspentFresh ==
    \A i \in DOMAIN leaves \ consumed :
        Enabled(leaves[i]) => Nullifier(leaves[i]) \notin nullifiers

IInv ==
    /\ \E N : leaves \in Seq(N)
    /\ rewardAcc \in [Assets -> 0..MaxAcc]
    /\ LeavesRooted
    /\ RhosUnique
    /\ NullifiersRooted
    /\ UnspentFresh

\* An empty tree of notes has nothing to violate.
LEMMA InitInvariant == Init => IInv
  <1> SUFFICES ASSUME Init PROVE IInv
    OBVIOUS
  <1>1. leaves = << >> /\ nullifiers = {} /\ DOMAIN leaves = {}
    BY DEF Init
  <1>2. leaves \in Seq({})
    BY <1>1
  <1>3. rewardAcc \in [Assets -> 0..MaxAcc]
    BY JoinSplitAssumption DEF Init
  <1>4. LeavesRooted /\ RhosUnique /\ NullifiersRooted /\ UnspentFresh
    BY <1>1 DEF LeavesRooted, RhosUnique, NullifiersRooted, UnspentFresh
  <1>5. QED
    BY <1>2, <1>3, <1>4 DEF IInv

\* The same note has the same nullifier and no other note has it.
LEMMA NullifierInjective ==
    ASSUME NEW m, NEW n
    PROVE  /\ Nullifier(m) = Nullifier(n) => m = n
           /\ Nullifier(m).commitment = m
  BY DEF Nullifier

\* What a transaction with a proof does to leaves and nullifiers, from what the
\* circuit says of its inputs and outputs.
LEMMA TransactInvariant ==
    ASSUME IInv, NEW ins, NEW lines, NEW notes, Transact(ins, lines, notes),
           Outputs \subseteq Inputs,
           notes \in [Outputs -> {notes[j] : j \in Outputs}],
           \A n \in Inputs :
              \/ ~Enabled(ins[n].note)
              \/ ins[n].pos \in DOMAIN leaves /\ ins[n].note = leaves[ins[n].pos],
           \A m, n \in Inputs : m # n => Nullifier(ins[m].note) # Nullifier(ins[n].note),
           \A n \in Inputs : Nullifier(ins[n].note) \notin nullifiers,
           \A j \in Outputs : Enabled(notes[j]) =>
              /\ notes[j].rho = Nullifier(ins[j].note)
              /\ HasLine(notes[j].assetId)
              /\ notes[j].assetId \in Assets
              /\ notes[j].acc \in Nat
              /\ notes[j].acc <= rewardAcc[notes[j].assetId]
    PROVE  IInv'
  <1> DEFINE len == Len(leaves)
             nf(n) == Nullifier(ins[n].note)
             new == {nf(n) : n \in Inputs}
  <1>1. PICK N : leaves \in Seq(N)
    BY DEF IInv
  <1>2. /\ nullifiers' = nullifiers \cup new
        /\ leaves' = leaves \o notes
        /\ consumed' = consumed \cup ({ins[n].pos : n \in Inputs} \ {0})
        /\ rewardAcc' = rewardAcc
    BY DEF Transact
  <1>3. /\ LeavesRooted /\ RhosUnique /\ NullifiersRooted /\ UnspentFresh
        /\ rewardAcc \in [Assets -> 0..MaxAcc]
    BY DEF IInv
  <1> DEFINE M == N \cup {notes[j] : j \in Outputs}
  <1>4. leaves \in Seq(M) /\ notes \in Seq(M) /\ Len(notes) = nOutputNotes /\ DOMAIN leaves = 1..len
        /\ len \in Nat /\ nOutputNotes \in Nat
    <2>1. nOutputNotes \in Nat /\ Outputs = 1..nOutputNotes
      BY JoinSplitAssumption DEF Outputs
    <2>2. leaves \in Seq(M)
      BY <1>1
    <2>3. notes \in Seq(M) /\ Len(notes) = nOutputNotes
      BY <2>1
    <2>4. QED
      BY <1>1, <2>1, <2>2, <2>3
  <1>5. /\ leaves' \in Seq(M) /\ Len(leaves') = len + nOutputNotes
        /\ \A i \in 1..(len + nOutputNotes) :
              leaves'[i] = IF i <= len THEN leaves[i] ELSE notes[i - len]
    <2> HIDE DEF M
    <2>1. leaves \in Seq(M) /\ notes \in Seq(M)
      BY <1>4
    <2> DEFINE ms == notes
    <2> HIDE DEF ms
    <2>2. ms \in Seq(M)
      BY <2>1 DEF ms
    <2>3. /\ leaves \o ms \in Seq(M) /\ Len(leaves \o ms) = Len(leaves) + Len(ms)
          /\ \A i \in 1..(Len(leaves) + Len(ms)) :
                (leaves \o ms)[i] = IF i <= Len(leaves) THEN leaves[i] ELSE ms[i - Len(leaves)]
      BY <2>1, <2>2, ConcatProperties
    <2>4. /\ leaves \o notes \in Seq(M) /\ Len(leaves \o notes) = Len(leaves) + Len(notes)
          /\ \A i \in 1..(Len(leaves) + Len(notes)) :
                (leaves \o notes)[i] = IF i <= Len(leaves) THEN leaves[i] ELSE notes[i - Len(leaves)]
      BY <2>3 DEF ms
    <2>5. QED
      BY <1>2, <1>4, <2>4
  <1>6. DOMAIN leaves' = 1..(len + nOutputNotes)
    BY <1>5
  <1> HIDE DEF M
  \* Old leaves and new ones.
  <1>7. ASSUME NEW i \in DOMAIN leaves'
        PROVE  \/ i \in DOMAIN leaves /\ leaves'[i] = leaves[i]
               \/ /\ i \notin DOMAIN leaves /\ i - len \in Outputs
                  /\ leaves'[i] = notes[i - len]
    BY <1>4, <1>5, <1>6 DEF Outputs
  <1>8. \A i \in DOMAIN leaves : i \in DOMAIN leaves' /\ leaves'[i] = leaves[i]
    BY <1>4, <1>5, <1>6
  <1>9. \A i, j \in DOMAIN leaves' : i - len = j - len => i = j
    BY <1>4, <1>6
  <1> HIDE DEF len
  <1>10. LeavesRooted'
    <2> SUFFICES ASSUME NEW i \in DOMAIN leaves', Enabled(leaves'[i])
                 PROVE  /\ leaves'[i].rho \in nullifiers'
                        /\ HasLine(leaves'[i].assetId)
                        /\ leaves'[i].assetId \in Assets
                        /\ leaves'[i].acc \in Nat
                        /\ leaves'[i].acc <= rewardAcc'[leaves'[i].assetId]
      BY DEF LeavesRooted, Enabled, HasLine
    <2>1. CASE i \in DOMAIN leaves /\ leaves'[i] = leaves[i]
      BY <1>2, <1>3, <2>1 DEF LeavesRooted
    <2>2. CASE i - len \in Outputs /\ leaves'[i] = notes[i - len]
      <3> DEFINE j == i - len
      <3>1. j \in Outputs /\ j \in Inputs /\ leaves'[i] = notes[j]
        BY <2>2
      <3> HIDE DEF j
      <3>2. notes[j].rho \in new
        BY <3>1
      <3>3. QED
        BY <1>2, <3>1, <3>2
    <2>3. QED
      BY <1>7, <2>1, <2>2
  <1>11. RhosUnique'
    <2> SUFFICES ASSUME NEW i \in DOMAIN leaves', NEW j \in DOMAIN leaves',
                        Enabled(leaves'[i]), Enabled(leaves'[j]),
                        leaves'[i].rho = leaves'[j].rho
                 PROVE  i = j
      BY DEF RhosUnique, Enabled
    <2>1. ASSUME NEW k \in DOMAIN leaves', Enabled(leaves'[k]), k \in DOMAIN leaves
          PROVE  leaves'[k].rho \in nullifiers /\ leaves'[k] = leaves[k]
      BY <1>3, <1>8, <2>1 DEF LeavesRooted
    <2>2. ASSUME NEW k \in DOMAIN leaves', Enabled(leaves'[k]), k \notin DOMAIN leaves
          PROVE  /\ k - len \in Inputs /\ leaves'[k].rho = nf(k - len)
                 /\ leaves'[k].rho \notin nullifiers
      <3> DEFINE h == k - len
      <3>1. h \in Outputs /\ h \in Inputs /\ leaves'[k] = notes[h]
        BY <1>7, <2>2
      <3> HIDE DEF h
      <3>2. h \in Inputs /\ leaves'[k].rho = nf(h) /\ nf(h) \notin nullifiers
        BY <2>2, <3>1
      <3>3. QED
        BY <3>2 DEF h
    <2>3. CASE i \in DOMAIN leaves /\ j \in DOMAIN leaves
      BY <1>3, <2>1, <2>3 DEF RhosUnique
    <2>4. CASE i \notin DOMAIN leaves /\ j \notin DOMAIN leaves
      <3> DEFINE a == i - len
                 b == j - len
      <3>1. a \in Inputs /\ b \in Inputs /\ nf(a) = nf(b)
        BY <2>2, <2>4
      <3> HIDE DEF a, b
      <3>2. a = b
        BY <3>1
      <3>3. QED
        BY <1>9, <3>2 DEF a, b
    <2>5. QED
      BY <2>1, <2>2, <2>3, <2>4
  <1>12. NullifiersRooted'
    <2> SUFFICES ASSUME NEW x \in nullifiers', Enabled(x.commitment)
                 PROVE  \E i \in DOMAIN leaves' : leaves'[i] = x.commitment
      BY DEF NullifiersRooted, Enabled
    <2>1. CASE x \in nullifiers
      BY <1>3, <1>8, <2>1 DEF NullifiersRooted
    <2>2. CASE x \in new
      <3>1. PICK n \in Inputs : x = nf(n)
        BY <2>2
      <3>2. x.commitment = ins[n].note
        BY <3>1, NullifierInjective
      <3>3. QED
        BY <1>8, <3>2
    <2>3. QED
      BY <1>2, <2>1, <2>2
  <1>13. UnspentFresh'
    <2> SUFFICES ASSUME NEW i \in DOMAIN leaves', i \notin consumed', Enabled(leaves'[i]),
                        Nullifier(leaves'[i]) \in nullifiers'
                 PROVE  FALSE
      BY DEF UnspentFresh, Enabled, Nullifier
    <2> DEFINE note == leaves'[i]
    <2>1. \E k \in DOMAIN leaves : leaves[k] = note /\ (k \in consumed' \/ Nullifier(note) \in nullifiers)
      <3>1. CASE Nullifier(note) \in nullifiers
        BY <1>3, <3>1, NullifierInjective DEF NullifiersRooted
      <3>2. CASE Nullifier(note) \in new
        <4>1. PICK n \in Inputs : Nullifier(note) = nf(n)
          BY <3>2
        <4>2. note = ins[n].note
          BY <4>1, NullifierInjective
        <4>3. ins[n].pos \in DOMAIN leaves /\ leaves[ins[n].pos] = note
          BY <4>2
        <4>4. ins[n].pos # 0
          BY <1>4, <4>3
        <4>5. ins[n].pos \in consumed'
          BY <1>2, <4>4
        <4>6. QED
          BY <4>3, <4>5
      <3>3. QED
        BY <1>2, <3>1, <3>2
    <2>2. PICK k \in DOMAIN leaves : /\ leaves[k] = note
                                     /\ k \in consumed' \/ Nullifier(note) \in nullifiers
      BY <2>1
    <2>3. k \in DOMAIN leaves' /\ leaves'[k] = note
      BY <1>8, <2>2
    <2>4. k = i
      BY <1>11, <2>3 DEF RhosUnique, Enabled
    <2>5. i \notin consumed /\ i \in DOMAIN leaves
      BY <1>2, <2>2, <2>4
    <2>6. QED
      BY <1>3, <2>2, <2>4, <2>5 DEF UnspentFresh
  <1>14. \E S : leaves' \in Seq(S)
    BY <1>5
  <1>15. QED
    BY <1>2, <1>3, <1>10, <1>11, <1>12, <1>13, <1>14 DEF IInv

-----------------------------------------------------------------------------
\* Selections.  A selector with one bit selects one position; the sum over it
\* is the value there.
LEMMA OneBit ==
    ASSUME NEW bits, NEW S, IsFiniteSet(S), bits \subseteq S, Cardinality(bits) = 1
    PROVE  \E x \in S : bits = {x}
  BY FS_Singleton, FS_Subset

\* A sum in the field is the remainder of the sum of integers.
LEMMA FieldSumIs ==
    ASSUME NEW f, NEW S
    PROVE  FieldSum(f, S) = Sum(f, S) % P
  BY DEF FieldSum, Total, Sum

\* A selection of one field element is that element.
LEMMA SingleSum ==
    ASSUME NEW f, NEW x, f[x] \in Nat, f[x] < P
    PROVE  Sum(f, {x}) % P = f[x]
  <1>1. IsFiniteSet({x}) /\ x \in {x} /\ f[x] \in Int /\ \A y \in {x} \ {x} : f[y] = 0
    BY FS_Singleton
  <1>2. Sum(f, {x}) = f[x]
    BY <1>1, SumSingle
  <1>3. P \in Nat
    BY JoinSplitAssumption
  <1>4. QED
    BY <1>2, <1>3

\* OneHotValidator, with one bit, finds a position with the expected value.
LEMMA OneHotSelects ==
    ASSUME NEW bits, NEW enabled, IsFiniteSet(enabled), NEW values, NEW expected,
           \A x \in enabled : values[x] \in Nat /\ values[x] < P,
           OneHot(bits, enabled, values, 1, expected)
    PROVE  \E x \in enabled : bits = {x} /\ values[x] = expected
  <1>1. /\ bits \subseteq enabled /\ Cardinality(bits) = 1
        /\ Sum(values, bits) % P = expected
    BY FieldSumIs DEF OneHot
  <1>2. PICK x \in enabled : bits = {x}
    BY <1>1, OneBit
  <1>3. Sum(values, {x}) % P = values[x]
    BY SingleSum
  <1>4. QED
    BY <1>1, <1>2, <1>3

\* The accumulator of a selected slot, and of a selected line.
LEMMA SlotAccIs ==
    ASSUME NEW acc, NEW j, acc[j] \in Nat, acc[j] < P
    PROVE  SlotAcc(acc, {j}) = acc[j]
  BY SingleSum, FieldSumIs DEF SlotAcc

\* A selector of one registry line selects its accumulator.
LEMMA LineAccIs ==
    ASSUME NEW k \in Lines, LineAccs[k] \in Nat, LineAccs[k] < P
    PROVE  FieldSum(LineAccs, {k}) = LineAccs[k]
  BY SingleSum, FieldSumIs

\* The ranges that keep selections of one value out of the modulus.
LEMMA Ranges ==
    /\ P \in Nat /\ MaxAcc \in Nat /\ MaxAcc < P
    /\ \A a \in Assets \cup {0} : a \in Nat /\ a < P
    /\ IsFiniteSet(Slots) /\ IsFiniteSet(Lines)
    /\ \A k \in Lines : rewardAssetId[k] \in Assets \cup {0}
    /\ 0 \notin Assets
  <1>1. /\ P \in Nat /\ MaxAcc \in Nat /\ MaxAcc < P
        /\ \A a \in Assets \cup {0} : a \in Nat /\ a < P
        /\ 0 \notin Assets
    BY JoinSplitAssumption
  <1>2. IsFiniteSet(Slots)
    <2>1. 1 \in Int /\ nRosterSlots \in Int
      BY JoinSplitAssumption
    <2>2. QED
      BY <2>1, FS_Interval DEF Slots
  <1>3. Lines = 1..Len(rewardAssetId) /\ Len(rewardAssetId) \in Nat
        /\ \A k \in Lines : rewardAssetId[k] \in Assets \cup {0}
    BY JoinSplitAssumption DEF Lines
  <1>4. IsFiniteSet(Lines)
    <2>1. IsFiniteSet(1..Len(rewardAssetId))
      BY <1>3, FS_Interval
    <2>2. QED
      BY <1>3, <2>1
  <1>5. QED
    BY <1>1, <1>2, <1>3, <1>4

\* Sections 4 and 6: an enabled output has its asset's accumulator and a line.
LEMMA OutputRooted ==
    ASSUME IInv, NEW on \in SUBSET Slots, NEW roster \in [Slots -> Assets \cup {0}],
           NEW acc \in SlotAccs(roster, on), NEW note, NEW sel,
           Enabled(note), note.assetId \in Assets,
           OneHot(sel, on, roster, Bit(Enabled(note)), note.assetId),
           OutputAcc(note, sel, acc)
    PROVE  HasLine(note.assetId) /\ note.acc \in Nat /\ note.acc = rewardAcc[note.assetId]
  <1> DEFINE a == note.assetId
  <1>1. OneHot(sel, on, roster, 1, a)
    BY DEF Bit
  <1>2. IsFiniteSet(on) /\ \A x \in on : roster[x] \in Nat /\ roster[x] < P
    <2>1. IsFiniteSet(on)
      BY Ranges, FS_Subset
    <2>2. QED
      BY <2>1, Ranges
  <1>3. PICK j \in on : sel = {j} /\ roster[j] = a
    BY <1>1, <1>2, OneHotSelects
  <1>4. acc \in [Slots -> 0..MaxAcc] /\ j \in Slots
    BY DEF SlotAccs
  <1>5. PICK bits \in SUBSET Lines :
              /\ OneHot(bits, Lines, rewardAssetId, Bit(j \in on), roster[j])
              /\ acc[j] = FieldSum(LineAccs, bits)
    BY <1>4 DEF SlotAccs
  <1>6. OneHot(bits, Lines, rewardAssetId, 1, a)
    BY <1>3, <1>5 DEF Bit
  <1>7. \A x \in Lines : rewardAssetId[x] \in Nat /\ rewardAssetId[x] < P
    BY Ranges
  <1>8. PICK k \in Lines : bits = {k} /\ rewardAssetId[k] = a
    BY <1>6, <1>7, Ranges, OneHotSelects
  <1>9. LineAccs[k] = rewardAcc[a]
    BY <1>8, Ranges DEF LineAccs
  <1>10. rewardAcc[a] \in Nat /\ rewardAcc[a] < P
    BY Ranges DEF IInv
  <1>11. acc[j] = rewardAcc[a]
    <2>1. FieldSum(LineAccs, {k}) = LineAccs[k]
      BY <1>9, <1>10, LineAccIs
    <2>2. QED
      BY <1>5, <1>8, <1>9, <2>1
  <1>12. note.acc = SlotAcc(acc, {j})
    BY <1>3 DEF OutputAcc
  <1>13. SlotAcc(acc, {j}) = acc[j]
    BY <1>10, <1>11, SlotAccIs
  <1>14. QED
    BY <1>8, <1>10, <1>11, <1>12, <1>13 DEF HasLine

\* Sections 6 and 7: an input is a leaf or holds nothing.
LEMMA InputIsLeaf ==
    ASSUME NEW on, NEW roster, NEW acc, NEW c \in InputChoices(roster, on, acc)
    PROVE  \/ ~Enabled(c.note)
           \/ c.pos \in DOMAIN leaves /\ c.note = leaves[c.pos]
  <1> DEFINE padding == [pos : {0}, note : {Dummy(pk, rho) : pk \in Pks, rho \in DummyRhos}]
             held    == {[pos |-> i, note |-> leaves[i]] : i \in DOMAIN leaves}
             routed  == {[pos |-> d.pos, note |-> d.note, sel |-> bits] :
                           d \in padding \cup held, bits \in SUBSET on}
  <1>1. PICK r \in routed : c.pos = r.pos /\ c.note = r.note
    BY DEF InputChoices
  <1>2. PICK d \in padding \cup held : r.pos = d.pos /\ r.note = d.note
    BY <1>1
  <1>3. CASE d \in padding
    <2>1. PICK pk \in Pks, rho \in DummyRhos : d.note = Dummy(pk, rho)
      BY <1>3
    <2>2. QED
      BY <1>1, <1>2, <2>1 DEF Dummy, Enabled
  <1>4. CASE d \in held
    BY <1>1, <1>2, <1>4
  <1>5. QED
    BY <1>2, <1>3, <1>4

\* Sections 6 and 8: an enabled output is a note of an asset.
LEMMA OutputIsNote ==
    ASSUME NEW on, NEW roster, NEW acc, NEW c \in OutputChoices(roster, on, acc), NEW rho
    PROVE  /\ OneHot(c.sel, on, roster, Bit(Enabled(c.note)), c.note.assetId)
           /\ OutputAcc(c.note, c.sel, acc)
           /\ Enabled(OutputNote(c.note, rho)) =>
                 /\ Enabled(c.note) /\ c.note.assetId \in Assets
                 /\ OutputNote(c.note, rho).rho = rho
                 /\ OutputNote(c.note, rho).assetId = c.note.assetId
                 /\ OutputNote(c.note, rho).acc = c.note.acc
  <1> DEFINE padding == {Dummy(pk, NoRho) : pk \in Pks}
             real == [assetId : Assets, amount : {x \in 1..(P - 1) : Num2Bits(x)},
                      pk : Pks, acc : 0..MaxAcc, rho : {NoRho}]
  <1>1. /\ c.note \in padding \cup real
        /\ OneHot(c.sel, on, roster, Bit(Enabled(c.note)), c.note.assetId)
        /\ OutputAcc(c.note, c.sel, acc)
    BY DEF OutputChoices
  <1>2. CASE c.note \in padding
    <2>1. ~Enabled(c.note)
      BY <1>2 DEF Dummy, Enabled
    <2>2. OutputNote(c.note, rho) = c.note
      BY <2>1 DEF OutputNote
    <2>3. QED
      BY <1>1, <2>1, <2>2
  <1>3. CASE c.note \in real /\ ~Enabled(c.note)
    <2>1. OutputNote(c.note, rho) = c.note
      BY <1>3 DEF OutputNote
    <2>2. QED
      BY <1>1, <1>3, <2>1
  <1>4. CASE c.note \in real /\ Enabled(c.note)
    <2>1. OutputNote(c.note, rho) = [c.note EXCEPT !.rho = rho]
      BY <1>4 DEF OutputNote
    <2>2. /\ [c.note EXCEPT !.rho = rho].rho = rho
          /\ [c.note EXCEPT !.rho = rho].assetId = c.note.assetId
          /\ [c.note EXCEPT !.rho = rho].acc = c.note.acc
          /\ c.note.assetId \in Assets
      BY <1>4
    <2>3. QED
      BY <1>1, <1>4, <2>1, <2>2
  <1>5. QED
    BY <1>1, <1>2, <1>3, <1>4

\* What TransactStep says of a witness whose parts are well formed.
Accepted(in, public, out) ==
    LET nfs == [n \in Inputs |-> Nullifier(in.items[n].note)] IN
    /\ Conserved(in, public, out)
    /\ NullifiersUnique(nfs)
    /\ \A n \in Inputs : nfs[n] \notin nullifiers
    /\ \E rhos \in OutputRhos(nfs) :
         Transact(in.items, public.items, [n \in Outputs |->
             OutputNote(out.items[n].note, rhos[n])])

\* Every transaction that has a proof keeps the invariant.
LEMMA TransactStepInvariant ==
    ASSUME IInv, nOutputNotes <= nInputNotes, TransactStep
    PROVE  IInv'
  <1> DEFINE lineValue(line) == ToField(line.amount)
             inValue(in)     == TotalValue(in)
             outAmount(out)  == out.note.amount
             Witness(on, roster, acc) ==
               \E public \in Tuples(Publics, PublicChoices(roster, on), lineValue),
                  out \in Tuples(Outputs, OutputChoices(roster, on, acc), outAmount),
                  in \in Tuples(Inputs, InputChoices(roster, on, acc), inValue) :
                  Accepted(in, public, out)
  <1>0. PICK on \in SUBSET Slots, roster \in [Slots -> Assets \cup {0}] :
          \E acc \in SlotAccs(roster, on) : Witness(on, roster, acc)
    BY Zenon DEF TransactStep, Accepted
  <1>1. PICK acc \in SlotAccs(roster, on) : Witness(on, roster, acc)
    BY <1>0
  <1>2. PICK public \in Tuples(Publics, PublicChoices(roster, on), lineValue),
             out \in Tuples(Outputs, OutputChoices(roster, on, acc), outAmount),
             in \in Tuples(Inputs, InputChoices(roster, on, acc), inValue) :
          Accepted(in, public, out)
    BY Zenon, <1>1
  <1> DEFINE ins  == in.items
             outs == out.items
             nfs  == [n \in Inputs |-> Nullifier(ins[n].note)]
  <1>3. ins \in [Inputs -> InputChoices(roster, on, acc)]
    BY DEF Tuples, BySlot
  <1>4. outs \in [Outputs -> OutputChoices(roster, on, acc)]
    BY DEF Tuples, BySlot
  <1>5. PICK rhos \in OutputRhos(nfs) :
           Transact(ins, public.items, [n \in Outputs |-> OutputNote(outs[n].note, rhos[n])])
    BY <1>2 DEF Accepted
  <1>6. NullifiersUnique(nfs) /\ \A n \in Inputs : nfs[n] \notin nullifiers
    BY <1>2 DEF Accepted
  <1> DEFINE notes == [n \in Outputs |-> OutputNote(outs[n].note, rhos[n])]
  <1>7. Outputs \subseteq Inputs
    BY JoinSplitAssumption DEF Outputs, Inputs
  <1>8. notes \in [Outputs -> {notes[j] : j \in Outputs}]
    OBVIOUS
  <1>9. \A n \in Inputs : nfs[n] = Nullifier(ins[n].note)
    OBVIOUS
  <1>10. \A j \in Outputs : rhos[j] = Nullifier(ins[j].note)
    BY <1>7, <1>9 DEF OutputRhos
  <1>11. \A j \in Outputs : notes[j] = OutputNote(outs[j].note, rhos[j])
    OBVIOUS
  <1> HIDE DEF ins, outs, nfs, notes
  <1>12. \A n \in Inputs :
           \/ ~Enabled(ins[n].note)
           \/ ins[n].pos \in DOMAIN leaves /\ ins[n].note = leaves[ins[n].pos]
    BY <1>3, InputIsLeaf
  <1>13. \A m, n \in Inputs : m # n => Nullifier(ins[m].note) # Nullifier(ins[n].note)
    BY <1>6, <1>9 DEF NullifiersUnique
  <1>14. \A n \in Inputs : Nullifier(ins[n].note) \notin nullifiers
    BY <1>6, <1>9
  <1>15. ASSUME NEW j \in Outputs, Enabled(notes[j])
         PROVE  /\ notes[j].rho = Nullifier(ins[j].note)
                /\ HasLine(notes[j].assetId)
                /\ notes[j].assetId \in Assets
                /\ notes[j].acc \in Nat
                /\ notes[j].acc <= rewardAcc[notes[j].assetId]
    <2> DEFINE c == outs[j]
               rho == rhos[j]
    <2>1. c \in OutputChoices(roster, on, acc)
      BY <1>4
    <2>2. notes[j] = OutputNote(c.note, rho) /\ rho = Nullifier(ins[j].note)
      BY <1>10, <1>11
    <2> HIDE DEF c, rho
    <2>3. /\ OneHot(c.sel, on, roster, Bit(Enabled(c.note)), c.note.assetId)
          /\ OutputAcc(c.note, c.sel, acc)
          /\ Enabled(c.note) /\ c.note.assetId \in Assets
          /\ notes[j].rho = rho
          /\ notes[j].assetId = c.note.assetId
          /\ notes[j].acc = c.note.acc
      BY <1>15, <2>1, <2>2, OutputIsNote
    <2>4. /\ HasLine(c.note.assetId) /\ c.note.acc \in Nat
          /\ c.note.acc = rewardAcc[c.note.assetId]
      BY <2>3, OutputRooted
    <2>5. QED
      BY <2>2, <2>3, <2>4
  <1>16. Transact(ins, public.items, notes)
    BY <1>5 DEF notes
  <1>17. QED
    BY <1>7, <1>8, <1>12, <1>13, <1>14, <1>15, <1>16, TransactInvariant

\* Accumulators only grow.
LEMMA AccrueInvariant ==
    ASSUME IInv, NEW a \in Assets, Accrue(a)
    PROVE  IInv'
  <1>1. /\ rewardAcc' = [rewardAcc EXCEPT ![a] = rewardAcc[a] + 1] /\ rewardAcc[a] < MaxAcc
        /\ leaves' = leaves /\ nullifiers' = nullifiers /\ consumed' = consumed
    BY DEF Accrue
  <1>2. rewardAcc \in [Assets -> 0..MaxAcc] /\ MaxAcc \in Nat
    BY Ranges DEF IInv
  <1>3. /\ rewardAcc' \in [Assets -> 0..MaxAcc]
        /\ \A b \in Assets : rewardAcc[b] <= rewardAcc'[b] /\ rewardAcc[b] \in Nat /\ rewardAcc'[b] \in Nat
    BY <1>1, <1>2
  <1>4. LeavesRooted'
    <2> SUFFICES ASSUME NEW i \in DOMAIN leaves, Enabled(leaves[i])
                 PROVE  /\ leaves[i].rho \in nullifiers
                        /\ HasLine(leaves[i].assetId)
                        /\ leaves[i].assetId \in Assets
                        /\ leaves[i].acc \in Nat
                        /\ leaves[i].acc <= rewardAcc'[leaves[i].assetId]
      BY <1>1 DEF LeavesRooted, HasLine, Enabled
    <2> DEFINE b == leaves[i].assetId
               t == leaves[i].acc
    <2>1. leaves[i].rho \in nullifiers /\ HasLine(b) /\ b \in Assets /\ t \in Nat /\ t <= rewardAcc[b]
      BY DEF IInv, LeavesRooted
    <2> HIDE DEF b, t
    <2>2. t <= rewardAcc'[b]
      BY <1>3, <2>1
    <2>3. QED
      BY <2>1, <2>2 DEF b, t
  <1>5. RhosUnique' /\ NullifiersRooted' /\ UnspentFresh'
    BY <1>1 DEF IInv, RhosUnique, NullifiersRooted, UnspentFresh, Enabled, Nullifier
  <1>6. \E N : leaves' \in Seq(N)
    BY <1>1 DEF IInv
  <1>7. QED
    BY <1>3, <1>4, <1>5, <1>6 DEF IInv

\* The chain from nullifiers to rhos never breaks, in every instance with no more
\* outputs than inputs: the circuits that are compiled, transaction-2, -4 and -16.
THEOREM Invariance ==
    ASSUME nOutputNotes <= nInputNotes
    PROVE  Spec => []IInv
  <1>1. IInv /\ [Next]_vars => IInv'
    <2> SUFFICES ASSUME IInv, [Next]_vars PROVE IInv'
      OBVIOUS
    <2>1. CASE TransactStep
      BY <2>1, TransactStepInvariant
    <2>2. CASE \E a \in Assets : Accrue(a)
      BY <2>2, AccrueInvariant
    <2>3. CASE UNCHANGED vars
      BY <2>3 DEF vars, IInv, LeavesRooted, RhosUnique, NullifiersRooted, UnspentFresh,
                  Enabled, Nullifier, HasLine
    <2>4. QED
      BY <2>1, <2>2, <2>3 DEF Next
  <1>2. QED
    BY <1>1, InitInvariant, PTL DEF Spec

\* Section 8.1, "each output rho is unique": an unspent note with value can always
\* be spent.  Nothing else has its nullifier, its asset has a line in the registry,
\* and its accumulator is not in the future.
THEOREM NotesStaySpendable ==
    ASSUME nOutputNotes <= nInputNotes
    PROVE  Spec => []NotesSpendable
  <1>1. IInv => NotesSpendable
    BY DEF IInv, LeavesRooted, UnspentFresh, NotesSpendable, HasLine
  <1>2. QED
    BY <1>1, Invariance, PTL

\* A total is a sum of Arithmetic's lemmas.
LEMMA TotalIs ==
    ASSUME NEW f, NEW S
    PROVE  Total(f, S) = Sum(f, S)
  BY DEF Total, Sum

\* s is the sequence of leaves ls with the outputs appended.
IsAppended(s, ls, notes, len) ==
    /\ \E S : s \in Seq(S)
    /\ DOMAIN ls = 1..len /\ len \in Nat /\ nOutputNotes \in Nat
    /\ DOMAIN s = 1..(len + nOutputNotes)
    /\ \A i \in DOMAIN ls : i \in DOMAIN s /\ s[i] = ls[i]
    /\ \A j \in Outputs : len + j \in DOMAIN s /\ s[len + j] = notes[j]
    /\ \A i \in DOMAIN s : i \in DOMAIN ls \/ \E j \in Outputs : i = len + j

\* What the concatenation of execute_transact's step E3 gives.
LEMMA Appended ==
    ASSUME NEW N, NEW ls \in Seq(N), NEW O, NEW notes \in [Outputs -> O]
    PROVE  IsAppended(ls \o notes, ls, notes, Len(ls))
  <1> DEFINE M == N \cup O
             k == nOutputNotes
  <1>1. k \in Nat /\ Outputs = 1..k
    BY JoinSplitAssumption DEF Outputs
  <1>2. ls \in Seq(M)
    OBVIOUS
  <1>3. notes \in Seq(M) /\ Len(notes) = k
    BY <1>1
  <1> DEFINE len == Len(ls)
             s == ls \o notes
  <1>4. len \in Nat /\ DOMAIN ls = 1..len
    OBVIOUS
  <1> HIDE DEF M, k
  <1>5. /\ s \in Seq(M) /\ Len(s) = len + Len(notes)
        /\ \A i \in 1..(len + Len(notes)) :
              s[i] = IF i <= len THEN ls[i] ELSE notes[i - len]
    BY <1>2, <1>3, ConcatProperties
  <1>6. DOMAIN s = 1..(len + k)
    BY <1>3, <1>5
  <1>7. \A i \in 1..(len + k) : s[i] = IF i <= len THEN ls[i] ELSE notes[i - len]
    BY <1>3, <1>5
  <1>8. \E S : s \in Seq(S)
    BY <1>5
  <1> HIDE DEF s, len
  <1>9. \A i \in 1..len : i \in 1..(len + k) /\ s[i] = ls[i]
    BY <1>1, <1>4, <1>7
  <1>10. \A j \in 1..k : len + j \in 1..(len + k) /\ s[len + j] = notes[j]
    <2> SUFFICES ASSUME NEW j \in 1..k
                 PROVE  len + j \in 1..(len + k) /\ s[len + j] = notes[j]
      OBVIOUS
    <2>1. len + j \in 1..(len + k) /\ ~(len + j <= len) /\ (len + j) - len = j
      BY <1>1, <1>4
    <2>2. QED
      BY <1>7, <2>1
  <1>11. \A i \in 1..(len + k) : i \in 1..len \/ \E j \in 1..k : i = len + j
    <2> SUFFICES ASSUME NEW i \in 1..(len + k), i \notin 1..len
                 PROVE  \E j \in 1..k : i = len + j
      OBVIOUS
    <2>1. i - len \in 1..k /\ i = len + (i - len)
      BY <1>1, <1>4
    <2>2. QED
      BY <2>1
  <1>12. QED
    <2>1. IsAppended(s, ls, notes, len)
      BY <1>1, <1>4, <1>6, <1>8, <1>9, <1>10, <1>11 DEF k, IsAppended
    <2>2. QED
      BY <2>1 DEF s, len

-----------------------------------------------------------------------------
\* The value of the notes.  A leaf is padding or holds an amount of an asset.
Shaped(note) ==
    \/ note.assetId = 0 /\ note.amount = 0
    \/ /\ note.assetId \in Assets /\ note.acc \in Nat
       /\ note.amount \in 1..(RANGE - 1)

\* A position was consumed with the nullifier of its leaf, so not twice.
ConsumedSpent ==
    \A i \in consumed : i \in DOMAIN leaves /\ Nullifier(leaves[i]) \in nullifiers

LedgerInv ==
    /\ \E N : leaves \in Seq(N)
    /\ rewardAcc \in [Assets -> 0..MaxAcc]
    /\ inflow \in [Assets -> Int] /\ earned \in [Assets -> Int] /\ claimed \in [Assets -> Int]
    /\ \A i \in DOMAIN leaves : Shaped(leaves[i])
    /\ ConsumedSpent

\* The inputs, lines and outputs of an asset, and what they are worth.
Spent(ins, a) == {n \in Inputs : ins[n].note.assetId = a}
Moved(lines, a) == {i \in Publics : lines[i].assetId = a}
Made(notes, a) == {j \in Outputs : notes[j].assetId = a}
SpentAmounts(ins, a) == [n \in Spent(ins, a) |-> ins[n].note.amount]
SpentRewards(ins, a) == [n \in Spent(ins, a) |-> Reward(ins[n].note)]
SpentClaims(ins, a) == [n \in Spent(ins, a) |-> ins[n].reward]
MovedAmounts(lines, a) == [i \in Moved(lines, a) |-> lines[i].amount]
MadeAmounts(notes, a) == [j \in Made(notes, a) |-> notes[j].amount]

\* What a transaction does to the ledger of an asset, by the amounts, rewards and
\* claims of its inputs, and the amounts of its lines and outputs.
LedgerStep(a, amounts, rewards, claims, moved, made) ==
    /\ Held(a) \in Int /\ Held(a)' = Held(a) - amounts + made
    /\ inflow'[a] = inflow[a] + moved
    /\ earned'[a] = earned[a] + rewards
    /\ claimed'[a] = claimed[a] + claims

\* The parts are finite.
LEMMA FiniteParts ==
    ASSUME NEW ins, NEW lines, NEW notes, NEW a
    PROVE  /\ IsFiniteSet(Inputs) /\ Cardinality(Inputs) = nInputNotes
           /\ IsFiniteSet(Publics) /\ Cardinality(Publics) = nPublicLines
           /\ IsFiniteSet(Outputs) /\ Cardinality(Outputs) = nOutputNotes
           /\ IsFiniteSet(Spent(ins, a)) /\ IsFiniteSet(Moved(lines, a))
           /\ IsFiniteSet(Made(notes, a))
  <1>1. \A k \in Nat : IsFiniteSet(1..k) /\ Cardinality(1..k) = k
    BY FS_Interval
  <1>2. /\ IsFiniteSet(Inputs) /\ Cardinality(Inputs) = nInputNotes
        /\ IsFiniteSet(Publics) /\ Cardinality(Publics) = nPublicLines
        /\ IsFiniteSet(Outputs) /\ Cardinality(Outputs) = nOutputNotes
    BY <1>1, JoinSplitAssumption DEF Inputs, Publics, Outputs
  <1>3. Spent(ins, a) \subseteq Inputs /\ Moved(lines, a) \subseteq Publics
        /\ Made(notes, a) \subseteq Outputs
    BY DEF Spent, Moved, Made
  <1>4. QED
    BY <1>2, <1>3, FS_Subset

\* The empty tree holds nothing, and nothing was paid in.
LEMMA InitLedger ==
    ASSUME Init
    PROVE  LedgerInv /\ ClaimsConserved /\ HonestClaimsExact
  <1>1. leaves = << >> /\ DOMAIN leaves = {} /\ consumed = {}
    BY DEF Init
  <1>2. leaves \in Seq({})
    BY <1>1
  <1>3. rewardAcc \in [Assets -> 0..MaxAcc]
    BY JoinSplitAssumption DEF Init
  <1>4. /\ inflow = [a \in Assets |-> 0] /\ earned = [a \in Assets |-> 0]
        /\ claimed = [a \in Assets |-> 0]
    BY DEF Init
  <1>5. ASSUME NEW a \in Assets PROVE Held(a) = 0
    <2>1. Unspent(a) = {}
      BY <1>1 DEF Unspent
    <2> DEFINE f == [i \in Unspent(a) |-> leaves[i].amount]
    <2> HIDE DEF f
    <2>2. Total(f, {}) = 0
      BY TotalIs, SumEmpty
    <2>3. QED
      BY <2>1, <2>2 DEF f, Held
  <1>6. 0 % P = 0
    BY JoinSplitAssumption
  <1>7. ClaimsConserved /\ HonestClaimsExact
    BY <1>4, <1>5, <1>6 DEF ClaimsConserved, HonestClaimsExact
  <1>8. QED
    BY <1>1, <1>2, <1>3, <1>4, <1>7 DEF LedgerInv, ConsumedSpent

\* The step of the ledger.
LEMMA TransactLedger ==
    ASSUME LedgerInv, NEW ins, NEW lines, NEW notes, Transact(ins, lines, notes),
           NEW O, notes \in [Outputs -> O],
           \A n \in Inputs :
              \/ ins[n].pos = 0 /\ ins[n].note.assetId = 0
              \/ ins[n].pos \in DOMAIN leaves /\ ins[n].note = leaves[ins[n].pos],
           \A m, n \in Inputs : m # n => Nullifier(ins[m].note) # Nullifier(ins[n].note),
           \A n \in Inputs : Nullifier(ins[n].note) \notin nullifiers,
           \A i \in Publics : lines[i].amount \in Int,
           \A j \in Outputs : Shaped(notes[j]),
           \A a \in Assets : \A n \in Spent(ins, a) :
              Reward(ins[n].note) \in Int /\ ins[n].reward \in Int
    PROVE  /\ LedgerInv'
           /\ \A a \in Assets : LedgerStep(a,
                 Sum(SpentAmounts(ins, a), Spent(ins, a)),
                 Sum(SpentRewards(ins, a), Spent(ins, a)),
                 Sum(SpentClaims(ins, a), Spent(ins, a)),
                 Sum(MovedAmounts(lines, a), Moved(lines, a)),
                 Sum(MadeAmounts(notes, a), Made(notes, a)))
  <1> DEFINE len == Len(leaves)
  <1>1. PICK N : leaves \in Seq(N)
    BY DEF LedgerInv
  <1>2. /\ nullifiers' = nullifiers \cup {Nullifier(ins[n].note) : n \in Inputs}
        /\ leaves' = leaves \o notes
        /\ consumed' = consumed \cup ({ins[n].pos : n \in Inputs} \ {0})
        /\ rewardAcc' = rewardAcc
    BY DEF Transact
  <1>3. /\ inflow' = [a \in Assets |-> inflow[a] + Sum(MovedAmounts(lines, a), Moved(lines, a))]
        /\ earned' = [a \in Assets |-> earned[a] + Sum(SpentRewards(ins, a), Spent(ins, a))]
        /\ claimed' = [a \in Assets |-> claimed[a] + Sum(SpentClaims(ins, a), Spent(ins, a))]
    BY TotalIs DEF Transact, Moved, MovedAmounts, Spent, SpentRewards, SpentClaims
  <1>4. /\ rewardAcc \in [Assets -> 0..MaxAcc]
        /\ inflow \in [Assets -> Int] /\ earned \in [Assets -> Int] /\ claimed \in [Assets -> Int]
        /\ \A i \in DOMAIN leaves : Shaped(leaves[i])
        /\ ConsumedSpent
    BY DEF LedgerInv
  <1>5. IsAppended(leaves', leaves, notes, len)
    <2>1. IsAppended(leaves \o notes, leaves, notes, Len(leaves))
      BY <1>1, Appended
    <2>2. QED
      BY <1>2, <2>1
  <1>6. /\ DOMAIN leaves = 1..len /\ len \in Nat /\ nOutputNotes \in Nat
        /\ DOMAIN leaves' = 1..(len + nOutputNotes)
        /\ \A i \in DOMAIN leaves : i \in DOMAIN leaves' /\ leaves'[i] = leaves[i]
        /\ \A j \in Outputs : len + j \in DOMAIN leaves' /\ leaves'[len + j] = notes[j]
        /\ \A i \in DOMAIN leaves' : i \in DOMAIN leaves \/ \E j \in Outputs : i = len + j
    <2> HIDE DEF len
    <2>1. QED
      BY <1>5 DEF IsAppended
  <1>a. \E S : leaves' \in Seq(S)
    <2> HIDE DEF len
    <2>1. QED
      BY <1>5 DEF IsAppended
  <1> HIDE DEF len
  <1>7. \A i \in DOMAIN leaves' : Shaped(leaves'[i])
    <2> SUFFICES ASSUME NEW i \in DOMAIN leaves' PROVE Shaped(leaves'[i])
      OBVIOUS
    <2>1. CASE i \in DOMAIN leaves
      BY <1>4, <1>6, <2>1
    <2>2. CASE \E j \in Outputs : i = len + j
      BY <1>6, <2>2
    <2>3. QED
      BY <1>6, <2>1, <2>2
  <1>8. ConsumedSpent'
    <2> SUFFICES ASSUME NEW i \in consumed'
                 PROVE  i \in DOMAIN leaves' /\ Nullifier(leaves'[i]) \in nullifiers'
      BY DEF ConsumedSpent, Nullifier
    <2>1. CASE i \in consumed
      BY <1>2, <1>4, <1>6, <2>1 DEF ConsumedSpent
    <2>2. CASE i \notin consumed
      <3>1. PICK n \in Inputs : i = ins[n].pos /\ i # 0
        BY <1>2, <2>2
      <3>2. i \in DOMAIN leaves /\ ins[n].note = leaves[i]
        BY <3>1
      <3>3. QED
        BY <1>2, <1>6, <3>2
    <2>3. QED
      BY <2>1, <2>2
  <1>9. ASSUME NEW a \in Assets
        PROVE  /\ inflow'[a] \in Int /\ earned'[a] \in Int /\ claimed'[a] \in Int
               /\ LedgerStep(a,
                    Sum(SpentAmounts(ins, a), Spent(ins, a)),
                    Sum(SpentRewards(ins, a), Spent(ins, a)),
                    Sum(SpentClaims(ins, a), Spent(ins, a)),
                    Sum(MovedAmounts(lines, a), Moved(lines, a)),
                    Sum(MadeAmounts(notes, a), Made(notes, a)))
    <2> DEFINE U == Unspent(a)
               C == {ins[n].pos : n \in Spent(ins, a)}
               K == U \ C
               D == {len + j : j \in Made(notes, a)}
               F == [i \in DOMAIN leaves' |-> leaves'[i].amount]
               inA == Sum(SpentAmounts(ins, a), Spent(ins, a))
               inR == Sum(SpentRewards(ins, a), Spent(ins, a))
               inQ == Sum(SpentClaims(ins, a), Spent(ins, a))
               moved == Sum(MovedAmounts(lines, a), Moved(lines, a))
               out == Sum(MadeAmounts(notes, a), Made(notes, a))
    <2>1. a # 0
      BY Ranges
    <2>2. \A n \in Spent(ins, a) : /\ n \in Inputs /\ ins[n].pos \in U /\ ins[n].pos # 0
                                   /\ ins[n].note = leaves[ins[n].pos]
      <3> SUFFICES ASSUME NEW n \in Spent(ins, a)
                   PROVE  /\ n \in Inputs /\ ins[n].pos \in U /\ ins[n].pos # 0
                          /\ ins[n].note = leaves[ins[n].pos]
        OBVIOUS
      <3>1. n \in Inputs /\ ins[n].note.assetId = a
        BY DEF Spent
      <3>2. ins[n].pos \in DOMAIN leaves /\ ins[n].note = leaves[ins[n].pos]
        BY <2>1, <3>1
      <3>3. ins[n].pos \notin consumed
        BY <1>4, <3>1, <3>2 DEF ConsumedSpent
      <3>4. QED
        BY <1>6, <3>1, <3>2, <3>3 DEF Unspent
    <2>3. C \subseteq U /\ U \subseteq DOMAIN leaves
      BY <2>2 DEF Unspent
    <2>4. Unspent(a)' = K \cup D
      <3>1. ASSUME NEW i \in Unspent(a)' PROVE i \in K \cup D
        <4>1. i \in DOMAIN leaves' /\ i \notin consumed' /\ leaves'[i].assetId = a
          BY DEF Unspent
        <4>2. CASE i \in DOMAIN leaves
          <5>1. i \in U
            BY <1>2, <1>6, <4>1, <4>2 DEF Unspent
          <5>2. i \notin C
            BY <1>2, <2>2, <4>1
          <5>3. QED
            BY <5>1, <5>2
        <4>3. CASE i \notin DOMAIN leaves
          <5>1. PICK j \in Outputs : i = len + j
            BY <1>6, <4>1, <4>3
          <5>2. j \in Made(notes, a)
            BY <1>6, <4>1, <5>1 DEF Made
          <5>3. QED
            BY <5>1, <5>2
        <4>4. QED
          BY <4>2, <4>3
      <3>2. ASSUME NEW i \in K PROVE i \in Unspent(a)'
        <4>1. i \in DOMAIN leaves /\ i \notin consumed /\ leaves[i].assetId = a /\ i \notin C
          BY DEF Unspent
        <4>2. i \notin {ins[n].pos : n \in Inputs} \ {0}
          <5> SUFFICES ASSUME NEW n \in Inputs, i = ins[n].pos, i # 0 PROVE FALSE
            OBVIOUS
          <5>1. ins[n].note = leaves[i]
            BY <4>1
          <5>2. n \in Spent(ins, a)
            BY <4>1, <5>1 DEF Spent
          <5>3. QED
            BY <4>1, <5>2
        <4>3. QED
          BY <1>2, <1>6, <4>1, <4>2 DEF Unspent
      <3>3. ASSUME NEW j \in Made(notes, a) PROVE len + j \in Unspent(a)'
        <4>1. j \in Outputs /\ notes[j].assetId = a /\ j \in Nat /\ j >= 1
          BY <1>6 DEF Made, Outputs
        <4>2. len + j \in DOMAIN leaves' /\ leaves'[len + j].assetId = a /\ len + j \notin DOMAIN leaves
          BY <1>6, <4>1
        <4>3. len + j \notin consumed'
          <5>1. len + j \notin consumed
            BY <1>4, <4>2 DEF ConsumedSpent
          <5>2. \A n \in Inputs : ins[n].pos = 0 \/ ins[n].pos \in DOMAIN leaves
            OBVIOUS
          <5>3. QED
            BY <1>2, <4>2, <5>1, <5>2
        <4>4. QED
          BY <4>2, <4>3 DEF Unspent
      <3>4. QED
        BY <3>1, <3>2, <3>3
    <2>5. K \cap D = {} /\ D \subseteq DOMAIN leaves' /\ U \subseteq DOMAIN leaves'
      <3>1. \A j \in Made(notes, a) : len + j \in DOMAIN leaves' /\ len + j \notin DOMAIN leaves
        BY <1>6 DEF Made, Outputs
      <3>2. QED
        BY <1>6, <2>3, <3>1
    <2>6. \A i \in DOMAIN leaves' : F[i] = leaves'[i].amount /\ F[i] \in Int
      BY <1>7, JoinSplitAssumption DEF Shaped
    <2>7. IsFiniteSet(DOMAIN leaves')
      <3> DEFINE k == len + nOutputNotes
      <3>1. 1 \in Int /\ k \in Int /\ DOMAIN leaves' = 1..k
        BY <1>6
      <3> HIDE DEF k
      <3>2. IsFiniteSet(1..k)
        BY <3>1, FS_Interval
      <3>3. QED
        BY <3>1, <3>2
    <2>8. IsFiniteSet(U) /\ IsFiniteSet(C) /\ IsFiniteSet(K) /\ IsFiniteSet(D)
      BY <2>3, <2>5, <2>7, FS_Subset
    <2>9. Sum(F, C) = inA
      <3> DEFINE h == [n \in Spent(ins, a) |-> ins[n].pos]
                 g == SpentAmounts(ins, a)
                 S == Spent(ins, a)
      <3>1. \A n \in S : h[n] \in C /\ g[n] = F[h[n]]
        BY <1>6, <2>2, <2>3, <2>6 DEF SpentAmounts
      <3>2. \A m, n \in S : h[m] = h[n] => m = n
        BY <2>2
      <3>3. C \subseteq {h[n] : n \in S}
        OBVIOUS
      <3>4. IsFiniteSet(S) /\ \A i \in C : F[i] \in Int
        BY <2>3, <2>5, <2>6, FiniteParts
      <3> HIDE DEF h, g, S, F, C
      <3>5. Sum(g, S) = Sum(F, C)
        BY <2>8, <3>1, <3>2, <3>3, <3>4, SumReindex
      <3>6. QED
        BY <3>5 DEF g, S
    <2>10. Sum(F, D) = out
      <3> DEFINE h == [j \in Made(notes, a) |-> len + j]
                 g == MadeAmounts(notes, a)
                 S == Made(notes, a)
      <3>0. \A j \in S : j \in Outputs /\ j \in Nat
        BY <1>6 DEF Made, Outputs
      <3>1. \A n \in S : h[n] \in D /\ g[n] = F[h[n]]
        BY <1>6, <2>6, <3>0 DEF MadeAmounts
      <3>2. \A m, n \in S : h[m] = h[n] => m = n
        BY <1>6, <3>0
      <3>3. D \subseteq {h[n] : n \in S}
        OBVIOUS
      <3>4. \A i \in D : F[i] \in Int
        BY <2>5, <2>6
      <3>a. IsFiniteSet(S) /\ IsFiniteSet(D)
        BY <2>8, FiniteParts
      <3> HIDE DEF h, g, S, F, D
      <3>5. Sum(g, S) = Sum(F, D)
        BY <3>1, <3>2, <3>3, <3>4, <3>a, SumReindex
      <3>6. QED
        BY <3>5 DEF g, S
    <2>11. Sum(F, U) = Sum(F, C) + Sum(F, K)
      <3>1. C \cup K = U /\ C \cap K = {}
        BY <2>3
      <3>2. \A x \in C \cup K : F[x] \in Int
        BY <2>5, <2>6, <3>1
      <3> HIDE DEF F, C, K, U
      <3>3. Sum(F, C \cup K) = Sum(F, C) + Sum(F, K)
        BY <2>8, <3>1, <3>2, SumUnion
      <3>4. QED
        BY <3>1, <3>3
    <2>12. Sum(F, K \cup D) = Sum(F, K) + Sum(F, D)
      <3>1. \A x \in K \cup D : F[x] \in Int
        BY <2>5, <2>6
      <3> HIDE DEF F, K, D
      <3>2. QED
        BY <2>5, <2>8, <3>1, SumUnion
    <2>13. Total([i \in U |-> leaves[i].amount], U) = Sum(F, U)
      <3> DEFINE f == [i \in U |-> leaves[i].amount]
      <3>1. \A i \in U : f[i] = F[i]
        BY <1>6, <2>3, <2>6
      <3> HIDE DEF f, F, U
      <3>2. Sum(f, U) = Sum(F, U)
        BY <2>8, <3>1, SumCong
      <3>3. QED
        BY <3>2, TotalIs DEF f
    <2>14. Total([i \in Unspent(a)' |-> leaves'[i].amount], Unspent(a)') = Sum(F, K \cup D)
      <3> DEFINE V == Unspent(a)'
                 f == [i \in V |-> leaves'[i].amount]
      <3>0. V = K \cup D /\ V \subseteq DOMAIN leaves'
        BY <2>4, <2>5
      <3>1. IsFiniteSet(V)
        BY <2>7, <3>0, FS_Subset
      <3>2. \A i \in V : f[i] = F[i]
        BY <2>6, <3>0
      <3> HIDE DEF V, f, F, K, D
      <3>3. Sum(f, V) = Sum(F, V)
        BY <3>1, <3>2, SumCong
      <3>4. Total(f, V) = Sum(F, K \cup D)
        BY <3>0, <3>3, TotalIs
      <3>5. QED
        BY <3>4 DEF f, V
    <2>15. Held(a) = Sum(F, U) /\ Held(a)' = Sum(F, K \cup D)
      <3>1. Held(a) = Total([i \in U |-> leaves[i].amount], U)
        BY DEF Held
      <3>2. Held(a)' = Total([i \in Unspent(a)' |-> leaves'[i].amount], Unspent(a)')
        BY DEF Held
      <3>3. QED
        BY <2>13, <2>14, <3>1, <3>2
    <2>16. moved \in Int /\ inR \in Int /\ inQ \in Int
      <3>1. \A i \in Moved(lines, a) : MovedAmounts(lines, a)[i] \in Int
        BY DEF Moved, MovedAmounts
      <3>2. \A n \in Spent(ins, a) : SpentRewards(ins, a)[n] \in Int
        BY DEF SpentRewards
      <3>3. \A n \in Spent(ins, a) : SpentClaims(ins, a)[n] \in Int
        BY DEF SpentClaims
      <3>4. QED
        BY <3>1, <3>2, <3>3, FiniteParts, SumType
    <2>17. Sum(F, C) \in Int /\ Sum(F, K) \in Int /\ Sum(F, D) \in Int
      <3>1. (\A x \in C : F[x] \in Int) /\ (\A x \in K : F[x] \in Int) /\ (\A x \in D : F[x] \in Int)
        BY <2>3, <2>5, <2>6
      <3> HIDE DEF F, C, K, D
      <3>2. QED
        BY <2>8, <3>1, SumType
    <2>18. /\ inflow'[a] = inflow[a] + moved /\ earned'[a] = earned[a] + inR
           /\ claimed'[a] = claimed[a] + inQ
      BY <1>3
    <2>19. inflow[a] \in Int /\ earned[a] \in Int /\ claimed[a] \in Int
      BY <1>4
    <2> HIDE DEF U, C, K, D, F, inA, inR, inQ, moved, out
    <2>20. Held(a) \in Int /\ Held(a)' = Held(a) - inA + out
      <3>1. Held(a) = inA + Sum(F, K) /\ Held(a)' = Sum(F, K) + out
        BY <2>9, <2>10, <2>11, <2>12, <2>15
      <3>2. inA \in Int /\ out \in Int
        BY <2>9, <2>10, <2>17
      <3>3. QED
        BY <2>17, <3>1, <3>2
    <2>21. LedgerStep(a, inA, inR, inQ, moved, out)
      BY <2>18, <2>20 DEF LedgerStep
    <2>22. QED
      BY <2>16, <2>18, <2>19, <2>21 DEF inA, inR, inQ, moved, out
  <1>10. inflow' \in [Assets -> Int] /\ earned' \in [Assets -> Int] /\ claimed' \in [Assets -> Int]
    <2>1. /\ inflow' = [a \in Assets |-> inflow'[a]] /\ earned' = [a \in Assets |-> earned'[a]]
          /\ claimed' = [a \in Assets |-> claimed'[a]]
      BY <1>3
    <2>2. QED
      BY <1>9, <2>1
  <1>11. LedgerInv'
    BY <1>2, <1>4, <1>a, <1>7, <1>8, <1>10 DEF LedgerInv, Shaped
  <1>12. QED
    BY <1>9, <1>11

-----------------------------------------------------------------------------
\* Sections 5 and 6: whatever names an asset is routed to a slot of the asset.
LEMMA Routed ==
    ASSUME NEW on \in SUBSET Slots, NEW roster \in [Slots -> Assets \cup {0}],
           NEW bit \in {0, 1}, NEW asset, NEW sel,
           OneHot(sel, on, roster, bit, asset), asset \in Assets \/ bit = 1
    PROVE  bit = 1 /\ \E j \in on : sel = {j} /\ roster[j] = asset
  <1>1. IsFiniteSet(on) /\ \A x \in on : roster[x] \in Nat /\ roster[x] < P
    <2>1. IsFiniteSet(on)
      BY Ranges, FS_Subset
    <2>2. QED
      BY <2>1, Ranges
  <1>2. bit = 1
    <2> SUFFICES ASSUME bit = 0 PROVE FALSE
      OBVIOUS
    <2>1. sel \subseteq on /\ Cardinality(sel) = 0 /\ FieldSum(roster, sel) = asset
      BY DEF OneHot
    <2>2. sel = {}
      BY <1>1, <2>1, FS_Subset, FS_EmptySet
    <2>3. FieldSum(roster, {}) = 0
      BY FieldSumIs, SumEmpty, Ranges, JoinSplitAssumption
    <2>4. QED
      BY <2>1, <2>2, <2>3, Ranges
  <1>3. OneHot(sel, on, roster, 1, asset)
    BY <1>2
  <1>4. QED
    BY <1>1, <1>2, <1>3, OneHotSelects

\* No other slot than its own is selected for an asset.
LEMMA RoutedTo ==
    ASSUME NEW on \in SUBSET Slots, NEW roster \in [Slots -> Assets \cup {0}],
           RosterValid(roster, on), NEW j \in on, roster[j] \in Assets,
           NEW bit \in {0, 1}, NEW asset, NEW sel, OneHot(sel, on, roster, bit, asset)
    PROVE  /\ j \in sel <=> asset = roster[j]
           /\ asset = roster[j] => sel = {j}
  <1>1. CASE bit = 1
    <2>1. PICK x \in on : sel = {x} /\ roster[x] = asset
      BY <1>1, Routed
    <2>2. roster[x] = roster[j] => x = j
      BY DEF RosterValid
    <2>3. QED
      BY <2>1, <2>2
  <1>2. CASE bit = 0
    <2>1. asset # roster[j]
      BY <1>2, Routed
    <2>2. sel = {}
      <3>1. sel \subseteq on /\ Cardinality(sel) = 0
        BY <1>2 DEF OneHot
      <3>2. IsFiniteSet(on)
        BY Ranges, FS_Subset
      <3>3. QED
        BY <3>1, <3>2, FS_Subset, FS_EmptySet
    <2>3. QED
      BY <2>1, <2>2
  <1>3. QED
    BY <1>1, <1>2

\* Section 4: the slot of an asset carries the accumulator of the asset's pool.
LEMMA RoutedAcc ==
    ASSUME rewardAcc \in [Assets -> 0..MaxAcc],
           NEW on \in SUBSET Slots, NEW roster \in [Slots -> Assets \cup {0}],
           NEW acc \in SlotAccs(roster, on), NEW j \in on, roster[j] \in Assets
    PROVE  /\ SlotAcc(acc, {j}) = rewardAcc[roster[j]]
           /\ HasLine(roster[j])
  <1> DEFINE a == roster[j]
  <1>4. acc \in [Slots -> 0..MaxAcc] /\ j \in Slots
    BY DEF SlotAccs
  <1>5. PICK bits \in SUBSET Lines :
              /\ OneHot(bits, Lines, rewardAssetId, Bit(j \in on), roster[j])
              /\ acc[j] = FieldSum(LineAccs, bits)
    BY <1>4 DEF SlotAccs
  <1>6. OneHot(bits, Lines, rewardAssetId, 1, a)
    BY <1>5 DEF Bit
  <1>7. \A x \in Lines : rewardAssetId[x] \in Nat /\ rewardAssetId[x] < P
    BY Ranges
  <1>8. PICK k \in Lines : bits = {k} /\ rewardAssetId[k] = a
    BY <1>6, <1>7, Ranges, OneHotSelects
  <1>9. LineAccs[k] = rewardAcc[a]
    BY <1>8, Ranges DEF LineAccs
  <1>10. rewardAcc[a] \in Nat /\ rewardAcc[a] < P
    BY Ranges
  <1>11. acc[j] = rewardAcc[a]
    <2>1. FieldSum(LineAccs, {k}) = LineAccs[k]
      BY <1>9, <1>10, LineAccIs
    <2>2. QED
      BY <1>5, <1>8, <1>9, <2>1
  <1>12. SlotAcc(acc, {j}) = acc[j]
    BY <1>10, <1>11, SlotAccIs
  <1>13. QED
    BY <1>8, <1>11, <1>12 DEF HasLine

\* DivByAccumulatorScale: the remainder is below SCALE and the dividend below the
\* prime, so no quotient satisfies the equation that is less than the floor.
LEMMA QuotientAtLeast ==
    ASSUME NEW x \in 0..(P - 1), NEW q \in Quotients(x)
    PROVE  q \in 0..(P - 1) /\ x \div ACCUMULATOR_SCALE <= q
  <1> DEFINE s == ACCUMULATOR_SCALE
             z == x \div s
  <1>1. P \in Nat \ {0} /\ s \in Nat \ {0} /\ x \in Nat
    BY JoinSplitAssumption
  <1>2. q \in 0..(P - 1) /\ \E m \in 0..(s - 1) : (q * s + m) % P = x
    BY DEF Quotients
  <1>3. PICK m \in 0..(s - 1) : (q * s + m) % P = x
    BY <1>2
  <1> HIDE DEF s
  <1> DEFINE u == q * s
             y == u + m
             k == y \div P
  <1>4. u \in Nat /\ m \in Nat /\ m <= s - 1
    BY <1>1, <1>2, ProductNat
  <1> HIDE DEF u
  <1>5. y \in Nat /\ y % P = x
    BY <1>3, <1>4 DEF u
  <1> HIDE DEF y
  <1>6. k \in Nat /\ y = k * P + x /\ k * P \in Nat
    <2>1. k \in Nat
      BY <1>1, <1>5, QuotientNat
    <2>2. y = k * P + (y % P)
      BY <1>1, <1>5, Remainder
    <2>3. k * P \in Nat
      BY <1>1, <2>1, ProductNat
    <2>4. QED
      BY <1>5, <2>1, <2>2, <2>3
  <1>7. x <= u + m
    BY <1>1, <1>5, <1>6 DEF y
  <1>8. z \in Nat /\ z * s <= x /\ z * s \in Nat
    BY <1>1, QuotientNat, QuotientFloor, ProductNat
  <1> HIDE DEF z
  <1>9. SUFFICES ASSUME q < z PROVE FALSE
    BY <1>2, <1>8, JoinSplitAssumption DEF z, s
  <1>10. (q + 1) * s <= z * s
    BY <1>1, <1>2, <1>8, <1>9, ProductMono
  <1>11. (q + 1) * s = u + s
    BY <1>1, <1>2 DEF u
  <1>12. QED
    BY <1>1, <1>4, <1>7, <1>8, <1>10, <1>11

\* ComputeReward: a prover can claim no less than the reward of an input.
LEMMA ClaimAtLeast ==
    ASSUME NEW note, NEW g \in Nat, NEW W \in 0..(P - 1),
           note.amount \in 1..(RANGE - 1), note.acc \in Nat, note.acc <= g,
           note.amount * g <= W, NEW claim \in RewardChoices(note, g)
    PROVE  LET reward == (note.amount * (g - note.acc)) \div ACCUMULATOR_SCALE
           IN  /\ reward \in Nat /\ reward <= claim
               /\ note.amount + reward <= RANGE - 1 + W \div ACCUMULATOR_SCALE
  <1> DEFINE m == note.amount
             d == g - note.acc
             x == m * d
             s == ACCUMULATOR_SCALE
  <1>1. P \in Nat /\ P > 0 /\ s \in Nat \ {0} /\ RANGE \in Nat /\ W \in Nat
    BY JoinSplitAssumption
  <1>2. m \in Nat /\ m <= RANGE - 1 /\ d \in Nat /\ d <= g
    BY <1>1
  <1>3. m * g <= W
    OBVIOUS
  <1>4. claim \in Quotients(x % P)
    BY DEF RewardChoices
  <1> HIDE DEF m, d, s
  <1>5. x \in Nat /\ x <= W
    <2>1. x \in Nat /\ m * g \in Nat
      BY <1>2, ProductNat
    <2>2. d * m <= g * m
      BY <1>2, ProductMono
    <2>3. d * m = x /\ g * m = m * g
      BY <1>2
    <2>4. QED
      BY <1>3, <2>1, <2>2, <2>3
  <1> HIDE DEF x
  <1>6. x \in 0..(P - 1) /\ x % P = x
    BY <1>1, <1>5
  <1>7. x \div s <= claim
    BY <1>4, <1>6, QuotientAtLeast DEF s
  <1>8. x \div s \in Nat /\ x \div s <= W \div s /\ W \div s \in Nat
    BY <1>1, <1>5, QuotientNat, QuotientMono
  <1>9. m + x \div s <= RANGE - 1 + W \div s
    <2> DEFINE t == W \div s
               z == x \div s
    <2>1. t \in Nat /\ z \in Nat /\ z <= t
      BY <1>8
    <2> HIDE DEF t, z
    <2>2. m + z <= RANGE - 1 + t
      BY <1>1, <1>2, <2>1
    <2>3. QED
      BY <2>2 DEF t, z
  <1>10. QED
    BY <1>7, <1>8, <1>9 DEF m, x, d, s

\* What the circuit says of an input ...
LEMMA InputFacts ==
    ASSUME NEW on, NEW roster, NEW acc, NEW c \in InputChoices(roster, on, acc)
    PROVE  /\ \/ c.pos = 0 /\ c.note.assetId = 0 /\ c.note.amount = 0
              \/ c.pos \in DOMAIN leaves /\ c.note = leaves[c.pos]
           /\ OneHot(c.sel, on, roster, Bit(Enabled(c.note)), c.note.assetId)
           /\ Enabled(c.note) => c.note.acc <= SlotAcc(acc, c.sel)
           /\ c.reward \in RewardChoices(c.note, SlotAcc(acc, c.sel))
  <1> DEFINE padding == [pos : {0}, note : {Dummy(pk, rho) : pk \in Pks, rho \in DummyRhos}]
             held    == {[pos |-> i, note |-> leaves[i]] : i \in DOMAIN leaves}
             routed  == {[pos |-> d.pos, note |-> d.note, sel |-> bits] :
                           d \in padding \cup held, bits \in SUBSET on}
             valid(d) == /\ OneHot(d.sel, on, roster, Bit(Enabled(d.note)), d.note.assetId)
                         /\ Enabled(d.note) => d.note.acc <= SlotAcc(acc, d.sel)
                         /\ Num2Bits(d.note.amount)
  <1>1. PICK r \in routed : /\ valid(r)
                            /\ c.pos = r.pos /\ c.note = r.note /\ c.sel = r.sel
                            /\ c.reward \in RewardChoices(r.note, SlotAcc(acc, r.sel))
    BY DEF InputChoices
  <1>2. PICK d \in padding \cup held : r.pos = d.pos /\ r.note = d.note
    BY <1>1
  <1>3. \/ c.pos = 0 /\ c.note.assetId = 0 /\ c.note.amount = 0
        \/ c.pos \in DOMAIN leaves /\ c.note = leaves[c.pos]
    <2>1. CASE d \in padding
      <3>1. PICK pk \in Pks, rho \in DummyRhos : d.note = Dummy(pk, rho)
        BY <2>1
      <3>2. d.pos = 0 /\ d.note.assetId = 0 /\ d.note.amount = 0
        BY <2>1, <3>1 DEF Dummy
      <3>3. QED
        BY <1>1, <1>2, <3>2
    <2>2. CASE d \in held
      BY <1>1, <1>2, <2>2
    <2>3. QED
      BY <1>2, <2>1, <2>2
  <1>4. QED
    BY <1>1, <1>3

\* ... of a public line ...
LEMMA LineFacts ==
    ASSUME NEW on, NEW roster, NEW c \in PublicChoices(roster, on)
    PROVE  /\ c.amount \in PublicAmounts \cup {0}
           /\ OneHot(c.sel, on, roster, Bit(c.assetId # 0), c.assetId)
  BY DEF PublicChoices

\* ... and of an output.
LEMMA OutputFacts ==
    ASSUME NEW on, NEW roster, NEW acc, NEW c \in OutputChoices(roster, on, acc), NEW rho
    PROVE  /\ OneHot(c.sel, on, roster, Bit(Enabled(c.note)), c.note.assetId)
           /\ Shaped(c.note) /\ Shaped(OutputNote(c.note, rho))
           /\ OutputNote(c.note, rho).assetId = c.note.assetId
           /\ OutputNote(c.note, rho).amount = c.note.amount
  <1> DEFINE padding == {Dummy(pk, NoRho) : pk \in Pks}
             real == [assetId : Assets, amount : {x \in 1..(P - 1) : Num2Bits(x)},
                      pk : Pks, acc : 0..MaxAcc, rho : {NoRho}]
  <1>1. /\ c.note \in padding \cup real
        /\ OneHot(c.sel, on, roster, Bit(Enabled(c.note)), c.note.assetId)
    BY DEF OutputChoices
  <1>2. CASE c.note \in padding
    <2>1. c.note.assetId = 0 /\ c.note.amount = 0
      BY <1>2 DEF Dummy
    <2>2. OutputNote(c.note, rho) = c.note
      BY <2>1 DEF OutputNote, Enabled
    <2>3. QED
      BY <1>1, <2>1, <2>2 DEF Shaped
  <1>3. CASE c.note \in real
    <2>1. c.note.assetId \in Assets /\ c.note.acc \in Nat /\ c.note.amount \in 1..(RANGE - 1)
      BY <1>3, JoinSplitAssumption DEF Num2Bits
    <2>2. OutputNote(c.note, rho) = [c.note EXCEPT !.rho = rho]
      BY <2>1 DEF OutputNote, Enabled
    <2>3. /\ [c.note EXCEPT !.rho = rho].assetId = c.note.assetId
          /\ [c.note EXCEPT !.rho = rho].amount = c.note.amount
          /\ [c.note EXCEPT !.rho = rho].acc = c.note.acc
      BY <1>3
    <2> DEFINE o == OutputNote(c.note, rho)
    <2>4. o.assetId = c.note.assetId /\ o.amount = c.note.amount /\ o.acc = c.note.acc
      BY <2>2, <2>3
    <2> HIDE DEF o
    <2>5. Shaped(c.note) /\ Shaped(o)
      BY <2>1, <2>4 DEF Shaped
    <2>6. QED
      BY <1>1, <2>4, <2>5 DEF o
  <1>4. QED
    BY <1>1, <1>2, <1>3

\* The sum of a part of n bounded summands.
LEMMA SumWithin ==
    ASSUME NEW D, IsFiniteSet(D), NEW S \in SUBSET D, NEW f, NEW b \in Nat, NEW c \in Nat,
           \A x \in S : f[x] \in Int /\ -b <= f[x] /\ f[x] <= c
    PROVE  /\ Sum(f, S) \in Int
           /\ Sum(f, S) <= Cardinality(D) * c
           /\ -(Cardinality(D) * b) <= Sum(f, S)
  <1> DEFINE n == Cardinality(D)
             k == Cardinality(S)
             g == [x \in S |-> -f[x]]
             o == [x \in S |-> 0]
  <1>1. IsFiniteSet(S) /\ k \in Nat /\ n \in Nat /\ k <= n
    BY FS_Subset, FS_CardinalityType
  <1>2. Sum(f, S) \in Int
    BY <1>1, SumType
  <1>3. Sum(f, S) <= k * c
    BY <1>1, SumBound
  <1>4. Sum(g, S) <= k * b
    <2>1. \A x \in S : g[x] \in Int /\ g[x] <= b
      OBVIOUS
    <2> HIDE DEF g
    <2>2. QED
      BY <1>1, <2>1, SumBound
  <1>5. Sum(g, S) = -Sum(f, S)
    <2>1. \A x \in S : o[x] \in Int /\ f[x] \in Int /\ g[x] = o[x] + (-1) * f[x]
      OBVIOUS
    <2>2. \A x \in S : o[x] = 0
      OBVIOUS
    <2> HIDE DEF g, o
    <2>3. Sum(g, S) = Sum(o, S) + (-1) * Sum(f, S)
      <3> DEFINE m == -1
      <3>1. m \in Int /\ \A x \in S : o[x] \in Int /\ f[x] \in Int /\ g[x] = o[x] + m * f[x]
        BY <2>1
      <3> HIDE DEF m
      <3>2. Sum(g, S) = Sum(o, S) + m * Sum(f, S)
        BY <1>1, <3>1, SumLinear
      <3>3. QED
        BY <3>2 DEF m
    <2>4. Sum(o, S) = 0
      BY <1>1, <2>2, SumZero
    <2>5. QED
      BY <1>2, <2>3, <2>4
  <1> HIDE DEF n, k, g
  <1>6. k * c <= n * c /\ k * b <= n * b /\ k * c \in Int /\ n * c \in Int /\ k * b \in Int /\ n * b \in Int
    BY <1>1, ProductMono, ProductNat
  <1>7. Sum(f, S) <= n * c /\ -(n * b) <= Sum(f, S)
    BY <1>2, <1>3, <1>4, <1>5, <1>6
  <1>8. QED
    BY <1>2, <1>7 DEF n

\* Section 10 says it modulo the prime: what is lost is a multiple of it, and not
\* negative if outputs and lines stay below it.
LEMMA FieldLoss ==
    ASSUME NEW in \in Nat, NEW delta \in Int, NEW out \in Nat, (in + delta) % P = out % P,
           NEW B \in Nat, NEW C \in Nat, C + B < P, -B <= delta, out <= C
    PROVE  in + delta - out >= 0 /\ (in + delta - out) % P = 0
  <1> DEFINE s == in + delta
  <1>1. P \in Nat \ {0}
    BY JoinSplitAssumption
  <1>2. s \in Int /\ s % P = out % P /\ -B <= s
    OBVIOUS
  <1> HIDE DEF s
  <1>3. s - out >= 0
    <2> SUFFICES ASSUME s < out PROVE FALSE
      BY <1>2
    <2>1. s - out < P /\ out - s < P
      BY <1>1, <1>2
    <2>2. s = out
      BY <1>1, <1>2, <2>1, RemainderClose
    <2>3. QED
      BY <1>2, <2>2
  <1>4. (s - out) % P = 0
    <2> DEFINE x == s \div P
               y == out \div P
               m == out % P
               k == x - y
               o == 0
    <2>1. /\ x \in Int /\ s = x * P + m
          /\ y \in Int /\ m \in Int /\ out = y * P + m
      BY <1>1, <1>2, Remainder
    <2> HIDE DEF x, y, m
    <2>2. s - out = x * P - y * P /\ x * P - y * P = k * P /\ k \in Int
      BY <1>1, <2>1, Distribute
    <2>3. o \in Int /\ o + k * P = s - out /\ o % P = 0
      BY <1>1, <1>2, <2>2
    <2> HIDE DEF o, k
    <2>4. (o + k * P) % P = o % P
      BY <1>1, <2>2, <2>3, SameRemainder
    <2>5. QED
      BY <2>3, <2>4
  <1>5. QED
    BY <1>3, <1>4 DEF s

\* Nothing is lost if the inputs stay below it too.
LEMMA FieldBalance ==
    ASSUME NEW in \in Nat, NEW delta \in Int, NEW out \in Nat, (in + delta) % P = out % P,
           NEW A \in Nat, NEW B \in Nat, NEW C \in Nat, A + B < P, C + B < P,
           in <= A, -B <= delta, delta <= B, out <= C
    PROVE  in + delta = out
  <1> DEFINE s == in + delta
  <1>1. P \in Nat \ {0}
    BY JoinSplitAssumption
  <1>2. s \in Int /\ s % P = out % P /\ s - out < P /\ out - s < P
    BY <1>1
  <1> HIDE DEF s
  <1>3. s = out
    BY <1>1, <1>2, RemainderClose
  <1>4. QED
    BY <1>3 DEF s

\* Nothing names an asset that has no slot ...
LEMMA Unrouted ==
    ASSUME NEW on \in SUBSET Slots, NEW roster \in [Slots -> Assets \cup {0}],
           NEW a \in Assets, ~\E j \in on : roster[j] = a
    PROVE  \A asset, sel : \A bit \in {0, 1} : OneHot(sel, on, roster, bit, asset) => asset # a
  <1> SUFFICES ASSUME NEW asset, NEW sel, NEW bit \in {0, 1},
                      OneHot(sel, on, roster, bit, asset), asset \in Assets
               PROVE  asset # a
    OBVIOUS
  <1>1. \E j \in on : sel = {j} /\ roster[j] = asset
    BY Routed
  <1>2. QED
    BY <1>1

\* ... and of one that has, the slot's selectors are what names the asset.
Selects(j, a, on, roster) ==
    \A asset, sel : \A bit \in {0, 1} : OneHot(sel, on, roster, bit, asset) =>
        /\ j \in sel <=> asset = a
        /\ asset = a => sel = {j}

\* The roster has at most one slot of an asset.
LEMMA RoutedIff ==
    ASSUME NEW on \in SUBSET Slots, NEW roster \in [Slots -> Assets \cup {0}],
           RosterValid(roster, on), NEW a \in Assets, NEW j \in on, roster[j] = a
    PROVE  Selects(j, a, on, roster)
  <1> SUFFICES ASSUME NEW asset, NEW sel, NEW bit \in {0, 1},
                      OneHot(sel, on, roster, bit, asset)
               PROVE  /\ j \in sel <=> asset = roster[j]
                      /\ asset = roster[j] => sel = {j}
    BY DEF Selects
  <1>1. roster[j] \in Assets
    OBVIOUS
  <1>2. QED
    BY <1>1, RoutedTo

\* The sums of the slot of an asset, in the field, are those of the asset.
SlotSums(ins, lines, outs, j) ==
    ((FieldSum([n \in Inputs |-> TotalValue(ins[n])], {n \in Inputs : j \in ins[n].sel})
        + FieldSum([i \in Publics |-> ToField(lines[i].amount)],
                   {i \in Publics : j \in lines[i].sel})) % P
      = FieldSum([k \in Outputs |-> outs[k].note.amount],
                 {k \in Outputs : j \in outs[k].sel}))

\* Section 10 on the slot of an asset: its equation in the field is one of the
\* integers' remainders, about sums with these ranges.
SlotFacts(amounts, claims, moved, made, B) ==
    /\ amounts \in Nat /\ claims \in Nat /\ moved \in Int /\ made \in Nat
    /\ -(nPublicLines * B) <= moved /\ moved <= nPublicLines * B
    /\ made <= nOutputNotes * (RANGE - 1)
    /\ ((amounts + claims) + moved) % P = made % P

\* An input of an asset is a leaf that selects the asset's slot, and its accumulator.
LEMMA InputOfAsset ==
    ASSUME rewardAcc \in [Assets -> 0..MaxAcc], \A i \in DOMAIN leaves : Shaped(leaves[i]),
           NEW on \in SUBSET Slots, NEW roster \in [Slots -> Assets \cup {0}],
           NEW acc \in SlotAccs(roster, on), NEW c \in InputChoices(roster, on, acc),
           c.note.assetId \in Assets
    PROVE  LET g == rewardAcc[c.note.assetId]
           IN  /\ c.pos \in DOMAIN leaves /\ c.note = leaves[c.pos] /\ Enabled(c.note)
               /\ c.note.amount \in 1..(RANGE - 1) /\ c.note.acc \in Nat /\ c.note.acc <= g
               /\ c.reward \in RewardChoices(c.note, g) /\ c.reward \in 0..(P - 1)
  <1> DEFINE note == c.note
             a == note.assetId
             g == rewardAcc[a]
  <1>1. a # 0 /\ P \in Nat /\ RANGE \in Nat
    BY Ranges, JoinSplitAssumption
  <1>2. c.pos \in DOMAIN leaves /\ note = leaves[c.pos]
    BY <1>1, InputFacts
  <1>3. note.amount \in 1..(RANGE - 1) /\ note.acc \in Nat
    BY <1>1, <1>2 DEF Shaped
  <1>4. Enabled(note)
    BY <1>1, <1>3 DEF Enabled
  <1>5. OneHot(c.sel, on, roster, 1, a)
    BY <1>4, InputFacts DEF Bit
  <1>6. PICK j \in on : c.sel = {j} /\ roster[j] = a
    BY <1>5, Routed
  <1>7. SlotAcc(acc, c.sel) = g
    <2>1. roster[j] \in Assets
      BY <1>6
    <2>2. SlotAcc(acc, {j}) = rewardAcc[roster[j]]
      BY <2>1, RoutedAcc
    <2>3. QED
      BY <1>6, <2>2
  <1>8. note.acc <= g /\ c.reward \in RewardChoices(note, g)
    BY <1>4, <1>7, InputFacts
  <1>9. c.reward \in 0..(P - 1)
    BY <1>8 DEF RewardChoices, Quotients
  <1>10. QED
    BY <1>2, <1>3, <1>4, <1>8, <1>9

\* What the sums of an asset satisfy, whatever the prover claims.
LEMMA SlotEquation ==
    ASSUME NEW B, OutputsFit(B),
           rewardAcc \in [Assets -> 0..MaxAcc], \A i \in DOMAIN leaves : Shaped(leaves[i]),
           NEW on \in SUBSET Slots, NEW roster \in [Slots -> Assets \cup {0}],
           RosterValid(roster, on), NEW acc \in SlotAccs(roster, on),
           NEW ins \in [Inputs -> InputChoices(roster, on, acc)],
           NEW lines \in [Publics -> PublicChoices(roster, on)],
           NEW outs \in [Outputs -> OutputChoices(roster, on, acc)],
           NEW notes, \A k \in Outputs : /\ notes[k].assetId = outs[k].note.assetId
                                         /\ notes[k].amount = outs[k].note.amount,
           \A j \in Slots : SlotSums(ins, lines, outs, j),
           NEW a \in Assets
    PROVE  SlotFacts(Sum(SpentAmounts(ins, a), Spent(ins, a)),
                     Sum(SpentClaims(ins, a), Spent(ins, a)),
                     Sum(MovedAmounts(lines, a), Moved(lines, a)),
                     Sum(MadeAmounts(notes, a), Made(notes, a)), B)
  <1> DEFINE S == Spent(ins, a)
             L == Moved(lines, a)
             M == Made(notes, a)
  <1>1. a # 0 /\ \A b \in BOOLEAN : Bit(b) \in {0, 1}
    BY Ranges DEF Bit
  <1>2. \A n \in Inputs : ins[n] \in InputChoices(roster, on, acc)
    OBVIOUS
  <1>3. \A i \in Publics : lines[i] \in PublicChoices(roster, on)
    OBVIOUS
  <1>4. \A k \in Outputs : outs[k] \in OutputChoices(roster, on, acc)
    OBVIOUS
  <1>5. \A n \in Inputs : OneHot(ins[n].sel, on, roster, Bit(Enabled(ins[n].note)), ins[n].note.assetId)
    BY <1>2, InputFacts
  <1>6. \A i \in Publics : OneHot(lines[i].sel, on, roster, Bit(lines[i].assetId # 0), lines[i].assetId)
    BY <1>3, LineFacts
  <1>7. \A k \in Outputs : OneHot(outs[k].sel, on, roster, Bit(Enabled(outs[k].note)), outs[k].note.assetId)
    BY <1>4, OutputFacts
  <1>8. CASE ~\E j \in on : roster[j] = a
    <2>0. \A asset, sel : \A bit \in {0, 1} : OneHot(sel, on, roster, bit, asset) => asset # a
      BY <1>8, Unrouted
    <2>1. S = {}
      BY <1>1, <1>5, <2>0 DEF Spent, Bit
    <2>2. L = {}
      BY <1>1, <1>6, <2>0 DEF Moved, Bit
    <2>3. M = {}
      BY <1>1, <1>7, <2>0 DEF Made, Bit
    <2>4. \A f : Sum(f, {}) = 0
      BY SumEmpty
    <2>5. SlotFacts(0, 0, 0, 0, B)
      <3> DEFINE u == nPublicLines * B
                 v == nOutputNotes * (RANGE - 1)
      <3>1. RANGE - 1 \in Nat /\ nPublicLines \in Nat /\ nOutputNotes \in Nat /\ B \in Nat
        BY JoinSplitAssumption DEF OutputsFit
      <3>2. u \in Nat /\ v \in Nat
        BY <3>1, ProductNat
      <3> HIDE DEF u, v
      <3>3. -u <= 0 /\ 0 <= u /\ 0 <= v
        BY <3>2
      <3>4. QED
        BY <3>3 DEF SlotFacts, u, v
    <2>6. QED
      BY <2>1, <2>2, <2>3, <2>4, <2>5
  <1>9. CASE \E j \in on : roster[j] = a
    <2> PICK j \in on : roster[j] = a
      BY <1>9
    <2>0. \A asset, sel : \A bit \in {0, 1} : OneHot(sel, on, roster, bit, asset) =>
              /\ j \in sel <=> asset = a
              /\ asset = a => sel = {j}
      <3>1. Selects(j, a, on, roster)
        BY RoutedIff
      <3>2. QED
        BY <3>1 DEF Selects
    <2>1. {n \in Inputs : j \in ins[n].sel} = S
      <3>1. \A n \in Inputs : j \in ins[n].sel <=> ins[n].note.assetId = a
        BY <1>5, <2>0 DEF Bit
      <3>2. QED
        BY <3>1 DEF Spent
    <2>2. {i \in Publics : j \in lines[i].sel} = L
      <3>1. \A i \in Publics : j \in lines[i].sel <=> lines[i].assetId = a
        BY <1>6, <2>0 DEF Bit
      <3>2. QED
        BY <3>1 DEF Moved
    <2>3. {k \in Outputs : j \in outs[k].sel} = M
      <3>1. \A k \in Outputs : j \in outs[k].sel <=> outs[k].note.assetId = a
        BY <1>7, <2>0 DEF Bit
      <3>2. QED
        BY <3>1 DEF Made
    <2> DEFINE inV == [n \in Inputs |-> TotalValue(ins[n])]
               inA == SpentAmounts(ins, a)
               inQ == SpentClaims(ins, a)
               inG == [n \in Spent(ins, a) |-> ins[n].note.amount + ins[n].reward]
               dF == [i \in Publics |-> ToField(lines[i].amount)]
               dA == MovedAmounts(lines, a)
               outV == [k \in Outputs |-> outs[k].note.amount]
               outA == MadeAmounts(notes, a)
    <2>5. B \in Nat /\ PublicAmounts \subseteq -B..B
      BY DEF OutputsFit
    <2>6. /\ P \in Nat /\ P > 1 /\ RANGE \in Nat /\ RANGE >= 1
          /\ nInputNotes \in Nat /\ nOutputNotes \in Nat /\ nPublicLines \in Nat
      BY JoinSplitAssumption
    <2>8. \A n \in S : ins[n].note.amount \in Nat /\ ins[n].reward \in Nat
      <3> SUFFICES ASSUME NEW n \in S
                   PROVE  ins[n].note.amount \in Nat /\ ins[n].reward \in Nat
        OBVIOUS
      <3> DEFINE c == ins[n]
      <3>1. c \in InputChoices(roster, on, acc) /\ c.note.assetId = a
        BY <1>2 DEF Spent
      <3> HIDE DEF c
      <3>2. c.note.amount \in 1..(RANGE - 1) /\ c.reward \in 0..(P - 1)
        BY <3>1, InputOfAsset
      <3>3. QED
        BY <2>6, <3>2 DEF c
    <2>9. /\ IsFiniteSet(S) /\ IsFiniteSet(L) /\ IsFiniteSet(M)
          /\ S \subseteq Inputs /\ L \subseteq Publics /\ M \subseteq Outputs
          /\ IsFiniteSet(Inputs) /\ IsFiniteSet(Publics) /\ IsFiniteSet(Outputs)
          /\ Cardinality(Inputs) = nInputNotes /\ Cardinality(Publics) = nPublicLines
          /\ Cardinality(Outputs) = nOutputNotes
      <3>1. S \subseteq Inputs /\ L \subseteq Publics /\ M \subseteq Outputs
        BY DEF Spent, Moved, Made
      <3> HIDE DEF S, L, M
      <3>2. IsFiniteSet(S) /\ IsFiniteSet(L) /\ IsFiniteSet(M)
        BY FiniteParts DEF S, L, M
      <3>3. QED
        BY <3>1, <3>2, FiniteParts
    <2>10. /\ \A n \in S : /\ inV[n] = (ins[n].note.amount + ins[n].reward) % P
                             /\ inG[n] = ins[n].note.amount + ins[n].reward
                             /\ inA[n] = ins[n].note.amount /\ inQ[n] = ins[n].reward
           /\ \A i \in L : dF[i] = lines[i].amount % P /\ dA[i] = lines[i].amount
           /\ \A k \in M : outV[k] = outs[k].note.amount /\ outA[k] = outs[k].note.amount
      BY <2>9 DEF SpentAmounts, SpentClaims, MovedAmounts, MadeAmounts, ToField, TotalValue
    <2>11. \A i \in L : dA[i] \in Int /\ -B <= dA[i] /\ dA[i] <= B
      <3> SUFFICES ASSUME NEW i \in L
                   PROVE  dA[i] \in Int /\ -B <= dA[i] /\ dA[i] <= B
        OBVIOUS
      <3>1. lines[i] \in PublicChoices(roster, on) /\ dA[i] = lines[i].amount
        BY <2>9, <2>10
      <3>2. lines[i].amount \in PublicAmounts \cup {0}
        BY <3>1, LineFacts
      <3> DEFINE x == lines[i].amount
      <3> HIDE DEF x
      <3>3. x \in Int /\ -B <= x /\ x <= B
        <4>1. CASE x = 0
          BY <2>5, <4>1
        <4>2. CASE x \in PublicAmounts
          <5>1. x \in -B..B
            BY <2>5, <4>2
          <5>2. QED
            BY <2>5, <5>1
        <4>3. QED
          BY <3>2, <4>1, <4>2 DEF x
      <3>4. QED
        BY <3>1, <3>3 DEF x
    <2>12. \A k \in M : outA[k] \in Int /\ 0 <= outA[k] /\ outA[k] <= RANGE - 1
      <3> SUFFICES ASSUME NEW k \in M
                   PROVE  outA[k] \in Int /\ 0 <= outA[k] /\ outA[k] <= RANGE - 1
        OBVIOUS
      <3>1. k \in Outputs /\ outs[k] \in OutputChoices(roster, on, acc)
        BY <2>9
      <3>2. Shaped(outs[k].note)
        BY <3>1, OutputFacts
      <3> DEFINE x == outs[k].note.amount
      <3>3. outA[k] = x
        BY <2>10
      <3>4. x = 0 \/ x \in 1..(RANGE - 1)
        BY <3>2 DEF Shaped
      <3> HIDE DEF x, outA
      <3>5. QED
        BY <2>6, <3>3, <3>4
    <2>13. ((Sum(inV, S) % P) + (Sum(dF, L) % P)) % P = Sum(outV, M) % P
      <3>1. (FieldSum(inV, S) + FieldSum(dF, L)) % P = FieldSum(outV, M)
        BY <2>1, <2>2, <2>3 DEF SlotSums
      <3> HIDE DEF inV, dF, outV, S, L, M
      <3>2. QED
        BY <3>1, FieldSumIs
    <2>14. Sum(outV, M) = Sum(outA, M)
      <3>1. \A k \in M : outV[k] = outA[k]
        BY <2>10
      <3> HIDE DEF outV, outA, M
      <3>2. QED
        BY <2>9, <3>1, SumCong
    <2> HIDE DEF inV, inG, inA, inQ, dF, dA, outV, outA, S, L, M
    <2>15. /\ Sum(inG, S) = Sum(inA, S) + Sum(inQ, S)
           /\ Sum(inQ, S) \in Nat /\ Sum(inA, S) \in Nat
      <3>1. \A n \in S : inA[n] \in Nat /\ inQ[n] \in Nat /\ inG[n] = inA[n] + inQ[n]
        BY <2>8, <2>10
      <3> DEFINE one == 1
      <3>2. one \in Int /\ \A n \in S : inA[n] \in Int /\ inQ[n] \in Int /\ inG[n] = inA[n] + one * inQ[n]
        BY <3>1
      <3> HIDE DEF one
      <3>3. Sum(inG, S) = Sum(inA, S) + one * Sum(inQ, S)
        BY <2>9, <3>2, SumLinear
      <3>4. Sum(inQ, S) \in Nat /\ Sum(inA, S) \in Nat
        BY <2>9, <3>1, SumNat
      <3>5. QED
        BY <3>3, <3>4 DEF one
    <2>16. Sum(inV, S) % P = Sum(inG, S) % P /\ Sum(inV, S) \in Int
      <3>1. P \in Nat \ {0}
        BY <2>6
      <3>2. \A n \in S : inV[n] \in Int /\ inG[n] \in Int /\ inV[n] % P = inG[n] % P
        <4> SUFFICES ASSUME NEW n \in S
                     PROVE  inV[n] \in Int /\ inG[n] \in Int /\ inV[n] % P = inG[n] % P
          OBVIOUS
        <4>1. inG[n] \in Int /\ inV[n] = inG[n] % P
          BY <2>8, <2>10
        <4>2. QED
          BY <3>1, <4>1
      <3>3. QED
        BY <2>9, <3>1, <3>2, SumRemainder, SumType
    <2>17. /\ Sum(outA, M) \in Int /\ 0 <= Sum(outA, M)
           /\ Sum(outA, M) <= nOutputNotes * (RANGE - 1)
      <3> DEFINE o == 0
                 c == RANGE - 1
      <3>2. o \in Nat /\ c \in Nat /\ \A n \in M : outA[n] \in Int /\ -o <= outA[n] /\ outA[n] <= c
        BY <2>6, <2>12
      <3> HIDE DEF o, c
      <3>3. /\ Sum(outA, M) \in Int
            /\ Sum(outA, M) <= Cardinality(Outputs) * c
            /\ -(Cardinality(Outputs) * o) <= Sum(outA, M)
        BY <2>9, <3>2, SumWithin
      <3>4. -(nOutputNotes * o) = 0
        BY <2>6 DEF o
      <3>5. QED
        BY <2>9, <3>3, <3>4 DEF c
    <2>18. /\ Sum(dA, L) \in Int /\ -(nPublicLines * B) <= Sum(dA, L)
           /\ Sum(dA, L) <= nPublicLines * B
      <3>1. /\ Sum(dA, L) \in Int /\ Sum(dA, L) <= Cardinality(Publics) * B
            /\ -(Cardinality(Publics) * B) <= Sum(dA, L)
        BY <2>5, <2>9, <2>11, SumWithin
      <3>2. QED
        BY <2>9, <3>1
    <2>19. Sum(dF, L) % P = Sum(dA, L) % P /\ Sum(dF, L) \in Int
      <3>1. P \in Nat \ {0}
        BY <2>6
      <3>2. \A i \in L : dF[i] \in Int /\ dA[i] \in Int /\ dF[i] % P = dA[i] % P
        <4> SUFFICES ASSUME NEW i \in L
                     PROVE  dF[i] \in Int /\ dA[i] \in Int /\ dF[i] % P = dA[i] % P
          OBVIOUS
        <4>1. dA[i] \in Int /\ dF[i] = dA[i] % P
          BY <2>10, <2>11
        <4>2. QED
          BY <3>1, <4>1
      <3>3. QED
        BY <2>9, <3>1, <3>2, SumRemainder, SumType
    <2>20. ((Sum(inA, S) + Sum(inQ, S)) + Sum(dA, L)) % P = Sum(outA, M) % P
      <3> DEFINE in == Sum(inG, S)
                 delta == Sum(dA, L)
      <3>1. in \in Int /\ delta \in Int /\ P \in Nat \ {0}
        BY <2>6, <2>15, <2>18
      <3>2. ((in % P) + (delta % P)) % P = Sum(outA, M) % P
        BY <2>13, <2>14, <2>16, <2>19
      <3> HIDE DEF in, delta
      <3>3. (in + delta) % P = Sum(outA, M) % P
        BY <3>1, <3>2, RemainderSum
      <3>4. QED
        BY <2>15, <3>3 DEF in, delta
    <2>21. Sum(outA, M) \in Nat
      BY <2>17
    <2>22. SlotFacts(Sum(inA, S), Sum(inQ, S), Sum(dA, L), Sum(outA, M), B)
      BY <2>15, <2>17, <2>18, <2>20, <2>21 DEF SlotFacts
    <2>23. QED
      BY <2>22 DEF inA, inQ, dA, outA, S, L, M
  <1>10. QED
    BY <1>8, <1>9

\* What inputs claim is at least their rewards, and those are bounded, while no
\* product of an amount and an accumulator exceeds W.
RewardFacts(amounts, rewards, claims, W) ==
    /\ rewards \in Nat /\ rewards <= claims
    /\ amounts + rewards <= nInputNotes * (RANGE - 1 + W \div ACCUMULATOR_SCALE)

\* ComputeReward on the inputs of an asset.
LEMMA SlotRewards ==
    ASSUME NEW W \in 0..(P - 1), ProductsBounded(W),
           rewardAcc \in [Assets -> 0..MaxAcc], \A i \in DOMAIN leaves : Shaped(leaves[i]),
           NEW on \in SUBSET Slots, NEW roster \in [Slots -> Assets \cup {0}],
           NEW acc \in SlotAccs(roster, on),
           NEW ins \in [Inputs -> InputChoices(roster, on, acc)],
           NEW a \in Assets
    PROVE  RewardFacts(Sum(SpentAmounts(ins, a), Spent(ins, a)),
                       Sum(SpentRewards(ins, a), Spent(ins, a)),
                       Sum(SpentClaims(ins, a), Spent(ins, a)), W)
  <1> DEFINE S == Spent(ins, a)
             inA == SpentAmounts(ins, a)
             inR == SpentRewards(ins, a)
             inQ == SpentClaims(ins, a)
             inG == [n \in S |-> inA[n] + inR[n]]
             t == W \div ACCUMULATOR_SCALE
             c == RANGE - 1 + t
  <1>1. c \in Nat /\ t \in Nat /\ RANGE - 1 \in Nat
    <2>1. W \in Nat /\ ACCUMULATOR_SCALE \in Nat \ {0} /\ RANGE - 1 \in Nat
      BY JoinSplitAssumption
    <2>2. t \in Nat
      BY <2>1, QuotientNat
    <2> HIDE DEF t
    <2>3. QED
      BY <2>1, <2>2
  <1>2. /\ IsFiniteSet(S) /\ S \subseteq Inputs
        /\ IsFiniteSet(Inputs) /\ Cardinality(Inputs) = nInputNotes
    <2>1. S \subseteq Inputs
      BY DEF Spent
    <2>2. QED
      BY <2>1, FiniteParts
  <1>3. \A n \in S : /\ inA[n] = ins[n].note.amount /\ inQ[n] = ins[n].reward
                     /\ inR[n] = Reward(ins[n].note)
    BY DEF SpentAmounts, SpentRewards, SpentClaims
  <1>4. ASSUME NEW n \in S
        PROVE  /\ inA[n] \in Nat /\ inR[n] \in Nat /\ inQ[n] \in Nat
               /\ inR[n] <= inQ[n] /\ inA[n] + inR[n] <= c
    <2> DEFINE d == ins[n]
               note == d.note
               g == rewardAcc[a]
               r == (note.amount * (g - note.acc)) \div ACCUMULATOR_SCALE
    <2>1. d \in InputChoices(roster, on, acc) /\ d.note.assetId = a
      BY <1>2 DEF Spent
    <2>2. inA[n] = note.amount /\ inQ[n] = d.reward /\ inR[n] = r
      BY <1>3, <2>1 DEF Reward
    <2> HIDE DEF d
    <2>3. /\ d.pos \in DOMAIN leaves /\ note = leaves[d.pos] /\ Enabled(note)
          /\ note.amount \in 1..(RANGE - 1) /\ note.acc \in Nat /\ note.acc <= g
          /\ d.reward \in RewardChoices(note, g) /\ d.reward \in 0..(P - 1)
      BY <2>1, InputOfAsset
    <2>4. note.amount * g <= W
      BY <2>1, <2>3 DEF ProductsBounded
    <2>5. g \in Nat
      BY JoinSplitAssumption
    <2> HIDE DEF g, note
    <2>6. r \in Nat /\ r <= d.reward /\ note.amount + r <= c
      BY <2>3, <2>4, <2>5, ClaimAtLeast
    <2>7. note.amount \in Nat /\ d.reward \in Nat
      BY <2>3, JoinSplitAssumption
    <2>8. QED
      BY <2>2, <2>6, <2>7
  <1>5. \A n \in S : inG[n] \in Int /\ inG[n] = inA[n] + inR[n] /\ 0 <= inG[n] /\ inG[n] <= c
    <2> SUFFICES ASSUME NEW n \in S
                 PROVE  inG[n] \in Int /\ inG[n] = inA[n] + inR[n] /\ 0 <= inG[n] /\ inG[n] <= c
      OBVIOUS
    <2>1. inG[n] = inA[n] + inR[n]
      OBVIOUS
    <2> HIDE DEF inG, inA, inR, c
    <2>2. QED
      BY <1>4, <2>1
  <1> HIDE DEF S, inA, inR, inQ, inG, c
  <1>6. Sum(inA, S) \in Nat /\ Sum(inR, S) \in Nat
    BY <1>2, <1>4, SumNat
  <1>7. Sum(inR, S) <= Sum(inQ, S)
    <2>1. \A n \in S : inR[n] \in Int /\ inQ[n] \in Int /\ inR[n] <= inQ[n]
      BY <1>4
    <2>2. QED
      BY <1>2, <2>1, SumMono
  <1>8. Sum(inG, S) = Sum(inA, S) + Sum(inR, S)
    <2> DEFINE one == 1
    <2>1. one \in Int /\ \A n \in S : inA[n] \in Int /\ inR[n] \in Int /\ inG[n] = inA[n] + one * inR[n]
      BY <1>4, <1>5
    <2> HIDE DEF one
    <2>2. Sum(inG, S) = Sum(inA, S) + one * Sum(inR, S)
      BY <1>2, <2>1, SumLinear
    <2>3. QED
      BY <1>6, <2>2 DEF one
  <1>9. Sum(inG, S) <= nInputNotes * c
    <2> DEFINE o == 0
    <2>1. o \in Nat /\ \A n \in S : inG[n] \in Int /\ -o <= inG[n] /\ inG[n] <= c
      BY <1>5
    <2> HIDE DEF o
    <2>2. Sum(inG, S) <= Cardinality(Inputs) * c
      BY <1>1, <1>2, <2>1, SumWithin
    <2>3. QED
      BY <1>2, <2>2
  <1>10. RewardFacts(Sum(inA, S), Sum(inR, S), Sum(inQ, S), W)
    BY <1>6, <1>7, <1>8, <1>9 DEF RewardFacts, c
  <1>11. QED
    BY <1>10 DEF S, inA, inR, inQ

-----------------------------------------------------------------------------
\* The balance of an asset in a transaction with a proof.
AssetStep(a, B) ==
    \E amounts, rewards, claims, moved, made :
        /\ rewards \in Int
        /\ LedgerStep(a, amounts, rewards, claims, moved, made)
        /\ SlotFacts(amounts, claims, moved, made, B)
        /\ \A W \in 0..(P - 1) :
              ProductsBounded(W) => RewardFacts(amounts, rewards, claims, W)

\* execute_transact: the circuit's equations are about the ledger of each asset.
LEMMA TransactStepLedger ==
    ASSUME NEW B, OutputsFit(B), LedgerInv, TransactStep
    PROVE  LedgerInv' /\ \A a \in Assets : AssetStep(a, B)
  <1> DEFINE lineValue(line) == ToField(line.amount)
             inValue(in)     == TotalValue(in)
             outAmount(out)  == out.note.amount
             Witness(on, roster, acc) ==
               \E public \in Tuples(Publics, PublicChoices(roster, on), lineValue),
                  out \in Tuples(Outputs, OutputChoices(roster, on, acc), outAmount),
                  in \in Tuples(Inputs, InputChoices(roster, on, acc), inValue) :
                  Accepted(in, public, out)
  <1>0. PICK on \in SUBSET Slots, roster \in [Slots -> Assets \cup {0}] :
          RosterValid(roster, on) /\ \E acc \in SlotAccs(roster, on) : Witness(on, roster, acc)
    BY Zenon DEF TransactStep, Accepted
  <1>1. PICK acc \in SlotAccs(roster, on) : Witness(on, roster, acc)
    BY <1>0
  <1>2. PICK public \in Tuples(Publics, PublicChoices(roster, on), lineValue),
             out \in Tuples(Outputs, OutputChoices(roster, on, acc), outAmount),
             in \in Tuples(Inputs, InputChoices(roster, on, acc), inValue) :
          Accepted(in, public, out)
    BY Zenon, <1>1
  <1> DEFINE ins   == in.items
             lines == public.items
             outs  == out.items
             nfs   == [n \in Inputs |-> Nullifier(ins[n].note)]
  <1>3. /\ ins \in [Inputs -> InputChoices(roster, on, acc)]
        /\ in.bySlot = BySlot(ins, inValue)
    <2>1. \E items \in [Inputs -> InputChoices(roster, on, acc)] :
             in = [items |-> items, bySlot |-> BySlot(items, inValue)]
      BY Zenon DEF Tuples
    <2>2. QED
      BY <2>1
  <1>4. /\ outs \in [Outputs -> OutputChoices(roster, on, acc)]
        /\ out.bySlot = BySlot(outs, outAmount)
    BY DEF Tuples
  <1>5. /\ lines \in [Publics -> PublicChoices(roster, on)]
        /\ public.bySlot = BySlot(lines, lineValue)
    <2>1. \E items \in [Publics -> PublicChoices(roster, on)] :
             public = [items |-> items, bySlot |-> BySlot(items, lineValue)]
      BY Zenon DEF Tuples
    <2>2. QED
      BY <2>1
  <1>6. PICK rhos \in OutputRhos(nfs) :
           Transact(ins, lines, [n \in Outputs |-> OutputNote(outs[n].note, rhos[n])])
    BY <1>2 DEF Accepted
  <1>7. Conserved(in, public, out) /\ NullifiersUnique(nfs)
        /\ \A n \in Inputs : nfs[n] \notin nullifiers
    BY <1>2 DEF Accepted
  <1> DEFINE notes == [n \in Outputs |-> OutputNote(outs[n].note, rhos[n])]
  <1>8. \A j \in Slots : SlotSums(ins, lines, outs, j)
    <2> SUFFICES ASSUME NEW j \in Slots PROVE SlotSums(ins, lines, outs, j)
      OBVIOUS
    <2>1. in.bySlot[j] = FieldSum([n \in Inputs |-> TotalValue(ins[n])], {n \in Inputs : j \in ins[n].sel})
      <3>1. DOMAIN ins = Inputs
        BY <1>3
      <3> HIDE DEF ins
      <3>2. QED
        BY <1>3, <3>1 DEF BySlot
    <2>2. public.bySlot[j] = FieldSum([i \in Publics |-> ToField(lines[i].amount)],
                                      {i \in Publics : j \in lines[i].sel})
      <3>1. DOMAIN lines = Publics
        BY <1>5
      <3> HIDE DEF lines
      <3>2. QED
        BY <1>5, <3>1 DEF BySlot
    <2>3. out.bySlot[j] = FieldSum([k \in Outputs |-> outs[k].note.amount],
                                   {k \in Outputs : j \in outs[k].sel})
      <3>1. DOMAIN outs = Outputs
        BY <1>4
      <3> HIDE DEF outs
      <3>2. QED
        BY <1>4, <3>1 DEF BySlot
    <2>4. (in.bySlot[j] + public.bySlot[j]) % P = out.bySlot[j]
      BY <1>7 DEF Conserved
    <2>5. QED
      BY <2>1, <2>2, <2>3, <2>4 DEF SlotSums
  <1>9. notes \in [Outputs -> {notes[j] : j \in Outputs}]
    OBVIOUS
  <1>10. \A n \in Inputs : nfs[n] = Nullifier(ins[n].note)
    OBVIOUS
  <1>11. \A j \in Outputs : notes[j] = OutputNote(outs[j].note, rhos[j])
    OBVIOUS
  <1>12. Transact(ins, lines, notes)
    BY <1>6
  <1> HIDE DEF ins, lines, outs, nfs, notes
  <1>13. \A k \in Outputs : /\ Shaped(notes[k])
                            /\ notes[k].assetId = outs[k].note.assetId
                            /\ notes[k].amount = outs[k].note.amount
    <2> SUFFICES ASSUME NEW k \in Outputs
                 PROVE  /\ Shaped(notes[k])
                        /\ notes[k].assetId = outs[k].note.assetId
                        /\ notes[k].amount = outs[k].note.amount
      OBVIOUS
    <2> DEFINE c == outs[k]
               rho == rhos[k]
    <2>1. c \in OutputChoices(roster, on, acc) /\ notes[k] = OutputNote(c.note, rho)
      BY <1>4, <1>11
    <2> HIDE DEF c, rho
    <2>2. /\ Shaped(OutputNote(c.note, rho))
          /\ OutputNote(c.note, rho).assetId = c.note.assetId
          /\ OutputNote(c.note, rho).amount = c.note.amount
      BY <2>1, OutputFacts
    <2>3. QED
      BY <2>1, <2>2 DEF c
  <1>14. rewardAcc \in [Assets -> 0..MaxAcc] /\ \A i \in DOMAIN leaves : Shaped(leaves[i])
    BY DEF LedgerInv
  <1>15. \A n \in Inputs :
            \/ ins[n].pos = 0 /\ ins[n].note.assetId = 0
            \/ ins[n].pos \in DOMAIN leaves /\ ins[n].note = leaves[ins[n].pos]
    <2> SUFFICES ASSUME NEW n \in Inputs
                 PROVE  \/ ins[n].pos = 0 /\ ins[n].note.assetId = 0
                        \/ ins[n].pos \in DOMAIN leaves /\ ins[n].note = leaves[ins[n].pos]
      OBVIOUS
    <2> DEFINE c == ins[n]
    <2>1. c \in InputChoices(roster, on, acc)
      BY <1>3
    <2> HIDE DEF c
    <2>2. QED
      BY <2>1, InputFacts DEF c
  <1>16. \A i \in Publics : lines[i].amount \in Int
    <2> SUFFICES ASSUME NEW i \in Publics PROVE lines[i].amount \in Int
      OBVIOUS
    <2> DEFINE c == lines[i]
    <2>1. c \in PublicChoices(roster, on)
      BY <1>5
    <2> HIDE DEF c
    <2>2. c.amount \in PublicAmounts \cup {0}
      BY <2>1, LineFacts
    <2>3. QED
      BY <2>2, JoinSplitAssumption DEF c
  <1>17. \A m, n \in Inputs : m # n => Nullifier(ins[m].note) # Nullifier(ins[n].note)
    BY <1>7, <1>10 DEF NullifiersUnique
  <1>18. \A n \in Inputs : Nullifier(ins[n].note) \notin nullifiers
    BY <1>7, <1>10
  <1>19. \A j \in Outputs : Shaped(notes[j])
    BY <1>13
  <1>20. \A a \in Assets : \A n \in Spent(ins, a) :
            Reward(ins[n].note) \in Int /\ ins[n].reward \in Int
    <2> SUFFICES ASSUME NEW a \in Assets, NEW n \in Spent(ins, a)
                 PROVE  Reward(ins[n].note) \in Int /\ ins[n].reward \in Int
      OBVIOUS
    <2> DEFINE c == ins[n]
               g == rewardAcc[a]
               x == c.note.amount * (g - c.note.acc)
    <2>1. c \in InputChoices(roster, on, acc) /\ c.note.assetId = a
      BY <1>3 DEF Spent
    <2> HIDE DEF c
    <2>2. /\ c.note.amount \in 1..(RANGE - 1) /\ c.note.acc \in Nat
          /\ c.reward \in 0..(P - 1)
      BY <1>14, <2>1, InputOfAsset
    <2>3. g \in Int /\ ACCUMULATOR_SCALE \in Nat \ {0}
      BY <1>14, JoinSplitAssumption
    <2>4. x \in Int
      BY <2>2, <2>3
    <2>5. Reward(c.note) = x \div ACCUMULATOR_SCALE
      BY <2>1 DEF Reward
    <2> HIDE DEF x
    <2>6. x \div ACCUMULATOR_SCALE \in Int
      BY <2>3, <2>4, Remainder
    <2>7. c.reward \in Int
      BY <2>2, JoinSplitAssumption
    <2>8. QED
      BY <2>5, <2>6, <2>7 DEF c
  <1>21. /\ LedgerInv'
         /\ \A a \in Assets : LedgerStep(a,
               Sum(SpentAmounts(ins, a), Spent(ins, a)),
               Sum(SpentRewards(ins, a), Spent(ins, a)),
               Sum(SpentClaims(ins, a), Spent(ins, a)),
               Sum(MovedAmounts(lines, a), Moved(lines, a)),
               Sum(MadeAmounts(notes, a), Made(notes, a)))
    BY <1>9, <1>12, <1>15, <1>16, <1>17, <1>18, <1>19, <1>20, TransactLedger
  <1>22. ASSUME NEW a \in Assets PROVE AssetStep(a, B)
    <2> DEFINE amounts == Sum(SpentAmounts(ins, a), Spent(ins, a))
               rewards == Sum(SpentRewards(ins, a), Spent(ins, a))
               claims == Sum(SpentClaims(ins, a), Spent(ins, a))
               moved == Sum(MovedAmounts(lines, a), Moved(lines, a))
               made == Sum(MadeAmounts(notes, a), Made(notes, a))
    <2>1. LedgerStep(a, amounts, rewards, claims, moved, made)
      BY <1>21
    <2>2. SlotFacts(amounts, claims, moved, made, B)
      BY <1>0, <1>3, <1>4, <1>5, <1>8, <1>13, <1>14, SlotEquation
    <2>3. \A W \in 0..(P - 1) : ProductsBounded(W) => RewardFacts(amounts, rewards, claims, W)
      BY <1>3, <1>14, SlotRewards
    <2>4. rewards \in Int
      <3> DEFINE f == SpentRewards(ins, a)
                 S == Spent(ins, a)
      <3>1. IsFiniteSet(S)
        BY FiniteParts
      <3>2. \A n \in S : f[n] \in Int
        BY <1>20 DEF SpentRewards
      <3> HIDE DEF f, S
      <3>3. Sum(f, S) \in Int
        BY <3>1, <3>2, SumType
      <3>4. QED
        BY <3>3 DEF f, S
    <2> HIDE DEF amounts, rewards, claims, moved, made
    <2>5. QED
      BY <2>1, <2>2, <2>3, <2>4 DEF AssetStep
  <1>23. QED
    BY <1>21, <1>22

\* A transaction loses multiples of the prime, and makes nothing.
LEMMA StepClaims ==
    ASSUME NEW B, OutputsFit(B), LedgerInv, ClaimsConserved,
           \A a \in Assets : AssetStep(a, B)
    PROVE  ClaimsConserved'
  <1> SUFFICES ASSUME NEW a \in Assets
               PROVE  LET l == inflow'[a] + claimed'[a] - Held(a)'
                      IN  l >= 0 /\ l % P = 0
    BY DEF ClaimsConserved
  <1>1. PICK amounts, rewards, claims, moved, made :
             /\ LedgerStep(a, amounts, rewards, claims, moved, made)
             /\ SlotFacts(amounts, claims, moved, made, B)
    BY DEF AssetStep
  <1> DEFINE in == amounts + claims
             x == in + moved - made
             y == inflow[a] + claimed[a] - Held(a)
             l == inflow'[a] + claimed'[a] - Held(a)'
             D == nPublicLines * B
             C == nOutputNotes * (RANGE - 1)
  <1>2. /\ amounts \in Nat /\ claims \in Nat /\ moved \in Int /\ made \in Nat
        /\ -D <= moved /\ made <= C /\ (in + moved) % P = made % P
    BY <1>1 DEF SlotFacts
  <1>3. D \in Nat /\ C \in Nat /\ C + D < P /\ P \in Nat \ {0}
    <2>1. /\ B \in Nat /\ nPublicLines \in Nat /\ nOutputNotes \in Nat /\ RANGE - 1 \in Nat
          /\ P \in Nat \ {0}
      BY JoinSplitAssumption DEF OutputsFit
    <2>2. D \in Nat /\ C \in Nat
      BY <2>1, ProductNat
    <2>3. C + D < P
      BY DEF OutputsFit
    <2>4. QED
      BY <2>1, <2>2, <2>3
  <1> HIDE DEF D, C
  <1>4. in \in Nat
    BY <1>2
  <1>5. x \in Int /\ x >= 0 /\ x % P = 0
    <2> HIDE DEF in
    <2>1. in + moved - made >= 0 /\ (in + moved - made) % P = 0
      BY <1>2, <1>3, <1>4, FieldLoss
    <2>2. QED
      BY <1>2, <1>4, <2>1
  <1>6. /\ Held(a) \in Int /\ Held(a)' = Held(a) - amounts + made
        /\ inflow'[a] = inflow[a] + moved /\ claimed'[a] = claimed[a] + claims
    BY <1>1 DEF LedgerStep
  <1>7. inflow[a] \in Int /\ claimed[a] \in Int
    BY DEF LedgerInv
  <1>8. y \in Int /\ y >= 0 /\ y % P = 0
    BY <1>6, <1>7 DEF ClaimsConserved
  <1>9. l = y + x
    BY <1>2, <1>6, <1>7
  <1> HIDE DEF x, y, l
  <1>10. l >= 0
    BY <1>5, <1>8, <1>9
  <1>11. ((y % P) + (x % P)) % P = (y + x) % P
    BY <1>3, <1>5, <1>8, RemainderSum
  <1>12. l % P = 0
    BY <1>3, <1>5, <1>8, <1>9, <1>11
  <1>13. QED
    BY <1>10, <1>12 DEF l

\* A transaction that claims no more than the rewards loses nothing.
LEMMA StepExact ==
    ASSUME NEW W, NEW B, NoWrap(W, B), ProductsBounded(W), LedgerInv, HonestClaimsExact,
           \A a \in Assets : AssetStep(a, B)
    PROVE  HonestClaimsExact'
  <1> SUFFICES ASSUME NEW a \in Assets
               PROVE  /\ earned'[a] <= claimed'[a]
                      /\ claimed'[a] = earned'[a] => Held(a)' = inflow'[a] + earned'[a]
    BY DEF HonestClaimsExact
  <1>1. W \in 0..(P - 1) /\ OutputsFit(B)
    BY DEF NoWrap
  <1>2. PICK amounts, rewards, claims, moved, made :
             /\ LedgerStep(a, amounts, rewards, claims, moved, made)
             /\ SlotFacts(amounts, claims, moved, made, B)
             /\ RewardFacts(amounts, rewards, claims, W)
    BY <1>1 DEF AssetStep
  <1> DEFINE in == amounts + claims
             A == nInputNotes * (RANGE - 1 + W \div ACCUMULATOR_SCALE)
             D == nPublicLines * B
             C == nOutputNotes * (RANGE - 1)
  <1>3. /\ amounts \in Nat /\ claims \in Nat /\ moved \in Int /\ made \in Nat
        /\ -D <= moved /\ moved <= D /\ made <= C /\ (in + moved) % P = made % P
    BY <1>2 DEF SlotFacts
  <1>4. rewards \in Nat /\ rewards <= claims /\ amounts + rewards <= A
    BY <1>2 DEF RewardFacts
  <1>5. A \in Nat /\ D \in Nat /\ C \in Nat /\ A + D < P /\ C + D < P
    <2> DEFINE t == W \div ACCUMULATOR_SCALE
               c == RANGE - 1 + t
    <2>1. /\ B \in Nat /\ nPublicLines \in Nat /\ nOutputNotes \in Nat /\ nInputNotes \in Nat
          /\ RANGE - 1 \in Nat /\ W \in Nat /\ ACCUMULATOR_SCALE \in Nat \ {0}
      BY <1>1, JoinSplitAssumption DEF OutputsFit
    <2>2. t \in Nat
      BY <2>1, QuotientNat
    <2> HIDE DEF t
    <2>3. c \in Nat
      BY <2>1, <2>2
    <2> HIDE DEF c
    <2>4. nInputNotes * c \in Nat /\ D \in Nat /\ C \in Nat
      BY <2>1, <2>3, ProductNat
    <2>5. A + D < P /\ C + D < P
      BY DEF NoWrap, OutputsFit
    <2>6. QED
      BY <2>4, <2>5 DEF c, t
  <1> HIDE DEF A, D, C
  <1>6. /\ Held(a) \in Int /\ Held(a)' = Held(a) - amounts + made
        /\ inflow'[a] = inflow[a] + moved /\ earned'[a] = earned[a] + rewards
        /\ claimed'[a] = claimed[a] + claims
    BY <1>2 DEF LedgerStep
  <1>7. inflow[a] \in Int /\ claimed[a] \in Int /\ earned[a] \in Int
    BY DEF LedgerInv
  <1>8. /\ earned[a] <= claimed[a]
        /\ claimed[a] = earned[a] => Held(a) = inflow[a] + earned[a]
    BY DEF HonestClaimsExact
  <1>9. earned'[a] <= claimed'[a]
    BY <1>3, <1>4, <1>6, <1>7, <1>8
  <1>10. ASSUME claimed'[a] = earned'[a] PROVE Held(a)' = inflow'[a] + earned'[a]
    <2>1. claims = rewards /\ claimed[a] = earned[a]
      BY <1>3, <1>4, <1>6, <1>7, <1>8, <1>10
    <2>2. in \in Nat /\ in <= A
      BY <1>3, <1>4, <2>1
    <2> HIDE DEF in
    <2>3. in + moved = made
      BY <1>3, <1>5, <2>2, FieldBalance
    <2>4. QED
      BY <1>3, <1>4, <1>6, <1>7, <1>8, <2>1, <2>3 DEF in
  <1>11. QED
    BY <1>9, <1>10

\* finalize_rewards moves no value: notes earn when they are spent.
LEMMA AccrueLedger ==
    ASSUME LedgerInv, NEW a \in Assets, Accrue(a)
    PROVE  LedgerInv' /\ UNCHANGED <<leaves, consumed, inflow, earned, claimed>>
  <1>1. /\ leaves' = leaves /\ nullifiers' = nullifiers /\ inflow' = inflow
        /\ earned' = earned /\ claimed' = claimed /\ consumed' = consumed
        /\ rewardAcc[a] < MaxAcc /\ rewardAcc' = [rewardAcc EXCEPT ![a] = @ + 1]
    BY DEF Accrue
  <1>2. rewardAcc' \in [Assets -> 0..MaxAcc]
    BY <1>1, JoinSplitAssumption DEF LedgerInv
  <1>3. ConsumedSpent'
    BY <1>1 DEF LedgerInv, ConsumedSpent, Nullifier
  <1>4. \A i \in DOMAIN leaves' : Shaped(leaves'[i])
    BY <1>1 DEF LedgerInv
  <1>5. QED
    BY <1>1, <1>2, <1>3, <1>4 DEF LedgerInv

\* Every step keeps the ledger's shape, and is one of its steps or leaves it alone.
LEMMA NextLedger ==
    ASSUME NEW B, OutputsFit(B), LedgerInv, [Next]_vars
    PROVE  /\ LedgerInv'
           /\ \/ \A a \in Assets : AssetStep(a, B)
              \/ UNCHANGED <<leaves, consumed, inflow, earned, claimed>>
  <1>1. CASE TransactStep
    BY <1>1, TransactStepLedger
  <1>2. CASE \E a \in Assets : Accrue(a)
    BY <1>2, AccrueLedger
  <1>3. CASE UNCHANGED vars
    BY <1>3 DEF vars, LedgerInv, ConsumedSpent, Nullifier
  <1>4. QED
    BY <1>1, <1>2, <1>3 DEF Next

\* Section 10 against any prover: whatever quotients provers pick for rewards, the
\* notes of an asset never hold more than was paid in, less what was paid out, plus
\* the rewards claimed, and less only by multiples of the prime.  With amounts of
\* 248 bits and public amounts of 64, outputs and lines fit the field.
THEOREM ClaimsAreConserved ==
    ASSUME NEW B, OutputsFit(B)
    PROVE  Spec => []ClaimsConserved
  <1>1. LedgerInv /\ ClaimsConserved /\ [Next]_vars => LedgerInv' /\ ClaimsConserved'
    <2> SUFFICES ASSUME LedgerInv, ClaimsConserved, [Next]_vars
                 PROVE  LedgerInv' /\ ClaimsConserved'
      OBVIOUS
    <2>1. CASE \A a \in Assets : AssetStep(a, B)
      BY <2>1, NextLedger, StepClaims
    <2>2. CASE UNCHANGED <<leaves, consumed, inflow, earned, claimed>>
      <3>1. ClaimsConserved'
        BY <2>2 DEF ClaimsConserved, Held, Unspent
      <3>2. QED
        BY <3>1, NextLedger
    <2>3. QED
      BY <2>1, <2>2, NextLedger
  <1>2. QED
    BY <1>1, InitLedger, PTL DEF Spec

\* ComputeReward and section 10: nobody claims less than the rounded reward, and
\* while nobody claimed more the equations of the field are equations of integers.
\* The range checks do not bound the products of amounts and accumulators; the hub
\* does, whose amounts have 64 bits and accumulators 128, and W = P - 1 serves.
THEOREM HonestClaimsAreExact ==
    ASSUME NEW W, NEW B, NoWrap(W, B)
    PROVE  Spec /\ []ProductsBounded(W) => []HonestClaimsExact
  <1>1. OutputsFit(B)
    BY DEF NoWrap
  <1>2. ProductsBounded(W) /\ LedgerInv /\ HonestClaimsExact /\ [Next]_vars
          => LedgerInv' /\ HonestClaimsExact'
    <2> SUFFICES ASSUME ProductsBounded(W), LedgerInv, HonestClaimsExact, [Next]_vars
                 PROVE  LedgerInv' /\ HonestClaimsExact'
      OBVIOUS
    <2>1. CASE \A a \in Assets : AssetStep(a, B)
      BY <1>1, <2>1, NextLedger, StepExact
    <2>2. CASE UNCHANGED <<leaves, consumed, inflow, earned, claimed>>
      <3>1. HonestClaimsExact'
        BY <2>2 DEF HonestClaimsExact, Held, Unspent
      <3>2. QED
        BY <1>1, <3>1, NextLedger
    <2>3. QED
      BY <1>1, <2>1, <2>2, NextLedger
  <1>3. QED
    BY <1>2, InitLedger, PTL DEF Spec
=============================================================================
