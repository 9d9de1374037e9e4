---------------------------- MODULE MCJoinSplit ----------------------------
EXTENDS JoinSplit, TLC

\* One registry line per asset, and one that is not used.
Registry == <<1, 0, 2>>

\* Deposits and withdrawals.
Moves == {-1, 2}
Symmetry == Permutations(DummyRhos)

\* The hypothesis under which HonestClaimsExact is proved.
ASSUME SumsFit == NoWrap((RANGE - 1) * MaxAcc, 2)

\* A registry of one asset.
OneLine == <<1>>
=============================================================================
