----------------------------- MODULE MCTransact -----------------------------
EXTENDS Transact, TLC

CONSTANTS alice, bob, n1, n2, two_slots, withdrawal

Body(ns, ext, fees, to, expiry) ==
    [nullifiers |-> ns, relayer |-> bob, ext_amounts |-> ext,
     relayer_fees |-> fees, recipients |-> to, slot_expiry |-> expiry, reward_acc |-> 0]

\* A deposit over both slots, with a fee for the relayer, and a withdrawal to
\* alice that expires in slot 1.
AllParams == two_slots  :> Body({n1}, <<1, 1>>, <<1, 0>>, <<alice, alice>>, 0) @@
             withdrawal :> Body({n2}, <<-1, 0>>, <<0, 0>>, <<alice, DefaultKey>>, 1)

SomeParams == [b \in Bodies |-> AllParams[b]]

OneSession == {<<bob, 1>>}
TwoEscrows == {<<alice, 1>>, <<alice, 2>>}
=============================================================================
