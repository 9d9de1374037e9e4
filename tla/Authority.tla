----------------------------- MODULE Authority -----------------------------
(***************************************************************************)
(* The two-step authority transfer that the configuration accounts share   *)
(* (zorb_pool_interface::authority and the admin instructions of the three *)
(* programs).  A handler that returns an error is not enabled.             *)
(***************************************************************************)
CONSTANTS
    Signers,        \* keys whose owners can sign
    LostKeys,       \* addresses nobody can sign for
    DefaultKey      \* Pubkey::default(), "no pending authority"

ASSUME KeysAssumption ==
    /\ Signers \cap LostKeys = {}
    /\ DefaultKey \notin Signers \cup LostKeys

VARIABLES authority, pending_authority

authorityVars == <<authority, pending_authority>>

Pubkeys == Signers \cup LostKeys \cup {DefaultKey}

\* require_authority.
IsAuthority(signer) == authority = signer

\* Mutant: the nominated key takes over at once.
TransferAuthority_OneStep(signer, new_authority) ==
    /\ IsAuthority(signer)
    /\ authority' = new_authority
    /\ pending_authority' = DefaultKey

\* transfer_authority_impl: any address may be nominated, a second nomination
\* replaces the first.
TransferAuthority(signer, new_authority) ==
    /\ IsAuthority(signer)
    /\ pending_authority' = new_authority
    /\ UNCHANGED authority

\* accept_authority_impl.
AcceptAuthority(signer) ==
    /\ pending_authority # DefaultKey
    /\ pending_authority = signer
    /\ authority' = pending_authority
    /\ pending_authority' = DefaultKey
=============================================================================
