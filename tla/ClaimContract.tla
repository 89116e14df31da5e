---------------------------- MODULE ClaimContract ----------------------------
(***************************************************************************)
(* What a FileSystemClaim promises its users, without a word on how: there *)
(* is a filesystem to store data in, then a class to take volumes from,    *)
(* and both go, in the opposite order, only with the claim.                *)
(***************************************************************************)

VARIABLES
    claim,   \* "none", "live" or "deleting"
    stored,  \* there is a filesystem
    served   \* there is a storage class that hands out its space

contractVars == <<claim, stored, served>>

ContractInit == claim = "none" /\ ~stored /\ ~served

Create == claim = "none" /\ claim' = "live" /\ UNCHANGED <<stored, served>>
Delete == claim = "live" /\ claim' = "deleting" /\ UNCHANGED <<stored, served>>

\* A claim that was given nothing yet may go at once.
Forget == claim = "live" /\ ~stored /\ ~served /\ claim' = "none" /\ UNCHANGED <<stored, served>>

\* Work under way when the claim is deleted may still be completed.
Store == claim # "none" /\ ~stored /\ ~served /\ stored' = TRUE /\ UNCHANGED <<claim, served>>
Serve == claim # "none" /\ stored /\ ~served /\ served' = TRUE /\ UNCHANGED <<claim, stored>>

\* A class goes with its claim, a filesystem with it or after it, and never while a
\* class still hands out its space.
Withdraw == claim = "deleting" /\ served /\ served' = FALSE /\ UNCHANGED <<claim, stored>>
Destroy == claim # "live" /\ ~served /\ stored /\ stored' = FALSE /\ UNCHANGED <<claim, served>>
Finish == claim = "deleting" /\ ~served /\ claim' = "none" /\ UNCHANGED <<stored, served>>

ContractNext ==
    \/ Create \/ Delete \/ Forget \/ Store \/ Serve \/ Withdraw \/ Destroy \/ Finish

ContractSpec == ContractInit /\ [][ContractNext]_contractVars
=============================================================================
