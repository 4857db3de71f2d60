-------------------------- MODULE MCGovernedRoles --------------------------
(* Instance of GovernedRoles for TLC: a 2-of-3 multisig, and the deployer   *)
(* and the multisig as the accounts that hold roles.                        *)
EXTENDS GovernedRoles, TLC

CONSTANTS o1, o2, o3, ms

MCOwner == {o1, o2, o3}
MCAccount == {o1, ms}
MCRole == {"ADMIN", "VERIFIER"}
MCCall == [op : {"grant", "revoke"}, role : MCRole, account : MCAccount]
=============================================================================
