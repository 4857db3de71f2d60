--------------------------- MODULE AccessControl ---------------------------
(***************************************************************************)
(* Role administration of the FairAIEthicalLedger contract: who holds      *)
(* which role, and the counter that keeps the last administrator from      *)
(* being removed.  The counter is a cached value: the contract never       *)
(* enumerates the role mapping, so the two can only agree if every path    *)
(* that changes one changes the other.                                     *)
(*                                                                         *)
(* A transaction that reverts has no effect, so a revert is an action that *)
(* is not enabled.  The zero address is not an element of Account: every   *)
(* call that names it reverts.                                             *)
(***************************************************************************)
EXTENDS Integers, FiniteSets

CONSTANTS
  Account,   \* addresses other than the zero address
  Role,      \* role identifiers: any bytes32, those of ContractRole among them
  Deployer   \* msg.sender of the constructor

ASSUME DeployerAssumption == Deployer \in Account
ASSUME RoleAssumption == "ADMIN" \in Role

VARIABLES
  roles,       \* roles[role] = the accounts that hold the role
  adminCount   \* the contract's running count of administrators

aclVars == <<roles, adminCount>>

\* The roles the contract itself knows of and gives to its deployer.
ContractRole == {"ADMIN", "NODE_OPERATOR", "VERIFIER", "AGGREGATOR"}

HasRole(role, account) == account \in roles[role]

Admins == roles["ADMIN"]

ACLTypeOK ==
  /\ roles \in [Role -> SUBSET Account]
  /\ adminCount \in Nat

-----------------------------------------------------------------------------

ACLInit ==
  /\ roles = [role \in Role |-> IF role \in ContractRole THEN {Deployer} ELSE {}]
  /\ adminCount = 1

\* Mutant: the counter ignores that the account may already be an administrator.
GrantRoleCountsTwice(caller, role, account) ==
  /\ HasRole("ADMIN", caller)
  /\ roles' = [roles EXCEPT ![role] = @ \cup {account}]
  /\ adminCount' = IF role = "ADMIN" THEN adminCount + 1 ELSE adminCount

GrantRole(caller, role, account) ==
  /\ HasRole("ADMIN", caller)
  /\ roles' = [roles EXCEPT ![role] = @ \cup {account}]
  /\ adminCount' = IF role = "ADMIN" /\ ~HasRole(role, account)
                   THEN adminCount + 1
                   ELSE adminCount

\* Mutant: the counter is lowered although the account was no administrator.
RevokeRoleAlwaysDecrements(caller, role, account) ==
  /\ HasRole("ADMIN", caller)
  /\ role = "ADMIN" /\ HasRole(role, account) => adminCount > 1
  /\ roles' = [roles EXCEPT ![role] = @ \ {account}]
  /\ adminCount' = IF role = "ADMIN" THEN adminCount - 1 ELSE adminCount

RevokeRole(caller, role, account) ==
  LET losesAdmin == role = "ADMIN" /\ HasRole(role, account) IN
  /\ HasRole("ADMIN", caller)
  /\ losesAdmin => adminCount > 1
  /\ roles' = [roles EXCEPT ![role] = @ \ {account}]
  /\ adminCount' = IF losesAdmin THEN adminCount - 1 ELSE adminCount

ACLNext ==
  \E caller, account \in Account, role \in Role :
    \/ GrantRole(caller, role, account)
    \/ RevokeRole(caller, role, account)

ACLSpec == ACLInit /\ [][ACLNext]_aclVars

-----------------------------------------------------------------------------
(***************************************************************************)
(* Properties                                                              *)
(***************************************************************************)

\* The cached counter equals the number of administrators after any sequence
\* of repeated grants and repeated or empty revocations, and it never reaches
\* zero: the contract can always still be administered
\* (FairAIEthicalLedger.sol grantRole and revokeRole).
AdminAccounting ==
  /\ IsFiniteSet(Admins)
  /\ adminCount = Cardinality(Admins)
  /\ Admins # {}
=============================================================================
