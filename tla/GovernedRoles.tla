--------------------------- MODULE GovernedRoles ---------------------------
(***************************************************************************)
(* The ledger's roles administered through the multisig: the deployer      *)
(* grants ADMIN_ROLE to the multisig contract, and once every externally   *)
(* owned administrator is revoked, the roles can only change by calls the  *)
(* multisig executes.  Externally owned accounts and multisig owners act   *)
(* in any order.                                                           *)
(***************************************************************************)
EXTENDS AccessControl, MultisigAdmin

CONSTANT Multisig   \* address of the multisig contract

ASSUME MultisigAssumption == Multisig \in Account /\ Multisig # Deployer
ASSUME CallAssumption ==
  Call = [op : {"grant", "revoke"}, role : Role, account : Account]

governanceVars == <<roles, adminCount, transactions>>

GovernanceTypeOK == ACLTypeOK /\ MultisigTypeOK

-----------------------------------------------------------------------------

GovernanceInit == ACLInit /\ MultisigInit

\* msg.sender is an externally owned account, or the multisig for a call it
\* executes.
RoleCall(caller, call) ==
  \/ call.op = "grant" /\ GrantRole(caller, call.role, call.account)
  \/ call.op = "revoke" /\ RevokeRole(caller, call.role, call.account)

DirectCall(caller, call) ==
  /\ caller # Multisig
  /\ RoleCall(caller, call)
  /\ UNCHANGED transactions

Propose(owner, call) ==
  /\ SubmitTransaction(owner, call)
  /\ UNCHANGED aclVars

Approve(owner, txId) ==
  /\ ApproveTransaction(owner, txId)
  /\ UNCHANGED aclVars

\* The target's call is part of executeTransaction: if the ledger reverts,
\* so does the execution.
Execute(owner, txId) ==
  /\ ExecuteTransaction(owner, txId)
  /\ RoleCall(Multisig, transactions[txId].call)

GovernanceNext ==
  \/ \E caller \in Account, call \in Call : DirectCall(caller, call)
  \/ \E owner \in Owner, call \in Call : Propose(owner, call)
  \/ \E owner \in Owner, txId \in 1 .. MaxTransactions :
       \/ Approve(owner, txId)
       \/ Execute(owner, txId)

GovernanceSpec == GovernanceInit /\ [][GovernanceNext]_governanceVars

-----------------------------------------------------------------------------
(***************************************************************************)
(* Properties                                                              *)
(***************************************************************************)

\* What the call of a transaction makes of the roles.
RolesAfter(call) ==
  [roles EXCEPT ![call.role] = IF call.op = "grant"
                               THEN @ \cup {call.account}
                               ELSE @ \ {call.account}]

\* While the multisig is the only administrator, the roles change only by a
\* proposal that Threshold distinct owners approved, that is executed in that
\* very step and for the first time, and that asked for exactly this change
\* (PRODUCTION_READINESS.md line 68 relies on this).
ExecutesApproved(txId) ==
  /\ ~transactions[txId].executed
  /\ transactions'[txId].executed
  /\ Cardinality(transactions[txId].approvedBy) >= Threshold
  /\ roles' = RolesAfter(transactions[txId].call)

ThresholdGovernsRoles ==
  [][Admins = {Multisig} /\ roles' # roles =>
       \E txId \in DOMAIN transactions : ExecutesApproved(txId)]_governanceVars
=============================================================================
