---------------------------- MODULE Contracts_proofs ----------------------------
(***************************************************************************)
(* The contracts, for any accounts, roles, nodes, rounds, identifiers,     *)
(* owners, thresholds, signers and decisions.                              *)
(*                                                                         *)
(* Administration through the multisig: the approvals counted are those of *)
(* distinct owners, and the roles follow the owners' decisions once the    *)
(* multisig is the only administrator.                                     *)
(*                                                                         *)
(* The ledger's evidence: identifiers are used once, a published model was *)
(* made from submissions approved in its round, verdicts are final, and    *)
(* the rounds implement the abstract RoundLifecycle.  The inductive        *)
(* invariant is LedgerInv.  PublicationSound alone is not inductive:       *)
(* publication is checked against approvedModelCidsByRound, so the         *)
(* invariant adds that this mapping lists the approved records' models     *)
(* (ApprovedFromRecords); and a record could be overwritten or a model     *)
(* reused if identifiers were not known to be registered (CidsUsedOnce).   *)
(*                                                                         *)
(* In the V2 deployment every record stands on a signed decision for its   *)
(* node and round, consumed by that very submission and by nothing else.   *)
(* A step of the deployment is a step of the ledger or leaves it alone, so *)
(* LedgerInv carries over.  BackingDistinct is inductive only together     *)
(* with ApprovalsBacked: that a new decision differs from those behind the *)
(* records follows from their all being registered.                        *)
(***************************************************************************)
EXTENDS VerifiedLedger, GovernedRoles, FiniteSetTheorems, TLAPS

-----------------------------------------------------------------------------
(***************************************************************************)
(* Role administration                                                     *)
(***************************************************************************)

\* What is invariant: types and the accounting together, since the step
\* relation relies on both.
ACLInv == ACLTypeOK /\ AdminAccounting

\* The constructor leaves one administrator and a counter of one.
LEMMA ACLInitInv == ACLInit => ACLInv
<1> SUFFICES ASSUME ACLInit PROVE ACLInv
  OBVIOUS
<1>1. ACLTypeOK
  BY DeployerAssumption DEF ACLInit, ACLTypeOK
<1>2. Admins = {Deployer}
  BY RoleAssumption DEF ACLInit, Admins, ContractRole
<1>3. AdminAccounting
  BY <1>2, FS_Singleton DEF ACLInit, AdminAccounting
<1> QED
  BY <1>1, <1>3 DEF ACLInv

\* Every step of role administration: a grant counts an account once, however
\* often it is granted; a revocation lowers the counter only with the set of
\* administrators, and never empties that set.
LEMMA ACLStep == ACLInv /\ [ACLNext]_aclVars => ACLInv'
<1> SUFFICES ASSUME ACLInv, [ACLNext]_aclVars PROVE ACLInv'
  OBVIOUS
<1>1. ASSUME NEW caller \in Account, NEW account \in Account, NEW role \in Role,
             GrantRole(caller, role, account)
      PROVE  ACLInv'
  <2>1. ACLTypeOK'
    BY <1>1 DEF ACLInv, ACLTypeOK, GrantRole
  <2>2. AdminAccounting'
    <3>1. CASE role = "ADMIN"
      <4>1. Admins' = Admins \cup {account}
        BY <1>1, <3>1, RoleAssumption DEF ACLInv, ACLTypeOK, GrantRole, Admins
      <4>2. adminCount' = IF account \in Admins THEN adminCount ELSE adminCount + 1
        BY <1>1, <3>1 DEF GrantRole, HasRole, Admins
      <4> QED
        BY <4>1, <4>2, FS_AddElement DEF ACLInv, AdminAccounting
    <3>2. CASE role # "ADMIN"
      <4>1. Admins' = Admins /\ adminCount' = adminCount
        BY <1>1, <3>2, RoleAssumption DEF ACLInv, ACLTypeOK, GrantRole, Admins
      <4> QED
        BY <4>1 DEF ACLInv, AdminAccounting
    <3> QED
      BY <3>1, <3>2
  <2> QED
    BY <2>1, <2>2 DEF ACLInv
<1>2. ASSUME NEW caller \in Account, NEW account \in Account, NEW role \in Role,
             RevokeRole(caller, role, account)
      PROVE  ACLInv'
  <2>1. CASE role = "ADMIN" /\ account \in Admins
    <3>1. /\ Admins' = Admins \ {account}
          /\ adminCount > 1
          /\ adminCount' = adminCount - 1
      BY <1>2, <2>1, RoleAssumption
      DEF ACLInv, ACLTypeOK, RevokeRole, HasRole, Admins
    <3>2. /\ IsFiniteSet(Admins')
          /\ Cardinality(Admins') = adminCount - 1
      BY <2>1, <3>1, FS_RemoveElement DEF ACLInv, AdminAccounting
    <3>3. Admins' # {}
      BY <3>1, <3>2, FS_EmptySet DEF ACLInv, ACLTypeOK
    <3>4. ACLTypeOK'
      BY <1>2, <3>1 DEF ACLInv, ACLTypeOK, RevokeRole
    <3> QED
      BY <3>1, <3>2, <3>3, <3>4 DEF ACLInv, AdminAccounting
  <2>2. CASE ~(role = "ADMIN" /\ account \in Admins)
    <3>1. Admins' = Admins /\ adminCount' = adminCount
      BY <1>2, <2>2, RoleAssumption
      DEF ACLInv, ACLTypeOK, RevokeRole, HasRole, Admins
    <3>2. ACLTypeOK'
      BY <1>2, <3>1 DEF ACLInv, ACLTypeOK, RevokeRole
    <3> QED
      BY <3>1, <3>2 DEF ACLInv, AdminAccounting
  <2> QED
    BY <2>1, <2>2
<1>3. CASE UNCHANGED aclVars
  BY <1>3 DEF ACLInv, ACLTypeOK, AdminAccounting, Admins, aclVars
<1> QED
  BY <1>1, <1>2, <1>3 DEF ACLNext

-----------------------------------------------------------------------------
(***************************************************************************)
(* The multisig                                                            *)
(***************************************************************************)

\* The roles and the multisig do not constrain one another, so the invariant is
\* the conjunction of theirs.
MultisigInv == MultisigTypeOK /\ ApprovalsAreDistinctOwners

GovernanceInv == ACLInv /\ MultisigInv

\* A proposal starts with no approval.
LEMMA SubmitTransactionInv ==
  ASSUME MultisigInv, NEW owner \in Owner, NEW call \in Call,
         SubmitTransaction(owner, call)
  PROVE  MultisigInv'
<1> DEFINE tx == [call |-> call, executed |-> FALSE, approvals |-> 0, approvedBy |-> {}]
<1>1. tx \in Transaction
  BY DEF Transaction
<1>2. /\ transactions \in Seq(Transaction)
      /\ transactions' = Append(transactions, tx)
  BY DEF MultisigInv, MultisigTypeOK, SubmitTransaction
<1>3. MultisigTypeOK'
  BY <1>1, <1>2 DEF MultisigTypeOK
<1>4. ASSUME NEW txId \in DOMAIN transactions'
      PROVE  /\ transactions'[txId].approvals = Cardinality(transactions'[txId].approvedBy)
             /\ transactions'[txId].executed =>
                  Cardinality(transactions'[txId].approvedBy) >= Threshold
  <2>1. CASE txId \in DOMAIN transactions
    <3>1. transactions'[txId] = transactions[txId]
      BY <1>1, <1>2, <2>1
    <3> QED
      BY <3>1, <2>1 DEF MultisigInv, ApprovalsAreDistinctOwners
  <2>2. CASE txId \notin DOMAIN transactions
    <3>1. transactions'[txId] = tx
      BY <1>1, <1>2, <2>2
    <3> QED
      BY <3>1, FS_EmptySet
  <2> QED
    BY <2>1, <2>2
<1> QED
  BY <1>3, <1>4 DEF MultisigInv, ApprovalsAreDistinctOwners

\* An approval adds one to the counter and one owner to the set.
LEMMA ApproveTransactionInv ==
  ASSUME MultisigInv, NEW owner \in Owner, NEW txId \in DOMAIN transactions,
         ApproveTransaction(owner, txId)
  PROVE  MultisigInv'
<1> DEFINE old == transactions[txId]
           new == WithApproval(old, owner)
<1>1. /\ transactions \in Seq(Transaction)
      /\ old \in Transaction
  BY DEF MultisigInv, MultisigTypeOK
<1>2. /\ new \in Transaction
      /\ new.approvedBy = old.approvedBy \cup {owner}
      /\ new.approvals = old.approvals + 1
      /\ new.executed = old.executed
  <2> DEFINE approvers == old.approvedBy \cup {owner}
             approved == [old EXCEPT !.approvedBy = approvers]
  <2>1. approvers \in SUBSET Owner /\ old.approvals + 1 \in Nat
    BY <1>1 DEF Transaction
  <2>2. approved \in Transaction
    BY <1>1, <2>1 DEF Transaction
  <2>3. ASSUME NEW t \in Transaction, NEW n \in Nat
        PROVE  [t EXCEPT !.approvals = n] \in Transaction
    BY DEF Transaction
  <2>4. new = [approved EXCEPT !.approvals = old.approvals + 1]
    BY DEF WithApproval
  <2>5. new \in Transaction
    BY <2>1, <2>2, <2>3, <2>4
  <2> QED
    BY <1>1, <2>5 DEF Transaction, WithApproval
<1>3. transactions' = [transactions EXCEPT ![txId] = new]
  BY <1>1 DEF ApproveTransaction
<1>4. MultisigTypeOK'
  BY <1>1, <1>2, <1>3 DEF MultisigTypeOK
<1>5. IsFiniteSet(old.approvedBy)
  BY <1>1, OwnerAssumption, FS_Subset DEF Transaction
<1>6. /\ ~old.executed
      /\ owner \notin old.approvedBy
      /\ old.approvals = Cardinality(old.approvedBy)
  BY DEF ApproveTransaction, MultisigInv, ApprovalsAreDistinctOwners
<1>7. Cardinality(old.approvedBy \cup {owner}) = Cardinality(old.approvedBy) + 1
  BY <1>5, <1>6, FS_AddElement
<1>8. /\ new.approvals = Cardinality(new.approvedBy)
      /\ ~new.executed
  BY <1>2, <1>6, <1>7
<1>9. ApprovalsAreDistinctOwners'
  <2> SUFFICES ASSUME NEW i \in DOMAIN transactions'
               PROVE  /\ transactions'[i].approvals = Cardinality(transactions'[i].approvedBy)
                      /\ transactions'[i].executed =>
                           Cardinality(transactions'[i].approvedBy) >= Threshold
    BY DEF ApprovalsAreDistinctOwners
  <2>1. i \in DOMAIN transactions
    BY <1>1, <1>3
  <2>2. CASE i = txId
    <3>1. transactions'[i] = new
      BY <1>1, <1>3, <2>2
    <3> QED
      BY <3>1, <1>8
  <2>3. CASE i # txId
    <3>1. transactions'[i] = transactions[i]
      BY <1>1, <1>3, <2>1, <2>3
    <3> QED
      BY <3>1, <2>1 DEF MultisigInv, ApprovalsAreDistinctOwners
  <2> QED
    BY <2>2, <2>3
<1> QED
  BY <1>4, <1>9 DEF MultisigInv

\* What is executed has the approvals the counter claims.
LEMMA ExecuteTransactionInv ==
  ASSUME MultisigInv, NEW owner \in Owner, NEW txId \in DOMAIN transactions,
         ExecuteTransaction(owner, txId)
  PROVE  /\ MultisigInv'
         /\ transactions'[txId] = [transactions[txId] EXCEPT !.executed = TRUE]
         /\ Cardinality(transactions[txId].approvedBy) >= Threshold
<1> DEFINE new == [transactions[txId] EXCEPT !.executed = TRUE]
<1>1. /\ transactions \in Seq(Transaction)
      /\ transactions[txId] \in Transaction
  BY DEF MultisigInv, MultisigTypeOK
<1>2. new \in Transaction
  BY <1>1 DEF Transaction
<1>3. transactions' = [transactions EXCEPT ![txId] = new]
  BY <1>1 DEF ExecuteTransaction
<1>4. transactions'[txId] = new
  BY <1>1, <1>3
<1>5. /\ transactions[txId].approvals >= Threshold
      /\ transactions[txId].approvals = Cardinality(transactions[txId].approvedBy)
  BY DEF ExecuteTransaction, MultisigInv, ApprovalsAreDistinctOwners
<1>6. MultisigTypeOK'
  BY <1>1, <1>2, <1>3 DEF MultisigTypeOK
<1>7. /\ new.approvals = transactions[txId].approvals
      /\ new.approvedBy = transactions[txId].approvedBy
  BY <1>1 DEF Transaction
<1>8. ApprovalsAreDistinctOwners'
  <2> SUFFICES ASSUME NEW i \in DOMAIN transactions'
               PROVE  /\ transactions'[i].approvals = Cardinality(transactions'[i].approvedBy)
                      /\ transactions'[i].executed =>
                           Cardinality(transactions'[i].approvedBy) >= Threshold
    BY DEF ApprovalsAreDistinctOwners
  <2>1. i \in DOMAIN transactions
    BY <1>1, <1>3
  <2>2. CASE i = txId
    BY <2>2, <1>4, <1>5, <1>7
  <2>3. CASE i # txId
    <3>1. transactions'[i] = transactions[i]
      BY <1>1, <1>3, <2>1, <2>3
    <3> QED
      BY <3>1, <2>1 DEF MultisigInv, ApprovalsAreDistinctOwners
  <2> QED
    BY <2>2, <2>3
<1> QED
  BY <1>4, <1>5, <1>6, <1>8 DEF MultisigInv

\* A call on the ledger, whoever makes it, keeps the accounting of
\* administrators and changes the roles as the call says.
LEMMA RoleCallInv ==
  ASSUME ACLInv, NEW caller \in Account, NEW call \in Call, RoleCall(caller, call)
  PROVE  /\ ACLInv'
         /\ roles' = RolesAfter(call)
         /\ caller \in Admins
<1>1. /\ call.op \in {"grant", "revoke"}
      /\ call.role \in Role
      /\ call.account \in Account
  BY CallAssumption
<1>2. CASE call.op = "grant"
  <2>1. GrantRole(caller, call.role, call.account)
    BY <1>2 DEF RoleCall
  <2> QED
    BY <1>1, <1>2, <2>1, ACLStep DEF ACLNext, GrantRole, HasRole, Admins, RolesAfter
<1>3. CASE call.op = "revoke"
  <2>1. RevokeRole(caller, call.role, call.account)
    BY <1>3 DEF RoleCall
  <2> QED
    BY <1>1, <1>3, <2>1, ACLStep DEF ACLNext, RevokeRole, HasRole, Admins, RolesAfter
<1> QED
  BY <1>1, <1>2, <1>3

\* Every step keeps the invariant, and a step that changes the roles while the
\* multisig is the only administrator is an execution of an approved proposal.
LEMMA GovernanceStep ==
  ASSUME GovernanceInv, [GovernanceNext]_governanceVars
  PROVE  /\ GovernanceInv'
         /\ Admins = {Multisig} /\ roles' # roles =>
              \E txId \in DOMAIN transactions : ExecutesApproved(txId)
<1> USE DEF GovernanceInv
<1>0. UNCHANGED transactions => MultisigInv'
  BY DEF MultisigInv, MultisigTypeOK, ApprovalsAreDistinctOwners
<1>1. ASSUME NEW caller \in Account, NEW call \in Call, DirectCall(caller, call)
      PROVE  GovernanceInv' /\ Admins # {Multisig}
  BY <1>0, <1>1, RoleCallInv DEF DirectCall
<1>2. ASSUME NEW owner \in Owner, NEW call \in Call, Propose(owner, call)
      PROVE  GovernanceInv' /\ roles' = roles
  BY <1>2, SubmitTransactionInv, ACLStep DEF Propose, aclVars
<1>3. ASSUME NEW owner \in Owner, NEW txId \in 1 .. MaxTransactions, Approve(owner, txId)
      PROVE  GovernanceInv' /\ roles' = roles
  <2>1. txId \in DOMAIN transactions
    BY <1>3 DEF Approve, ApproveTransaction
  <2> QED
    BY <1>3, <2>1, ApproveTransactionInv, ACLStep DEF Approve, aclVars
<1>4. ASSUME NEW owner \in Owner, NEW txId \in 1 .. MaxTransactions, Execute(owner, txId)
      PROVE  /\ GovernanceInv'
             /\ txId \in DOMAIN transactions
             /\ ExecutesApproved(txId)
  <2>1. /\ txId \in DOMAIN transactions
        /\ ~transactions[txId].executed
        /\ ExecuteTransaction(owner, txId)
        /\ RoleCall(Multisig, transactions[txId].call)
    BY <1>4 DEF Execute, ExecuteTransaction
  <2>2. transactions[txId] \in Transaction
    BY <2>1 DEF MultisigInv, MultisigTypeOK
  <2>3. transactions[txId].call \in Call
    BY <2>2 DEF Transaction
  <2>4. ACLInv' /\ roles' = RolesAfter(transactions[txId].call)
    BY <2>1, <2>3, RoleCallInv, MultisigAssumption
  <2>5. /\ MultisigInv'
        /\ transactions'[txId] = [transactions[txId] EXCEPT !.executed = TRUE]
        /\ Cardinality(transactions[txId].approvedBy) >= Threshold
    BY <2>1, ExecuteTransactionInv
  <2>6. transactions'[txId].executed
    BY <2>2, <2>5 DEF Transaction
  <2> QED
    BY <2>1, <2>4, <2>5, <2>6 DEF ExecutesApproved
<1>5. CASE UNCHANGED governanceVars
  BY <1>0, <1>5, ACLStep DEF governanceVars, aclVars
<1> QED
  BY <1>1, <1>2, <1>3, <1>4, <1>5 DEF GovernanceNext

\* The invariant behind both results below.
THEOREM GovernanceInvariant == GovernanceSpec => []GovernanceInv
<1>1. ASSUME GovernanceInit PROVE GovernanceInv
  <2>1. ACLInv
    BY <1>1, ACLInitInv DEF GovernanceInit
  <2>2. transactions = <<>>
    BY <1>1 DEF GovernanceInit, MultisigInit
  <2>3. MultisigInv
    BY <2>2 DEF MultisigInv, MultisigTypeOK, ApprovalsAreDistinctOwners
  <2> QED
    BY <2>1, <2>3 DEF GovernanceInv
<1>2. GovernanceInv /\ [GovernanceNext]_governanceVars => GovernanceInv'
  BY GovernanceStep
<1> QED
  BY <1>1, <1>2, PTL DEF GovernanceSpec

\* Types of the roles, the counter and the multisig's transactions.
THEOREM GovernanceTypeCorrect == GovernanceSpec => []GovernanceTypeOK
<1>1. GovernanceInv => GovernanceTypeOK
  BY DEF GovernanceInv, ACLInv, MultisigInv, GovernanceTypeOK
<1> QED
  BY <1>1, GovernanceInvariant, PTL

\* The counter the multisig compares with its threshold never exceeds the
\* number of owners who approved, for any owners and threshold.
THEOREM ApprovalsGenuine == GovernanceSpec => []ApprovalsAreDistinctOwners
<1>1. GovernanceInv => ApprovalsAreDistinctOwners
  BY DEF GovernanceInv, MultisigInv
<1> QED
  BY <1>1, GovernanceInvariant, PTL

\* The accounting of administrators survives the composition.
THEOREM GovernedAdminAccounting == GovernanceSpec => []AdminAccounting
<1>1. GovernanceInv => AdminAccounting
  BY DEF GovernanceInv, ACLInv
<1> QED
  BY <1>1, GovernanceInvariant, PTL

\* Once the multisig is the only administrator, no role changes without the
\* approval of Threshold distinct owners to that very change.
THEOREM GovernanceByThreshold == GovernanceSpec => ThresholdGovernsRoles
<1>1. GovernanceInv /\ [GovernanceNext]_governanceVars =>
        [Admins = {Multisig} /\ roles' # roles =>
           \E txId \in DOMAIN transactions : ExecutesApproved(txId)]_governanceVars
  BY GovernanceStep
<1> QED
  BY <1>1, GovernanceInvariant, PTL DEF GovernanceSpec, ThresholdGovernsRoles

-----------------------------------------------------------------------------
(***************************************************************************)
(* The ledger: the invariant                                               *)
(***************************************************************************)

\* The mapping publication is checked against says what the records say.
ApprovedFromRecords ==
  \A r \in Round : approvedModelCidsByRound[r] =
                     {records[k].cids["model"] : k \in ApprovedKeys(r)}

\* The list of a round's keys names each of its records once.
KeysListed ==
  \A r \in Round :
    /\ {roundRecordKeys[r][i] : i \in DOMAIN roundRecordKeys[r]} =
         {k \in DOMAIN records : k[2] = r}
    /\ \A i, j \in DOMAIN roundRecordKeys[r] :
         roundRecordKeys[r][i] = roundRecordKeys[r][j] => i = j

\* The part that only submissions and publications can disturb.
EvidenceInv == ApprovedFromRecords /\ KeysListed /\ CidsUsedOnce

LedgerInv == TypeOK /\ AdminAccounting /\ EvidenceInv /\ PublicationSound

-----------------------------------------------------------------------------
(***************************************************************************)
(* Initial states                                                          *)
(***************************************************************************)

LEMMA LedgerInitInv == Init => LedgerInv
<1> SUFFICES ASSUME Init PROVE LedgerInv
  OBVIOUS
<1>1. ACLTypeOK /\ AdminAccounting
  BY ACLInitInv DEF Init, ACLInv
<1>2. DOMAIN records = {} /\ DOMAIN globalModels = {}
  BY DEF Init
<1>3. TypeOK
  BY <1>1, <1>2 DEF Init, TypeOK, RoundState
<1>4. EvidenceInv
  BY <1>2 DEF Init, EvidenceInv, ApprovedFromRecords, KeysListed, ApprovedKeys, CidsUsedOnce,
       SubmittedCidsDistinct, PublishedCidsDistinct, RegistryExact
<1>5. PublicationSound
  BY <1>2 DEF Init, PublicationSound
<1> QED
  BY <1>1, <1>3, <1>4, <1>5 DEF LedgerInv

-----------------------------------------------------------------------------
(***************************************************************************)
(* Steps that leave the evidence alone                                     *)
(***************************************************************************)

LEMMA EvidenceKept ==
  ASSUME LedgerInv, UNCHANGED evidenceVars
  PROVE  EvidenceInv' /\ VerdictsKept /\ (UNCHANGED roundStates => PublicationSound')
<1> USE DEF LedgerInv, EvidenceInv, CidsUsedOnce, evidenceVars
<1>1. ApprovedFromRecords'
  BY DEF ApprovedFromRecords, ApprovedKeys
<1>2. CidsUsedOnce'
  <2>1. SubmittedCidsDistinct'
    BY DEF SubmittedCidsDistinct
  <2>2. PublishedCidsDistinct'
    BY DEF PublishedCidsDistinct, CidsOf, GlobalCids, RecordCids
  <2>3. RegistryExact'
    BY DEF RegistryExact, CidsOf, GlobalCids, RecordCids
  <2> QED
    BY <2>1, <2>2, <2>3
<1>3. UNCHANGED roundStates => PublicationSound'
  BY DEF PublicationSound, ApprovedKeys
<1>4. KeysListed'
  BY DEF KeysListed
<1>5. VerdictsKept
  BY DEF VerdictsKept
<1> QED
  BY <1>1, <1>2, <1>3, <1>4, <1>5

\* Steps that leave the roles alone.
LEMMA RolesKept ==
  ASSUME LedgerInv, UNCHANGED <<roles, adminCount>>
  PROVE  ACLTypeOK' /\ AdminAccounting'
BY ACLStep DEF LedgerInv, TypeOK, ACLInv, aclVars

\* A transition that neither publishes nor unpublishes.
LEMMA RoundTransitionInv ==
  ASSUME LedgerInv, NEW role, NEW caller, NEW round \in Round,
         NEW expected \in RoundState, NEW next \in RoundState,
         expected \in {"Published", "Archived"} <=> next \in {"Published", "Archived"},
         RoundTransition(role, caller, round, expected, next)
  PROVE  LedgerInv' /\ VerdictsKept
<1>1. /\ roundStates[round] = expected
      /\ roundStates' = [roundStates EXCEPT ![round] = next]
      /\ UNCHANGED <<roles, adminCount, verifierContract, registeredNodes>>
      /\ UNCHANGED evidenceVars
  BY DEF RoundTransition, MoveRound
<1>2. ACLTypeOK' /\ AdminAccounting' /\ EvidenceInv' /\ VerdictsKept
  BY <1>1, RolesKept, EvidenceKept
<1>3. TypeOK'
  BY <1>1, <1>2 DEF evidenceVars, LedgerInv, TypeOK
<1>4. PublicationSound'
  BY <1>1 DEF evidenceVars, LedgerInv, TypeOK, PublicationSound, ApprovedKeys
<1> QED
  BY <1>2, <1>3, <1>4 DEF LedgerInv

-----------------------------------------------------------------------------
(***************************************************************************)
(* Submission                                                              *)
(***************************************************************************)

\* Identifiers that pass _markCidUnused occur nowhere on the ledger.
LEMMA FreshCidsUnrecorded ==
  ASSUME LedgerInv, NEW S \in SUBSET Cid, S \cap usedCids = {}
  PROVE  /\ \A k \in DOMAIN records, a \in Artifact : records[k].cids[a] \notin S
         /\ \A r \in DOMAIN globalModels : GlobalCids(r) \cap S = {}
<1>1. ASSUME NEW k \in DOMAIN records, NEW a \in Artifact
      PROVE  records[k].cids[a] \in usedCids
  <2>1. records[k] \in ModelRecord
    BY DEF LedgerInv, TypeOK
  <2>2. records[k].cids[a] \in Cid /\ records[k].cids[a] \in RecordCids(k)
    BY <2>1 DEF ModelRecord, RecordCids, CidsOf
  <2> QED
    BY <2>2 DEF LedgerInv, EvidenceInv, CidsUsedOnce, RegistryExact
<1>2. ASSUME NEW r \in DOMAIN globalModels
      PROVE  GlobalCids(r) \subseteq usedCids
  <2>1. globalModels[r] \in GlobalModelRecord
    BY DEF LedgerInv, TypeOK
  <2>2. GlobalCids(r) \subseteq Cid
    BY <2>1 DEF GlobalModelRecord, GlobalCids
  <2> QED
    BY <2>2 DEF LedgerInv, EvidenceInv, CidsUsedOnce, RegistryExact
<1> QED
  BY <1>1, <1>2

LEMMA SubmitModelInv ==
  ASSUME LedgerInv, NEW caller \in Account, NEW node \in Node, NEW round \in Round,
         NEW cids \in [Artifact -> CidArgument], NEW context,
         NEW proofVerified \in BOOLEAN,
         SubmitModel(caller, node, round, cids, context, proofVerified)
  PROVE  LedgerInv' /\ VerdictsKept
<1> DEFINE key == <<node, round>>
           approval == IF proofVerified THEN "Approved" ELSE "Rejected"
           rec == [cids |-> cids, approval |-> approval]
<1>1. cids \in [Artifact -> Cid]
  BY DEF SubmitModel, SubmissionAccepted, NoEmptyCid, CidsOf, CidArgument
<1>2. rec \in ModelRecord /\ key \in Key
  BY <1>1 DEF ModelRecord, Key
<1>3. /\ key \notin DOMAIN records
      /\ CidsOf(cids) \in SUBSET Cid
      /\ CidsOf(cids) \cap usedCids = {}
      /\ \A a, b \in Artifact : cids[a] = cids[b] => a = b
  BY <1>1 DEF SubmitModel, SubmissionAccepted, NotSubmittedBefore, FreshCids, CidsOf
<1>4. /\ roundStates[round] = "Open"
      /\ UNCHANGED <<roles, adminCount, verifierContract, registeredNodes>>
      /\ UNCHANGED <<roundStates, globalModels>>
      /\ usedCids' = usedCids \cup CidsOf(cids)
      /\ roundRecordKeys' = [roundRecordKeys EXCEPT ![round] = Append(@, key)]
  BY DEF SubmitModel, SubmissionAccepted
<1>5. /\ DOMAIN records' = DOMAIN records \cup {key}
      /\ records' \in [DOMAIN records' -> ModelRecord]
      /\ records'[key] = rec
      /\ \A k \in DOMAIN records : k # key /\ records'[k] = records[k]
  <2>1. records' = Store(records, key, rec)
    BY DEF SubmitModel, SubmissionAccepted
  <2>2. records \in [DOMAIN records -> ModelRecord]
    BY DEF LedgerInv, TypeOK
  <2>3. rec \in ModelRecord
    BY <1>2
  <2> HIDE DEF key, rec
  <2>4. /\ DOMAIN records' = DOMAIN records \cup {key}
        /\ records' \in [DOMAIN records' -> ModelRecord]
        /\ records'[key] = rec
        /\ \A k \in DOMAIN records : k # key => records'[k] = records[k]
    BY <2>1, <2>2, <2>3 DEF Store
  <2> QED
    BY <1>3, <2>4
<1>6. approvedModelCidsByRound' =
        [approvedModelCidsByRound EXCEPT
           ![round] = IF proofVerified THEN @ \cup {cids["model"]} ELSE @]
  BY DEF SubmitModel, SubmissionAccepted, ApproveModel
<1>7. /\ \A k \in DOMAIN records, a \in Artifact : records[k].cids[a] \notin CidsOf(cids)
      /\ \A r \in DOMAIN globalModels : GlobalCids(r) \cap CidsOf(cids) = {}
  BY <1>3, FreshCidsUnrecorded
<1>8. ACLTypeOK' /\ AdminAccounting'
  BY <1>4, RolesKept
<1>9. TypeOK'
  <2>1. approvedModelCidsByRound' \in [Round -> SUBSET Cid]
    BY <1>1, <1>6, ArtifactAssumption DEF LedgerInv, TypeOK
  <2>2. roundRecordKeys' \in [Round -> Seq(Key)]
    BY <1>2, <1>4 DEF LedgerInv, TypeOK
  <2> QED
    BY <1>2, <1>3, <1>4, <1>5, <1>8, <2>1, <2>2 DEF LedgerInv, TypeOK
<1>10. SubmittedCidsDistinct'
  <2> SUFFICES ASSUME NEW k \in DOMAIN records', NEW l \in DOMAIN records',
                      NEW a \in Artifact, NEW b \in Artifact,
                      records'[k].cids[a] = records'[l].cids[b]
               PROVE  k = l /\ a = b
    BY DEF SubmittedCidsDistinct
  <2>1. \A c \in Artifact : rec.cids[c] = cids[c] /\ cids[c] \in CidsOf(cids)
    BY DEF CidsOf
  <2>2. CASE k # key /\ l # key
    BY <1>5, <2>2
    DEF LedgerInv, EvidenceInv, CidsUsedOnce, SubmittedCidsDistinct
  <2>3. CASE k = key /\ l = key
    BY <1>3, <1>5, <2>1, <2>3
  <2>4. CASE k = key /\ l # key
    BY <1>5, <1>7, <2>1, <2>4
  <2>5. CASE k # key /\ l = key
    BY <1>5, <1>7, <2>1, <2>5
  <2> QED
    BY <2>2, <2>3, <2>4, <2>5
<1>11. /\ \A k \in DOMAIN records : RecordCids(k)' = RecordCids(k)
       /\ RecordCids(key)' = CidsOf(cids)
       /\ \A r : GlobalCids(r)' = GlobalCids(r)
  BY <1>4, <1>5 DEF RecordCids, CidsOf, GlobalCids
<1>12. PublishedCidsDistinct'
  <2>1. ASSUME NEW r \in DOMAIN globalModels, NEW k \in DOMAIN records'
        PROVE  GlobalCids(r)' \cap RecordCids(k)' = {}
    BY <1>5, <1>7, <1>11
    DEF LedgerInv, EvidenceInv, CidsUsedOnce, PublishedCidsDistinct
  <2> QED
    BY <1>4, <1>11, <2>1
    DEF LedgerInv, EvidenceInv, CidsUsedOnce, PublishedCidsDistinct
<1>13. RegistryExact'
  BY <1>4, <1>5, <1>11
  DEF LedgerInv, EvidenceInv, CidsUsedOnce, RegistryExact
<1>14. ApprovedFromRecords'
  <2> SUFFICES ASSUME NEW r \in Round
               PROVE  approvedModelCidsByRound'[r] =
                        {records'[k].cids["model"] : k \in ApprovedKeys(r)'}
    BY DEF ApprovedFromRecords
  <2>1. approvedModelCidsByRound[r] =
          {records[k].cids["model"] : k \in ApprovedKeys(r)}
    BY DEF LedgerInv, EvidenceInv, ApprovedFromRecords
  <2>2. ApprovedKeys(r)' = ApprovedKeys(r) \cup
          (IF r = round /\ proofVerified THEN {key} ELSE {})
    BY <1>5 DEF ApprovedKeys
  <2>3. approvedModelCidsByRound'[r] = approvedModelCidsByRound[r] \cup
          (IF r = round /\ proofVerified THEN {cids["model"]} ELSE {})
    BY <1>6 DEF LedgerInv, TypeOK
  <2>4. \A k \in ApprovedKeys(r) : records'[k].cids["model"] = records[k].cids["model"]
    BY <1>5 DEF ApprovedKeys
  <2>5. records'[key].cids["model"] = cids["model"]
    BY <1>5
  <2> QED
    BY <2>1, <2>2, <2>3, <2>4, <2>5
<1>15. PublicationSound'
  <2>1. \A r \in Round : approvedModelCidsByRound[r] \subseteq approvedModelCidsByRound'[r]
    BY <1>6 DEF LedgerInv, TypeOK
  <2> QED
    BY <1>4, <1>14, <2>1
    DEF LedgerInv, EvidenceInv, ApprovedFromRecords, PublicationSound
<1>16. KeysListed'
  <2> SUFFICES ASSUME NEW r \in Round
               PROVE  /\ {roundRecordKeys'[r][i] : i \in DOMAIN roundRecordKeys'[r]} =
                           {k \in DOMAIN records' : k[2] = r}
                      /\ \A i, j \in DOMAIN roundRecordKeys'[r] :
                           roundRecordKeys'[r][i] = roundRecordKeys'[r][j] => i = j
    BY DEF KeysListed
  <2>1. /\ roundRecordKeys[r] \in Seq(Key)
        /\ {roundRecordKeys[r][i] : i \in DOMAIN roundRecordKeys[r]} =
             {k \in DOMAIN records : k[2] = r}
        /\ \A i, j \in DOMAIN roundRecordKeys[r] :
             roundRecordKeys[r][i] = roundRecordKeys[r][j] => i = j
    BY DEF LedgerInv, TypeOK, EvidenceInv, KeysListed
  <2>2. key[2] = round
    OBVIOUS
  <2> DEFINE old == roundRecordKeys[r]
             new == roundRecordKeys'[r]
  <2>3. new = IF r = round THEN Append(old, key) ELSE old
    BY <1>4 DEF LedgerInv, TypeOK
  <2> HIDE DEF key, old, new
  <2>4. CASE r = round
    <3>1. /\ DOMAIN old = 1 .. Len(old) /\ Len(old) \in Nat
          /\ DOMAIN new = 1 .. Len(old) + 1
          /\ \A i \in 1 .. Len(old) : new[i] = old[i]
          /\ new[Len(old) + 1] = key
      BY <1>2, <2>1, <2>3, <2>4 DEF old
    <3>2. \A i \in DOMAIN old : old[i] \in DOMAIN records /\ old[i] # key
      BY <1>3, <2>1 DEF old
    <3>3. {new[i] : i \in DOMAIN new} = {old[i] : i \in DOMAIN old} \cup {key}
      BY <3>1
    <3>4. {k \in DOMAIN records' : k[2] = r} = {k \in DOMAIN records : k[2] = r} \cup {key}
      BY <1>5, <2>2, <2>4
    <3>5. \A i, j \in DOMAIN new : new[i] = new[j] => i = j
      BY <2>1, <3>1, <3>2 DEF old
    <3> QED
      BY <2>1, <3>3, <3>4, <3>5 DEF old, new
  <2>5. CASE r # round
    <3>1. {k \in DOMAIN records' : k[2] = r} = {k \in DOMAIN records : k[2] = r}
      BY <1>5, <2>2, <2>5
    <3> QED
      BY <2>1, <2>3, <2>5, <3>1 DEF old, new
  <2> QED
    BY <2>4, <2>5
<1>17. VerdictsKept
  BY <1>4, <1>5 DEF VerdictsKept
<1> QED
  BY <1>8, <1>9, <1>10, <1>12, <1>13, <1>14, <1>15, <1>16, <1>17
  DEF LedgerInv, EvidenceInv, CidsUsedOnce

-----------------------------------------------------------------------------
(***************************************************************************)
(* Publication                                                             *)
(***************************************************************************)

LEMMA PublishGlobalModelInv ==
  ASSUME LedgerInv, NEW caller \in Account, NEW round \in Round,
         NEW globalModelCid \in CidArgument, NEW reportCid \in CidArgument,
         NEW participants \in SUBSET Cid,
         PublishGlobalModel(caller, round, globalModelCid, reportCid, participants)
  PROVE  LedgerInv' /\ VerdictsKept
<1> DEFINE rec == [globalModelCid |-> globalModelCid, reportCid |-> reportCid,
                   participants |-> participants]
           own == {globalModelCid, reportCid}
<1>1. /\ globalModelCid \in Cid /\ reportCid \in Cid
      /\ globalModelCid # reportCid
      /\ own \cap usedCids = {}
  BY DEF PublishGlobalModel, PublicationAccepted, CidArgument
<1>2. rec \in GlobalModelRecord
  BY <1>1 DEF GlobalModelRecord
<1>3. /\ roundStates[round] = "AggregationStarted"
      /\ roundStates' = [roundStates EXCEPT ![round] = "Published"]
      /\ UNCHANGED <<roles, adminCount, verifierContract, registeredNodes>>
      /\ UNCHANGED <<records, roundRecordKeys, approvedModelCidsByRound>>
      /\ usedCids' = usedCids \cup own
  BY DEF PublishGlobalModel, PublicationAccepted, MoveRound
<1>4. /\ round \notin DOMAIN globalModels
      /\ participants # {}
      /\ participants \subseteq approvedModelCidsByRound[round]
  BY DEF PublishGlobalModel, PublicationAccepted, ParticipantsApproved
<1>5. /\ DOMAIN globalModels' = DOMAIN globalModels \cup {round}
      /\ globalModels' \in [DOMAIN globalModels' -> GlobalModelRecord]
      /\ globalModels'[round] = rec
      /\ \A r \in DOMAIN globalModels : r # round /\ globalModels'[r] = globalModels[r]
  <2>1. globalModels' = Store(globalModels, round, rec)
    BY DEF PublishGlobalModel, PublicationAccepted
  <2>2. globalModels \in [DOMAIN globalModels -> GlobalModelRecord]
    BY DEF LedgerInv, TypeOK
  <2>3. rec \in GlobalModelRecord
    BY <1>2
  <2> HIDE DEF rec
  <2>4. /\ DOMAIN globalModels' = DOMAIN globalModels \cup {round}
        /\ globalModels' \in [DOMAIN globalModels' -> GlobalModelRecord]
        /\ globalModels'[round] = rec
        /\ \A r \in DOMAIN globalModels :
             r # round => globalModels'[r] = globalModels[r]
    BY <2>1, <2>2, <2>3 DEF Store
  <2> QED
    BY <1>4, <2>4
<1>6. /\ \A k \in DOMAIN records, a \in Artifact : records[k].cids[a] \notin own
      /\ \A r \in DOMAIN globalModels : GlobalCids(r) \cap own = {}
  BY <1>1, FreshCidsUnrecorded
<1>7. /\ \A k : RecordCids(k)' = RecordCids(k)
      /\ \A r \in DOMAIN globalModels : GlobalCids(r)' = GlobalCids(r)
      /\ GlobalCids(round)' = own
  BY <1>3, <1>5 DEF RecordCids, CidsOf, GlobalCids
<1>8. ACLTypeOK' /\ AdminAccounting'
  BY <1>3, RolesKept
<1>9. TypeOK'
  <2>1. roundStates' \in [Round -> RoundState]
    BY <1>3 DEF LedgerInv, TypeOK, RoundState
  <2>2. DOMAIN globalModels' \subseteq Round
    BY <1>5 DEF LedgerInv, TypeOK
  <2> QED
    BY <1>1, <1>3, <1>5, <1>8, <2>1, <2>2 DEF LedgerInv, TypeOK
<1>10. SubmittedCidsDistinct'
  BY <1>3 DEF LedgerInv, EvidenceInv, CidsUsedOnce, SubmittedCidsDistinct
<1>11. PublishedCidsDistinct'
  <2>1. ASSUME NEW r \in DOMAIN globalModels', NEW s \in DOMAIN globalModels'
        PROVE  /\ globalModels'[r].globalModelCid # globalModels'[s].reportCid
               /\ r # s => GlobalCids(r)' \cap GlobalCids(s)' = {}
    <3>1. CASE r # round /\ s # round
      BY <1>5, <1>7, <3>1
      DEF LedgerInv, EvidenceInv, CidsUsedOnce, PublishedCidsDistinct
    <3>2. CASE r = round /\ s = round
      BY <1>1, <1>5, <3>2
    <3>3. CASE r = round /\ s # round
      BY <1>5, <1>6, <1>7, <3>3 DEF GlobalCids
    <3>4. CASE r # round /\ s = round
      BY <1>5, <1>6, <1>7, <3>4 DEF GlobalCids
    <3> QED
      BY <3>1, <3>2, <3>3, <3>4
  <2>2. ASSUME NEW r \in DOMAIN globalModels', NEW k \in DOMAIN records'
        PROVE  GlobalCids(r)' \cap RecordCids(k)' = {}
    <3>1. CASE r = round
      BY <1>3, <1>6, <1>7, <3>1 DEF RecordCids, CidsOf
    <3>2. CASE r # round
      BY <1>3, <1>5, <1>7, <3>2
      DEF LedgerInv, EvidenceInv, CidsUsedOnce, PublishedCidsDistinct
    <3> QED
      BY <3>1, <3>2
  <2> QED
    BY <2>1, <2>2 DEF PublishedCidsDistinct
<1>12. RegistryExact'
  BY <1>3, <1>5, <1>7 DEF LedgerInv, EvidenceInv, CidsUsedOnce, RegistryExact
<1>13. ApprovedFromRecords'
  BY <1>3 DEF LedgerInv, EvidenceInv, ApprovedFromRecords, ApprovedKeys
<1>14. PublicationSound'
  <2> SUFFICES ASSUME NEW r \in Round
               PROVE  /\ r \in DOMAIN globalModels'
                           <=> roundStates'[r] \in {"Published", "Archived"}
                      /\ r \in DOMAIN globalModels' =>
                           /\ globalModels'[r].participants # {}
                           /\ globalModels'[r].participants \subseteq
                                {records'[k].cids["model"] : k \in ApprovedKeys(r)'}
    BY DEF PublicationSound
  <2>1. ApprovedKeys(r)' = ApprovedKeys(r)
    BY <1>3 DEF ApprovedKeys
  <2>2. CASE r = round
    BY <1>3, <1>4, <1>5, <2>1, <2>2
    DEF LedgerInv, TypeOK, EvidenceInv, ApprovedFromRecords
  <2>3. CASE r # round
    BY <1>3, <1>5, <2>1, <2>3 DEF LedgerInv, TypeOK, PublicationSound
  <2> QED
    BY <2>2, <2>3
<1>15. KeysListed'
  BY <1>3 DEF LedgerInv, EvidenceInv, KeysListed
<1>16. VerdictsKept
  BY <1>3, <1>5 DEF VerdictsKept
<1> QED
  BY <1>8, <1>9, <1>10, <1>11, <1>12, <1>13, <1>14, <1>15, <1>16
  DEF LedgerInv, EvidenceInv, CidsUsedOnce

-----------------------------------------------------------------------------
(***************************************************************************)
(* Every step                                                              *)
(***************************************************************************)

LEMMA LedgerNextInv == LedgerInv /\ [Next]_ledgerVars => LedgerInv' /\ [VerdictsKept]_ledgerVars
<1> SUFFICES ASSUME LedgerInv, [Next]_ledgerVars
             PROVE  LedgerInv' /\ [VerdictsKept]_ledgerVars
  OBVIOUS
<1>1. ASSUME RoleChange PROVE LedgerInv' /\ VerdictsKept
  <2>1. ACLTypeOK' /\ AdminAccounting'
    BY <1>1, ACLStep DEF RoleChange, LedgerInv, TypeOK, ACLInv
  <2>2. EvidenceInv' /\ PublicationSound' /\ VerdictsKept
    BY <1>1, EvidenceKept DEF RoleChange
  <2>3. TypeOK'
    BY <1>1, <2>1 DEF RoleChange, evidenceVars, LedgerInv, TypeOK
  <2> QED
    BY <2>1, <2>2, <2>3 DEF LedgerInv
<1>2. ASSUME NEW caller \in Account, AdminAction(caller)
      PROVE  LedgerInv' /\ VerdictsKept
  <2>1. UNCHANGED <<roles, adminCount, roundStates, evidenceVars>>
    BY <1>2 DEF AdminAction, SetVerifierContract, RegisterNode
  <2>2. /\ verifierContract' \in Verifier \cup {NoVerifier}
        /\ registeredNodes' \subseteq Node
    BY <1>2 DEF AdminAction, SetVerifierContract, RegisterNode, LedgerInv, TypeOK
  <2>3. ACLTypeOK' /\ AdminAccounting' /\ EvidenceInv' /\ PublicationSound' /\ VerdictsKept
    BY <2>1, RolesKept, EvidenceKept
  <2>4. TypeOK'
    BY <2>1, <2>2, <2>3 DEF evidenceVars, LedgerInv, TypeOK
  <2> QED
    BY <2>3, <2>4 DEF LedgerInv
<1>3. ASSUME NEW caller \in Account, NEW round \in Round, LifecycleAction(caller, round)
      PROVE  LedgerInv' /\ VerdictsKept
  <2>1. CASE CreateRound(caller, round)
    BY <2>1, RoundTransitionInv DEF CreateRound, RoundState
  <2>2. CASE CloseSubmissions(caller, round)
    BY <2>2, RoundTransitionInv DEF CloseSubmissions, RoundState
  <2>3. CASE StartAggregation(caller, round)
    BY <2>3, RoundTransitionInv DEF StartAggregation, RoundState
  <2>4. CASE CancelRound(caller, round)
    BY <2>4, RoundTransitionInv DEF CancelRound, RoundState
  <2>5. CASE ArchiveRound(caller, round)
    BY <2>5, RoundTransitionInv DEF ArchiveRound, RoundState
  <2> QED
    BY <1>3, <2>1, <2>2, <2>3, <2>4, <2>5 DEF LifecycleAction
<1>4. ASSUME NEW caller \in Account, NEW round \in Round, Submission(caller, round)
      PROVE  LedgerInv' /\ VerdictsKept
  BY <1>4, SubmitModelInv DEF Submission
<1>5. ASSUME NEW caller \in Account, NEW round \in Round, Publication(caller, round)
      PROVE  LedgerInv' /\ VerdictsKept
  BY <1>5, PublishGlobalModelInv DEF Publication
<1>6. CASE UNCHANGED ledgerVars
  <2>1. UNCHANGED <<roles, adminCount, verifierContract, registeredNodes, roundStates>>
    BY <1>6 DEF ledgerVars
  <2>2. UNCHANGED evidenceVars
    BY <1>6 DEF ledgerVars, evidenceVars
  <2>3. ACLTypeOK' /\ AdminAccounting' /\ EvidenceInv' /\ PublicationSound'
    BY <2>1, <2>2, RolesKept, EvidenceKept
  <2>4. TypeOK'
    BY <2>1, <2>2, <2>3 DEF evidenceVars, LedgerInv, TypeOK
  <2> QED
    BY <1>6, <2>3, <2>4 DEF LedgerInv
<1> QED
  BY <1>1, <1>2, <1>3, <1>4, <1>5, <1>6 DEF Next

-----------------------------------------------------------------------------
(***************************************************************************)
(* The list of eligible models                                             *)
(***************************************************************************)

\* Counting the elements of a finite set of numbers in their order numbers each
\* of them, from one to how many there are.
LEMMA CountingInOrder ==
  ASSUME NEW A \in SUBSET Nat, IsFiniteSet(A)
  PROVE  LET upTo(i) == Cardinality({j \in A : j <= i}) IN
         /\ Cardinality(A) \in Nat
         /\ \A i \in A : upTo(i) \in 1 .. Cardinality(A)
         /\ \A i, k \in A : upTo(i) = upTo(k) => i = k
         /\ \A n \in 1 .. Cardinality(A) : \E i \in A : upTo(i) = n
<1> DEFINE Below(i) == {j \in A : j <= i}
           upTo(i) == Cardinality(Below(i))
           count == [i \in A |-> upTo(i)]
           N == Cardinality(A)
<1>1. N \in Nat
  BY FS_CardinalityType
<1>2. ASSUME NEW i \in A
      PROVE  IsFiniteSet(Below(i)) /\ upTo(i) \in 1 .. N
  <2>1. IsFiniteSet(Below(i)) /\ upTo(i) <= N
    BY FS_Subset
  <2>2. upTo(i) \in Nat /\ upTo(i) # 0
    <3>1. i \in Below(i)
      OBVIOUS
    <3> HIDE DEF Below
    <3> QED
      BY <2>1, <3>1, FS_CardinalityType, FS_EmptySet
  <2> QED
    BY <1>1, <2>1, <2>2
<1>3. ASSUME NEW i \in A, NEW k \in A, i < k
      PROVE  upTo(i) # upTo(k)
  <2>1. \A j \in A : j <= i => j <= k
    BY <1>3
  <2>2. k \in Below(k) /\ k \notin Below(i)
    BY <1>3
  <2>3. Below(i) \in SUBSET Below(k)
    BY <2>1
  <2> HIDE DEF Below
  <2> QED
    BY <1>2, <2>2, <2>3, FS_Subset
<1>4. \A i, k \in A : upTo(i) = upTo(k) => i = k
  <2> SUFFICES ASSUME NEW i \in A, NEW k \in A, upTo(i) = upTo(k), i # k
               PROVE  FALSE
    OBVIOUS
  <2>1. i < k \/ k < i
    OBVIOUS
  <2> HIDE DEF upTo
  <2> QED
    BY <1>3, <2>1
<1>5. count \in Injection(A, 1 .. N)
  <2> HIDE DEF upTo
  <2> QED
    BY <1>2, <1>4 DEF Injection, IsInjective
<1>6. IsFiniteSet(1 .. N) /\ Cardinality(1 .. N) = N
  BY <1>1, FS_Interval
<1>7. count \in Surjection(A, 1 .. N)
  <2> HIDE DEF count
  <2> QED
    BY <1>5, <1>6, FS_Injection
<1>8. \A n \in 1 .. N : \E i \in A : upTo(i) = n
  BY <1>7 DEF Surjection
<1> QED
  BY <1>1, <1>2, <1>4, <1>8

\* getEligibleModelCids says what the mapping of publishGlobalModel says.
LEMMA EligibleViews == LedgerInv => EligibleViewsAgree
<1> SUFFICES ASSUME LedgerInv, NEW round \in Round
             PROVE  /\ {EligibleModelCids(round)[n] : n \in DOMAIN EligibleModelCids(round)} =
                         approvedModelCidsByRound[round]
                    /\ \A m, n \in DOMAIN EligibleModelCids(round) :
                         EligibleModelCids(round)[m] = EligibleModelCids(round)[n] => m = n
  BY DEF EligibleViewsAgree
<1> DEFINE keys == roundRecordKeys[round]
           A == ApprovedPositions(round)
           N == Cardinality(A)
           at(n) == CHOOSE i \in A : Cursor(round, i) = n
           model(i) == records[keys[i]].cids["model"]
<1>1. /\ keys \in Seq(Key)
      /\ {keys[i] : i \in DOMAIN keys} = {k \in DOMAIN records : k[2] = round}
      /\ \A i, j \in DOMAIN keys : keys[i] = keys[j] => i = j
  BY DEF LedgerInv, TypeOK, EvidenceInv, KeysListed
<1>2. A \in SUBSET Nat /\ IsFiniteSet(A) /\ A \subseteq DOMAIN keys
  <2>1. A \in SUBSET (1 .. Len(keys)) /\ Len(keys) \in Nat
    BY <1>1 DEF ApprovedPositions
  <2>2. IsFiniteSet(A)
    <3> HIDE DEF A, keys
    <3>1. IsFiniteSet(1 .. Len(keys))
      BY <2>1, FS_Interval
    <3> QED
      BY <2>1, <3>1, FS_Subset
  <2> QED
    BY <1>1, <2>1, <2>2
<1>3. /\ \A i \in A : Cursor(round, i) \in 1 .. N
      /\ \A i, k \in A : Cursor(round, i) = Cursor(round, k) => i = k
      /\ \A n \in 1 .. N : \E i \in A : Cursor(round, i) = n
  <2> HIDE DEF A
  <2> QED
    BY <1>2, CountingInOrder DEF Cursor, A
<1>4. /\ \A n \in 1 .. N : at(n) \in A /\ Cursor(round, at(n)) = n
      /\ \A i \in A : at(Cursor(round, i)) = i
  <2> HIDE DEF A, N
  <2> QED
    BY <1>3
<1>5. EligibleModelCids(round) = [n \in 1 .. N |-> model(at(n))]
  BY DEF EligibleModelCids
<1>6. approvedModelCidsByRound[round] = {model(i) : i \in A}
  <2>1. {keys[i] : i \in A} = ApprovedKeys(round)
    BY <1>1 DEF ApprovedPositions, ApprovedKeys
  <2>2. approvedModelCidsByRound[round] =
          {records[k].cids["model"] : k \in ApprovedKeys(round)}
    BY DEF LedgerInv, EvidenceInv, ApprovedFromRecords
  <2> HIDE DEF A
  <2> QED
    BY <2>1, <2>2
<1>7. \A i, j \in A : model(i) = model(j) => i = j
  BY <1>1, <1>2, ArtifactAssumption
  DEF LedgerInv, EvidenceInv, CidsUsedOnce, SubmittedCidsDistinct
<1> HIDE DEF keys, A, N, at, model
<1>8. {model(at(n)) : n \in 1 .. N} = {model(i) : i \in A}
  BY <1>3, <1>4
<1>9. \A m, n \in 1 .. N : model(at(m)) = model(at(n)) => m = n
  BY <1>4, <1>7
<1> QED
  BY <1>5, <1>6, <1>8, <1>9

-----------------------------------------------------------------------------
(***************************************************************************)
(* The theorems                                                            *)
(***************************************************************************)

\* The inductive invariant holds of every behaviour of the contract.
THEOREM LedgerInvariant == Spec => []LedgerInv
BY LedgerInitInv, LedgerNextInv, PTL DEF Spec

\* Type correctness, for any sets of nodes, rounds and identifiers.
THEOREM LedgerTypeCorrect == Spec => []TypeOK
BY LedgerInvariant, PTL DEF LedgerInv

\* One identifier stands for one artifact, and the registry of _markCidUnused
\* lists exactly the identifiers the ledger holds.
THEOREM CidsNeverReused == Spec => []CidsUsedOnce
BY LedgerInvariant, PTL DEF LedgerInv, EvidenceInv

\* A published model was made from submissions approved in its round, and only
\* published rounds have one.
THEOREM PublicationIsSound == Spec => []PublicationSound
BY LedgerInvariant, PTL DEF LedgerInv

\* What getEligibleModelCids lists is what publication is checked against, and no
\* model is listed twice.
THEOREM EligibleListExact == Spec => []EligibleViewsAgree
BY LedgerInvariant, EligibleViews, PTL

\* Records and published models are never replaced, and a round's records grow
\* only while it is open.
THEOREM VerdictsAreFinal == Spec => VerdictsFinal
BY LedgerInvariant, LedgerNextInv, PTL DEF Spec, VerdictsFinal

-----------------------------------------------------------------------------
(***************************************************************************)
(* The rounds implement RoundLifecycle                                     *)
(***************************************************************************)

\* A change of a round's state changes the round's abstract phase alone.
LEMMA PhaseMoves ==
  ASSUME LedgerInv, NEW round \in Round, NEW expected, NEW next,
         MoveRound(round, expected, next)
  PROVE  /\ Lifecycle!Move(round, AbstractPhase(expected), AbstractPhase(next))
         /\ AbstractPhase(expected) = AbstractPhase(next) => UNCHANGED phaseBar
<1>1. /\ roundStates \in [Round -> RoundState]
      /\ roundStates[round] = expected
      /\ roundStates' = [roundStates EXCEPT ![round] = next]
  BY DEF MoveRound, LedgerInv, TypeOK
<1>2. \A r \in Round : roundStates'[r] = IF r = round THEN next ELSE roundStates[r]
  BY <1>1
<1>3. /\ phaseBar[round] = AbstractPhase(expected)
      /\ phaseBar' = [phaseBar EXCEPT ![round] = AbstractPhase(next)]
  BY <1>1, <1>2 DEF phaseBar
<1> QED
  BY <1>3 DEF Lifecycle!Move, phaseBar

LEMMA SubmissionSimulated ==
  ASSUME LedgerInv, NEW caller \in Account, NEW node \in Node, NEW round \in Round,
         NEW cids \in [Artifact -> CidArgument], NEW context,
         NEW proofVerified \in BOOLEAN,
         SubmitModel(caller, node, round, cids, context, proofVerified)
  PROVE  [Lifecycle!Next]_(Lifecycle!lifecycleVars)
<1>1. UNCHANGED <<phaseBar, aggregateBar>>
  BY DEF SubmitModel, SubmissionAccepted, phaseBar, aggregateBar
<1>2. phaseBar[round] = "collecting"
  BY DEF SubmitModel, SubmissionAccepted, phaseBar, AbstractPhase
<1>3. cids["model"] \in Cid /\ CidsOf(cids) \in SUBSET Cid /\ cids["model"] \in CidsOf(cids)
  BY ArtifactAssumption DEF SubmitModel, SubmissionAccepted, NoEmptyCid, CidsOf, CidArgument
<1>4. \A s \in Round : cids["model"] \notin approvedModelCidsByRound[s]
  <2>1. CidsOf(cids) \cap usedCids = {}
    BY DEF SubmitModel, SubmissionAccepted, FreshCids
  <2>2. \A k \in DOMAIN records, a \in Artifact : records[k].cids[a] \notin CidsOf(cids)
    BY <1>3, <2>1, FreshCidsUnrecorded
  <2> QED
    BY <1>3, <2>2, ArtifactAssumption
    DEF LedgerInv, EvidenceInv, ApprovedFromRecords, ApprovedKeys
<1>5. CASE proofVerified
  <2>1. approvedModelCidsByRound' =
          [approvedModelCidsByRound EXCEPT ![round] = @ \cup {cids["model"]}]
    BY <1>5 DEF SubmitModel, SubmissionAccepted, ApproveModel
  <2>2. Lifecycle!Admit(round, cids["model"])
    BY <1>1, <1>2, <1>4, <2>1 DEF Lifecycle!Admit
  <2> QED
    BY <1>3, <2>2 DEF Lifecycle!Next
<1>6. CASE ~proofVerified
  <2>1. UNCHANGED approvedModelCidsByRound
    BY <1>6 DEF SubmitModel, SubmissionAccepted, ApproveModel, LedgerInv, TypeOK
  <2> QED
    BY <1>1, <2>1 DEF Lifecycle!lifecycleVars
<1> QED
  BY <1>5, <1>6

LEMMA PublicationSimulated ==
  ASSUME LedgerInv, NEW caller \in Account, NEW round \in Round,
         NEW globalModelCid, NEW reportCid, NEW participants \in SUBSET Cid,
         PublishGlobalModel(caller, round, globalModelCid, reportCid, participants)
  PROVE  Lifecycle!Next
<1>1. Lifecycle!Move(round, "sealed", "published")
  BY PhaseMoves DEF PublishGlobalModel, PublicationAccepted, AbstractPhase
<1>2. /\ participants # {}
      /\ participants \subseteq approvedModelCidsByRound[round]
      /\ UNCHANGED approvedModelCidsByRound
  BY DEF PublishGlobalModel, PublicationAccepted, ParticipantsApproved
<1>3. aggregateBar' = [aggregateBar EXCEPT ![round] = participants]
  BY DEF PublishGlobalModel, PublicationAccepted, Store, aggregateBar
<1>4. Lifecycle!Publish(round, participants)
  BY <1>1, <1>2, <1>3 DEF Lifecycle!Publish
<1> QED
  BY <1>4 DEF Lifecycle!Next

LEMMA StepSimulated ==
  LedgerInv /\ [Next]_ledgerVars => [Lifecycle!Next]_(Lifecycle!lifecycleVars)
<1> SUFFICES ASSUME LedgerInv, [Next]_ledgerVars
             PROVE  [Lifecycle!Next]_(Lifecycle!lifecycleVars)
  OBVIOUS
<1>1. ASSUME UNCHANGED <<roundStates, approvedModelCidsByRound, globalModels>>
      PROVE  UNCHANGED Lifecycle!lifecycleVars
  BY <1>1 DEF Lifecycle!lifecycleVars, phaseBar, aggregateBar
<1>2. CASE RoleChange
  BY <1>1, <1>2 DEF RoleChange, evidenceVars
<1>3. ASSUME NEW caller \in Account, AdminAction(caller)
      PROVE  UNCHANGED Lifecycle!lifecycleVars
  BY <1>1, <1>3 DEF AdminAction, SetVerifierContract, RegisterNode, evidenceVars
<1>4. ASSUME NEW caller \in Account, NEW round \in Round, Submission(caller, round)
      PROVE  [Lifecycle!Next]_(Lifecycle!lifecycleVars)
  BY <1>4, SubmissionSimulated DEF Submission
<1>5. ASSUME NEW caller \in Account, NEW round \in Round, Publication(caller, round)
      PROVE  Lifecycle!Next
  BY <1>5, PublicationSimulated DEF Publication
<1>6. CASE UNCHANGED ledgerVars
  BY <1>1, <1>6 DEF ledgerVars
<1>7. ASSUME NEW role, NEW caller, NEW round \in Round, NEW expected, NEW next,
             RoundTransition(role, caller, round, expected, next)
      PROVE  /\ AbstractPhase(expected) = AbstractPhase(next) =>
                  UNCHANGED Lifecycle!lifecycleVars
             /\ Lifecycle!Move(round, AbstractPhase(expected), AbstractPhase(next))
             /\ UNCHANGED <<approvedModelCidsByRound, aggregateBar>>
  <2>1. UNCHANGED <<approvedModelCidsByRound, aggregateBar>>
    BY <1>7 DEF RoundTransition, evidenceVars, aggregateBar
  <2> QED
    BY <1>7, <2>1, PhaseMoves DEF RoundTransition, Lifecycle!lifecycleVars
<1>8. ASSUME NEW caller \in Account, NEW round \in Round, LifecycleAction(caller, round)
      PROVE  [Lifecycle!Next]_(Lifecycle!lifecycleVars)
  <2>1. CASE CreateRound(caller, round)
    BY <1>7, <2>1 DEF CreateRound, AbstractPhase, Lifecycle!Next, Lifecycle!Begin
  <2>2. CASE CloseSubmissions(caller, round)
    BY <1>7, <2>2 DEF CloseSubmissions, AbstractPhase, Lifecycle!Next, Lifecycle!Seal
  <2>3. CASE StartAggregation(caller, round)
    BY <1>7, <2>3 DEF StartAggregation, AbstractPhase
  <2>4. CASE CancelRound(caller, round)
    BY <1>7, <2>4 DEF CancelRound, AbstractPhase, Lifecycle!Next, Lifecycle!Abandon
  <2>5. CASE ArchiveRound(caller, round)
    BY <1>7, <2>5 DEF ArchiveRound, AbstractPhase
  <2> QED
    BY <1>8, <2>1, <2>2, <2>3, <2>4, <2>5 DEF LifecycleAction
<1> QED
  BY <1>2, <1>3, <1>4, <1>5, <1>6, <1>8 DEF Next

\* The contract's rounds are the rounds of RoundLifecycle: no interleaving of
\* calls admits a contribution late or twice, publishes twice, publishes what
\* was not admitted, or publishes what was abandoned.
THEOREM LedgerImplementsLifecycle == Spec => RefinesLifecycle
<1>1. Init => Lifecycle!Init
  BY DEF Init, Lifecycle!Init, phaseBar, aggregateBar, AbstractPhase
<1> QED
  BY <1>1, StepSimulated, LedgerInvariant, PTL
  DEF Spec, RefinesLifecycle, Lifecycle!Spec


-----------------------------------------------------------------------------
(***************************************************************************)
(* The V2 deployment: the invariant                                        *)
(***************************************************************************)

VerifierInv ==
  /\ VerifierTypeOK
  /\ IsFiniteSet(usedNonces) /\ IsFiniteSet(usedDecisionDigests)
  /\ RegistriesInStep

V2Inv == LedgerInv /\ V2TypeOK /\ VerifierInv /\ ApprovalsBacked /\ BackingDistinct

-----------------------------------------------------------------------------
(***************************************************************************)
(* The verifiers                                                           *)
(***************************************************************************)

\* A consumption adds one new entry to each registry.
LEMMA VerifyDecisionInv ==
  ASSUME VerifierInv, NEW signer, NEW d, VerifyDecision(signer, d)
  PROVE  /\ VerifierInv'
         /\ signer \in Signer /\ d \in Decision
         /\ <<signer, d.nonce>> \in usedNonces' \ usedNonces
         /\ d \in usedDecisionDigests' \ usedDecisionDigests
         /\ usedNonces \subseteq usedNonces'
         /\ usedDecisionDigests \subseteq usedDecisionDigests'
<1>1. signer \in Signer /\ d \in Decision
  BY SignaturesAssumption DEF VerifyDecision
<1>2. /\ usedNonces' = usedNonces \cup {<<signer, d.nonce>>}
      /\ <<signer, d.nonce>> \notin usedNonces
      /\ usedDecisionDigests' = usedDecisionDigests \cup {d}
      /\ d \notin usedDecisionDigests
  BY DEF VerifyDecision, NonceUsed, DigestUsed
<1>3. VerifierTypeOK'
  BY <1>1, <1>2 DEF VerifyDecision, VerifierInv, VerifierTypeOK
<1>4. /\ IsFiniteSet(usedNonces')
      /\ Cardinality(usedNonces') = Cardinality(usedNonces) + 1
  BY <1>2, FS_AddElement DEF VerifierInv
<1>5. /\ IsFiniteSet(usedDecisionDigests')
      /\ Cardinality(usedDecisionDigests') = Cardinality(usedDecisionDigests) + 1
  BY <1>2, FS_AddElement DEF VerifierInv
<1>6. VerifierInv'
  BY <1>3, <1>4, <1>5 DEF VerifierInv, RegistriesInStep
<1> QED
  BY <1>1, <1>2, <1>6

\* Steps that add no record keep what is said of records, because the
\* registries only grow.
LEMMA BackingKept ==
  ASSUME ApprovalsBacked, BackingDistinct, UNCHANGED <<records, backing>>,
         usedNonces \subseteq usedNonces', usedDecisionDigests \subseteq usedDecisionDigests'
  PROVE  ApprovalsBacked' /\ BackingDistinct'
BY DEF ApprovalsBacked, BackingDistinct, SignalsOf, Approves

-----------------------------------------------------------------------------
(***************************************************************************)
(* Submissions                                                             *)
(***************************************************************************)

\* What a record that appears says of the decision consumed in that step.
SpendsLiveDecision ==
  \A key \in DOMAIN records' \ DOMAIN records :
    LET b == backing'[key] IN
    /\ b.decision \in usedDecisionDigests' \ usedDecisionDigests
    /\ now <= b.decision.expiration
    /\ b.signer \in authorizedSigners

LEMMA SubmitV2Inv ==
  ASSUME V2Inv, NEW caller, NEW node \in Node, NEW round \in Round, NEW cids,
         NEW signer, NEW d, NEW signals, NEW groth16Valid \in BOOLEAN,
         SubmitV2(caller, node, round, cids, signer, d, signals, groth16Valid)
  PROVE  /\ VerifierInv' /\ ApprovalsBacked' /\ BackingDistinct'
         /\ DOMAIN backing' = DOMAIN records'
         /\ backing' \in [DOMAIN records' -> [signer : Signer, decision : Decision]]
         /\ SpendsLiveDecision
<1> DEFINE key == <<node, round>>
           new == [signer |-> signer, decision |-> d]
           nonce == <<signer, d.nonce>>
<1>1. /\ VerifyDecision(signer, d)
      /\ Bound(d, signals, groth16Valid)
      /\ groth16Valid => signals \in Provable
  BY DEF SubmitV2, CompositeVerifyProof
<1>2. /\ VerifierInv'
      /\ signer \in Signer /\ d \in Decision
      /\ nonce \in usedNonces' \ usedNonces
      /\ d \in usedDecisionDigests' \ usedDecisionDigests
      /\ usedNonces \subseteq usedNonces'
      /\ usedDecisionDigests \subseteq usedDecisionDigests'
  BY <1>1, VerifyDecisionInv DEF V2Inv
<1>3. /\ key \notin DOMAIN records
      /\ DOMAIN records' = DOMAIN records \cup {key}
      /\ records'[key].approval = IF CompositeAnswer(d, groth16Valid)
                                  THEN "Approved" ELSE "Rejected"
      /\ \A k \in DOMAIN records : records'[k] = records[k]
  BY DEF SubmitV2, SubmitModel, SubmissionAccepted, NotSubmittedBefore, Store
<1>4. /\ DOMAIN backing' = DOMAIN records'
      /\ backing'[key] = new
      /\ \A k \in DOMAIN records : backing'[k] = backing[k]
      /\ backing' = [k \in DOMAIN backing' |-> backing'[k]]
  BY <1>3 DEF SubmitV2, Store, V2Inv, V2TypeOK
<1>5. backing' \in [DOMAIN records' -> [signer : Signer, decision : Decision]]
  BY <1>2, <1>3, <1>4 DEF V2Inv, V2TypeOK
<1>6. /\ <<signer, d>> \in Signatures
      /\ key = <<d.node, d.round>>
      /\ records'[key].approval = "Approved" <=> Approves(d)
      /\ records'[key].approval = "Approved" => SignalsOf(d) \in Provable
  <2>1. <<signals.node, signals.round>> \in {NoContext, key}
    BY DEF SubmitV2, SubmitModel, SubmissionAccepted, ContextMatches
  <2>2. signals = SignalsOf(d) /\ signals.node = d.node /\ signals.round = d.round
    BY <1>1 DEF Bound, SignalsOf
  <2> QED
    BY <1>1, <1>2, <1>3, <2>1, <2>2, ContextAssumption
    DEF VerifyDecision, Bound, CompositeAnswer, Approves
<1> DEFINE Backed(k, b, approved) ==
      /\ <<b.signer, b.decision>> \in Signatures
      /\ k = <<b.decision.node, b.decision.round>>
      /\ b.decision \in usedDecisionDigests'
      /\ <<b.signer, b.decision.nonce>> \in usedNonces'
      /\ approved <=> Approves(b.decision)
      /\ approved => SignalsOf(b.decision) \in Provable
<1>7. ApprovalsBacked'
  <2>1. \A k \in DOMAIN records : Backed(k, backing[k], records[k].approval = "Approved")
    BY <1>2 DEF V2Inv, ApprovalsBacked
  <2>2. Backed(key, new, records'[key].approval = "Approved")
    BY <1>2, <1>6
  <2>3. \A k \in DOMAIN records' : Backed(k, backing'[k], records'[k].approval = "Approved")
    <3> HIDE DEF Backed
    <3> QED
      BY <1>3, <1>4, <2>1, <2>2
  <2> QED
    BY <2>3 DEF ApprovalsBacked, Approves, SignalsOf
<1>8. \A k \in DOMAIN records :
        backing[k].decision # d /\ <<backing[k].signer, backing[k].decision.nonce>> # nonce
  BY <1>2 DEF V2Inv, ApprovalsBacked
<1>9. BackingDistinct'
  BY <1>3, <1>4, <1>8 DEF V2Inv, BackingDistinct
<1>10. SpendsLiveDecision
  <2>1. signer \in authorizedSigners /\ now <= d.expiration
    BY <1>1, <1>2, DecisionAssumption, BoundsAssumption
    DEF VerifyDecision, Expired, V2Inv, VerifierInv, VerifierTypeOK
  <2>2. DOMAIN records' \ DOMAIN records = {key}
    BY <1>3
  <2> QED
    BY <1>2, <1>4, <2>1, <2>2 DEF SpendsLiveDecision
<1> QED
  BY <1>2, <1>4, <1>5, <1>7, <1>9, <1>10

-----------------------------------------------------------------------------
(***************************************************************************)
(* Every step                                                              *)
(***************************************************************************)

\* The ledger's part of a step is one of the ledger's own steps, or nothing.
LEMMA LedgerPart == [V2Next]_v2Vars => [Next]_ledgerVars
<1>1. ASSUME LedgerAction PROVE Next
  BY <1>1 DEF LedgerAction, Next
<1>2. ASSUME DirectVerification \/ VerifierAdministration \/ UNCHANGED v2Vars
      PROVE  UNCHANGED ledgerVars
  BY <1>2 DEF DirectVerification, VerifierAdministration, v2Vars
<1>3. ASSUME NEW caller \in Account, NEW round \in Round, V2Submission(caller, round)
      PROVE  Next
  <2>1. PICK node \in Node, cids \in [Artifact -> CidArgument], sig \in Signatures,
             other \in Decision, groth16Valid \in BOOLEAN :
          SubmitV2(caller, node, round, cids, sig[1], sig[2], SignalsOf(other), groth16Valid)
    BY <1>3 DEF V2Submission
  <2> DEFINE context == <<SignalsOf(other).node, SignalsOf(other).round>>
             answer == CompositeAnswer(sig[2], groth16Valid)
  <2>2. SubmitModel(caller, node, round, cids, context, answer)
    BY <2>1 DEF SubmitV2
  <2>3. context \in {NoContext} \cup Key
    BY <2>2 DEF SubmitModel, SubmissionAccepted, ContextMatches, Key
  <2>4. answer \in BOOLEAN
    BY DEF CompositeAnswer
  <2> HIDE DEF context, answer
  <2>5. Submission(caller, round)
    BY <2>2, <2>3, <2>4 DEF Submission
  <2> QED
    BY <2>5 DEF Next
<1> QED
  BY <1>1, <1>2, <1>3 DEF V2Next

LEMMA V2NextInv == V2Inv /\ [V2Next]_v2Vars => V2Inv' /\ [SpendsLiveDecision]_v2Vars
<1> SUFFICES ASSUME V2Inv, [V2Next]_v2Vars
             PROVE  V2Inv' /\ [SpendsLiveDecision]_v2Vars
  OBVIOUS
<1> DEFINE Rest == /\ VerifierInv' /\ ApprovalsBacked' /\ BackingDistinct'
                   /\ DOMAIN backing' = DOMAIN records'
                   /\ backing' \in [DOMAIN records' -> [signer : Signer, decision : Decision]]
                   /\ [SpendsLiveDecision]_v2Vars
<1>1. LedgerInv'
  BY LedgerPart, LedgerNextInv DEF V2Inv
\* A step that adds no record and lets the registries grow at most.
<1>2. ASSUME UNCHANGED <<records, backing>>, VerifierInv',
             usedNonces \subseteq usedNonces', usedDecisionDigests \subseteq usedDecisionDigests'
      PROVE  Rest
  BY <1>2, BackingKept DEF V2Inv, V2TypeOK, SpendsLiveDecision
<1>3. ASSUME UNCHANGED v2Vars PROVE Rest
  <2>1. UNCHANGED <<records, backing, verifierVars>>
    BY <1>3 DEF v2Vars, ledgerVars
  <2>2. VerifierInv'
    BY <2>1 DEF verifierVars, V2Inv, VerifierInv, VerifierTypeOK, RegistriesInStep
  <2> QED
    BY <1>2, <2>1, <2>2 DEF verifierVars
<1>4. ASSUME LedgerAction PROVE Rest
  <2>1. UNCHANGED records
    <3>1. ASSUME RoleChange PROVE UNCHANGED records
      BY <3>1 DEF RoleChange, evidenceVars
    <3>2. ASSUME NEW caller \in Account, AdminAction(caller) PROVE UNCHANGED records
      BY <3>2 DEF AdminAction, SetVerifierContract, RegisterNode, evidenceVars
    <3>3. ASSUME NEW caller \in Account, NEW round \in Round, LifecycleAction(caller, round)
          PROVE  UNCHANGED records
      BY <3>3 DEF LifecycleAction, CreateRound, CloseSubmissions, StartAggregation,
         CancelRound, ArchiveRound, RoundTransition, evidenceVars
    <3>4. ASSUME NEW caller \in Account, NEW round \in Round, Publication(caller, round)
          PROVE  UNCHANGED records
      BY <3>4 DEF Publication, PublishGlobalModel, PublicationAccepted
    <3> QED
      BY <1>4, <3>1, <3>2, <3>3, <3>4 DEF LedgerAction
  <2>2. UNCHANGED <<verifierVars, backing>>
    BY <1>4 DEF LedgerAction
  <2>3. VerifierInv'
    BY <2>2 DEF verifierVars, V2Inv, VerifierInv, VerifierTypeOK, RegistriesInStep
  <2> QED
    BY <1>2, <2>1, <2>2, <2>3 DEF verifierVars
<1>5. ASSUME DirectVerification PROVE Rest
  <2>1. PICK sig \in Signatures : VerifyDecision(sig[1], sig[2])
    BY <1>5 DEF DirectVerification, SignedVerifyProof, CompositeVerifyProof
  <2>2. /\ VerifierInv'
        /\ usedNonces \subseteq usedNonces'
        /\ usedDecisionDigests \subseteq usedDecisionDigests'
    BY <2>1, VerifyDecisionInv DEF V2Inv
  <2>3. UNCHANGED <<records, backing>>
    BY <1>5 DEF DirectVerification, ledgerVars
  <2> QED
    BY <1>2, <2>2, <2>3
<1>6. ASSUME VerifierAdministration PROVE Rest
  <2>1. VerifierInv' /\ UNCHANGED <<usedNonces, usedDecisionDigests>>
    <3>1. CASE Tick
      BY <3>1, BoundsAssumption DEF Tick, V2Inv, VerifierInv, VerifierTypeOK, RegistriesInStep
    <3>2. ASSUME NEW signer \in Signer, NEW authorized \in BOOLEAN,
                 SetSignerAuthorization(signer, authorized)
          PROVE  VerifierInv' /\ UNCHANGED <<usedNonces, usedDecisionDigests>>
      BY <3>2
      DEF SetSignerAuthorization, V2Inv, VerifierInv, VerifierTypeOK, RegistriesInStep
    <3> QED
      BY <1>6, <3>1, <3>2 DEF VerifierAdministration
  <2>2. UNCHANGED <<records, backing>>
    BY <1>6 DEF VerifierAdministration, ledgerVars
  <2> QED
    BY <1>2, <2>1, <2>2
<1>7. ASSUME NEW caller \in Account, NEW round \in Round, V2Submission(caller, round)
      PROVE  Rest
  <2>1. PICK node \in Node, cids \in [Artifact -> CidArgument], sig \in Signatures,
             other \in Decision, groth16Valid \in BOOLEAN :
          SubmitV2(caller, node, round, cids, sig[1], sig[2], SignalsOf(other), groth16Valid)
    BY <1>7 DEF V2Submission
  <2> QED
    BY <2>1, SubmitV2Inv
<1>8. Rest
  <2> HIDE DEF Rest
  <2> QED
    BY <1>3, <1>4, <1>5, <1>6, <1>7 DEF V2Next
<1>9. V2TypeOK'
  BY <1>1, <1>8 DEF LedgerInv, VerifierInv, V2TypeOK
<1> QED
  BY <1>1, <1>8, <1>9 DEF V2Inv

-----------------------------------------------------------------------------
(***************************************************************************)
(* The theorems                                                            *)
(***************************************************************************)

\* The inductive invariant holds of every behaviour of the deployment; it holds
\* the ledger's own invariant, so all that is proved of the ledger's states is
\* true of it under the composite verifier as well.
THEOREM V2Invariant == V2Spec => []V2Inv
<1>1. ASSUME V2Init PROVE V2Inv
  <2>1. LedgerInv
    BY <1>1, LedgerInitInv DEF V2Init
  <2>2. VerifierInv
    BY <1>1, FS_EmptySet, FirstSignerAssumption, BoundsAssumption
    DEF V2Init, VerifierInit, VerifierInv, VerifierTypeOK, RegistriesInStep
  <2>3. DOMAIN records = {} /\ DOMAIN backing = {}
    BY <1>1 DEF V2Init, Init
  <2>4. V2TypeOK
    BY <1>1, <2>1, <2>2, <2>3 DEF V2Init, LedgerInv, VerifierInv, V2TypeOK
  <2>5. ApprovalsBacked /\ BackingDistinct
    BY <2>3 DEF ApprovalsBacked, BackingDistinct
  <2> QED
    BY <2>1, <2>2, <2>4, <2>5 DEF V2Inv
<1>2. V2Inv /\ [V2Next]_v2Vars => V2Inv'
  BY V2NextInv
<1> QED
  BY <1>1, <1>2, PTL DEF V2Spec

\* Type correctness of the deployment: every record has exactly one consumed
\* decision behind it, of a known signer.
THEOREM V2TypeCorrect == V2Spec => []V2TypeOK
BY V2Invariant, PTL DEF V2Inv

\* Every record stands on a consumed decision that somebody signed for that
\* node and round; an approved one has a proof.
THEOREM VerdictsAreBacked == V2Spec => []ApprovalsBacked
BY V2Invariant, PTL DEF V2Inv

\* No decision and no nonce pays for two records, and the replay registries
\* stay in step.
THEOREM DecisionsAreSpentOnce == V2Spec => []DecisionsSpentOnce
BY V2Invariant, PTL DEF V2Inv, VerifierInv, DecisionsSpentOnce

\* A record appears only with the consumption of a live decision of a signer
\* who is authorized at that moment.
THEOREM SubmissionsSpend == V2Spec => SubmissionsSpendLiveDecisions
BY V2Invariant, V2NextInv, PTL
DEF V2Spec, SubmissionsSpendLiveDecisions, SpendsLiveDecision
=============================================================================
