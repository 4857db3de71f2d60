--------------------------- MODULE MultisigAdmin ---------------------------
(***************************************************************************)
(* The FairAIMultisigAdmin contract: owners propose calls, approve them,   *)
(* and any owner executes a call once enough owners approved it.  Owners   *)
(* and threshold are fixed by the constructor, which rejects a threshold   *)
(* of zero, one above the number of owners, and repeated or zero owners.   *)
(*                                                                         *)
(* A transaction carries the mapping approvedBy[txId] beside the counter   *)
(* the contract compares with the threshold.  What a call does to its      *)
(* target is left to the module that composes the two: a target that fails *)
(* reverts executeTransaction, so the transaction stays executable.        *)
(***************************************************************************)
EXTENDS Integers, Sequences, FiniteSets

CONSTANTS
  Owner,            \* the owners given to the constructor
  Threshold,        \* approvals needed before a call is executed
  Call,             \* the calls owners may propose
  MaxTransactions   \* bound on the number of proposals

ASSUME OwnerAssumption == IsFiniteSet(Owner)
ASSUME ThresholdAssumption == Threshold \in 1 .. Cardinality(Owner)
ASSUME MaxTransactionsAssumption == MaxTransactions \in Nat

VARIABLE transactions

Transaction ==
  [call : Call, executed : BOOLEAN, approvals : Nat, approvedBy : SUBSET Owner]

MultisigTypeOK == transactions \in Seq(Transaction)

-----------------------------------------------------------------------------

MultisigInit == transactions = <<>>

SubmitTransaction(owner, call) ==
  /\ owner \in Owner
  /\ Len(transactions) < MaxTransactions
  /\ transactions' = Append(transactions,
       [call |-> call, executed |-> FALSE, approvals |-> 0, approvedBy |-> {}])

WithApproval(tx, owner) ==
  [tx EXCEPT !.approvedBy = tx.approvedBy \cup {owner},
             !.approvals = tx.approvals + 1]

\* Mutant: an owner may approve the same transaction again.
ApproveTransactionAgain(owner, txId) ==
  /\ owner \in Owner
  /\ txId \in DOMAIN transactions
  /\ ~transactions[txId].executed
  /\ transactions' = [transactions EXCEPT ![txId] = WithApproval(@, owner)]

ApproveTransaction(owner, txId) ==
  /\ owner \in Owner
  /\ txId \in DOMAIN transactions
  /\ ~transactions[txId].executed
  /\ owner \notin transactions[txId].approvedBy
  /\ transactions' = [transactions EXCEPT ![txId] = WithApproval(@, owner)]

\* Mutant: the executed flag is neither tested nor set.
ExecuteTransactionRepeatedly(owner, txId) ==
  /\ owner \in Owner
  /\ txId \in DOMAIN transactions
  /\ transactions[txId].approvals >= Threshold
  /\ UNCHANGED transactions

ExecuteTransaction(owner, txId) ==
  /\ owner \in Owner
  /\ txId \in DOMAIN transactions
  /\ ~transactions[txId].executed
  /\ transactions[txId].approvals >= Threshold
  /\ transactions' = [transactions EXCEPT ![txId].executed = TRUE]

-----------------------------------------------------------------------------
(***************************************************************************)
(* Properties                                                              *)
(***************************************************************************)

\* The counter compared with the threshold counts distinct owners, and
\* nothing is executed below the threshold (FairAIMultisigAdmin.sol
\* approveTransaction and executeTransaction).
ApprovalsAreDistinctOwners ==
  \A txId \in DOMAIN transactions :
    LET tx == transactions[txId] IN
    /\ tx.approvals = Cardinality(tx.approvedBy)
    /\ tx.executed => Cardinality(tx.approvedBy) >= Threshold
=============================================================================
