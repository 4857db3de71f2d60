# FairAI: models, checks and proofs

FairAI runs federated learning in which every client's update must pass a
fairness policy, with a zero-knowledge proof of the decision, before it may
enter the global model. A Solidity ledger records submissions, verdicts and
published models; artifacts live in IPFS; a Python adapter drives a round
through both. Around it, a driver executes matrices of experiments that compare
this method with seven others, and an earlier pipeline demonstrates the idea end
to end. This directory holds TLA+ models of that protocol, the TLC runs
that check small instances of them, and proofs that TLAPS checks for all
instances. Paths below are relative to the repository, without `src/`.

## The system

| part | state | operations | talks to |
|---|---|---|---|
| Ledger contract `hardhat/contracts/FairAIEthicalLedger.sol` | roles and a cached administrator count, verifier address, registered nodes, round states, records, eligible identifiers, used identifiers, global models | grant/revoke, set verifier, register node, create/close/start/cancel/archive round, submit model, publish global model | calls the verifier inside `submitModel` |
| Multisig `FairAIMultisigAdmin.sol` | proposals with approvals | submit, approve, execute | calls the ledger as an administrator |
| V2 verifiers `FairAISignedVerifierV2.sol`, `FairAIV2CompositeVerifier.sol`, a generated Groth16 verifier | authorized signers, used nonces, used decision digests | authorize signers, consume a decision (three public entry points) | called by the ledger, and by anyone |
| Bridge `hardhat/scripts/v2_ledger_bridge.js` and `fairai_revision/ledger_bridge.py` | a Hardhat process with the chain, set of registered nodes; two pipes | `submit_round`, `publish_round`, `cancel_round`, `close`: one reply each, several transactions each | the adapter; the ledger |
| Adapter `fairai_revision/b4_infrastructure.py` | prepared submissions, eligible list, rows of evidence | `prepare_round`, `record_round`, `finalize` | peers, prover, bridge |
| Federated loop `fairai_revision/federated.py`, `aggregation.py` | global parameters, updates of the round | train, decide, aggregate, evaluate | the adapter |
| IPFS peers `fairai_revision/ipfs.py`, `b2_infrastructure.py` | stored and pinned blocks on a publisher and a consumer | add, cat, pin, unpin, collect garbage | - |
| Recovery benchmark `fairai_revision/ipfs_recovery.py` | two Kubo daemons as child processes | start, outage, restart, recovery, clean up | the daemons |
| B2 baseline `b2_infrastructure.py`, `hardhat/scripts/run_infrastructure_rounds.js` | rounds kept in memory until the end | `record_round`, `finalize` | peers, one script with a ledger of its own |
| Remote workers `remote.py`, `remote_worker.py` | a staged bundle per client on each worker | prepare, train, evaluate | the loop |
| Run driver `fairai_revision/run.py`, `manifest.py` | output directory with a manifest and its status | execute, resume; the experiment matrix | the loop |
| Policy, metrics, circuit, binding `policy.py`, `fairness.py`, `binding.py`, `zk_v2.py`, `circuits/` | none | measure, decide, scale, prove, verify | the adapter |
| Legacy pipeline `scripts/fairai_mvp.py`, `scripts/ipfs_adapter.py`, `hardhat/scripts/run_round.js`, `scripts/monitor_run.py` | a directory, a local mirror of the store | run, fall back, submit a round, monitor | Kubo, a ledger of its own |
| Others: partitioning, models, data, benchmarks, reports | see `PROJECT.json` | | |

What is hard here: ledger calls of several roles interleave over several
rounds; two replay registries and a public entry point that consumes decisions;
facts kept twice (the administrator count, eligibility); one command of the
adapter is several transactions, any of which may fail, on a process that may
die between them; nothing is retried, so every partial failure must stop the run
in a state that the evidence describes truthfully; artifacts may vanish between
publication and use; a decision is taken on exact metrics, proved on rounded
ones and verified from published ones; a directory of results outlives the
processes that write it; daemons and worker files outlive the run that made them. `PROJECT.json` lists each hazard at its line.

What makes each part correct, in a sentence each. *Roles*: the contract can
always be administered, and under the multisig only by approved proposals.
*Ledger*: an identifier is evidence for one thing only, verdicts are final, a
published model is made from models approved in that round. *Verifiers*: a
verdict stands on a live decision for that node and round, spent on it alone.
*Protocol*: what is published is what was aggregated is what the ledger
approved; failures stop the run with truthful evidence and without a published
model for the round that failed its artifacts; and the run always ends.
*Eligibility*: metrics, policy, circuit and verifier decide alike up to a stated
rounding. *Loop*: every method aggregates those clients it should and says so,
FairFed's weights stay normalized, a median is not moved by a minority.
*Driver*: a directory is about one configuration, its manifest tells the truth,
and a completed run is final. *B2*: evidence exists only for complete rounds.
*Recovery benchmark*: what it calls an outage is one. *Legacy pipeline*: what
was averaged is what the contract approved, and what the monitor passes is pinned.

## Modules

- `AccessControl` - the roles of the ledger. `roles[role]` is the set of accounts
  for which the code's mapping is true; `adminCount` is the code's counter.
- `MultisigAdmin` - the multisig; `transactions` carries the mapping `approvedBy`
  beside the counter `approvals`.
- `GovernedRoles` - both together: externally owned accounts call the ledger
  directly, the multisig through `executeTransaction`, whose target's revert is
  its own.
- `RoundLifecycle` - the abstract promise: rounds collect, are sealed, and then
  publish an aggregate of contributions they admitted or are abandoned.
- `EthicalLedger` - the whole ledger contract, one action per external function,
  on top of `AccessControl`; with the refinement mapping to `RoundLifecycle`.
- `SignedVerifier` - signed decisions and the composite verifier.
- `VerifiedLedger` - `EthicalLedger` with the composite verifier installed, in
  one transaction, beside direct calls of the verifiers. `backing` is a history
  variable: the decision behind each record.
- `RoundProtocol` - the adapter, the loop, the bridge, the peers and the ledger
  (whose actions are `EthicalLedger`'s) in a run of methods B4 and B7.
- `Eligibility` - one client from confusion counts to verified binding:
  `GroupFairness` is `evaluate_group_fairness`, `Approved` is `evaluate_policy`,
  `CircuitInput` and `Scaled` the adapter's conversions, `Satisfiable` the V2
  circuit, `Binding` is `verify_v2_binding`; `progress` is how far the client has
  got. On `Fractions`, exact arithmetic in which denominator 0 is Python's `None`: every
  operation reduces its result to the least denominator, and `SumOver` is a fold.
- `Aggregation`, `FederatedRounds` - eligibility per method, FedAvg, median and
  FairFed over fractions; the loop of `run_federated_method` for B0 to B7 with
  attacks, remote workers and an adapter, whose decisions and failures are free.
- `RunManifest` - `execute()` on one directory: every write in its place, torn
  files, kills, interrupts, resume. `fate` is a history variable.
  `ExperimentMatrix` puts the executor of `federated_core` in it.
- `KuboRecovery` - the recovery benchmark: `step` is the line it is at, `daemon` the
  child processes, `handle` the attribute `process`, `leftover` the daemons of an
  earlier benchmark that still answer on the ports.
- `BatchRounds` - B2: publication round by round, then the script's replay of the
  batch, whose ledger calls are `EthicalLedger`'s actions.
- `LegacyPipeline` - `run_pipeline`, the IPFS adapter with its three stores,
  `run_round.js` and the monitor. A CID is a pair of the store that made it and the
  content, as the stores format CIDs differently.
- `MC*` - the instances for TLC; `*_proofs` - the theorems.

Conventions. A transaction is atomic and a revert has no effect: requires are
conjuncts. A mapping with a presence test is a function on the keys present.
Content identifiers are values, equal only for equal content; hashes and
signatures are ideal, and a signature for another chain or contract is one that
does not exist. Definitions marked *Mutant* in a comment are plausible bugs of
the definition after them; no specification uses them. They show that the
property named beside them in `PROJECT.json` notices such a bug.

`RoundProtocol` deserves a reading aid. The adapter is sequential; `pc` says where
it is. A request sets `command`; the bridge then makes the command's transactions
one per step, counted by `progress`, and answers in a step of its own, in `reply`.
At every step a transaction or a call of the ledger may fail (`BridgeError`), the
bridge may die (`BridgeDies`; the end of its output is what the adapter sees),
peers may not answer (`PrepareFails`, `RetrievalFails`, `RecordFails`), or the
adapter may be killed (`AdapterCrashes`). A command may thus be done and its reply
lost: a closed, archived or cancelled round of which the adapter hears of a failure.
The policy's verdict on each client is a free Boolean. `base` names the round
whose aggregate the global parameters are, `retrieved` the models read back after
approval, `evidence` what `v2_evidence.json` holds.

## Runs

| run | instance | what it shows |
|---|---|---|
| `governance` | 2-of-3 multisig, its address and the deployer as role holders, two roles, two proposals (106 000 states) | `AdminAccounting`, `ApprovalsAreDistinctOwners`, `ThresholdGovernsRoles` |
| `ledger` | two rounds, two nodes, two kinds of artifact, six identifiers, symmetric (5 900 states) | `EligibleViewsAgree`, `CidsUsedOnce`, `PublicationSound`, `VerdictsFinal`, and `RefinesLifecycle` |
| `v2` | two nodes, one round, two signers, five decisions chosen to collide in nonce, digest, residue and flags, one step of time (144 000 states) | `ApprovalsBacked`, `DecisionsSpentOnce`, `SubmissionsSpendLiveDecisions` |
| `protocol` | two clients, two rounds, every failure anywhere, fault injection in either round or none (17 000 states) | the safety properties of the protocol and `RunEnds` |
| `driver` | three attempts in one directory, by any of four configurations of one or two executions, with and without injected and expected failures (243 000 states) | `OneConfiguration`, `CompletedIsFinal`, `StatusTellsTheEnd`, `ExecutionsAccounted` |
| `eligibility` | every confusion matrix of up to three samples in both comparison groups, five policies with thresholds on and off the scale's grid, two fabricated reports (230 000 states) | `ApprovedIsProvable`, `BindingAgrees`, `ZerosAreMeasured`, `UndefinedInOrder` |
| `federated` | thirteen executions of two rounds with three or four clients, over all methods and attacks, with policies that raise (111 000 states) | `FairFedStaysNormalized`, `AttackersBounded`, `RoundsAccounted`, `TrainedOnOwnSplit` |
| `recovery` | three repetitions, any daemons left over (1 900 states) | `DaemonsStopped`, `OutageIsReal` |
| `legacy` | three nodes, two failing calls of Kubo anywhere, every configuration of the adapter (318 000 states) | `MonitoredIsPinned`, `AggregatedAsApproved` |
| `legacy_fallback`, `legacy_rejected` | the same with one failing call | two findings, below |
| `batch` | three nodes, three rounds, any clients included in each (37 000 states) | `OnlyEmptyRoundsRevert`, `EvidenceComplete` |

Why the bounds suffice. A proposal can only interfere with another through
`roles`, so two are enough; three owners with threshold two is the least multisig
in which neither all nor one decide. In the ledger a property speaks of at most
two records or two rounds; six identifiers allow two submissions and a
publication, or three submissions, and thus every kind of reuse. The number of
artifact kinds is two rather than six because the contract treats all but the
model's alike. In `v2` every comparison of the code has a decision that differs in
just that comparison: `FieldSize` is 3, so hashes 1 and 4 are one signal. In
`protocol` the second round shows what a first one leaves behind; one kind of
artifact is enough as submissions are already checked in `ledger`. One account
holds every role in `ledger` and `v2`: that a guard names the right account is the
business of `governance`. Symmetry is used in `ledger` only, whose properties are
safety. In `governance` and `protocol` the system may stop (all proposals executed
and no administrator left; a run that ended), so deadlock is not checked there;
the same holds of the runs after them, each of which is a program that ends.

In `driver` a third attempt meets what a killed or failed one left after another;
with two executions a run has one that succeeded beside one that did not. In
`eligibility` the scale is 10 and not 1 000 000, so that roundings, ties and values
between two grid points occur with counts of three samples; the policies put
thresholds on values that occur. In `federated` FairFed carries weights from one
round to the next, so two rounds show it, with `beta` 3/2 so that weights become
negative; four clients give a median of an even number with an attacker.
Unpublished in-between values do not matter to a median or to a mean, so each
execution has two or three trainable parameters. In `batch` and `legacy` three
nodes give two that fail alike beside one that does not.

Fairness is assumed in `protocol` only: `WF(AdapterStep)` and `WF(BridgeStep)`. The
adapter is a program without waits other than reading a reply, requests to
peers time out (`KuboClient`), and a live Hardhat process goes on with its
command. Nothing is assumed of failures: they may or may not happen. A bridge
that hangs without dying is excluded by the second conjunct, because `request()`
has no timeout and would wait for ever; this is a limit of the code and listed as
a hazard.

## Proofs

All proofs are for arbitrary constants that satisfy the named assumptions in
the modules. TLC checks those assumptions on the instances. Each module below
states an inductive invariant, that a step keeps it, one step of the proof per
action, and draws the properties from it; `Fractions_proofs` holds the lemmas that
several of them share.

- `Contracts_proofs`, administration: `ACLInv` (types and `AdminAccounting`) is
  inductive, as the count follows from the cardinality of a set with one element
  added or removed. `GovernanceInv` adds the multisig's types and
  `ApprovalsAreDistinctOwners`. That approvals count owners is what turns the
  code's comparison with the threshold into a statement on owners, so
  `ThresholdGovernsRoles` needs it. `GovernanceTypeCorrect`, `ApprovalsGenuine`,
  `GovernedAdminAccounting`, `GovernanceByThreshold`.
- `Contracts_proofs`, the ledger: `LedgerInv` is type correctness, `AdminAccounting`,
  `CidsUsedOnce`, `PublicationSound`, the auxiliary fact that the mapping of
  approved identifiers equals the models of approved records, and that the list of
  a round's keys names every record of the round once. The mapping's
  fact links the check in `publishGlobalModel` to records; `CidsUsedOnce` needs the
  registry to be exact, since the code's only test is membership in it; the list's
  fact makes the array that `getEligibleModelCids` counts and then fills exactly
  as long as the approved models are many, with no slot left empty
  (`EligibleListExact`). Also: `LedgerTypeCorrect`, `CidsNeverReused`,
  `PublicationIsSound`, `VerdictsAreFinal`.
- `LedgerImplementsLifecycle`: under the mapping of round states to phases
  (starting an aggregation and archiving are stutters), initial states map to
  initial states and each step to a step or a stutter. That a contribution
  counts in one round only comes from `CidsUsedOnce`.
- `Contracts_proofs`, the V2 deployment: `V2Inv` is `LedgerInv`, the types, finite replay
  registries of equal size, `ApprovalsBacked` and the distinctness of what backs
  two records. A step of the composition is a ledger step or leaves the ledger
  alone, so the ledger's step lemma is reused and all that is proved of the ledger's
  states holds here. That a decision pays once is inductive only with
  `ApprovalsBacked`: the new decision is unregistered while those behind
  the records are all registered. It rests on two assumptions of its own:
  expirations are naturals, and V2 signals always carry a context.
  `V2TypeCorrect`, `VerdictsAreBacked`, `DecisionsAreSpentOnce`, `SubmissionsSpend`.
- `RoundProtocol_proofs`: every transaction of the bridge is a step of the ledger,
  so `LedgerInv` carries over. The rest of `ProtocolInv` relates the three views of
  the round in hand. `CommandInv`: a command or a reply is that of the place where
  the adapter waits, or waited when it was killed. `SubmittingInv`: the ledger holds
  as many of the submissions as the bridge has got to, and a successful answer is
  the ledger's list. `DecidedInv` and `ResolvedInv`: what the adapter does after
  the answer stands on the ledger's verdicts. All that publication relies on is tied
  to the pending command and not only to the adapter's place, since a bridge whose
  adapter was killed goes on to publish. `RetrievedInv` (nothing is read before its
  round is decided) is what makes an unreadable model stop the run
  (`FaultsFailClosed`); `BaseInv` follows the global parameters from an aggregation
  to its publication (`TrainingBase`). `SettledInv` says what the ledger shows
  between the last transaction of a command and its reply: a reply that arrives is
  true. One that is lost stops the run before a row is written, and the evidence
  ends with the round before (`EvidenceTellsTheLedger`).
  `PublicationMatchesAggregation`, `RoundsSettledInOrder`; `DefensiveCancelsUnused`
  shows that the two cancellations kept for disagreeing views never run. The ledger's
  own results hold of the run: `VerdictsFinalInRun`, `RunImplementsLifecycle`.
- `BatchRounds_proofs`: `PinsInv` says how far publication has got, so a batch that
  reaches the script is complete and pinned. `ScriptInv` describes the ledger while the
  script is at a round as a function of the batch: what it has heard (`Heard`),
  published and in which state each round is. With it every submission and every
  publication of a round that has clients meets the ledger's guards
  (`LedgerAcceptsTheBatch`), and evidence, if written, is of every round
  (`EvidenceIsComplete`). `PayloadAssumption` says that the published payloads have
  identifiers, equal only for the same round, client and kind: the code puts round
  and client into what it publishes, and the kinds differ in their fields.
- `RunManifest_proofs`: `TypedInv` is type correctness and that an attempt in
  progress has a number. The properties speak of the directory, which a call changes write
  by write, so the invariant says what is there in between. `ConfigInv`: an attempt
  in progress has found no manifest or one of its own configuration, because
  `MayStart` compared the two, and where there is no manifest there are no results.
  `StatusInv`: until the attempt announces itself the manifest is an earlier one and
  tells that one's end; from then on it says running and not ended, and the status in
  memory agrees with `fate`. `DirectoryStep` keeps both. `CompletedStaysFinal`
  follows: a completed manifest is found only in an idle directory, and nothing
  starts there. The same module proves the executor: every step of
  `ExperimentMatrix` is a step of `RunManifest` or leaves it alone
  (`MatrixImplementsDriver`), so all of the above holds of real executions
  (`ExperimentDirectories`); `MatrixInv` adds what the executor has in memory and on
  disk at every line, which gives `EveryExecutionAccounted`. `FilesAssumption` is that
  the files have names of their own.
- `Fractions_proofs`: what the other proofs use of numbers and of sums. A sum over
  clients is a fold, and induction over data is done on sets: if something holds of
  the empty set, and of a set once it holds of the set without the element `Picked`
  of it, then it holds of every finite set (`PickInduction`, from the
  well-foundedness of strict inclusion). With it the folds of the community modules
  are functions with a known equation (`FoldingNext`), and sums add, scale and keep
  the order term by term (`SumOverPlus`, `SumOverTimes`, `SumOverMonotone`). Equal
  fractions have one lowest form (`LowestCanonical`), which is why `Plus` and `Times`
  obey the laws of arithmetic as equations although each of them reduces its result.
- `Eligibility_proofs`: `ClientInv` says of each stage which definition its values
  come from, and that an approved client has a witness. The rest is arithmetic.
  `ScaledMonotone`: rounding half to even keeps the order of rates, so an approved gap
  stays below its threshold after scaling (`ApprovedAlwaysProvable`), and on the grid
  of the scale the verifier decides like the adapter, off it up to half a unit
  (`BindingAlwaysAgrees`). `FairnessIs`: which metrics have no value is told by the
  sizes of the groups and their classes (`MetricsUndefinedInOrder`).
  `SubmittedZerosMeasured`. For any groups, counts, policies, reports and scale; the
  assumptions are those of `policy.py` on thresholds and that the scale fits the
  circuit's metric width.
- `FederatedRounds_proofs`: for any method, attack, number of clients and of rounds.
  `RowsInv` counts the rows with the rounds (`RowsAccount`); `BundlesInv` says what
  lies on a worker while an execution trains, which a bundle left by an earlier
  execution must never be (`OwnSplits`); neither expands `Aggregated`. For FairFed,
  `ReceivedInv` says that there are an update and an evaluation of every client
  trained so far, so that those selected are the valid clients in every round, and
  `WeightsNormalized` that the weights carried belong to them and sum to one. Shares
  of samples do (`SharesNormalized`), and the adjustment keeps the sum since distances
  from their mean cancel out (`RawWeightsNormalized`, `CentredCancel`): with one as
  normalizer, which is not zero, no round fails for its weights, and the aggregation
  raises only for parameters that are not finite (`FairFedNormalized`); a policy that
  raises for undefined metrics, a worker or an adapter may stop the run besides.
  This needs that a distance is always a number: the accuracy of a client is one, as
  evaluation splits are not empty (`EvaluationAssumption`; the loop refuses clients
  with fewer than four samples). `AttackersAreBounded` follows from `ReceivedInv` and
  what the two rules compute: a weighted mean lies between the values it weighs
  (`MeanBetween`); there is a parameter of every rank (`RankExists`), and fewer than
  half of the clients reach neither beyond the lower nor beyond the upper middle rank
  (`MedianBetween`).
- `KuboPrograms_proofs`: the two programs that drive Kubo by themselves. For the legacy
  pipeline `LegacyInv` follows the one position that counts the artifacts of all nodes
  in a row: what precedes it is published and was pinned (`PublishingInv`,
  `PinningInv`), the ledger has heard of the nodes before it (`SubmissionsInv`), and a
  pin that the HTTP API reports is one (`PinsTruthful`), which carries from reports to
  pins what the monitor compares (`MonitorVouchesForKubo`). The comparison of the
  averaged models with those the contract approved is of identifiers, and stands on
  `SubmissionsInv`; it is made when the round can no longer be cancelled, and
  `StartedInv` says that it then never fails (`AveragedBeforeAsking`). For the recovery benchmark `HandlesInv`
  says that an attribute is set exactly while there is a child process and where in
  the program which of the two may be set (`BenchmarkStopsDaemons`), and `RowsInv`
  counts the publishers started with the repetitions, so that a row is told from the
  daemon it was measured on (`RowsMeasureOutages`).

A proofs module that extends several components sees the assumptions on the
constants of all of them; each proof cites those it uses, which are those of its own
component.

Only model-checked: `RunEnds`, as liveness under fairness is out of the prover's
reach. Every other property of a passing run is stated by a theorem. The two
findings are counterexamples, of TLC.

## Findings

- `legacy_fallback`: the runbook (`docs/revision/EXECUTION_RUNBOOK.md:28`) says that
  strict IPFS runs must fail if Kubo is unavailable. `--require-real-ipfs` is
  tested once, at `scripts/fairai_mvp.py:466`, against the configuration of the
  adapter; a call that fails later falls back to the mirror, and the run
  completes with mirror CIDs on its ledger.
- `legacy_rejected`: the contract is said to record a model "as approved or
  rejected" (`results/q1_results_package/results_interpretation.md:11`). The
  placeholders for a missing proof (`scripts/fairai_mvp.py:354`) are the same
  for every node, so with two rejected nodes the ledger refuses the second one's
  submission as a duplicate and the round is lost.

## What the models say by the way

Limits and oddities of the code that no property is about, met while modelling.

- Driver: a torn manifest makes every later call on the directory raise. No lock
  guards a directory against two processes with the same run identifier. Resuming
  a completed run returns without looking at its outputs. `logs/failure.log` and
  `negative/` of earlier attempts stay; `ExecutionsAccounted` therefore speaks of
  files of the attempt that completed. A matrix of which every execution failed as
  expected ends as failed, since there is no row to take the columns from.
- Loop: `B2` skips a round without clients and goes on, and loses the whole
  execution when its batch is replayed at the end (`OnlyEmptyRoundsRevert`). Any
  exception of a retrieval counts as an unavailable artifact. An injected fault
  unpins a CID that an earlier execution may have published too. Concurrent
  drivers that share workers overwrite each other's bundles; the model, like the
  driver, runs one execution at a time.
- Eligibility: a client rejected by less than half a unit of the scale is
  verified as approved from its published artifacts; `BindingAgrees` says that
  this is the only disagreement. `verify_v2_binding` is called by tests only. With
  thresholds off the grid an approved client may look rejected.
- Evidence of B4 is three files written in place; a crash between the writes
  leaves them disagreeing. The model writes them in one step.
- Recovery benchmark: a publisher that outlives SIGKILL makes `stop()` raise, and
  the consumer is then left running (the exception in `DaemonsStopped`). A daemon
  left on the publisher's ports answers the poll meant for the new one (the
  exception in `OutageIsReal`). Any exception in `start()` comes to the clean-up,
  while it polls with the process still running.
- Legacy pipeline: its retrieval checks cannot fail, since the mirror answers for
  every CID. `prove_eligibility` takes any failing tool for a rejection. `setup_zk`
  asks only whether the keys exist. An output directory that exists is removed.

## Not modelled

Models, datasets and statistics (numerical code and loading without a protocol),
partitioning (draws by numpy, then a validation that each sample has one client;
the local split can fail in scikit-learn only with fewer samples than the
configured minimum), hashing and the arithmetic of proofs (ideal), reports,
figures, benchmarks, provisioning (input and output). Of the adapter, timing
rows and the split of the evidence into files. Of the bridge, its start. Of the
IPFS client, the parsing of replies and statistics. Of the driver, the executors
other than `federated_core`, which write files and return or raise: `RunManifest`
lets an executor do so in any order. Of the legacy pipeline, training, the V1
circuit and an in-memory ledger class that nothing uses. `run_v2_rounds.js` makes
the bridge's transactions without the bridge. `PROJECT.json` gives the reason
for each part.

## Plan

What a further step would be: *compose* the protocol on `VerifiedLedger` in place of
the bare ledger, so that the composite's answer is derived and not assumed. The
bridge's part of `ProtocolInv` asks of the ledger only `LedgerInv`, which `V2Inv`
contains, so the proof would carry over as it did from the ledger to the V2
deployment.
