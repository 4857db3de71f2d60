----------------------------- MODULE LegacyPipeline -----------------------------
(***************************************************************************)
(* The first FairAI pipeline: run_pipeline proves the eligibility of every *)
(* node, publishes artifacts through an adapter that mirrors them locally  *)
(* and falls back to the mirror when Kubo does not answer, aggregates the  *)
(* models it found eligible, and has one script run the round on a fresh   *)
(* ledger.  monitor_run then judges the directory.                         *)
(*                                                                         *)
(* The retrieval checks of the pipeline always pass, since every artifact  *)
(* is in the mirror under every CID it was given; they are left out.       *)
(***************************************************************************)
EXTENDS Naturals, Sequences, FiniteSets

CONSTANTS
  NumNodes,
  MaxFaults  \* bound on failing calls of Kubo and of the ipfs binary

ASSUME NodesAssumption == NumNodes \in Nat \ {0}
ASSUME FaultsAssumption == MaxFaults \in Nat

Node == 1 .. NumNodes
NodeArtifacts == <<"model", "metrics", "metadata", "proof", "public", "manifest">>

VARIABLES
  config,      \* FAIRAI_IPFS_API is set, the ipfs binary is there, --require-real-ipfs
  stage, reason,
  at,          \* position in the artifacts of the nodes, in the pins or the submissions
  verified,    \* nodes whose proof was made and verified
  cids,        \* CIDs of the artifacts published
  faults,
  aggregated,  \* nodes whose models were averaged
  kuboPins,    \* CIDs pinned in Kubo
  pins,        \* ipfs_pin_results: CIDs and what was reported
  records,     \* nodes with a record on the ledger
  used,        \* usedCids of the ledger
  eligible,    \* getEligibleModelCids of the round
  published,   \* participants of the published global model
  state,       \* state of the round
  monitor      \* status of monitoring_report.json

storeVars == <<cids, faults, kuboPins, pins>>
ledgerVars == <<records, used, eligible, published, state>>
vars == <<config, stage, reason, at, verified, storeVars, aggregated, ledgerVars, monitor>>

Init ==
  /\ config \in [api : BOOLEAN, binary : BOOLEAN, strict : BOOLEAN]
  /\ stage = "starting" /\ reason = "none" /\ at = 1
  /\ verified = {} /\ aggregated = {}
  /\ cids = [a \in {} |-> a] /\ faults = 0 /\ kuboPins = {} /\ pins = {}
  /\ records = {} /\ used = {} /\ eligible = {} /\ published = {} /\ state = "Uncreated"
  /\ monitor = "none"

Raises(why) ==
  /\ stage' = "raised" /\ reason' = why
  /\ UNCHANGED <<config, at, verified, storeVars, aggregated, ledgerVars, monitor>>

-----------------------------------------------------------------------------
(* The adapter.  A CID tells which of the three stores made it: the HTTP   *)
(* API and the binary format CIDs differently, the mirror hashes.          *)

\* mode is configuration, not what happened.
Mode == IF config.api THEN "kubo-http" ELSE IF config.binary THEN "kubo" ELSE "local-content-addressed"

\* add_json: the stores tried in order, and how many calls fail on the way.  The
\* HTTP API pins what it adds.
WithoutApi(failed) ==
  IF config.binary THEN {<<"cli", failed>>, <<"local", failed + 1>>} ELSE {<<"local", failed>>}
Additions == IF config.api THEN {<<"http", 0>>} \cup WithoutApi(1) ELSE WithoutApi(0)

Put(artifact, content) ==
  \E how \in Additions :
    /\ faults + how[2] <= MaxFaults /\ faults' = faults + how[2]
    /\ cids' = [a \in DOMAIN cids \cup {artifact} |->
                  IF a = artifact THEN <<how[1], content>> ELSE cids[a]]
    /\ kuboPins' = IF how[1] = "http" THEN kuboPins \cup {<<how[1], content>>} ELSE kuboPins
    /\ UNCHANGED pins

\* Mutant of PinReport: a CID of the mirror counts as pinned.
PinReportAlways(cid) == TRUE

\* What pin() reports when it does not ask Kubo.
PinReport(cid) == Mode # "kubo-http"

\* pin(): asks Kubo for CIDs other than the mirror's; a failure is reported.
Pin(artifact) ==
  LET cid == cids[artifact] IN
    /\ \/ /\ ~config.api \/ cid[1] = "local"
          /\ pins' = pins \cup {<<cid, PinReport(cid)>>} /\ UNCHANGED <<kuboPins, faults>>
       \/ /\ config.api /\ cid[1] # "local"
          /\ \/ /\ pins' = pins \cup {<<cid, TRUE>>} /\ kuboPins' = kuboPins \cup {cid}
                /\ UNCHANGED faults
             \/ /\ faults < MaxFaults /\ faults' = faults + 1
                /\ pins' = pins \cup {<<cid, FALSE>>} /\ UNCHANGED kuboPins
    /\ UNCHANGED cids

-----------------------------------------------------------------------------
(* run_pipeline                                                            *)

\* The only test of --require-real-ipfs.
Begin ==
  /\ stage = "starting"
  /\ IF config.strict /\ Mode = "local-content-addressed" THEN Raises("strict")
     ELSE /\ stage' = "proving"
          /\ UNCHANGED <<config, reason, at, verified, storeVars, aggregated, ledgerVars, monitor>>

NodeAt == ((at - 1) \div Len(NodeArtifacts)) + 1
TypeAt == NodeArtifacts[((at - 1) % Len(NodeArtifacts)) + 1]

\* prove_eligibility: any failing tool counts as constraints not satisfied.
Prove ==
  /\ stage = "proving" /\ stage' = "publishing"
  /\ \E ok \in BOOLEAN : verified' = IF ok THEN verified \cup {NodeAt} ELSE verified
  /\ UNCHANGED <<config, reason, at, storeVars, aggregated, ledgerVars, monitor>>

\* Without a proof every node writes the same proof.json and the same public.json.
Content(type, n) ==
  IF type \in {"proof", "public"} /\ n \notin verified THEN <<type, 0>> ELSE <<type, n>>

PublishArtifact ==
  /\ stage = "publishing"
  /\ Put(<<TypeAt, NodeAt>>, Content(TypeAt, NodeAt))
  /\ at' = at + 1
  /\ stage' = IF TypeAt = "manifest" THEN "pinning_manifest" ELSE stage
  /\ UNCHANGED <<config, reason, verified, aggregated, ledgerVars, monitor>>

PinManifest ==
  /\ stage = "pinning_manifest"
  /\ Pin(<<"manifest", NodeAt - 1>>)
  /\ IF NodeAt <= NumNodes THEN stage' = "proving" /\ UNCHANGED at
     ELSE stage' = "pinning_models" /\ at' = 1
  /\ UNCHANGED <<config, reason, verified, aggregated, ledgerVars, monitor>>

\* Mutant of ExpectedCids: rejected nodes take part as well.
ExpectedCidsAll == {cids[<<"model", n>>] : n \in Node}

\* expected_eligible_model_cids, in the order of the nodes.
ExpectedCids == {cids[<<"model", n>>] : n \in verified}

PinModel ==
  /\ stage = "pinning_models" /\ at <= NumNodes
  /\ IF at \in verified THEN Pin(<<"model", at>>) ELSE UNCHANGED storeVars
  /\ at' = at + 1
  /\ UNCHANGED <<config, stage, reason, verified, aggregated, ledgerVars, monitor>>

\* Mutant of ApprovedModels: the models of all submissions are averaged.
ApprovedModelsAll == Node

ApprovedModels == verified

\* Models are averaged before the contract is asked; none at all is an error.
AggregateModels ==
  /\ stage = "pinning_models" /\ at > NumNodes
  /\ IF ApprovedModels = {} THEN Raises("zero_models")
     ELSE /\ aggregated' = ApprovedModels /\ stage' = "global_model"
          /\ UNCHANGED <<config, reason, at, verified, storeVars, ledgerVars, monitor>>

GlobalArtifacts == [s \in {"global_model", "report"} |-> <<s, 0>>]

PublishGlobal ==
  /\ stage \in DOMAIN GlobalArtifacts
  /\ LET a == GlobalArtifacts[stage] IN
       IF a \notin DOMAIN cids THEN Put(a, a) /\ UNCHANGED <<stage, at>>
       ELSE /\ Pin(a)
            /\ stage' = (IF stage = "report" THEN "submitting" ELSE "report")
            /\ at' = 1
  /\ UNCHANGED <<config, reason, verified, aggregated, ledgerVars, monitor>>

-----------------------------------------------------------------------------
(* run_round.js on a ledger of its own, with the signed verifier: the      *)
(* decision signed for a submission is proof_verified.                     *)

CidsOf(n) == {cids[<<NodeArtifacts[i], n>>] : i \in DOMAIN NodeArtifacts}

SubmitModel ==
  /\ stage = "submitting" /\ at <= NumNodes
  /\ IF CidsOf(at) \cap used # {} THEN Raises("DuplicateCid")
     ELSE /\ used' = used \cup CidsOf(at) /\ records' = records \cup {at} /\ state' = "Open"
          /\ eligible' = IF at \in verified THEN eligible \cup {cids[<<"model", at>>]} ELSE eligible
          /\ at' = at + 1
          /\ UNCHANGED <<config, stage, reason, verified, storeVars, aggregated, published, monitor>>

\* A transaction that moves the round on.
Transition(next, to) ==
  /\ stage' = next /\ state' = to
  /\ UNCHANGED <<config, reason, at, verified, storeVars, aggregated, records, used, eligible, monitor>>

CloseSubmissions ==
  /\ stage = "submitting" /\ at > NumNodes
  /\ Transition("closed", "SubmissionClosed") /\ UNCHANGED published

\* The aggregation is started before the participants are compared.
StartAggregation ==
  /\ stage = "closed"
  /\ Transition("comparing", "AggregationStarted") /\ UNCHANGED published

PublishGlobalModel ==
  /\ stage = "comparing" /\ eligible = ExpectedCids
  /\ Transition("archiving", "Published") /\ published' = ExpectedCids

\* archiveRound; run_pipeline compares the CIDs once more and writes the directory.
ArchiveRound ==
  /\ stage = "archiving"
  /\ Transition("completed", "Archived") /\ UNCHANGED published

\* The node process, the network or a transaction fails, or the participants differ.
ContractFails ==
  stage \in {"submitting", "closed", "comparing", "archiving"} /\ Raises("contract")

Monitor ==
  /\ stage = "completed" /\ monitor = "none"
  /\ monitor' =
       IF /\ state = "Archived" /\ Mode = "kubo-http"
          /\ published = eligible /\ Cardinality(records) = NumNodes
          /\ \A p \in pins : p[2]
       THEN "passed" ELSE "failed"
  /\ UNCHANGED <<config, stage, reason, at, verified, storeVars, aggregated, ledgerVars>>

Next ==
  \/ Begin \/ Prove \/ PublishArtifact \/ PinManifest \/ PinModel \/ AggregateModels \/ PublishGlobal
  \/ SubmitModel \/ CloseSubmissions \/ StartAggregation \/ PublishGlobalModel \/ ArchiveRound
  \/ ContractFails \/ Monitor

Spec == Init /\ [][Next]_vars

-----------------------------------------------------------------------------

\* A directory that passes the monitor has its audit trail in Kubo: the manifests
\* of all nodes, the models that were aggregated, the global model and the report
\* are pinned there, although every call may have fallen back to the mirror.
MonitoredIsPinned ==
  monitor = "passed" =>
    \A a \in {<<"manifest", n>> : n \in Node} \cup {<<"model", n>> : n \in aggregated}
               \cup {<<"global_model", 0>>, <<"report", 0>>} :
      cids[a] \in kuboPins

\* The models averaged before the contract was asked are, in a completed run, the
\* models it approved and published, and every node has a record of its own.  The
\* script compares them only when the round can no longer be cancelled: no round is
\* left in AggregationStarted for participants that differ (run_round.js).
AggregatedAsApproved ==
  /\ state = "AggregationStarted" => ExpectedCids = eligible
  /\ stage = "completed" =>
       /\ {cids[<<"model", n>>] : n \in aggregated} = eligible
       /\ published = eligible /\ records = Node

\* "Strict IPFS runs must fail if Kubo is unavailable"
\* (docs/revision/EXECUTION_RUNBOOK.md): what a completed strict run put on the
\* ledger is in a Kubo store.
StrictRunsUseKubo ==
  stage = "completed" /\ config.strict => \A cid \in used : cid[1] # "local"

\* "FairAIEthicalLedger records the model as approved or rejected"
\* (results/q1_results_package/results_interpretation.md): no submission of the
\* pipeline is refused by the ledger.
RejectedAreRecorded == reason # "DuplicateCid"
=============================================================================
