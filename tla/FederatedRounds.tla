----------------------------- MODULE FederatedRounds -----------------------------
(***************************************************************************)
(* run_federated_method: the rounds of one execution of a method B0 to B7, *)
(* with its attacks, with training on this host or on remote workers, and  *)
(* with the adapter of B2, B4 and B7, which may fail any call.  What       *)
(* training returns is any parameter of a small set or one that is not     *)
(* finite; what a policy or an adapter decides on it is any decision (the  *)
(* modules Eligibility and RoundProtocol give them).                       *)
(***************************************************************************)
EXTENDS Aggregation, Sequences

CONSTANTS
  Setup,       \* executions: method, attack, malicious clients, valid clients, sizes of
               \* the training splits by client, remote training, trainable parameters,
               \* undefined_metric_behavior of the policy
  Initial,     \* parameter of a new model
  Evaluation,  \* evaluations of a model on a client's data
  Beta,        \* fairfed_beta
  Rounds

ASSUME RoundsAssumption == Rounds \in Nat \ {0}
\* fairfed_weights refuses a beta below zero.  A group may be empty, so that its rate has
\* no value; the split a model is evaluated on is not, as a client has four samples.
ASSUME BetaAssumption == Beta \in [num : Nat, den : Nat \ {0}]
ASSUME EvaluationAssumption ==
  Evaluation \subseteq
    [tpr : [{"unprivileged", "privileged"} -> [num : Nat, den : Nat]],
     accuracy : [num : Nat, den : Nat \ {0}], comparable : BOOLEAN]
ASSUME SetupAssumption ==
  \A s \in Setup :
    /\ s.method \in {"B0", "B1", "B2", "B3", "B4", "B5", "B6", "B7"}
    /\ s.attack \in {"none", "label_flip", "sign_flip", "random_weights"}
    /\ IsFiniteSet(DOMAIN s.sizes) /\ DOMAIN s.sizes = 1 .. Cardinality(DOMAIN s.sizes)
    /\ s.valid \subseteq DOMAIN s.sizes /\ s.malicious \subseteq DOMAIN s.sizes
    /\ (s.attack = "none") = (s.malicious = {})
    /\ \A c \in DOMAIN s.sizes : s.sizes[c] \in Nat \ {0}
    /\ s.trains \subseteq Int
    /\ s.undefined \in {"reject", "ignore", "error"}

VARIABLES
  setup, stage, round,
  next,         \* client whose turn it is
  bundles,      \* bundles[c]: whose training split a worker's file client_<c>.npz holds
  updates,      \* updates of this round so far
  evaluations,  \* fairfed_metrics
  global,       \* global_parameters
  raw,          \* fairfed_raw_weights; empty for None
  included,     \* included_clients of the aggregation
  recorded,     \* included clients of the rounds the adapter has recorded
  rows,         \* round_metrics
  trainedOn     \* whose split each update of this round was trained on (history)

roundVars == <<next, updates, evaluations, trainedOn>>
vars == <<setup, stage, round, roundVars, bundles, global, raw, included, recorded, rows>>

Clients == DOMAIN setup.sizes
NoRound == [c \in {} |-> c]

\* The lists and dictionaries of a round grow by one client.
With(f, client, value) == [c \in DOMAIN f \cup {client} |-> IF c = client THEN value ELSE f[c]]

HasAdapter == setup.method \in {"B2", "B4", "B7"}

Init ==
  /\ setup \in Setup
  /\ stage = IF setup.remote THEN "staging" ELSE "training"
  /\ round = 1 /\ next = 1 /\ updates = NoRound /\ evaluations = NoRound
  /\ trainedOn = NoRound
  /\ \E stale \in BOOLEAN :
       bundles = [c \in Clients |-> IF stale THEN "stale" ELSE "none"]
  /\ global = Whole(Initial) /\ raw = NoRound /\ included = {}
  /\ recorded = <<>> /\ rows = <<>>

-----------------------------------------------------------------------------

\* An exception that nobody catches, by the part of the loop it comes from.
Raise(error) ==
  /\ stage' = error
  /\ UNCHANGED <<setup, round, roundVars, bundles, global, raw, included, recorded, rows>>

\* Mutant of StageBundle: a bundle that is there is not copied again.
StageBundleOnce ==
  /\ stage = "staging"
  /\ bundles' = [bundles EXCEPT ![next] = IF @ = "none" THEN "own" ELSE @]
  /\ IF next < Cardinality(Clients) THEN next' = next + 1 /\ UNCHANGED stage
     ELSE next' = 1 /\ stage' = "training"
  /\ UNCHANGED <<setup, round, updates, evaluations, trainedOn, global, raw, included, recorded, rows>>

\* prepare() copies every client's split to the worker it is assigned to.
StageBundle ==
  /\ stage = "staging"
  /\ bundles' = [bundles EXCEPT ![next] = "own"]
  /\ IF next < Cardinality(Clients) THEN next' = next + 1 /\ UNCHANGED stage
     ELSE next' = 1 /\ stage' = "training"
  /\ UNCHANGED <<setup, round, updates, evaluations, trainedOn, global, raw, included, recorded, rows>>

\* What an attacker sends for the parameters it trained.
Sent(c, trained) ==
  CASE c \in setup.malicious /\ setup.attack = "sign_flip" -> {Negative(trained)}
    [] c \in setup.malicious /\ setup.attack = "random_weights" -> {Whole(v) : v \in setup.trains}
    [] OTHER -> {trained}

\* Training ends in parameters of a small set or in one that is not finite.
Returned(c) == UNION {Sent(c, t) : t \in {Whole(v) : v \in setup.trains} \cup {Undefined}}

\* The decision of the policy is read again for B3 only: the adapter of B4 and B7
\* replaces it.
Decisions == IF setup.method = "B3" THEN {{}, {"policy_approved"}} ELSE {{}}

\* A client whose split holds one class sends the global parameters back, as an
\* invalid update.
ClientUpdate(c) ==
  IF c \in setup.valid
  THEN {[parameters |-> p, samples |-> setup.sizes[c], valid |-> TRUE, checks |-> d] :
          p \in Returned(c), d \in Decisions}
  ELSE {[parameters |-> global, samples |-> setup.sizes[c], valid |-> FALSE, checks |-> {}]}

\* For B5 the global model is evaluated before the client trains (that of an
\* invalid client is evaluated and never read).
EvaluateGlobal(c) ==
  IF setup.method = "B5" /\ c \in setup.valid
  THEN \E e \in Evaluation : evaluations' = With(evaluations, c, e)
  ELSE UNCHANGED evaluations

\* A worker trains on the bundle it holds under the client's number.
TrainingSplit(c) == IF setup.remote THEN bundles[c] ELSE "own"

TrainClient ==
  /\ stage = "training"
  /\ EvaluateGlobal(next)
  /\ \E u \in ClientUpdate(next) : updates' = With(updates, next, u)
  /\ trainedOn' = IF next \in setup.valid THEN With(trainedOn, next, TrainingSplit(next))
                  ELSE trainedOn
  /\ next' = next + 1
  /\ stage' = IF next < Cardinality(Clients) THEN stage
              ELSE IF setup.method \in {"B4", "B7"} THEN "deciding" ELSE "aggregating"
  /\ UNCHANGED <<setup, round, bundles, global, raw, included, recorded, rows>>

\* evaluate_policy raises for an enabled metric without a value, whatever the method
\* and wherever the client was trained.
PolicyRaises ==
  /\ stage = "training" /\ next \in setup.valid
  /\ setup.undefined = "error" /\ Raise("policy_error")

\* prepare_round: the adapter approves some of the valid clients and returns
\* their parameters as retrieved, which are those published.
PrepareRound ==
  /\ stage = "deciding" /\ stage' = "aggregating"
  /\ \E approved \in SUBSET setup.valid :
       updates' = [c \in Clients |->
         [updates[c] EXCEPT !.checks = IF c \in approved THEN Check ELSE {"decision_signed"}]]
  /\ UNCHANGED <<setup, round, next, evaluations, trainedOn, bundles, global, raw, included, recorded, rows>>

-----------------------------------------------------------------------------

Selected == Eligible(setup.method, updates)

\* Mutant of PreviousWeights: the shares are those of all clients of the round.
PreviousOfAll(S) ==
  IF raw = NoRound THEN [c \in S |-> SampleShares(updates, Clients)[c]] ELSE [c \in S |-> raw[c]]

PreviousWeights(S) ==
  IF raw = NoRound THEN SampleShares(updates, S) ELSE [c \in S |-> raw[c]]

NextRaw ==
  RawWeights(PreviousWeights(Selected),
             [c \in Selected |-> Delta(evaluations, Selected, c)], Beta)

WeightsUsable == raw = NoRound \/ Selected \subseteq DOMAIN raw
CanAggregate ==
  /\ Aggregable(updates, Selected)
  /\ setup.method = "B5" => WeightsUsable /\ Normalizer(NextRaw).num # 0

Aggregated ==
  CASE Aggregator(setup.method) = "fedavg" -> FedAvg(updates, Selected)
    [] Aggregator(setup.method) = "fairfed" ->
         WeightedAverage(updates, Selected, Normalized(NextRaw))
    [] OTHER -> CoordinateMedian(updates, Selected)

\* aggregate_for_method; every AggregationError but the empty update set is raised.
Aggregate ==
  /\ stage = "aggregating" /\ Selected # {}
  /\ CanAggregate /\ stage' = "recording"
  /\ global' = Aggregated /\ included' = Selected
  /\ raw' = IF setup.method = "B5" THEN NextRaw ELSE raw
  /\ UNCHANGED <<setup, round, roundVars, bundles, recorded, rows>>

AggregationRaises ==
  stage = "aggregating" /\ Selected # {} /\ ~CanAggregate /\ Raise("aggregation_error")

\* Mutant of SkipRound: the round goes on with the clients of the last one.
SkipRoundStale ==
  /\ stage = "aggregating" /\ Selected = {} /\ stage' = "recording"
  /\ UNCHANGED <<setup, round, roundVars, bundles, global, raw, included, recorded, rows>>

\* Nobody is eligible: the global parameters stay.
SkipRound ==
  /\ stage = "aggregating" /\ Selected = {} /\ stage' = "recording"
  /\ included' = {}
  /\ UNCHANGED <<setup, round, roundVars, bundles, global, raw, recorded, rows>>

Row == [included |-> included, excluded |-> Clients \ included, global |-> global,
        status |-> IF Selected = {} THEN "skipped_no_eligible_clients" ELSE "updated"]

\* The global model is evaluated, the adapter records the round, the row is added.
RecordRound ==
  /\ stage = "recording"
  /\ recorded' = IF HasAdapter THEN Append(recorded, included) ELSE recorded
  /\ rows' = Append(rows, Row)
  /\ IF round < Rounds
     THEN /\ stage' = "training" /\ round' = round + 1 /\ next' = 1
          /\ updates' = NoRound /\ evaluations' = NoRound /\ trainedOn' = NoRound
     ELSE stage' = "finishing" /\ UNCHANGED <<round, roundVars>>
  /\ UNCHANGED <<setup, bundles, global, raw, included>>

\* finalize(): the ledger of B2 refuses a publication without participants.
Finish ==
  /\ stage = "finishing" /\ stage' = "done"
  /\ setup.method = "B2" => \A r \in DOMAIN recorded : recorded[r] # {}
  /\ UNCHANGED <<setup, round, roundVars, bundles, global, raw, included, recorded, rows>>

\* A worker or the adapter fails: nothing is retried.
CallFails ==
  /\ \/ setup.remote /\ stage \in {"staging", "training"}
     \/ HasAdapter /\ stage \in {"deciding", "recording", "finishing"}
  /\ Raise("call_error")

Next ==
  \/ StageBundle \/ TrainClient \/ PolicyRaises \/ PrepareRound
  \/ Aggregate \/ AggregationRaises \/ SkipRound \/ RecordRound
  \/ Finish \/ CallFails

Spec == Init /\ [][Next]_vars

-----------------------------------------------------------------------------

\* FairFed adjusts weights by differences that cancel out: whatever the fairness
\* of the clients, negative weights included, the raw weights carried from round
\* to round sum to one and belong to the same clients, so that no later round
\* lacks a previous weight or fails to normalize, and its aggregation raises for
\* nothing but parameters that are not finite (fairfed_weights, _validate_updates).
FairFedStaysNormalized ==
  /\ raw # NoRound => Normalizer(raw) = Whole(1) /\ DOMAIN raw = setup.valid
  /\ stage = "aggregating" /\ setup.method = "B5" => WeightsUsable
  /\ stage = "aggregation_error" /\ setup.method = "B5" =>
       \E c \in setup.valid : ~Defined(updates[c].parameters)

Between(v, S) ==
  /\ \E c \in S : Leq(updates[c].parameters, v)
  /\ \E c \in S : Leq(v, updates[c].parameters)

\* A mean stays between the parameters of the clients it includes, and with a
\* median a minority of attackers among them cannot move the global model beyond
\* what honest clients sent.
AttackersBounded ==
  stage = "recording" /\ included # {} /\ setup.method # "B5" =>
    /\ Between(global, included)
    /\ LET honest == included \ setup.malicious IN
         Aggregator(setup.method) = "coordinate_median"
           /\ 2 * Cardinality(included \cap setup.malicious) < Cardinality(included)
         => Between(global, honest)

\* The rows of a run tell who was included in each round; a round that was
\* skipped includes nobody and leaves the global model of the round before it,
\* and the adapter has recorded the same clients.
RoundsAccounted ==
  \A r \in DOMAIN rows :
    /\ rows[r].included \cap rows[r].excluded = {}
    /\ (rows[r].included = {}) = (rows[r].status = "skipped_no_eligible_clients")
    /\ rows[r].included = {} =>
         rows[r].global = IF r = 1 THEN Whole(Initial) ELSE rows[r - 1].global
    /\ HasAdapter => r \in DOMAIN recorded /\ recorded[r] = rows[r].included

\* No update is trained on a split that another execution left on a worker.
TrainedOnOwnSplit == \A c \in DOMAIN trainedOn : trainedOn[c] = "own"
=============================================================================
