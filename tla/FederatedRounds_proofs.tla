------------------------- MODULE FederatedRounds_proofs -------------------------
(***************************************************************************)
(* Theorems about FederatedRounds: what the workers hold under the         *)
(* clients' numbers; how rows, records and global parameters follow each   *)
(* other from round to round; the weights of FairFed; and what attackers   *)
(* can do to an aggregated model.  The first two do not need to know what  *)
(* an aggregation computes; for the other two, lemmas about the operators  *)
(* of Aggregation hold for any finite set of clients and any parameters.   *)
(***************************************************************************)
EXTENDS FederatedRounds, Fractions_proofs

\* How an execution ends that no exception handler saves.
Raised == {"policy_error", "aggregation_error", "call_error"}

USE DEF Raised

\* Parameters of the last row, or of the new model.
LastGlobal == IF rows = <<>> THEN Whole(Initial) ELSE rows[Len(rows)].global

\* Until a round is aggregated the global parameters are those of the row before;
\* an aggregated round includes the clients selected, and if these are none its
\* parameters are still those of the row before.
GlobalFollowsRows ==
  /\ stage \notin {"recording"} \cup Raised => global = LastGlobal
  /\ stage = "recording" => included = Selected /\ (Selected = {} => global = LastGlobal)

\* There is a row for every round that is over.
RowsCounted ==
  /\ round \in 1 .. Rounds
  /\ stage \in {"staging", "training", "deciding", "aggregating", "recording"} =>
       Len(rows) = round - 1
  /\ stage \in {"finishing", "done"} => Len(rows) = Rounds
  /\ HasAdapter => Len(recorded) = Len(rows)

RowsInv ==
  /\ \E S : rows \in Seq(S)
  /\ \E S : recorded \in Seq(S)
  /\ GlobalFollowsRows
  /\ RowsCounted
  /\ RoundsAccounted

\* Staging replaces the bundles one by one; from then on every worker holds the
\* split of this execution under every client's number.
BundlesStaged ==
  /\ setup \in Setup /\ next \in Nat /\ DOMAIN bundles = Clients
  /\ stage = "staging" => trainedOn = NoRound /\ \A c \in Clients : c < next => bundles[c] = "own"
  /\ setup.remote /\ stage \notin {"staging"} \cup Raised => \A c \in Clients : bundles[c] = "own"

-----------------------------------------------------------------------------
(* The lists that grow                                                     *)

LEMMA AppendRow ==
  ASSUME NEW S, NEW s \in Seq(S), NEW e
  PROVE  /\ Append(s, e) \in Seq(S \cup {e})
         /\ Len(Append(s, e)) = Len(s) + 1 /\ Append(s, e) # <<>>
         /\ DOMAIN Append(s, e) = 1 .. Len(s) + 1
         /\ \A i \in 1 .. Len(s) : Append(s, e)[i] = s[i]
         /\ Append(s, e)[Len(s) + 1] = e
<1>1. s \in Seq(S \cup {e}) /\ e \in S \cup {e}
  OBVIOUS
<1>. QED
  BY <1>1

\* What every step leaves alone, and the clients of a setup are numbered from one.
LEMMA SetupConstant ==
  ASSUME [Next]_vars
  PROVE  setup' = setup /\ Clients' = Clients /\ HasAdapter' = HasAdapter
<1>1. setup' = setup
  BY DEF Next, vars, roundVars, StageBundle, TrainClient, PrepareRound, Aggregate,
    AggregationRaises, SkipRound, RecordRound, Finish, PolicyRaises, CallFails, Raise
<1>. QED
  BY <1>1 DEF Clients, HasAdapter

LEMMA ClientsNumbered ==
  ASSUME setup \in Setup
  PROVE  \E n \in Nat : Cardinality(Clients) = n /\ Clients = 1 .. n
<1>1. IsFiniteSet(Clients) /\ Clients = 1 .. Cardinality(Clients)
  BY SetupAssumption DEF Clients
<1>2. Cardinality(Clients) \in Nat
  BY <1>1, FS_CardinalityType
<1>. QED
  BY <1>1, <1>2

-----------------------------------------------------------------------------
(* Rows                                                                    *)

\* A step that adds no row keeps what is said of the rows.
LEMMA AccountStays ==
  ASSUME RoundsAccounted, setup' = setup, UNCHANGED <<rows, recorded>>
  PROVE  RoundsAccounted'
BY DEF RoundsAccounted, HasAdapter

LEMMA RowsInit ==
  ASSUME Init
  PROVE  RowsInv
<1>1. rows = <<>> /\ recorded = <<>>
  BY DEF Init
<1>2. /\ rows \in Seq({}) /\ recorded \in Seq({})
      /\ Len(rows) = 0 /\ Len(recorded) = 0 /\ DOMAIN rows = {}
  BY <1>1
<1>3. stage \in {"staging", "training"} /\ global = Whole(Initial) /\ round = 1
  BY DEF Init
<1>4. GlobalFollowsRows
  BY <1>1, <1>3 DEF GlobalFollowsRows, LastGlobal
<1>5. RowsCounted
  BY <1>2, <1>3, RoundsAssumption DEF RowsCounted
<1>6. RoundsAccounted
  BY <1>2 DEF RoundsAccounted
<1>. QED
  BY <1>2, <1>4, <1>5, <1>6 DEF RowsInv

LEMMA RowsRecorded ==
  ASSUME RowsInv, RecordRound
  PROVE  RowsInv'
<1>. DEFINE n == Len(rows)  row == Row
<1>1. PICK S : rows \in Seq(S)
  BY DEF RowsInv
<1>2. PICK T : recorded \in Seq(T)
  BY DEF RowsInv
<1>3. /\ stage = "recording" /\ rows' = Append(rows, row) /\ setup' = setup
      /\ recorded' = (IF HasAdapter THEN Append(recorded, included) ELSE recorded)
      /\ global' = global /\ included' = included /\ HasAdapter' = HasAdapter
  BY DEF RecordRound, HasAdapter
<1>4. /\ n \in Nat /\ n = round - 1 /\ round \in 1 .. Rounds
      /\ HasAdapter => Len(recorded) = n
  BY <1>1, <1>3 DEF RowsInv, RowsCounted
<1>5. /\ rows' \in Seq(S \cup {row}) /\ Len(rows') = n + 1 /\ rows' # <<>>
      /\ DOMAIN rows' = 1 .. n + 1 /\ rows'[n + 1] = row
      /\ \A i \in 1 .. n : rows'[i] = rows[i]
  BY <1>1, <1>3, AppendRow
<1>6. ASSUME HasAdapter
      PROVE  /\ recorded' \in Seq(T \cup {included}) /\ Len(recorded') = n + 1
             /\ DOMAIN recorded' = 1 .. n + 1 /\ recorded'[n + 1] = included
             /\ \A i \in 1 .. n : recorded'[i] = recorded[i]
  BY <1>2, <1>3, <1>4, <1>6, AppendRow
<1>7. \E U : recorded' \in Seq(U)
  BY <1>2, <1>3, <1>6
<1>8. /\ row.included = included /\ row.excluded = Clients \ included /\ row.global = global
      /\ row.status = (IF Selected = {} THEN "skipped_no_eligible_clients" ELSE "updated")
  BY DEF Row
<1>. HIDE DEF row, n
<1>9. included = Selected /\ (Selected = {} => global = LastGlobal)
  BY <1>3 DEF RowsInv, GlobalFollowsRows
<1>10. LastGlobal = (IF n = 0 THEN Whole(Initial) ELSE rows[n].global)
  BY <1>1 DEF LastGlobal, n
<1>11. LastGlobal' = global
  BY <1>4, <1>5, <1>8 DEF LastGlobal
<1>12. GlobalFollowsRows'
  BY <1>3, <1>11 DEF GlobalFollowsRows, RecordRound
<1>13. RowsCounted'
  <2>1. CASE round < Rounds
    <3>1. stage' = "training" /\ round' = round + 1
      BY <2>1 DEF RecordRound
    <3>. QED
      BY <2>1, <3>1, <1>3, <1>4, <1>5, <1>6, RoundsAssumption DEF RowsCounted
  <2>2. CASE ~(round < Rounds)
    <3>1. stage' = "finishing" /\ round' = round
      BY <2>2 DEF RecordRound
    <3>. QED
      BY <2>2, <3>1, <1>3, <1>4, <1>5, <1>6, RoundsAssumption DEF RowsCounted
  <2>. QED
    BY <2>1, <2>2
<1>14. RoundsAccounted'
  <2>. SUFFICES ASSUME NEW r \in 1 .. n + 1
       PROVE  /\ rows'[r].included \cap rows'[r].excluded = {}
              /\ (rows'[r].included = {}) = (rows'[r].status = "skipped_no_eligible_clients")
              /\ rows'[r].included = {} =>
                   rows'[r].global = IF r = 1 THEN Whole(Initial) ELSE rows'[r - 1].global
              /\ HasAdapter => r \in DOMAIN recorded' /\ recorded'[r] = rows'[r].included
    BY <1>3, <1>5 DEF RoundsAccounted
  <2>1. CASE r = n + 1
    <3>1. rows'[r] = row
      BY <2>1, <1>5
    <3>2. r # 1 => r - 1 \in 1 .. n /\ rows'[r - 1] = rows[n]
      BY <2>1, <1>4, <1>5
    <3>3. included = {} => global = IF r = 1 THEN Whole(Initial) ELSE rows'[r - 1].global
      BY <2>1, <3>2, <1>4, <1>9, <1>10
    <3>. QED
      BY <2>1, <3>1, <3>3, <1>4, <1>6, <1>8, <1>9
  <2>2. CASE r \in 1 .. n
    <3>1. r \in DOMAIN rows /\ (HasAdapter => r \in DOMAIN recorded)
      BY <2>2, <1>1, <1>2, <1>4 DEF n
    <3>2. rows'[r] = rows[r] /\ (r # 1 => rows'[r - 1] = rows[r - 1])
      BY <2>2, <1>4, <1>5
    <3>3. HasAdapter => r \in DOMAIN recorded' /\ recorded'[r] = recorded[r]
      BY <2>2, <1>4, <1>6
    <3>. QED
      BY <3>1, <3>2, <3>3 DEF RowsInv, RoundsAccounted
  <2>. QED
    BY <2>1, <2>2, <1>4
<1>. QED
  BY <1>5, <1>7, <1>12, <1>13, <1>14 DEF RowsInv

LEMMA RowsStep ==
  ASSUME RowsInv, [Next]_vars
  PROVE  RowsInv'
<1>. SUFFICES ASSUME ~RecordRound PROVE RowsInv'
  BY RowsRecorded
<1>1. /\ setup' = setup /\ HasAdapter' = HasAdapter /\ UNCHANGED <<rows, recorded>>
  BY SetupConstant DEF Next, vars, roundVars, StageBundle, TrainClient, PrepareRound, Aggregate,
    AggregationRaises, SkipRound, Finish, PolicyRaises, CallFails, Raise
<1>2. round' = round /\ LastGlobal' = LastGlobal
  BY <1>1 DEF Next, vars, roundVars, StageBundle, TrainClient, PrepareRound, Aggregate,
    AggregationRaises, SkipRound, Finish, PolicyRaises, CallFails, Raise, LastGlobal
<1>3. RoundsAccounted'
  BY <1>1, AccountStays DEF RowsInv
<1>4. GlobalFollowsRows' /\ RowsCounted'
  <2>. USE DEF RowsInv
  <2>1. CASE StageBundle
    BY <2>1, <1>1, <1>2 DEF StageBundle, GlobalFollowsRows, RowsCounted
  <2>2. CASE TrainClient
    BY <2>2, <1>1, <1>2 DEF TrainClient, GlobalFollowsRows, RowsCounted
  <2>3. CASE PrepareRound
    BY <2>3, <1>1, <1>2 DEF PrepareRound, GlobalFollowsRows, RowsCounted
  <2>4. CASE Aggregate
    <3>1. Selected # {} /\ Selected' = Selected /\ included' = Selected
      BY <2>4, <1>1 DEF Aggregate, roundVars, Selected
    <3>. QED
      BY <2>4, <3>1, <1>1, <1>2 DEF Aggregate, GlobalFollowsRows, RowsCounted
  <2>5. CASE SkipRound
    <3>1. Selected = {} /\ Selected' = Selected /\ included' = {}
      BY <2>5, <1>1 DEF SkipRound, roundVars, Selected
    <3>. QED
      BY <2>5, <3>1, <1>1, <1>2 DEF SkipRound, GlobalFollowsRows, RowsCounted
  <2>6. CASE AggregationRaises \/ PolicyRaises \/ CallFails
    BY <2>6, <1>1, <1>2 DEF AggregationRaises, PolicyRaises, CallFails, Raise, GlobalFollowsRows, RowsCounted
  <2>7. CASE Finish
    BY <2>7, <1>1, <1>2 DEF Finish, GlobalFollowsRows, RowsCounted
  <2>8. CASE UNCHANGED vars
    <3>1. Selected' = Selected
      BY <2>8 DEF vars, roundVars, Selected
    <3>. QED
      BY <2>8, <3>1, <1>1, <1>2 DEF vars, GlobalFollowsRows, RowsCounted
  <2>. QED
    BY <2>1, <2>2, <2>3, <2>4, <2>5, <2>6, <2>7, <2>8 DEF Next
<1>. QED
  BY <1>1, <1>3, <1>4 DEF RowsInv

\* The rows and the adapter's records of an execution account for its rounds: who
\* was included, that a skipped round changed nothing, and one row for every round
\* that is over, all of them when the execution ends.
THEOREM RowsAccount == Spec => [](RoundsAccounted /\ RowsCounted)
<1>1. Init => RowsInv
  BY RowsInit
<1>2. RowsInv /\ [Next]_vars => RowsInv'
  BY RowsStep
<1>3. RowsInv => RoundsAccounted /\ RowsCounted
  BY DEF RowsInv
<1>. QED
  BY <1>1, <1>2, <1>3, PTL DEF Spec

-----------------------------------------------------------------------------
(* Bundles                                                                 *)

BundlesInv == BundlesStaged /\ TrainedOnOwnSplit

LEMMA BundlesInit ==
  ASSUME Init
  PROVE  BundlesInv
<1>1. trainedOn = NoRound /\ next = 1 /\ setup \in Setup /\ DOMAIN bundles = Clients
  BY DEF Init
<1>2. stage = (IF setup.remote THEN "staging" ELSE "training")
  BY DEF Init
<1>3. DOMAIN trainedOn = {}
  BY <1>1 DEF NoRound
<1>4. \A c \in Clients : ~(c < next)
  BY <1>1, ClientsNumbered
<1>. QED
  BY <1>1, <1>2, <1>3, <1>4 DEF BundlesInv, BundlesStaged, TrainedOnOwnSplit

LEMMA BundlesStep ==
  ASSUME BundlesInv, [Next]_vars
  PROVE  BundlesInv'
<1>1. setup' = setup /\ Clients' = Clients
  BY SetupConstant
<1>2. PICK n \in Nat : Cardinality(Clients) = n /\ Clients = 1 .. n
  BY ClientsNumbered DEF BundlesInv, BundlesStaged
<1>3. DOMAIN NoRound = {}
  BY DEF NoRound
<1>4. /\ setup \in Setup /\ next \in Nat /\ DOMAIN bundles = Clients
      /\ stage = "staging" => trainedOn = NoRound /\ \A c \in Clients : c < next => bundles[c] = "own"
      /\ setup.remote /\ stage \notin {"staging"} \cup Raised => \A c \in Clients : bundles[c] = "own"
      /\ \A c \in DOMAIN trainedOn : trainedOn[c] = "own"
  BY DEF BundlesInv, BundlesStaged, TrainedOnOwnSplit
<1>5. CASE StageBundle
  <2>1. /\ stage = "staging" /\ trainedOn' = NoRound
        /\ bundles' = [bundles EXCEPT ![next] = "own"]
        /\ DOMAIN bundles' = Clients
    BY <1>4, <1>5 DEF StageBundle
  <2>2. ASSUME NEW c \in Clients, c < next + 1 PROVE bundles'[c] = "own"
    <3>1. c \in Nat /\ (c = next \/ c < next)
      BY <1>2, <1>4, <2>2
    <3>. QED
      BY <1>4, <2>1, <3>1
  <2>3. \A c \in DOMAIN trainedOn' : trainedOn'[c] = "own"
    BY <2>1, <1>3
  <2>4. CASE next < n
    <3>1. next' = next + 1 /\ stage' = "staging"
      BY <1>2, <1>5, <2>1, <2>4 DEF StageBundle
    <3>2. BundlesStaged'
      BY <1>1, <1>4, <2>1, <2>2, <3>1 DEF BundlesStaged
    <3>. QED
      BY <2>3, <3>2 DEF BundlesInv, TrainedOnOwnSplit
  <2>5. CASE ~(next < n)
    <3>1. next' = 1 /\ stage' = "training"
      BY <1>2, <1>5, <2>5 DEF StageBundle
    <3>2. ASSUME NEW c \in Clients PROVE bundles'[c] = "own"
      <4>1. c \in 1 .. n
        BY <1>2
      <4>2. c < next + 1
        BY <1>4, <2>5, <4>1
      <4>. QED
        BY <2>2, <4>2
    <3>3. BundlesStaged'
      BY <1>1, <1>4, <2>1, <3>1, <3>2 DEF BundlesStaged
    <3>. QED
      BY <2>3, <3>3 DEF BundlesInv, TrainedOnOwnSplit
  <2>. QED
    BY <2>4, <2>5
<1>6. CASE TrainClient
  <2>1. /\ stage = "training" /\ stage' \notin {"staging"} \cup Raised /\ bundles' = bundles
        /\ next' \in Nat
        /\ trainedOn' = (IF next \in setup.valid THEN With(trainedOn, next, TrainingSplit(next))
                         ELSE trainedOn)
    BY <1>4, <1>6 DEF TrainClient
  <2>2. next \in setup.valid => TrainingSplit(next) = "own"
    BY <1>4, <2>1, SetupAssumption DEF TrainingSplit, Clients
  <2>3. \A c \in DOMAIN trainedOn' : trainedOn'[c] = "own"
    <3>1. CASE next \in setup.valid
      <4>1. trainedOn' = With(trainedOn, next, TrainingSplit(next))
        BY <2>1, <3>1
      <4>2. DOMAIN trainedOn' = DOMAIN trainedOn \cup {next} /\ trainedOn'[next] = "own"
        BY <2>2, <3>1, <4>1, SMT DEF With
      <4>3. \A d \in DOMAIN trainedOn \ {next} : trainedOn'[d] = trainedOn[d]
        BY <4>1, SMT DEF With
      <4>. QED
        BY <1>4, <4>2, <4>3
    <3>2. CASE next \notin setup.valid
      BY <1>4, <2>1, <3>2
    <3>. QED
      BY <3>1, <3>2
  <2>4. BundlesStaged'
    BY <1>1, <1>4, <2>1 DEF BundlesStaged
  <2>. QED
    BY <2>3, <2>4 DEF BundlesInv, TrainedOnOwnSplit
<1>7. CASE ~StageBundle /\ ~TrainClient
  <2>1. /\ bundles' = bundles /\ next' \in Nat
        /\ (trainedOn' = trainedOn \/ trainedOn' = NoRound)
        /\ stage' = "staging" => stage = "staging" /\ UNCHANGED <<next, trainedOn>>
        /\ stage' \notin {"staging"} \cup Raised => stage \notin {"staging"} \cup Raised
    <3>1. CASE RecordRound
      BY <3>1, <1>4 DEF RecordRound, roundVars
    <3>2. CASE AggregationRaises \/ PolicyRaises \/ CallFails
      BY <3>2, <1>4 DEF AggregationRaises, PolicyRaises, CallFails, Raise, roundVars
    <3>3. CASE PrepareRound \/ Aggregate \/ SkipRound \/ Finish
      BY <3>3, <1>4 DEF PrepareRound, Aggregate, SkipRound, Finish, roundVars
    <3>4. CASE UNCHANGED vars
      BY <3>4, <1>4 DEF vars, roundVars
    <3>. QED
      BY <3>1, <3>2, <3>3, <3>4, <1>7 DEF Next
  <2>2. \A c \in DOMAIN trainedOn' : trainedOn'[c] = "own"
    BY <1>3, <1>4, <2>1
  <2>3. BundlesStaged'
    BY <1>1, <1>4, <2>1 DEF BundlesStaged
  <2>. QED
    BY <2>2, <2>3 DEF BundlesInv, TrainedOnOwnSplit
<1>. QED
  BY <1>5, <1>6, <1>7

\* Whatever an earlier execution left on the workers, no client of this one is ever
\* trained on it, for any number of clients, rounds and any failing call.
THEOREM OwnSplits == Spec => []TrainedOnOwnSplit
<1>1. Init => BundlesInv
  BY BundlesInit
<1>2. BundlesInv /\ [Next]_vars => BundlesInv'
  BY BundlesStep
<1>3. BundlesInv => TrainedOnOwnSplit
  BY DEF BundlesInv
<1>. QED
  BY <1>1, <1>2, <1>3, PTL DEF Spec

-----------------------------------------------------------------------------
(* What an aggregation computes                                            *)

\* Updates of S count samples.
Counted(sent, S) == \A c \in S : sent[c].samples \in Nat \ {0}

LEMMA SamplesPositive ==
  ASSUME NEW sent, NEW S, IsFiniteSet(S), S # {}, Counted(sent, S)
  PROVE  \E n \in Nat : n > 0 /\ Samples(sent, S) = Whole(n)
<1>. DEFINE counts == [c \in S |-> sent[c].samples]
            wholes == [c \in S |-> Whole(sent[c].samples)]
<1>1. Natural(counts, S) /\ \A c \in S : counts[c] > 0 /\ wholes[c] = Whole(counts[c])
  BY DEF Natural, Counted
<1>2. Samples(sent, S) = SumOver(wholes, S)
  BY DEF Samples
<1>. HIDE DEF counts, wholes
<1>3. SumOver(wholes, S) = Whole(SumFunctionOnSet(counts, S)) /\ SumFunctionOnSet(counts, S) \in Nat
  BY <1>1, SumOverWholes
<1>4. PICK y \in S : TRUE
  OBVIOUS
<1>5. SumFunctionOnSet(counts, S) > 0
  <2>1. \A x \in S : counts[x] \in Nat
    BY <1>1 DEF Natural
  <2>2. counts[y] > 0
    BY <1>1
  <2>. QED
    BY <2>1, <2>2, SumPositive
<1>. QED
  BY <1>2, <1>3, <1>5

\* The shares of samples sum to one.
LEMMA SharesNormalized ==
  ASSUME NEW sent, NEW S, IsFiniteSet(S), S # {}, Counted(sent, S)
  PROVE  /\ DOMAIN SampleShares(sent, S) = S /\ Fractional(SampleShares(sent, S), S)
         /\ SumOver(SampleShares(sent, S), S) = Whole(1)
<1>. DEFINE wholes == [c \in S |-> Whole(sent[c].samples)]
            shares == SampleShares(sent, S)
<1>1. PICK n \in Nat : n > 0 /\ Samples(sent, S) = Whole(n)
  BY SamplesPositive
<1>2. \A c \in S : wholes[c] \in Fraction
  BY WholeIs DEF Counted
<1>3. shares = [c \in S |-> Over(wholes[c], Whole(n))]
  BY <1>1 DEF SampleShares
<1>4. SumOver(wholes, S) = Whole(n)
  BY <1>1 DEF Samples
<1>. HIDE DEF wholes, shares
<1>5. Rate(1, n) \in Fraction
  BY <1>1, <1>2, OverIs
<1>6. \A c \in S : shares[c] = Times(Rate(1, n), wholes[c]) /\ shares[c] \in Fraction
  BY <1>1, <1>2, <1>3, OverIs
<1>7. SumOver(shares, S) = Times(Rate(1, n), Whole(n))
  BY <1>2, <1>4, <1>5, <1>6, SumOverTimes
<1>8. Times(Rate(1, n), Whole(n)) = Whole(1)
  <2>1. Whole(n) \in Fraction /\ Whole(n).num = n /\ Whole(n).den = 1
    BY WholeIs
  <2>2. PlainProduct(Rate(1, n), Whole(n)) = Rate(n, n)
    BY <2>1 DEF PlainProduct, Rate
  <2>3. Same(Rate(n, n), Whole(1)) /\ Rate(n, n) \in Fraction
    BY <1>1 DEF Same, Rate, Whole, Fraction
  <2>4. Times(Rate(1, n), Whole(n)) = Lowest(Rate(n, n))
    BY <1>5, <2>1, <2>2, TimesIs
  <2>5. Lowest(Whole(1)) = Whole(1) /\ Whole(1) \in Fraction
    BY WholeIs DEF Reduced
  <2>. QED
    BY <2>3, <2>4, <2>5, LowestCanonical
<1>. QED
  BY <1>3, <1>6, <1>7, <1>8 DEF Fractional, shares

\* The adjustment of FairFed keeps the sum of the weights.
LEMMA RawWeightsNormalized ==
  ASSUME NEW previous, NEW deltas, NEW beta \in Fraction, NEW S, S = DOMAIN previous,
         IsFiniteSet(S), S # {}, Fractional(previous, S), Fractional(deltas, S),
         SumOver(previous, S) = Whole(1)
  PROVE  /\ RawWeights(previous, deltas, beta) \in [S -> Fraction]
         /\ Normalizer(RawWeights(previous, deltas, beta)) = Whole(1)
<1>. DEFINE mean == Over(SumOver(deltas, S), Whole(Cardinality(S)))
            centred == [c \in S |-> Minus(deltas[c], mean)]
            scaled == [c \in S |-> Times(beta, centred[c])]
            offsets == [c \in S |-> Times(Whole(-1), scaled[c])]
            adjusted == RawWeights(previous, deltas, beta)
<1>0. adjusted = [c \in S |-> Minus(previous[c], Times(beta, Minus(deltas[c], mean)))]
  BY DEF RawWeights
<1>1. mean \in Fraction /\ Whole(-1) \in Fraction
  <2>1. Cardinality(S) \in Nat /\ Cardinality(S) > 0
    <3>1. Cardinality(S) \in Nat /\ Cardinality(S) # 0
      BY FS_CardinalityType, FS_EmptySet
    <3>. QED
      BY <3>1
  <2>2. SumOver(deltas, S) \in Fraction
    BY SumOverStep DEF Fractional
  <2>. QED
    BY <2>1, <2>2, OverIs, WholeIs
<1>2. SumOver(centred, S) = Whole(0)
  <2>1. \A x \in S : centred[x] = Minus(deltas[x], mean)
    OBVIOUS
  <2>. HIDE DEF centred
  <2>. QED
    BY <2>1, CentredCancel
<1>. HIDE DEF mean
<1>3. \A x \in S : centred[x] \in Fraction
  BY <1>1, MinusIs DEF Fractional
<1>. HIDE DEF centred
<1>4. \A x \in S : scaled[x] \in Fraction /\ scaled[x] = Times(beta, centred[x])
  BY <1>3, TimesIs
<1>. HIDE DEF scaled
<1>5. \A x \in S : offsets[x] \in Fraction /\ offsets[x] = Times(Whole(-1), scaled[x])
  BY <1>1, <1>4, TimesIs
<1>. HIDE DEF offsets
<1>6. SumOver(scaled, S) = Whole(0)
  BY <1>2, <1>3, <1>4, SumOverTimes, TimesZero
<1>7. SumOver(offsets, S) = Whole(0)
  BY <1>1, <1>4, <1>5, <1>6, SumOverTimes, TimesZero
<1>8. \A x \in S : adjusted[x] = Plus(previous[x], offsets[x]) /\ adjusted[x] \in Fraction
  <2>. SUFFICES ASSUME NEW x \in S
                PROVE  adjusted[x] = Plus(previous[x], offsets[x]) /\ adjusted[x] \in Fraction
    OBVIOUS
  <2>1. adjusted[x] = Minus(previous[x], scaled[x])
    BY <1>0 DEF scaled, centred
  <2>2. /\ previous[x] \in Fraction /\ scaled[x] \in Fraction
        /\ offsets[x] = Times(Whole(-1), scaled[x])
    BY <1>4, <1>5 DEF Fractional
  <2>. QED
    BY <2>1, <2>2, MinusOpposite, PlusIs
<1>9. DOMAIN adjusted = S /\ adjusted \in [S -> Fraction]
  BY <1>0, <1>8
<1>. HIDE DEF adjusted
<1>10. SumOver(adjusted, S) = Plus(SumOver(previous, S), SumOver(offsets, S))
  <2>1. \A x \in S : /\ previous[x] \in Fraction /\ offsets[x] \in Fraction
                     /\ adjusted[x] = Plus(previous[x], offsets[x])
    BY <1>5, <1>8 DEF Fractional
  <2>. QED
    BY <2>1, SumOverPlus
<1>11. Plus(Whole(1), Whole(0)) = Whole(1)
  BY PlusZero, WholeIs DEF Reduced
<1>. QED
  BY <1>7, <1>9, <1>10, <1>11 DEF Normalizer, adjusted

\* Rates of an evaluation: counts, of which that of a group may be empty.
CountRate == [num : Nat, den : Nat]

Evaluated(e) ==
  /\ \A group \in {"unprivileged", "privileged"} : e.tpr[group] \in CountRate
  /\ e.accuracy \in CountRate /\ e.accuracy.den > 0

LEMMA CountRateDefined ==
  ASSUME NEW r \in CountRate, Defined(r)
  PROVE  r \in Fraction
BY DEF CountRate, Fraction, Defined

LEMMA PooledRateIs ==
  ASSUME NEW evals, NEW S, IsFiniteSet(S), \A c \in S : Evaluated(evals[c]),
         NEW group \in {"unprivileged", "privileged"}
  PROVE  PooledRate(evals, S, group) \in CountRate
<1>. DEFINE nums == [c \in S |-> evals[c].tpr[group].num]
            dens == [c \in S |-> evals[c].tpr[group].den]
<1>1. Natural(nums, S) /\ Natural(dens, S)
  BY DEF Natural, Evaluated, CountRate
<1>2. PooledRate(evals, S, group) = Rate(SumFunctionOnSet(nums, S), SumFunctionOnSet(dens, S))
  BY DEF PooledRate
<1>. HIDE DEF nums, dens
<1>. QED
  BY <1>1, <1>2, SumOfNaturals DEF Rate, CountRate

LEMMA GlobalAccuracyIs ==
  ASSUME NEW evals, NEW S, IsFiniteSet(S), S # {}, \A c \in S : Evaluated(evals[c])
  PROVE  GlobalAccuracy(evals, S) \in Fraction
<1>. DEFINE nums == [c \in S |-> evals[c].accuracy.num]
            dens == [c \in S |-> evals[c].accuracy.den]
<1>1. Natural(nums, S) /\ Natural(dens, S) /\ \A c \in S : dens[c] > 0
  BY DEF Natural, Evaluated, CountRate
<1>2. GlobalAccuracy(evals, S) = Rate(SumFunctionOnSet(nums, S), SumFunctionOnSet(dens, S))
  BY DEF GlobalAccuracy
<1>. HIDE DEF nums, dens
<1>3. SumFunctionOnSet(dens, S) > 0
  <2>1. PICK y \in S : TRUE
    OBVIOUS
  <2>2. \A x \in S : dens[x] \in Nat
    BY <1>1 DEF Natural
  <2>3. dens[y] > 0
    BY <1>1
  <2>. QED
    BY <2>2, <2>3, SumPositive
<1>. QED
  BY <1>1, <1>2, <1>3, SumOfNaturals DEF Rate, Fraction

LEMMA GapIs ==
  ASSUME NEW u \in CountRate, NEW p \in CountRate
  PROVE  Defined(Gap(u, p)) => Gap(u, p) \in Fraction
<1>1. ~Defined(Undefined)
  BY DEF Defined, Undefined, Rate
<1>2. CASE Defined(u) /\ Defined(p)
  BY <1>2, CountRateDefined, MinusIs DEF Gap
<1>3. CASE ~(Defined(u) /\ Defined(p))
  BY <1>1, <1>3 DEF Gap
<1>. QED
  BY <1>2, <1>3

LEMMA DifferenceIs ==
  ASSUME NEW a, NEW b, Defined(a) => a \in Fraction, Defined(b) => b \in Fraction
  PROVE  /\ Defined(Difference(a, b)) => Difference(a, b) \in Fraction
         /\ Defined(a) /\ Defined(b) => Defined(Difference(a, b))
<1>1. ~Defined(Undefined)
  BY DEF Defined, Undefined, Rate
<1>2. CASE Defined(a) /\ Defined(b)
  <2>1. PICK m \in Fraction : m = Minus(a, b)
    BY <1>2, MinusIs
  <2>2. m.num \in Int /\ m.den \in Nat \ {0}
    BY DEF Fraction
  <2>3. Abs(m.num) \in Int
    BY <2>2 DEF Abs
  <2>4. Difference(a, b) = Rate(Abs(m.num), m.den)
    BY <1>2, <2>1 DEF Difference, Magnitude
  <2>. QED
    BY <2>2, <2>3, <2>4 DEF Fraction, Rate, Defined
<1>3. CASE ~(Defined(a) /\ Defined(b))
  BY <1>1, <1>3 DEF Difference
<1>. QED
  BY <1>2, <1>3

\* The distance of a client is always a number.
LEMMA DeltaIs ==
  ASSUME NEW evals, NEW S, IsFiniteSet(S), \A c \in S : Evaluated(evals[c]),
         NEW c \in S
  PROVE  Delta(evals, S, c) \in Fraction
<1>1. ~Defined(Undefined)
  BY DEF Defined, Undefined, Rate
<1>2. PICK g : g = GlobalEOD(evals, S)
  OBVIOUS
<1>3. PICK l : l = LocalEOD(evals[c])
  OBVIOUS
<1>4. Defined(g) => g \in Fraction
  <2>1. /\ PooledRate(evals, S, "unprivileged") \in CountRate
        /\ PooledRate(evals, S, "privileged") \in CountRate
    BY PooledRateIs
  <2>. QED
    BY <1>2, <2>1, GapIs DEF GlobalEOD
<1>5. Defined(l) => l \in Fraction
  <2>1. /\ evals[c].tpr["unprivileged"] \in CountRate
        /\ evals[c].tpr["privileged"] \in CountRate
    BY DEF Evaluated
  <2>2. PICK gap : gap = Gap(evals[c].tpr["unprivileged"], evals[c].tpr["privileged"])
    OBVIOUS
  <2>3. Defined(gap) => gap \in Fraction
    BY <2>1, <2>2, GapIs
  <2>4. l = gap \/ l = Undefined
    BY <1>3, <2>2 DEF LocalEOD
  <2>. QED
    BY <1>1, <2>3, <2>4
<1>6. Defined(Difference(g, l)) => Difference(g, l) \in Fraction
  BY <1>4, <1>5, DifferenceIs
<1>7. PICK a : a = GlobalAccuracy(evals, S)
  OBVIOUS
<1>8. PICK b : b = evals[c].accuracy
  OBVIOUS
<1>9. a \in Fraction /\ b \in Fraction
  <2>1. a \in Fraction
    BY <1>7, GlobalAccuracyIs
  <2>2. b \in CountRate /\ Defined(b)
    BY <1>8 DEF Evaluated, Defined
  <2>. QED
    BY <2>1, <2>2, CountRateDefined
<1>10. Difference(a, b) \in Fraction
  <2>1. Defined(a) /\ Defined(b)
    BY <1>9 DEF Fraction, Defined
  <2>. QED
    BY <1>9, <2>1, DifferenceIs
<1>. QED
  BY <1>2, <1>3, <1>6, <1>7, <1>8, <1>10 DEF Delta

\* The parameters sent, and clients all of which sent numbers.
Parameters(sent, S) == {sent[c].parameters : c \in S}

Trained(sent, S) == \A c \in S : sent[c].parameters \in Fraction

LEMMA ParametersFinite ==
  ASSUME NEW sent, NEW S, IsFiniteSet(S), S # {}, Trained(sent, S)
  PROVE  /\ IsFiniteSet(Parameters(sent, S)) /\ Parameters(sent, S) # {}
         /\ Parameters(sent, S) \in SUBSET Fraction
<1>. DEFINE f == [c \in S |-> sent[c].parameters]
            P == Parameters(sent, S)
<1>1. f \in Surjection(S, P)
  BY DEF Surjection, Parameters
<1>2. IsFiniteSet(P)
  <2>. HIDE DEF f, P
  <2>. QED
    BY <1>1, FS_Surjection
<1>. QED
  BY <1>2 DEF Parameters, Trained

\* A mean weighted by samples stays between the parameters.
LEMMA MeanBetween ==
  ASSUME NEW sent, NEW S, IsFiniteSet(S), S # {}, Counted(sent, S), Trained(sent, S)
  PROVE  /\ \E c \in S : Leq(sent[c].parameters, FedAvg(sent, S))
         /\ \E c \in S : Leq(FedAvg(sent, S), sent[c].parameters)
<1>. DEFINE wholes == [c \in S |-> Whole(sent[c].samples)]
            products == [c \in S |-> Times(Whole(sent[c].samples), sent[c].parameters)]
            total == SumOver(products, S)
            at(v) == [c \in S |-> Times(v, wholes[c])]
<1>1. PICK n \in Nat : n > 0 /\ Samples(sent, S) = Whole(n)
  BY SamplesPositive
<1>2. SumOver(wholes, S) = Whole(n) /\ FedAvg(sent, S) = Over(total, Whole(n))
  BY <1>1 DEF Samples, FedAvg
<1>3. \A c \in S : /\ wholes[c] \in Fraction /\ wholes[c].num >= 0
                   /\ products[c] = Times(wholes[c], sent[c].parameters)
  BY WholeIs DEF Counted
<1>. HIDE DEF wholes
<1>4. Fractional(products, S)
  BY <1>3, TimesIs DEF Fractional, Trained
<1>5. total \in Fraction
  BY <1>4, SumOverStep DEF Fractional
<1>. HIDE DEF products, total
<1>6. ASSUME NEW v \in Fraction
      PROVE  SumOver(at(v), S) = Times(Whole(n), v) /\ Fractional(at(v), S)
  <2>1. \A c \in S : wholes[c] \in Fraction /\ at(v)[c] = Times(v, wholes[c])
    BY <1>3
  <2>2. Fractional(at(v), S)
    BY <1>3, <2>1, TimesIs DEF Fractional
  <2>. HIDE DEF at
  <2>3. SumOver(at(v), S) = Times(v, SumOver(wholes, S))
    BY <2>1, SumOverTimes
  <2>4. Times(v, Whole(n)) = Times(Whole(n), v)
    BY WholeIs, TimesCommutes
  <2>. QED
    BY <1>2, <2>2, <2>3, <2>4
<1>7. \A c \in S, v \in Fraction : at(v)[c] = Times(wholes[c], v)
  BY <1>3, TimesCommutes
<1>. HIDE DEF at
<1>8. \E c \in S : Leq(sent[c].parameters, Over(total, Whole(n)))
  <2>1. PICK low \in Parameters(sent, S) : \A x \in Parameters(sent, S) : Leq(low, x)
    BY ParametersFinite, SmallestExists
  <2>2. PICK c \in S : low = sent[c].parameters
    BY <2>1 DEF Parameters
  <2>3. low \in Fraction
    BY <2>2 DEF Trained
  <2>4. \A d \in S : Leq(at(low)[d], products[d])
    <3>. SUFFICES ASSUME NEW d \in S PROVE Leq(at(low)[d], products[d])
      OBVIOUS
    <3>1. sent[d].parameters \in Fraction /\ Leq(low, sent[d].parameters)
      BY <2>1 DEF Parameters, Trained
    <3>2. at(low)[d] = Times(wholes[d], low) /\ products[d] = Times(wholes[d], sent[d].parameters)
      BY <1>3, <1>7, <2>3
    <3>. QED
      BY <1>3, <2>3, <3>1, <3>2, TimesMonotone
  <2>5. Leq(Times(Whole(n), low), total)
    BY <1>4, <1>6, <2>3, <2>4, SumOverMonotone DEF total
  <2>6. Leq(low, Over(total, Whole(n)))
    BY <1>1, <1>5, <2>3, <2>5, LeqOver
  <2>. QED
    BY <2>2, <2>6
<1>9. \E c \in S : Leq(Over(total, Whole(n)), sent[c].parameters)
  <2>1. PICK high \in Parameters(sent, S) : \A x \in Parameters(sent, S) : Leq(x, high)
    BY ParametersFinite, LargestExists
  <2>2. PICK c \in S : high = sent[c].parameters
    BY <2>1 DEF Parameters
  <2>3. high \in Fraction
    BY <2>2 DEF Trained
  <2>4. \A d \in S : Leq(products[d], at(high)[d])
    <3>. SUFFICES ASSUME NEW d \in S PROVE Leq(products[d], at(high)[d])
      OBVIOUS
    <3>1. sent[d].parameters \in Fraction /\ Leq(sent[d].parameters, high)
      BY <2>1 DEF Parameters, Trained
    <3>2. at(high)[d] = Times(wholes[d], high) /\ products[d] = Times(wholes[d], sent[d].parameters)
      BY <1>3, <1>7, <2>3
    <3>. QED
      BY <1>3, <2>3, <3>1, <3>2, TimesMonotone
  <2>5. Leq(total, Times(Whole(n), high))
    BY <1>4, <1>6, <2>3, <2>4, SumOverMonotone DEF total
  <2>6. Leq(Over(total, Whole(n)), high)
    BY <1>1, <1>5, <2>3, <2>5, LeqOver
  <2>. QED
    BY <2>2, <2>6
<1>. QED
  BY <1>2, <1>8, <1>9

\* Who is at most v, and who is less.
AtMost(sent, S, v) == {c \in S : Leq(sent[c].parameters, v)}

Under(sent, S, v) == {c \in S : Less(sent[c].parameters, v)}

\* v is the k-th smallest parameter.
HasRank(sent, S, k, v) ==
  /\ v \in Parameters(sent, S)
  /\ Cardinality(Under(sent, S, v)) < k
  /\ Cardinality(AtMost(sent, S, v)) >= k

\* There is a parameter of every rank: the smallest of those that at least k
\* clients do not exceed.
LEMMA RankExists ==
  ASSUME NEW sent, NEW S, IsFiniteSet(S), S # {}, Trained(sent, S),
         NEW k \in Nat, 1 <= k, k <= Cardinality(S)
  PROVE  \E v : HasRank(sent, S, k, v)
<1>. DEFINE P == Parameters(sent, S)
            Enough == {v \in P : Cardinality(AtMost(sent, S, v)) >= k}
<1>1. IsFiniteSet(P) /\ P # {} /\ P \in SUBSET Fraction
  BY ParametersFinite
<1>2. Enough # {}
  <2>1. PICK high \in P : \A x \in P : Leq(x, high)
    BY <1>1, LargestExists
  <2>2. AtMost(sent, S, high) = S
    BY <2>1 DEF AtMost, Parameters
  <2>3. Cardinality(AtMost(sent, S, high)) >= k
    BY <2>2, FS_CardinalityType
  <2>. QED
    BY <2>3
<1>3. IsFiniteSet(Enough) /\ Enough \in SUBSET Fraction
  <2>1. Enough \subseteq P
    OBVIOUS
  <2>. HIDE DEF Enough, P
  <2>. QED
    BY <1>1, <2>1, FS_Subset
<1>4. PICK v \in Enough : \A x \in Enough : Leq(v, x)
  <2>. HIDE DEF Enough
  <2>. QED
    BY <1>2, <1>3, SmallestExists
<1>5. v \in P /\ v \in Fraction /\ Cardinality(AtMost(sent, S, v)) >= k
  BY <1>1, <1>4
<1>6. Cardinality(Under(sent, S, v)) < k
  <2>. DEFINE U == Under(sent, S, v)
  <2>. SUFFICES ASSUME ~(Cardinality(U) < k) PROVE FALSE
    OBVIOUS
  <2>1. IsFiniteSet(U) /\ U \in SUBSET S /\ Cardinality(U) \in Nat
    <3>1. U \in SUBSET S
      BY DEF Under
    <3>. HIDE DEF U
    <3>. QED
      BY <3>1, CountsIn
  <2>2. U # {}
    BY <2>1, FS_EmptySet
  <2>3. Trained(sent, U)
    BY <2>1 DEF Trained
  <2>4. PICK w \in Parameters(sent, U) : \A x \in Parameters(sent, U) : Leq(x, w)
    <3>1. /\ IsFiniteSet(Parameters(sent, U)) /\ Parameters(sent, U) # {}
          /\ Parameters(sent, U) \in SUBSET Fraction
      <4>. HIDE DEF U
      <4>. QED
        BY <2>1, <2>2, <2>3, ParametersFinite
    <3>. HIDE DEF U
    <3>. QED
      BY <3>1, LargestExists
  <2>5. PICK c \in U : w = sent[c].parameters
    BY <2>4 DEF Parameters
  <2>6. w \in P /\ w \in Fraction /\ ~Leq(v, w)
    BY <1>1, <2>1, <2>5 DEF Parameters, Under, Less
  <2>7. U \subseteq AtMost(sent, S, w)
    <3>1. \A d \in U : d \in S /\ Leq(sent[d].parameters, w)
      <4>. HIDE DEF U
      <4>. QED
        BY <2>1, <2>4 DEF Parameters
    <3>. HIDE DEF U
    <3>. QED
      BY <3>1 DEF AtMost
  <2>8. Cardinality(AtMost(sent, S, w)) >= k
    <3>1. AtMost(sent, S, w) \in SUBSET S
      BY DEF AtMost
    <3>2. IsFiniteSet(AtMost(sent, S, w)) /\ Cardinality(AtMost(sent, S, w)) \in Nat
      BY <3>1, CountsIn
    <3>. HIDE DEF U
    <3>3. Cardinality(U) <= Cardinality(AtMost(sent, S, w))
      BY <2>7, <3>2, FS_Subset
    <3>. QED
      BY <2>1, <3>2, <3>3
  <2>9. w \in Enough
    BY <2>6, <2>8
  <2>. HIDE DEF Enough
  <2>. QED
    BY <1>4, <2>6, <2>9
<1>. QED
  BY <1>5, <1>6 DEF HasRank

\* The parameter Ranked chooses is one of that rank.
LEMMA RankedIs ==
  ASSUME NEW sent, NEW S, IsFiniteSet(S), S # {}, Trained(sent, S),
         NEW k \in Nat, 1 <= k, k <= Cardinality(S)
  PROVE  HasRank(sent, S, k, Ranked(sent, S, k)) /\ Ranked(sent, S, k) \in Fraction
<1>1. Ranked(sent, S, k) = CHOOSE v \in Parameters(sent, S) :
        /\ Cardinality(Under(sent, S, v)) < k
        /\ Cardinality(AtMost(sent, S, v)) >= k
  BY DEF Ranked, Parameters, Under, AtMost
<1>2. PICK v : HasRank(sent, S, k, v)
  BY RankExists
<1>3. HasRank(sent, S, k, Ranked(sent, S, k))
  BY <1>1, <1>2 DEF HasRank
<1>4. Parameters(sent, S) \in SUBSET Fraction
  BY ParametersFinite
<1>. QED
  BY <1>3, <1>4 DEF HasRank

LEMMA RankedMonotone ==
  ASSUME NEW sent, NEW S, IsFiniteSet(S), S # {}, Trained(sent, S),
         NEW j \in Nat, NEW k \in Nat, j <= k,
         NEW v \in Fraction, NEW w \in Fraction, HasRank(sent, S, j, v), HasRank(sent, S, k, w)
  PROVE  Leq(v, w)
<1>. SUFFICES ASSUME ~Leq(v, w) PROVE FALSE
  OBVIOUS
<1>. DEFINE A == AtMost(sent, S, w)
            U == Under(sent, S, v)
<1>1. A \in SUBSET S /\ U \in SUBSET S
  BY DEF AtMost, Under
<1>2. A \subseteq U
  <2>. SUFFICES ASSUME NEW c \in S, Leq(sent[c].parameters, w), Leq(v, sent[c].parameters)
                PROVE  FALSE
    BY DEF AtMost, Under, Less
  <2>1. sent[c].parameters \in Fraction
    BY DEF Trained
  <2>. QED
    BY <2>1, LeqTransitive
<1>3. Cardinality(U) < j /\ Cardinality(A) >= k
  BY DEF HasRank
<1>. HIDE DEF A, U
<1>4. IsFiniteSet(U) /\ Cardinality(U) \in Nat /\ Cardinality(A) \in Nat
  BY <1>1, CountsIn
<1>5. Cardinality(A) <= Cardinality(U)
  BY <1>2, <1>4, FS_Subset
<1>. QED
  BY <1>3, <1>4, <1>5

\* The middle ranks, of which there are two when the number of clients is even.
LEMMA MiddleRanks ==
  ASSUME NEW n \in Nat, n > 0
  PROVE  /\ (n + 1) \div 2 \in Nat /\ 1 <= (n + 1) \div 2 /\ (n + 1) \div 2 <= n
         /\ n \div 2 + 1 \in Nat /\ 1 <= n \div 2 + 1 /\ n \div 2 + 1 <= n
         /\ (n + 1) \div 2 <= n \div 2 + 1
         /\ (n + 1) \div 2 + n \div 2 = n /\ n <= 2 * ((n + 1) \div 2)
OBVIOUS

\* With a median a minority M cannot move the result beyond what the others sent.
LEMMA MedianBetween ==
  ASSUME NEW sent, NEW S, IsFiniteSet(S), S # {}, Trained(sent, S), NEW M,
         2 * Cardinality(S \cap M) < Cardinality(S)
  PROVE  /\ \E c \in S \ M : Leq(sent[c].parameters, CoordinateMedian(sent, S))
         /\ \E c \in S \ M : Leq(CoordinateMedian(sent, S), sent[c].parameters)
<1>1. PICK n \in Nat : n = Cardinality(S) /\ n > 0
  <2>1. Cardinality(S) \in Nat /\ Cardinality(S) # 0
    BY FS_CardinalityType, FS_EmptySet
  <2>. QED
    BY <2>1
<1>2. PICK lo \in Nat, hi \in Nat : lo = (n + 1) \div 2 /\ hi = n \div 2 + 1
  BY <1>1, MiddleRanks
<1>3. 1 <= lo /\ lo <= n /\ 1 <= hi /\ hi <= n /\ lo <= hi /\ lo + hi = n + 1 /\ n <= 2 * lo
  BY <1>1, <1>2, MiddleRanks
<1>4. PICK v \in Fraction : v = Ranked(sent, S, lo) /\ HasRank(sent, S, lo, v)
  BY <1>1, <1>3, RankedIs
<1>5. PICK w \in Fraction : w = Ranked(sent, S, hi) /\ HasRank(sent, S, hi, w)
  BY <1>1, <1>3, RankedIs
<1>6. PICK m \in Fraction : m = Over(Plus(v, w), Whole(2)) /\ Leq(v, m) /\ Leq(m, w)
  BY <1>3, <1>4, <1>5, RankedMonotone, MidBetween
<1>7. CoordinateMedian(sent, S) = m
  BY <1>1, <1>2, <1>4, <1>5, <1>6 DEF CoordinateMedian
<1>8. PICK bad \in SUBSET S : bad = S \cap M
  OBVIOUS
<1>9. Cardinality(bad) \in Nat /\ IsFiniteSet(bad) /\ Cardinality(bad) < lo
  <2>1. Cardinality(bad) \in Nat /\ IsFiniteSet(bad)
    BY CountsIn
  <2>2. 2 * Cardinality(bad) < n
    BY <1>1, <1>8
  <2>. QED
    BY <1>3, <2>1, <2>2
<1>10. \E c \in S \ M : Leq(sent[c].parameters, m)
  <2>1. PICK A \in SUBSET S : A = AtMost(sent, S, v)
    BY DEF AtMost
  <2>2. Cardinality(A) \in Nat /\ Cardinality(A) >= lo
    BY <1>4, <2>1, CountsIn DEF HasRank
  <2>3. ~(A \subseteq bad)
    <3>. SUFFICES ASSUME A \subseteq bad PROVE FALSE
      OBVIOUS
    <3>1. Cardinality(A) <= Cardinality(bad)
      BY <1>9, FS_Subset
    <3>. QED
      BY <1>9, <2>2, <3>1
  <2>4. PICK c \in S \ M : Leq(sent[c].parameters, v)
    BY <1>8, <2>1, <2>3 DEF AtMost
  <2>5. sent[c].parameters \in Fraction
    BY DEF Trained
  <2>. QED
    BY <1>6, <2>4, <2>5, LeqTransitive
<1>11. \E c \in S \ M : Leq(m, sent[c].parameters)
  <2>1. PICK U \in SUBSET S : U = Under(sent, S, w)
    BY DEF Under
  <2>2. Cardinality(U) \in Nat /\ Cardinality(U) < hi
    BY <1>5, <2>1, CountsIn DEF HasRank
  <2>3. ~(S \ U \subseteq bad)
    <3>. SUFFICES ASSUME S \ U \subseteq bad PROVE FALSE
      OBVIOUS
    <3>1. Cardinality(S \ U) = n - Cardinality(U)
      <4>1. S \cap U = U
        OBVIOUS
      <4>. QED
        BY <1>1, <4>1, FS_Difference
    <3>2. Cardinality(S \ U) <= Cardinality(bad)
      BY <1>9, FS_Subset
    <3>. QED
      BY <1>3, <1>9, <2>2, <3>1, <3>2
  <2>4. PICK c \in S \ M : Leq(w, sent[c].parameters)
    BY <1>8, <2>1, <2>3 DEF Under, Less
  <2>5. sent[c].parameters \in Fraction
    BY DEF Trained
  <2>. QED
    BY <1>6, <2>4, <2>5, LeqTransitive
<1>. QED
  BY <1>7, <1>10, <1>11

-----------------------------------------------------------------------------
(* What a round has received                                               *)

\* An update of a client: those of the valid clients, and only those, are valid, and
\* they count the samples of the client's split.
Submitted(u, c, s) ==
  /\ DOMAIN u = {"parameters", "samples", "valid", "checks"}
  /\ u.valid <=> c \in s.valid
  /\ c \in s.valid => u.samples = s.sizes[c] /\ u.parameters \in Fraction \cup {Undefined}

\* There is an update of every client trained so far, and only an execution with an
\* adapter decides on them.
UpdatesComplete ==
  /\ setup \in Setup /\ next \in Nat
  /\ \A c \in DOMAIN updates : Submitted(updates[c], c, setup)
  /\ stage = "training" => \A c \in Clients : c < next => c \in DOMAIN updates
  /\ stage \in {"deciding", "aggregating"} => Clients \subseteq DOMAIN updates
  /\ stage = "deciding" => setup.method \in {"B4", "B7"}

\* In an execution of B5 every valid client trained so far has been evaluated.
EvaluationsComplete ==
  setup.method = "B5" =>
    /\ \A c \in DOMAIN evaluations : evaluations[c] \in Evaluation
    /\ stage = "training" => \A c \in setup.valid : c < next => c \in DOMAIN evaluations
    /\ stage = "aggregating" => setup.valid \subseteq DOMAIN evaluations

\* The weights carried from round to round are numbers, belong to the valid clients
\* and sum to one; and its aggregation raises for nothing but parameters that are not
\* finite.
WeightsNormalized ==
  /\ raw # NoRound => /\ setup.method = "B5" /\ raw \in [setup.valid -> Fraction]
                      /\ Normalizer(raw) = Whole(1)
  /\ stage = "aggregation_error" /\ setup.method = "B5" =>
       \E c \in setup.valid : ~Defined(updates[c].parameters)

ReceivedInv == UpdatesComplete /\ EvaluationsComplete

LEMMA SetupIs ==
  ASSUME NEW s \in Setup
  PROVE  /\ IsFiniteSet(s.valid) /\ s.valid \subseteq DOMAIN s.sizes
         /\ \A c \in s.valid : c \in Nat /\ c >= 1 /\ s.sizes[c] \in Nat \ {0}
         /\ s.trains \subseteq Int
         /\ s.method \in {"B0", "B1", "B2", "B3", "B4", "B5", "B6", "B7"}
<1>1. /\ IsFiniteSet(DOMAIN s.sizes) /\ DOMAIN s.sizes = 1 .. Cardinality(DOMAIN s.sizes)
      /\ s.valid \subseteq DOMAIN s.sizes /\ s.trains \subseteq Int
      /\ \A c \in DOMAIN s.sizes : s.sizes[c] \in Nat \ {0}
      /\ s.method \in {"B0", "B1", "B2", "B3", "B4", "B5", "B6", "B7"}
  BY SetupAssumption
<1>2. PICK n \in Nat : n = Cardinality(DOMAIN s.sizes)
  BY <1>1, FS_CardinalityType
<1>3. IsFiniteSet(s.valid)
  BY <1>1, FS_Subset
<1>4. \A c \in 1 .. n : c \in Nat /\ c >= 1
  OBVIOUS
<1>. QED
  BY <1>1, <1>2, <1>3, <1>4

\* What a client sends is a number or is not finite, whatever its attack.
LEMMA ReturnedIs ==
  ASSUME setup \in Setup, NEW c, NEW p \in Returned(c)
  PROVE  p \in Fraction \cup {Undefined}
<1>1. PICK t \in {Whole(v) : v \in setup.trains} \cup {Undefined} : p \in Sent(c, t)
  BY DEF Returned
<1>2. \A v \in setup.trains : Whole(v) \in Fraction
  BY SetupIs, WholeIs
<1>3. t \in Fraction \cup {Undefined}
  BY <1>1, <1>2
<1>4. Negative(t) \in Fraction \cup {Undefined}
  BY <1>3 DEF Negative, Fraction, Undefined, Rate
<1>. QED
  BY <1>1, <1>2, <1>3, <1>4 DEF Sent

LEMMA ClientUpdateIs ==
  ASSUME setup \in Setup, NEW c, NEW u \in ClientUpdate(c)
  PROVE  Submitted(u, c, setup)
<1>1. CASE c \in setup.valid
  <2>1. PICK p \in Returned(c), d \in Decisions :
          u = [parameters |-> p, samples |-> setup.sizes[c], valid |-> TRUE, checks |-> d]
    BY <1>1 DEF ClientUpdate
  <2>2. p \in Fraction \cup {Undefined}
    BY ReturnedIs
  <2>. QED
    BY <1>1, <2>1, <2>2 DEF Submitted
<1>2. CASE c \notin setup.valid
  <2>1. u = [parameters |-> global, samples |-> setup.sizes[c], valid |-> FALSE, checks |-> {}]
    BY <1>2 DEF ClientUpdate
  <2>. QED
    BY <1>2, <2>1 DEF Submitted
<1>. QED
  BY <1>1, <1>2

\* A decision changes the checks of an update and nothing else.
LEMMA DecidedIs ==
  ASSUME NEW u, NEW c, NEW s, Submitted(u, c, s), NEW k
  PROVE  Submitted([u EXCEPT !.checks = k], c, s)
BY DEF Submitted

LEMMA ReceivedInit ==
  ASSUME Init
  PROVE  ReceivedInv /\ WeightsNormalized
<1>1. /\ setup \in Setup /\ next = 1 /\ updates = NoRound /\ evaluations = NoRound
      /\ raw = NoRound /\ stage \in {"staging", "training"}
  BY DEF Init
<1>2. DOMAIN NoRound = {}
  BY DEF NoRound
<1>3. (\A c \in setup.valid : ~(c < 1)) /\ \A c \in Clients : ~(c < 1)
  BY <1>1, SetupIs, ClientsNumbered DEF Clients
<1>4. UpdatesComplete
  BY <1>1, <1>2, <1>3 DEF UpdatesComplete
<1>5. EvaluationsComplete
  BY <1>1, <1>2, <1>3 DEF EvaluationsComplete
<1>6. WeightsNormalized
  BY <1>1 DEF WeightsNormalized
<1>. QED
  BY <1>4, <1>5, <1>6 DEF ReceivedInv

LEMMA ReceivedFromClient ==
  ASSUME ReceivedInv, TrainClient
  PROVE  ReceivedInv'
<1>1. PICK s \in Setup : s = setup
  BY DEF ReceivedInv, UpdatesComplete
<1>2. /\ setup' = s /\ stage = "training" /\ next \in Nat /\ next' = next + 1
  BY <1>1 DEF TrainClient, ReceivedInv, UpdatesComplete
<1>3. PICK n \in Nat : Cardinality(Clients) = n /\ Clients = 1 .. n
  BY <1>1, ClientsNumbered
<1>4. Clients' = 1 .. n /\ s.valid \subseteq 1 .. n
  BY <1>1, <1>2, <1>3, SetupIs DEF Clients
<1>5. /\ stage' \in {"training", "deciding", "aggregating"}
      /\ stage' # "training" => ~(next < n)
      /\ stage' = "deciding" => s.method \in {"B4", "B7"}
  BY <1>1, <1>2, <1>3 DEF TrainClient
<1>6. \A c \in 1 .. n : c < next + 1 => c = next \/ c < next
  BY <1>2
<1>7. stage' # "training" => \A c \in 1 .. n : c < next + 1
  BY <1>2, <1>5
<1>8. UpdatesComplete'
  <2>1. PICK u \in ClientUpdate(next) : updates' = With(updates, next, u)
    BY DEF TrainClient
  <2>2. Submitted(u, next, s)
    BY <1>1, ClientUpdateIs
  <2>3. /\ \A c \in DOMAIN updates : Submitted(updates[c], c, s)
        /\ \A c \in 1 .. n : c < next => c \in DOMAIN updates
    BY <1>1, <1>2, <1>3 DEF ReceivedInv, UpdatesComplete
  <2>4. /\ DOMAIN updates' = DOMAIN updates \cup {next} /\ updates'[next] = u
        /\ \A c \in DOMAIN updates : c # next => updates'[c] = updates[c]
    BY <2>1 DEF With
  <2>5. \A c \in DOMAIN updates' : Submitted(updates'[c], c, s)
    BY <2>2, <2>3, <2>4
  <2>6. \A c \in 1 .. n : c < next + 1 => c \in DOMAIN updates'
    BY <1>6, <2>3, <2>4
  <2>. QED
    BY <1>2, <1>4, <1>5, <1>7, <2>5, <2>6 DEF UpdatesComplete
<1>9. EvaluationsComplete'
  <2>. SUFFICES ASSUME s.method = "B5" PROVE EvaluationsComplete'
    BY <1>2 DEF EvaluationsComplete
  <2>1. /\ \A c \in DOMAIN evaluations : evaluations[c] \in Evaluation
        /\ \A c \in s.valid : c < next => c \in DOMAIN evaluations
    BY <1>1, <1>2 DEF ReceivedInv, EvaluationsComplete
  <2>2. /\ \A c \in DOMAIN evaluations' : evaluations'[c] \in Evaluation
        /\ \A c \in s.valid : c < next + 1 => c \in DOMAIN evaluations'
    <3>1. CASE next \in s.valid
      <4>1. PICK e \in Evaluation : evaluations' = With(evaluations, next, e)
        BY <1>1, <3>1 DEF TrainClient, EvaluateGlobal
      <4>2. /\ DOMAIN evaluations' = DOMAIN evaluations \cup {next} /\ evaluations'[next] = e
            /\ \A c \in DOMAIN evaluations : c # next => evaluations'[c] = evaluations[c]
        BY <4>1 DEF With
      <4>. QED
        BY <1>4, <1>6, <2>1, <4>2
    <3>2. CASE next \notin s.valid
      <4>1. evaluations' = evaluations
        BY <1>1, <3>2 DEF TrainClient, EvaluateGlobal
      <4>. QED
        BY <1>4, <1>6, <2>1, <3>2, <4>1
    <3>. QED
      BY <3>1, <3>2
  <2>. QED
    BY <1>2, <1>4, <1>5, <1>7, <2>2 DEF EvaluationsComplete
<1>. QED
  BY <1>8, <1>9 DEF ReceivedInv

LEMMA ReceivedStep ==
  ASSUME ReceivedInv, [Next]_vars
  PROVE  ReceivedInv'
<1>1. PICK s \in Setup : s = setup /\ s = setup'
  BY SetupConstant DEF ReceivedInv, UpdatesComplete
<1>2. /\ Clients' = Clients
      /\ (\A c \in s.valid : ~(c < 1)) /\ (\A c \in Clients : ~(c < 1))
  BY <1>1, SetupConstant, SetupIs, ClientsNumbered
<1>3. DOMAIN NoRound = {}
  BY DEF NoRound
<1>4. CASE TrainClient
  BY <1>4, ReceivedFromClient
<1>5. CASE PrepareRound
  <2>1. PICK approved \in SUBSET setup.valid :
          updates' = [c \in Clients |->
            [updates[c] EXCEPT !.checks = IF c \in approved THEN Check ELSE {"decision_signed"}]]
    BY <1>5 DEF PrepareRound
  <2>2. /\ stage = "deciding" /\ stage' = "aggregating" /\ UNCHANGED <<next, evaluations>>
    BY <1>5 DEF PrepareRound
  <2>3. /\ s.method # "B5" /\ next \in Nat
        /\ \A c \in DOMAIN updates : Submitted(updates[c], c, s)
        /\ Clients \subseteq DOMAIN updates
    BY <1>1, <2>2 DEF ReceivedInv, UpdatesComplete
  <2>4. \A c \in Clients : Submitted(updates'[c], c, s)
    BY <2>1, <2>3, DecidedIs
  <2>5. DOMAIN updates' = Clients
    BY <2>1
  <2>6. UpdatesComplete'
    BY <1>1, <1>2, <2>2, <2>3, <2>4, <2>5 DEF UpdatesComplete
  <2>7. EvaluationsComplete'
    BY <1>1, <2>3 DEF EvaluationsComplete
  <2>. QED
    BY <2>6, <2>7 DEF ReceivedInv
<1>6. CASE RecordRound /\ round < Rounds
  <2>1. /\ stage' = "training" /\ next' = 1 /\ updates' = NoRound /\ evaluations' = NoRound
    BY <1>6 DEF RecordRound
  <2>2. UpdatesComplete'
    BY <1>1, <1>2, <1>3, <2>1 DEF UpdatesComplete
  <2>3. EvaluationsComplete'
    BY <1>1, <1>2, <1>3, <2>1 DEF EvaluationsComplete
  <2>. QED
    BY <2>2, <2>3 DEF ReceivedInv
<1>7. CASE StageBundle
  <2>1. /\ UNCHANGED <<updates, evaluations>> /\ next' \in Nat
        /\ stage' = "staging" \/ (stage' = "training" /\ next' = 1)
    BY <1>7 DEF StageBundle, ReceivedInv, UpdatesComplete
  <2>2. UpdatesComplete'
    BY <1>1, <1>2, <2>1 DEF ReceivedInv, UpdatesComplete
  <2>3. EvaluationsComplete'
    BY <1>1, <1>2, <2>1 DEF ReceivedInv, EvaluationsComplete
  <2>. QED
    BY <2>2, <2>3 DEF ReceivedInv
<1>8. CASE \/ Aggregate \/ AggregationRaises \/ PolicyRaises \/ SkipRound \/ Finish \/ CallFails
           \/ (RecordRound /\ ~(round < Rounds))
  <2>1. /\ stage' \in {"recording", "finishing", "done"} \cup Raised
        /\ UNCHANGED <<next, updates, evaluations>>
    BY <1>8 DEF Aggregate, AggregationRaises, PolicyRaises, CallFails, Raise, SkipRound, RecordRound,
      Finish, roundVars
  <2>. QED
    BY <1>1, <1>2, <2>1 DEF ReceivedInv, UpdatesComplete, EvaluationsComplete
<1>9. CASE UNCHANGED vars
  BY <1>1, <1>2, <1>9 DEF vars, roundVars, ReceivedInv, UpdatesComplete, EvaluationsComplete
<1>. QED
  BY <1>4, <1>5, <1>6, <1>7, <1>8, <1>9 DEF Next

-----------------------------------------------------------------------------
(* The weights of FairFed                                                  *)

\* The clients selected are valid, all of them for FairFed, and count samples.
LEMMA SelectedIs ==
  ASSUME UpdatesComplete
  PROVE  /\ Selected \subseteq setup.valid /\ IsFiniteSet(Selected)
         /\ Selected \subseteq DOMAIN updates
         /\ stage = "aggregating" /\ setup.method = "B5" => Selected = setup.valid
<1>1. \A c \in DOMAIN updates : updates[c].valid <=> c \in setup.valid
  BY DEF UpdatesComplete, Submitted
<1>2. setup.valid \subseteq Clients /\ IsFiniteSet(setup.valid)
  BY SetupIs DEF UpdatesComplete, Clients
<1>3. Selected \subseteq setup.valid /\ Selected \subseteq DOMAIN updates
  BY <1>1 DEF Selected, Eligible
<1>4. IsFiniteSet(Selected)
  BY <1>2, <1>3, FS_Subset
<1>5. ASSUME stage = "aggregating", setup.method = "B5" PROVE Selected = setup.valid
  <2>1. setup.valid \subseteq DOMAIN updates
    BY <1>2, <1>5 DEF UpdatesComplete
  <2>2. Selected = {c \in DOMAIN updates : updates[c].valid}
    BY <1>5 DEF Selected, Eligible, Required
  <2>. QED
    BY <1>1, <2>1, <2>2
<1>. QED
  BY <1>3, <1>4, <1>5

LEMMA SelectedCounted ==
  ASSUME UpdatesComplete
  PROVE  Counted(updates, Selected)
<1>1. \A c \in Selected : updates[c].samples = setup.sizes[c] /\ setup.sizes[c] \in Nat \ {0}
  BY SelectedIs, SetupIs DEF UpdatesComplete, Submitted
<1>. QED
  BY <1>1 DEF Counted

LEMMA EvaluatedIs ==
  ASSUME NEW e \in Evaluation
  PROVE  Evaluated(e)
<1>1. e \in [tpr : [{"unprivileged", "privileged"} -> [num : Nat, den : Nat]],
             accuracy : [num : Nat, den : Nat \ {0}], comparable : BOOLEAN]
  BY EvaluationAssumption
<1>. QED
  BY <1>1 DEF Evaluated, CountRate

\* The previous weights sum to one, and the adjustment keeps the sum.
LEMMA NextRawNormalized ==
  ASSUME ReceivedInv, WeightsNormalized, stage = "aggregating", setup.method = "B5",
         Selected # {}
  PROVE  NextRaw \in [setup.valid -> Fraction] /\ Normalizer(NextRaw) = Whole(1)
<1>1. PICK S : S = Selected
  OBVIOUS
<1>2. S = setup.valid /\ IsFiniteSet(S) /\ S # {} /\ Counted(updates, S)
  BY <1>1, SelectedIs, SelectedCounted DEF ReceivedInv
<1>3. \A c \in S : Evaluated(evaluations[c])
  BY <1>2, EvaluatedIs DEF ReceivedInv, EvaluationsComplete
<1>4. PICK deltas : deltas = [c \in S |-> Delta(evaluations, S, c)]
  OBVIOUS
<1>5. Fractional(deltas, S)
  <2>1. \A c \in S : Delta(evaluations, S, c) \in Fraction
    BY <1>2, <1>3, DeltaIs
  <2>. QED
    BY <1>4, <2>1 DEF Fractional
<1>6. Beta \in Fraction
  BY BetaAssumption DEF Fraction
<1>7. PICK previous : previous = PreviousWeights(S)
  OBVIOUS
<1>8. DOMAIN previous = S /\ Fractional(previous, S) /\ SumOver(previous, S) = Whole(1)
  <2>1. CASE raw = NoRound
    <3>1. previous = SampleShares(updates, S)
      BY <1>7, <2>1 DEF PreviousWeights
    <3>. QED
      BY <1>2, <3>1, SharesNormalized
  <2>2. CASE raw # NoRound
    <3>1. raw \in [S -> Fraction] /\ Normalizer(raw) = Whole(1)
      BY <1>2, <2>2 DEF WeightsNormalized
    <3>2. previous = raw
      BY <1>7, <2>2, <3>1 DEF PreviousWeights
    <3>. QED
      BY <3>1, <3>2 DEF Fractional, Normalizer
  <2>. QED
    BY <2>1, <2>2
<1>9. NextRaw = RawWeights(previous, deltas, Beta)
  BY <1>1, <1>4, <1>7 DEF NextRaw
<1>. QED
  BY <1>2, <1>5, <1>6, <1>8, <1>9, RawWeightsNormalized

\* A weight is there for every client selected, and the weights can be normalized.
LEMMA WeightsNeverFail ==
  ASSUME ReceivedInv, WeightsNormalized, stage = "aggregating", setup.method = "B5"
  PROVE  WeightsUsable /\ (Selected # {} => Normalizer(NextRaw).num # 0)
<1>1. WeightsUsable
  BY SelectedIs DEF ReceivedInv, WeightsNormalized, WeightsUsable
<1>2. ASSUME Selected # {} PROVE Normalizer(NextRaw).num # 0
  <2>1. Normalizer(NextRaw) = Whole(1)
    BY <1>2, NextRawNormalized
  <2>. QED
    BY <2>1 DEF Whole, Rate
<1>. QED
  BY <1>1, <1>2

LEMMA WeightsStep ==
  ASSUME ReceivedInv, WeightsNormalized, [Next]_vars
  PROVE  WeightsNormalized'
<1>1. PICK s \in Setup : s = setup /\ s = setup'
  BY SetupConstant DEF ReceivedInv, UpdatesComplete
<1>2. CASE Aggregate
  <2>1. /\ stage = "aggregating" /\ stage' = "recording" /\ Selected # {}
        /\ raw' = IF s.method = "B5" THEN NextRaw ELSE raw
    BY <1>1, <1>2 DEF Aggregate
  <2>2. CASE s.method = "B5"
    <3>1. raw' = NextRaw
      BY <2>1, <2>2
    <3>2. NextRaw \in [s.valid -> Fraction] /\ Normalizer(NextRaw) = Whole(1)
      BY <1>1, <2>1, <2>2, NextRawNormalized
    <3>3. PICK w : w = NextRaw
      OBVIOUS
    <3>. QED
      BY <1>1, <2>1, <2>2, <3>1, <3>2, <3>3 DEF WeightsNormalized
  <2>3. CASE s.method # "B5"
    BY <1>1, <2>1, <2>3 DEF WeightsNormalized
  <2>. QED
    BY <2>2, <2>3
<1>3. CASE AggregationRaises
  <2>1. /\ stage = "aggregating" /\ Selected # {} /\ ~CanAggregate
        /\ UNCHANGED <<updates, raw>>
    BY <1>3 DEF AggregationRaises, Raise, roundVars
  <2>2. ASSUME s.method = "B5" PROVE \E c \in s.valid : ~Defined(updates[c].parameters)
    <3>1. ~Aggregable(updates, Selected)
      BY <1>1, <2>1, <2>2, WeightsNeverFail DEF CanAggregate
    <3>2. PICK c \in Selected : ~(updates[c].samples >= 1 /\ Defined(updates[c].parameters))
      BY <2>1, <3>1 DEF Aggregable
    <3>3. updates[c].samples >= 1
      BY <3>2, SelectedCounted DEF ReceivedInv, Counted
    <3>. QED
      BY <1>1, <3>2, <3>3, SelectedIs DEF ReceivedInv
  <2>. QED
    BY <1>1, <2>1, <2>2 DEF WeightsNormalized
<1>4. CASE PolicyRaises \/ CallFails
  <2>1. raw' = raw /\ stage' # "aggregation_error"
    BY <1>4 DEF PolicyRaises, CallFails, Raise
  <2>. QED
    BY <1>1, <2>1 DEF WeightsNormalized
<1>5. CASE StageBundle \/ TrainClient \/ PrepareRound \/ SkipRound \/ RecordRound \/ Finish
  <2>1. raw' = raw /\ stage' # "aggregation_error"
    BY <1>5 DEF StageBundle, TrainClient, PrepareRound, SkipRound, RecordRound, Finish
  <2>. QED
    BY <1>1, <2>1 DEF WeightsNormalized
<1>6. CASE UNCHANGED vars
  BY <1>1, <1>6 DEF vars, roundVars, WeightsNormalized
<1>. QED
  BY <1>2, <1>3, <1>4, <1>5, <1>6 DEF Next

\* However the clients' fairness differs from round to round, the weights of FairFed
\* sum to one and belong to the valid clients, no round lacks a previous weight, and
\* its aggregation raises only for parameters that are not finite (the policy, a worker
\* or the adapter may stop an execution besides): for any evaluations, beta, sizes,
\* numbers of clients and rounds.
THEOREM FairFedNormalized == Spec => []FairFedStaysNormalized
<1>1. Init => ReceivedInv /\ WeightsNormalized
  BY ReceivedInit
<1>2. ReceivedInv /\ WeightsNormalized /\ [Next]_vars => (ReceivedInv /\ WeightsNormalized)'
  BY ReceivedStep, WeightsStep
<1>3. ReceivedInv /\ WeightsNormalized => FairFedStaysNormalized
  BY WeightsNeverFail DEF WeightsNormalized, FairFedStaysNormalized
<1>. QED
  BY <1>1, <1>2, <1>3, PTL DEF Spec

-----------------------------------------------------------------------------
(* Attackers                                                               *)

\* What the two rules compute from updates that can be aggregated.
LEMMA AggregatedBetween ==
  ASSUME UpdatesComplete, Selected # {}, CanAggregate, setup.method # "B5"
  PROVE  /\ \E c \in Selected : Leq(updates[c].parameters, Aggregated)
         /\ \E c \in Selected : Leq(Aggregated, updates[c].parameters)
         /\ Aggregator(setup.method) = "coordinate_median"
              /\ 2 * Cardinality(Selected \cap setup.malicious) < Cardinality(Selected)
            => /\ \E c \in Selected \ setup.malicious : Leq(updates[c].parameters, Aggregated)
               /\ \E c \in Selected \ setup.malicious : Leq(Aggregated, updates[c].parameters)
<1>1. PICK S : S = Selected
  OBVIOUS
<1>2. IsFiniteSet(S) /\ S # {} /\ Counted(updates, S) /\ S \subseteq setup.valid
      /\ S \subseteq DOMAIN updates
  BY <1>1, SelectedIs, SelectedCounted
<1>3. Trained(updates, S)
  <2>1. \A c \in S : updates[c].parameters \in Fraction \cup {Undefined}
    BY <1>2 DEF UpdatesComplete, Submitted
  <2>2. \A c \in S : Defined(updates[c].parameters)
    BY <1>1 DEF CanAggregate, Aggregable
  <2>3. ~Defined(Undefined)
    BY DEF Defined, Undefined, Rate
  <2>. QED
    BY <2>1, <2>2, <2>3 DEF Trained
<1>4. PICK g : g = Aggregated
  OBVIOUS
<1>5. CASE Aggregator(setup.method) = "fedavg"
  <2>1. g = FedAvg(updates, S)
    BY <1>1, <1>4, <1>5 DEF Aggregated
  <2>2. /\ \E c \in S : Leq(updates[c].parameters, g)
        /\ \E c \in S : Leq(g, updates[c].parameters)
    BY <1>2, <1>3, <2>1, MeanBetween
  <2>. QED
    BY <1>1, <1>4, <1>5, <2>2
<1>6. CASE Aggregator(setup.method) = "coordinate_median"
  <2>1. g = CoordinateMedian(updates, S)
    BY <1>1, <1>4, <1>6 DEF Aggregated
  <2>2. ASSUME NEW M, 2 * Cardinality(S \cap M) < Cardinality(S)
        PROVE  /\ \E c \in S \ M : Leq(updates[c].parameters, g)
               /\ \E c \in S \ M : Leq(g, updates[c].parameters)
    BY <1>2, <1>3, <2>1, <2>2, MedianBetween
  <2>3. 2 * Cardinality(S \cap {}) < Cardinality(S)
    <3>1. S \cap {} = {} /\ Cardinality({}) = 0
      BY FS_EmptySet
    <3>2. Cardinality(S) \in Nat /\ Cardinality(S) # 0
      BY <1>2, FS_CardinalityType, FS_EmptySet
    <3>. QED
      BY <3>1, <3>2
  <2>4. /\ \E c \in S : Leq(updates[c].parameters, g)
        /\ \E c \in S : Leq(g, updates[c].parameters)
    BY <2>2, <2>3
  <2>. QED
    BY <1>1, <1>4, <2>2, <2>4
<1>7. Aggregator(setup.method) \in {"fedavg", "coordinate_median"}
  BY DEF Aggregator
<1>. QED
  BY <1>5, <1>6, <1>7

LEMMA AttackersStep ==
  ASSUME UpdatesComplete, AttackersBounded, [Next]_vars
  PROVE  AttackersBounded'
<1>1. PICK s : s = setup /\ s = setup'
  BY SetupConstant
<1>2. CASE Aggregate
  <2>1. /\ Selected # {} /\ CanAggregate /\ updates' = updates
        /\ global' = Aggregated /\ included' = Selected
    BY <1>2 DEF Aggregate, roundVars
  <2>2. PICK S, g : S = Selected /\ g = Aggregated
    OBVIOUS
  <2>3. s.method # "B5" =>
         /\ \E c \in S : Leq(updates[c].parameters, g)
         /\ \E c \in S : Leq(g, updates[c].parameters)
         /\ Aggregator(s.method) = "coordinate_median"
              /\ 2 * Cardinality(S \cap s.malicious) < Cardinality(S)
            => /\ \E c \in S \ s.malicious : Leq(updates[c].parameters, g)
               /\ \E c \in S \ s.malicious : Leq(g, updates[c].parameters)
    BY <1>1, <2>1, <2>2, AggregatedBetween
  <2>4. global' = g /\ included' = S
    BY <2>1, <2>2
  <2>. QED
    BY <1>1, <2>1, <2>3, <2>4 DEF AttackersBounded, Between
<1>3. CASE SkipRound
  BY <1>3 DEF SkipRound, AttackersBounded
<1>4. CASE UNCHANGED vars
  BY <1>4 DEF vars, roundVars, AttackersBounded, Between
<1>5. CASE ~Aggregate /\ ~SkipRound /\ ~UNCHANGED vars
  <2>1. CASE StageBundle
    BY <2>1 DEF StageBundle, AttackersBounded
  <2>2. CASE TrainClient
    BY <2>2 DEF TrainClient, AttackersBounded
  <2>3. CASE PrepareRound \/ Finish
    BY <2>3 DEF PrepareRound, Finish, AttackersBounded
  <2>4. CASE RecordRound
    BY <2>4 DEF RecordRound, AttackersBounded
  <2>5. CASE AggregationRaises \/ PolicyRaises \/ CallFails
    BY <2>5 DEF AggregationRaises, PolicyRaises, CallFails, Raise, AttackersBounded
  <2>. QED
    BY <1>5, <2>1, <2>2, <2>3, <2>4, <2>5 DEF Next
<1>. QED
  BY <1>2, <1>3, <1>4, <1>5

\* A mean stays between the parameters of the clients it includes, and a median with
\* fewer attackers than half its clients between those of the honest ones, for any
\* parameters, sizes, numbers of clients and rounds, and any attack.
THEOREM AttackersAreBounded == Spec => []AttackersBounded
<1>1. Init => ReceivedInv /\ AttackersBounded
  BY ReceivedInit DEF Init, AttackersBounded
<1>2. ReceivedInv /\ AttackersBounded /\ [Next]_vars => (ReceivedInv /\ AttackersBounded)'
  BY ReceivedStep, AttackersStep DEF ReceivedInv
<1>. QED
  BY <1>1, <1>2, PTL DEF Spec
=============================================================================
