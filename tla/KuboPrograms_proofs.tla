------------------------ MODULE KuboPrograms_proofs ------------------------
(***************************************************************************)
(* The two programs that drive Kubo by themselves: the legacy pipeline,    *)
(* for any number of nodes and of failing calls, and the recovery          *)
(* benchmark, for any number of repetitions.  They share no state.         *)
(***************************************************************************)
EXTENDS LegacyPipeline, KuboRecovery, Integers, TLAPS

-----------------------------------------------------------------------------
(***************************************************************************)
(* The legacy pipeline                                                     *)
(***************************************************************************)

LegacyTypeOK ==
  /\ config \in [api : BOOLEAN, binary : BOOLEAN, strict : BOOLEAN]
  /\ at \in Nat \ {0}
  /\ verified \subseteq Node
  /\ monitor \in {"none", "passed", "failed"}

\* A pin was asked for or reported without asking.
Pinned(artifact) ==
  artifact \in DOMAIN cids /\ \E report \in BOOLEAN : <<cids[artifact], report>> \in pins

\* With the HTTP API, what is reported as pinned is pinned.
PinsTruthful == config.api => \A p \in pins : p[2] => p[1] \in kuboPins

ManifestsPinned(n) == \A m \in Node : m < n => Pinned(<<"manifest", m>>)
ModelsPinned(n) == \A m \in verified : m < n => Pinned(<<"model", m>>)
ModelsPublished == \A n \in Node : <<"model", n>> \in DOMAIN cids

\* at counts the artifacts of all nodes in one row, six of each: a model comes
\* first and a manifest last.
PublishingInv ==
  /\ stage = "starting" => at = 1
  /\ stage \in {"proving", "publishing", "pinning_manifest"} =>
       /\ \A n \in Node : 6 * n - 5 < at => <<"model", n>> \in DOMAIN cids
       /\ \A n \in Node : 6 * n < at => <<"manifest", n>> \in DOMAIN cids
       /\ stage # "publishing" => (at - 1) % 6 = 0
       /\ IF stage = "pinning_manifest"
          THEN at > 1 /\ at <= 6 * NumNodes + 1 /\ ManifestsPinned(NodeAt - 1)
          ELSE at <= 6 * NumNodes /\ ManifestsPinned(NodeAt)

OnLedger == {"submitting", "closed", "comparing", "archiving", "completed"}
AfterNodes == {"pinning_models", "global_model", "report"} \cup OnLedger
AfterModels == AfterNodes \ {"pinning_models"}

\* Nothing goes on before what precedes it was pinned.
PinningInv ==
  /\ stage \in AfterNodes => ModelsPublished /\ ManifestsPinned(NumNodes + 1)
  /\ stage = "pinning_models" => at <= NumNodes + 1 /\ ModelsPinned(at)
  /\ stage \in AfterModels => aggregated = verified /\ ModelsPinned(NumNodes + 1)
  /\ stage \in AfterModels \ {"global_model"} => Pinned(<<"global_model", 0>>)
  /\ stage \in AfterModels \ {"global_model", "report"} => Pinned(<<"report", 0>>)

\* The script submits the nodes in order; the ledger's eligible models are the
\* verified ones it has got to.
SubmissionsInv ==
  /\ stage \in {"starting", "proving", "publishing", "pinning_manifest", "pinning_models",
                "global_model", "report"} =>
       records = {} /\ eligible = {}
  /\ stage = "submitting" =>
       /\ at <= NumNodes + 1 /\ records = {n \in Node : n < at}
       /\ eligible = {cids[<<"model", n>>] : n \in {m \in verified : m < at}}
  /\ stage \in OnLedger \ {"submitting"} => records = Node /\ eligible = ExpectedCids
  /\ stage \in {"archiving", "completed"} => published = ExpectedCids

MonitorInv ==
  /\ monitor # "none" => stage = "completed"
  /\ monitor = "passed" => config.api /\ \A p \in pins : p[2]

LegacyInv ==
  LegacyTypeOK /\ PinsTruthful /\ PublishingInv /\ PinningInv /\ SubmissionsInv /\ MonitorInv

LEMMA LegacyInit == Init => LegacyInv
BY DEF Init, LegacyInv, LegacyTypeOK, PinsTruthful, PublishingInv, PinningInv, SubmissionsInv,
   MonitorInv, OnLedger, AfterNodes, AfterModels

\* Publication gives an artifact a CID and leaves the other artifacts as they are.
LEMMA PutKeeps ==
  ASSUME NEW artifact, NEW content, Put(artifact, content), config' = config, PinsTruthful
  PROVE  /\ artifact \in DOMAIN cids' /\ DOMAIN cids \subseteq DOMAIN cids'
         /\ \A a : a # artifact /\ Pinned(a) => Pinned(a)'
         /\ PinsTruthful' /\ pins' = pins
BY DEF Put, Pinned, PinsTruthful

\* pin() reports on the artifact it is asked about, and truthfully with the API.
LEMMA PinPins ==
  ASSUME LegacyTypeOK, NEW artifact \in DOMAIN cids, Pin(artifact), config' = config, PinsTruthful
  PROVE  /\ Pinned(artifact)' /\ cids' = cids
         /\ \A a : Pinned(a) => Pinned(a)'
         /\ PinsTruthful'
<1> DEFINE cid == cids[artifact]
<1>1. PICK report \in BOOLEAN :
        /\ pins' = pins \cup {<<cid, report>>} /\ cids' = cids
        /\ kuboPins \subseteq kuboPins'
        /\ config.api /\ report => cid \in kuboPins'
  BY DEF Pin, PinReport, Mode, LegacyTypeOK
<1>2. Pinned(artifact)' /\ \A a : Pinned(a) => Pinned(a)'
  BY <1>1 DEF Pinned
<1>3. PinsTruthful'
  BY <1>1 DEF PinsTruthful
<1> QED
  BY <1>1, <1>2, <1>3

\* Where the artifact at a position belongs.
LEMMA NodeOfPosition ==
  ASSUME NEW p \in Nat \ {0}, NEW node, node = ((p - 1) \div Len(NodeArtifacts)) + 1
  PROVE  /\ node \in Nat \ {0} /\ 6 * node - 5 <= p /\ p <= 6 * node
         /\ (p - 1) % Len(NodeArtifacts) = p - 1 - 6 * (node - 1)
<1>1. Len(NodeArtifacts) = 6
  BY DEF NodeArtifacts
<1> DEFINE k == (p - 1) % 6
<1>2. k \in 0 .. 5 /\ p - 1 = 6 * ((p - 1) \div 6) + k /\ (p - 1) \div 6 \in Nat
  OBVIOUS
<1> QED
  BY <1>1, <1>2

\* The position after it belongs to the same node or to the next.
LEMMA NextPosition ==
  ASSUME NEW p \in Nat, NEW n \in Nat, NEW m \in Nat,
         6 * n - 5 <= p, p <= 6 * n, 6 * m - 5 <= p + 1, p + 1 <= 6 * m
  PROVE  m = IF p = 6 * n THEN n + 1 ELSE n
OBVIOUS

LEMMA Positions ==
  ASSUME at \in Nat \ {0}
  PROVE  /\ NodeAt \in Nat \ {0} /\ 6 * NodeAt - 5 <= at /\ at <= 6 * NodeAt
         /\ TypeAt = "model" <=> at = 6 * NodeAt - 5
         /\ TypeAt = "manifest" <=> at = 6 * NodeAt
<1> DEFINE k == at - 1 - 6 * (NodeAt - 1)
<1>1. /\ NodeAt \in Nat \ {0} /\ 6 * NodeAt - 5 <= at /\ at <= 6 * NodeAt
      /\ TypeAt = NodeArtifacts[k + 1]
  BY NodeOfPosition DEF NodeAt, TypeAt
<1>2. /\ NodeArtifacts[k + 1] = "model" <=> k = 0
      /\ NodeArtifacts[k + 1] = "manifest" <=> k = 5
  <2>1. k = 0 \/ k = 1 \/ k = 2 \/ k = 3 \/ k = 4 \/ k = 5
    BY <1>1
  <2> QED
    BY <2>1 DEF NodeArtifacts
<1> QED
  BY <1>1, <1>2

\* A program that raises has nothing left to promise.
LEMMA RaisesInv ==
  ASSUME LegacyInv, NEW why, Raises(why), monitor = "none"
  PROVE  LegacyInv'
BY DEF LegacyInv, Raises, storeVars, ledgerVars, LegacyTypeOK, PinsTruthful, PublishingInv, PinningInv,
   SubmissionsInv, MonitorInv, OnLedger, AfterNodes, AfterModels

\* Publishing the artifact at the position in hand.
LEMMA PublishArtifactInv == ASSUME LegacyInv, PublishArtifact PROVE LegacyInv'
<1>0. PICK type, node : type = TypeAt /\ node = NodeAt
  OBVIOUS
<1> DEFINE artifact == <<type, node>>
<1>1. /\ stage = "publishing" /\ at' = at + 1 /\ config' = config /\ verified' = verified
      /\ stage' = (IF TypeAt = "manifest" THEN "pinning_manifest" ELSE "publishing")
      /\ UNCHANGED <<aggregated, records, used, eligible, published, monitor>>
      /\ Put(artifact, Content(TypeAt, NodeAt))
  BY <1>0 DEF PublishArtifact, ledgerVars
<1>2. at \in Nat \ {0} /\ NumNodes \in Nat \ {0}
  BY NodesAssumption DEF LegacyInv, LegacyTypeOK
<1>3. /\ artifact \in DOMAIN cids' /\ DOMAIN cids \subseteq DOMAIN cids'
      /\ \A a : a # artifact /\ Pinned(a) => Pinned(a)'
      /\ PinsTruthful' /\ pins' = pins
  <2> PICK content : content = Content(TypeAt, NodeAt)
    OBVIOUS
  <2> QED
    BY <1>1, PutKeeps DEF LegacyInv
<1>4. /\ NodeAt \in Nat \ {0} /\ 6 * NodeAt - 5 <= at /\ at <= 6 * NodeAt
      /\ TypeAt = "model" <=> at = 6 * NodeAt - 5
      /\ TypeAt = "manifest" <=> at = 6 * NodeAt
  BY <1>2, Positions
<1>5. /\ NodeAt' \in Nat \ {0} /\ 6 * NodeAt' - 5 <= at + 1 /\ at + 1 <= 6 * NodeAt'
      /\ at % 6 = at - 6 * (NodeAt' - 1)
  <2>1. at + 1 \in Nat \ {0} /\ NodeAt' = ((at + 1 - 1) \div Len(NodeArtifacts)) + 1
    BY <1>1, <1>2 DEF NodeAt
  <2>2. Len(NodeArtifacts) = 6
    BY DEF NodeArtifacts
  <2> QED
    BY <2>1, <2>2, <1>2, NodeOfPosition
<1>6. LegacyTypeOK'
  BY <1>1, <1>2 DEF LegacyInv, LegacyTypeOK
<1>7. PublishingInv'
  <2>1. /\ \A n \in Node : 6 * n - 5 < at => <<"model", n>> \in DOMAIN cids
        /\ \A n \in Node : 6 * n < at => <<"manifest", n>> \in DOMAIN cids
        /\ at <= 6 * NumNodes /\ ManifestsPinned(NodeAt)
    BY <1>1 DEF LegacyInv, PublishingInv
  <2>2. ASSUME NEW n \in Node, 6 * n - 5 < at + 1 PROVE <<"model", n>> \in DOMAIN cids'
    <3>1. 6 * n - 5 < at \/ (n = NodeAt /\ TypeAt = "model")
      BY <1>2, <1>4, <2>2 DEF Node
    <3> QED
      BY <1>0, <1>3, <2>1, <3>1
  <2>3. ASSUME NEW n \in Node, 6 * n < at + 1 PROVE <<"manifest", n>> \in DOMAIN cids'
    <3>1. 6 * n < at \/ (n = NodeAt /\ TypeAt = "manifest")
      BY <1>2, <1>4, <2>3 DEF Node
    <3> QED
      BY <1>0, <1>3, <2>1, <3>1
  <2>4. ASSUME NEW n \in Node, n < NodeAt PROVE Pinned(<<"manifest", n>>)'
    BY <1>0, <1>3, <1>4, <2>1, <2>4 DEF ManifestsPinned, Node
  <2>5. CASE TypeAt = "manifest"
    <3>1. at = 6 * NodeAt
      BY <1>4, <2>5
    <3>2. NodeAt' = NodeAt + 1
      BY <1>2, <1>4, <1>5, <3>1, NextPosition
    <3>3. at' - 1 = at /\ at % 6 = 0
      BY <1>1, <1>2, <1>4, <1>5, <3>1, <3>2
    <3>4. ManifestsPinned(NodeAt - 1)'
      BY <1>4, <2>4, <3>2 DEF ManifestsPinned, Node
    <3>5. at + 1 > 1 /\ at + 1 <= 6 * NumNodes + 1
      BY <1>2, <2>1
    <3> QED
      BY <1>1, <1>2, <2>2, <2>3, <2>5, <3>3, <3>4, <3>5 DEF PublishingInv
  <2>6. CASE TypeAt # "manifest"
    <3>1. NodeAt' = NodeAt /\ at + 1 <= 6 * NumNodes
      <4>1. NodeAt' = NodeAt
        BY <1>2, <1>4, <1>5, <2>6, NextPosition
      <4>2. at # 6 * NumNodes
        BY <1>2, <1>4, <2>1, <2>6
      <4> QED
        BY <1>2, <2>1, <4>1, <4>2
    <3>2. ManifestsPinned(NodeAt)'
      BY <2>4, <3>1 DEF ManifestsPinned
    <3> QED
      BY <1>1, <1>2, <2>2, <2>3, <2>6, <3>1, <3>2 DEF PublishingInv
  <2> QED
    BY <2>5, <2>6
<1> QED
  BY <1>1, <1>3, <1>6, <1>7
  DEF LegacyInv, PinningInv, SubmissionsInv, MonitorInv, OnLedger, AfterNodes, AfterModels

LEMMA PinManifestInv == ASSUME LegacyInv, PinManifest PROVE LegacyInv'
<1>0. PICK node : node = NodeAt - 1
  OBVIOUS
<1> DEFINE artifact == <<"manifest", node>>
<1>1. /\ stage = "pinning_manifest" /\ config' = config /\ verified' = verified
      /\ UNCHANGED <<aggregated, records, used, eligible, published, monitor>>
      /\ Pin(artifact)
      /\ IF NodeAt <= NumNodes THEN stage' = "proving" /\ at' = at
         ELSE stage' = "pinning_models" /\ at' = 1
  BY <1>0 DEF PinManifest, ledgerVars
<1>2. at \in Nat \ {0} /\ NumNodes \in Nat \ {0}
  BY NodesAssumption DEF LegacyInv, LegacyTypeOK
<1>3. /\ \A n \in Node : 6 * n - 5 < at => <<"model", n>> \in DOMAIN cids
      /\ \A n \in Node : 6 * n < at => <<"manifest", n>> \in DOMAIN cids
      /\ (at - 1) % 6 = 0 /\ at > 1 /\ at <= 6 * NumNodes + 1 /\ ManifestsPinned(NodeAt - 1)
  BY <1>1 DEF LegacyInv, PublishingInv
<1>4. NodeAt \in Nat \ {0} /\ at = 6 * NodeAt - 5 /\ NodeAt > 1
  BY <1>2, <1>3, Positions
<1>5. artifact \in DOMAIN cids
  BY <1>0, <1>2, <1>3, <1>4 DEF Node
<1>6. /\ Pinned(artifact)' /\ cids' = cids
      /\ \A a : Pinned(a) => Pinned(a)'
      /\ PinsTruthful'
  BY <1>1, <1>5, PinPins DEF LegacyInv
<1>7. ASSUME NEW n \in Node, n < NodeAt PROVE Pinned(<<"manifest", n>>)'
  BY <1>0, <1>3, <1>4, <1>6, <1>7 DEF ManifestsPinned, Node
<1>8. LegacyTypeOK'
  BY <1>1, <1>2 DEF LegacyInv, LegacyTypeOK
<1>9. CASE NodeAt <= NumNodes
  <2>1. NodeAt' = NodeAt
    BY <1>1, <1>9 DEF NodeAt
  <2>2. ManifestsPinned(NodeAt)'
    BY <1>7, <2>1 DEF ManifestsPinned
  <2>3. PublishingInv'
    BY <1>1, <1>2, <1>3, <1>4, <1>6, <1>9, <2>1, <2>2 DEF PublishingInv
  <2> QED
    BY <1>1, <1>6, <1>8, <1>9, <2>3
    DEF LegacyInv, PinningInv, SubmissionsInv, MonitorInv, OnLedger, AfterNodes, AfterModels
<1>10. CASE ~(NodeAt <= NumNodes)
  <2>1. ManifestsPinned(NumNodes + 1)'
    BY <1>2, <1>4, <1>7, <1>10 DEF ManifestsPinned, Node
  <2>2. ASSUME NEW n \in Node PROVE <<"model", n>> \in DOMAIN cids'
    <3>1. 6 * n - 5 < at
      BY <1>2, <1>4, <1>10 DEF Node
    <3> QED
      BY <1>3, <1>6, <3>1
  <2>3. PinningInv'
    BY <1>1, <1>2, <1>8, <1>10, <2>1, <2>2
    DEF PinningInv, ModelsPublished, ModelsPinned, LegacyTypeOK, Node, OnLedger, AfterNodes, AfterModels
  <2> QED
    BY <1>1, <1>6, <1>8, <1>10, <2>3
    DEF LegacyInv, PublishingInv, SubmissionsInv, MonitorInv, OnLedger, AfterNodes, AfterModels
<1> QED
  BY <1>9, <1>10

LEMMA PinModelInv == ASSUME LegacyInv, PinModel PROVE LegacyInv'
<1>0. PICK node : node = at
  OBVIOUS
<1>1. /\ stage = "pinning_models" /\ stage' = stage /\ at <= NumNodes /\ at' = at + 1
      /\ config' = config /\ verified' = verified
      /\ UNCHANGED <<aggregated, records, used, eligible, published, monitor>>
  BY DEF PinModel, ledgerVars
<1>2. at \in Nat \ {0} /\ NumNodes \in Nat \ {0} /\ verified \subseteq Node
  BY NodesAssumption DEF LegacyInv, LegacyTypeOK
<1>3. ModelsPublished /\ ManifestsPinned(NumNodes + 1) /\ ModelsPinned(at)
  BY <1>1 DEF LegacyInv, PinningInv, AfterNodes
<1>4. /\ at \in verified => Pinned(<<"model", node>>)'
      /\ cids' = cids /\ PinsTruthful'
      /\ \A a : Pinned(a) => Pinned(a)'
  <2>1. CASE at \in verified
    <3>1. <<"model", node>> \in DOMAIN cids /\ Pin(<<"model", node>>)
      BY <1>0, <1>2, <1>3, <2>1 DEF ModelsPublished, PinModel
    <3> QED
      BY <1>1, <3>1, PinPins DEF LegacyInv
  <2>2. CASE at \notin verified
    BY <1>1, <2>2 DEF PinModel, storeVars, LegacyInv, PinsTruthful, Pinned
  <2> QED
    BY <2>1, <2>2
<1>5. PinningInv'
  BY <1>0, <1>1, <1>2, <1>3, <1>4
  DEF PinningInv, ModelsPublished, ManifestsPinned, ModelsPinned, OnLedger, AfterNodes, AfterModels, Node
<1> QED
  BY <1>1, <1>2, <1>4, <1>5
  DEF LegacyInv, LegacyTypeOK, PublishingInv, SubmissionsInv, MonitorInv, OnLedger, AfterNodes, AfterModels

LEMMA PublishGlobalInv == ASSUME LegacyInv, PublishGlobal PROVE LegacyInv'
<1>1. /\ stage \in {"global_model", "report"} /\ config' = config /\ verified' = verified
      /\ UNCHANGED <<aggregated, records, used, eligible, published, monitor>>
  BY DEF PublishGlobal, GlobalArtifacts, ledgerVars
<1>2. PICK artifact : artifact = <<stage, 0>>
  OBVIOUS
<1>3. /\ ModelsPublished /\ ManifestsPinned(NumNodes + 1)
      /\ aggregated = verified /\ ModelsPinned(NumNodes + 1)
      /\ stage = "report" => Pinned(<<"global_model", 0>>)
  BY <1>1 DEF LegacyInv, PinningInv, OnLedger, AfterNodes, AfterModels
<1>4. CASE artifact \notin DOMAIN cids
  <2>1. Put(artifact, artifact) /\ stage' = stage /\ at' = at
    BY <1>1, <1>2, <1>4 DEF PublishGlobal, GlobalArtifacts
  <2>2. /\ DOMAIN cids \subseteq DOMAIN cids' /\ PinsTruthful' /\ pins' = pins
        /\ \A a : a # artifact /\ Pinned(a) => Pinned(a)'
    BY <1>1, <2>1, PutKeeps DEF LegacyInv
  <2>3. \A a : Pinned(a) => Pinned(a)'
    BY <1>4, <2>2 DEF Pinned
  <2>4. PinningInv'
    BY <1>1, <1>3, <2>1, <2>2, <2>3
    DEF PinningInv, ModelsPublished, ManifestsPinned, ModelsPinned, OnLedger, AfterNodes, AfterModels
  <2> QED
    BY <1>1, <2>1, <2>2, <2>4
    DEF LegacyInv, LegacyTypeOK, PublishingInv, SubmissionsInv, MonitorInv, OnLedger
<1>5. CASE artifact \in DOMAIN cids
  <2>1. /\ Pin(artifact) /\ at' = 1
        /\ stage' = (IF stage = "report" THEN "submitting" ELSE "report")
    BY <1>1, <1>2, <1>5 DEF PublishGlobal, GlobalArtifacts
  <2>2. /\ Pinned(artifact)' /\ cids' = cids /\ PinsTruthful'
        /\ \A a : Pinned(a) => Pinned(a)'
    BY <1>1, <1>5, <2>1, PinPins DEF LegacyInv
  <2>3. PinningInv'
    BY <1>1, <1>2, <1>3, <2>1, <2>2
    DEF PinningInv, ModelsPublished, ManifestsPinned, ModelsPinned, OnLedger, AfterNodes, AfterModels
  <2>4. SubmissionsInv'
    <3>1. records = {} /\ eligible = {} /\ verified \subseteq Node /\ NumNodes \in Nat \ {0}
      BY <1>1, NodesAssumption DEF LegacyInv, LegacyTypeOK, SubmissionsInv
    <3>2. \A n \in Node : ~(n < 1)
      BY <3>1 DEF Node
    <3>3. at' = 1 /\ 1 <= NumNodes + 1 /\ records' = {} /\ eligible' = {} /\ verified' = verified
      BY <1>1, <2>1, <3>1
    <3>4. {n \in Node : n < 1} = {} /\ {m \in verified : m < 1} = {}
      BY <3>1, <3>2
    <3> QED
      BY <1>1, <2>1, <3>3, <3>4 DEF SubmissionsInv, OnLedger
  <2> QED
    BY <1>1, <2>1, <2>2, <2>3, <2>4 DEF LegacyInv, LegacyTypeOK, PublishingInv, MonitorInv
<1> QED
  BY <1>4, <1>5

LEMMA SubmitModelInv == ASSUME LegacyInv, SubmitModel PROVE LegacyInv'
<1>1. stage = "submitting" /\ at <= NumNodes /\ monitor = "none"
  BY DEF SubmitModel, LegacyInv, MonitorInv
<1>2. CASE CidsOf(at) \cap used # {}
  BY <1>1, <1>2, RaisesInv DEF SubmitModel
<1>3. CASE CidsOf(at) \cap used = {}
  <2>1. /\ records' = records \cup {at} /\ at' = at + 1
        /\ eligible' = (IF at \in verified THEN eligible \cup {cids[<<"model", at>>]} ELSE eligible)
        /\ UNCHANGED <<config, stage, verified, storeVars, aggregated, published, monitor>>
    BY <1>3 DEF SubmitModel
  <2>2. /\ at \in Nat \ {0} /\ NumNodes \in Nat \ {0} /\ verified \subseteq Node
        /\ records = {n \in Node : n < at}
        /\ eligible = {cids[<<"model", n>>] : n \in {m \in verified : m < at}}
    BY <1>1, NodesAssumption DEF LegacyInv, LegacyTypeOK, SubmissionsInv
  <2>3. records' = {n \in Node : n < at + 1}
    BY <1>1, <2>1, <2>2 DEF Node
  <2>4. eligible' = {cids[<<"model", n>>] : n \in {m \in verified : m < at + 1}}
    <3>1. \A m \in verified : m < at + 1 <=> m < at \/ m = at
      BY <2>2, <1>1 DEF Node
    <3>2. {m \in verified : m < at + 1} = {m \in verified : m < at} \cup ({at} \cap verified)
      BY <3>1
    <3> QED
      BY <2>1, <2>2, <3>2
  <2>5. SubmissionsInv'
    <3>1. /\ stage' = "submitting" /\ cids' = cids /\ verified' = verified
          /\ at' = at + 1 /\ at + 1 <= NumNodes + 1
      BY <1>1, <2>1, <2>2 DEF storeVars
    <3> QED
      BY <2>3, <2>4, <3>1 DEF SubmissionsInv, Node, OnLedger
  <2> QED
    BY <1>1, <2>1, <2>2, <2>5
    DEF LegacyInv, LegacyTypeOK, PinsTruthful, PublishingInv, PinningInv, MonitorInv, storeVars,
        ModelsPublished, ManifestsPinned, ModelsPinned, Pinned, OnLedger, AfterNodes, AfterModels
<1> QED
  BY <1>2, <1>3

\* The proof of a node, made or not, and the end of the models.
LEMMA ProveInv == ASSUME LegacyInv, Prove PROVE LegacyInv'
<1>1. /\ stage = "proving" /\ stage' = "publishing" /\ verified' \subseteq verified \cup {NodeAt}
      /\ UNCHANGED <<config, reason, at, storeVars, aggregated, ledgerVars, monitor>>
  BY DEF Prove
<1>2. at \in Nat \ {0} /\ NumNodes \in Nat \ {0} /\ verified \subseteq Node /\ at <= 6 * NumNodes
  BY <1>1, NodesAssumption DEF LegacyInv, LegacyTypeOK, PublishingInv
<1>3. NodeAt \in Node /\ NodeAt' = NodeAt
  BY <1>1, <1>2, Positions DEF Node, NodeAt
<1>4. PublishingInv'
  BY <1>1, <1>3 DEF LegacyInv, PublishingInv, ManifestsPinned, Pinned, storeVars
<1> QED
  BY <1>1, <1>2, <1>3, <1>4
  DEF LegacyInv, LegacyTypeOK, PinsTruthful, PinningInv, SubmissionsInv, MonitorInv, storeVars,
      ledgerVars, OnLedger, AfterNodes, AfterModels

LEMMA AggregateModelsInv == ASSUME LegacyInv, AggregateModels PROVE LegacyInv'
<1>1. stage = "pinning_models" /\ at > NumNodes /\ monitor = "none"
  BY DEF AggregateModels, LegacyInv, MonitorInv
<1>2. CASE ApprovedModels = {}
  BY <1>1, <1>2, RaisesInv DEF AggregateModels
<1>3. CASE ApprovedModels # {}
  <2>1. /\ aggregated' = verified /\ stage' = "global_model"
        /\ UNCHANGED <<config, reason, at, verified, storeVars, ledgerVars, monitor>>
    BY <1>3 DEF AggregateModels, ApprovedModels
  <2>2. /\ at \in Nat \ {0} /\ NumNodes \in Nat \ {0} /\ verified \subseteq Node
        /\ ModelsPinned(at) /\ ModelsPublished /\ ManifestsPinned(NumNodes + 1)
    BY <1>1, NodesAssumption DEF LegacyInv, LegacyTypeOK, PinningInv, AfterNodes
  <2>3. PinningInv'
    BY <1>1, <2>1, <2>2
    DEF PinningInv, ModelsPublished, ManifestsPinned, ModelsPinned, Pinned, storeVars, Node,
        OnLedger, AfterNodes, AfterModels
  <2> QED
    BY <1>1, <2>1, <2>3
    DEF LegacyInv, LegacyTypeOK, PinsTruthful, PublishingInv, SubmissionsInv, MonitorInv, storeVars,
        ledgerVars, OnLedger
<1> QED
  BY <1>2, <1>3

LEMMA LegacyStep == LegacyInv /\ [Next]_vars => LegacyInv'
<1> SUFFICES ASSUME LegacyInv, [Next]_vars PROVE LegacyInv'
  OBVIOUS
<1>1. CASE Begin
  <2>1. /\ stage = "starting" /\ monitor = "none" /\ at = 1 /\ NumNodes \in Nat \ {0}
        /\ records = {} /\ eligible = {}
    BY <1>1, NodesAssumption DEF Begin, LegacyInv, MonitorInv, PublishingInv, SubmissionsInv
  <2>2. CASE config.strict /\ Mode = "local-content-addressed"
    BY <1>1, <2>1, <2>2, RaisesInv DEF Begin
  <2>3. CASE ~(config.strict /\ Mode = "local-content-addressed")
    <3>1. /\ stage' = "proving"
          /\ UNCHANGED <<config, reason, at, verified, storeVars, aggregated, ledgerVars, monitor>>
      BY <1>1, <2>3 DEF Begin
    <3>2. NodeAt' = 1
      BY <2>1, <3>1, Positions DEF NodeAt
    <3>3. PublishingInv'
      BY <2>1, <3>1, <3>2 DEF PublishingInv, ManifestsPinned, Node
    <3> QED
      BY <2>1, <3>1, <3>3
      DEF LegacyInv, LegacyTypeOK, PinsTruthful, PinningInv, SubmissionsInv, MonitorInv, storeVars,
          ledgerVars, OnLedger, AfterNodes, AfterModels
  <2> QED
    BY <2>2, <2>3
<1>2. CASE CloseSubmissions
  <2>1. records = Node /\ eligible = ExpectedCids
    <3>1. /\ records = {n \in Node : n < at}
          /\ eligible = {cids[<<"model", n>>] : n \in {m \in verified : m < at}}
          /\ verified \subseteq Node
      BY <1>2 DEF CloseSubmissions, LegacyInv, LegacyTypeOK, SubmissionsInv
    <3>2. \A n \in Node : n < at
      BY <1>2, NodesAssumption DEF CloseSubmissions, LegacyInv, LegacyTypeOK, Node
    <3> QED
      BY <3>1, <3>2 DEF ExpectedCids
  <2> QED
    BY <1>2, <2>1
    DEF CloseSubmissions, Transition, LegacyInv, LegacyTypeOK, PinsTruthful, PublishingInv,
        PinningInv, SubmissionsInv, MonitorInv, storeVars, ModelsPublished, ManifestsPinned,
        ModelsPinned, Pinned, ExpectedCids, OnLedger, AfterNodes, AfterModels
<1>3. CASE StartAggregation \/ PublishGlobalModel \/ ArchiveRound
  BY <1>3
  DEF StartAggregation, PublishGlobalModel, ArchiveRound, Transition, LegacyInv, LegacyTypeOK,
      PinsTruthful, PublishingInv, PinningInv, SubmissionsInv, MonitorInv, storeVars,
      ModelsPublished, ManifestsPinned, ModelsPinned, Pinned, ExpectedCids, OnLedger, AfterNodes,
      AfterModels
<1>4. CASE ContractFails
  <2>1. monitor = "none"
    BY <1>4 DEF ContractFails, LegacyInv, MonitorInv
  <2> QED
    BY <1>4, <2>1, RaisesInv DEF ContractFails
<1>5. CASE Monitor
  <2>1. monitor' = "passed" => config.api /\ \A p \in pins : p[2]
    BY <1>5 DEF Monitor, Mode
  <2> QED
    BY <1>5, <2>1
    DEF Monitor, LegacyInv, LegacyTypeOK, PinsTruthful, PublishingInv, PinningInv, SubmissionsInv,
        MonitorInv, storeVars, ledgerVars, ModelsPublished, ManifestsPinned, ModelsPinned, Pinned,
        OnLedger, AfterNodes, AfterModels, ExpectedCids
<1>6. CASE UNCHANGED vars
  <2>1. UNCHANGED <<config, stage, at, verified, cids, kuboPins, pins, aggregated, records, eligible,
                    published, monitor>>
    BY <1>6 DEF vars, storeVars, ledgerVars
  <2>2. PublishingInv' /\ PinningInv'
    BY <2>1
    DEF LegacyInv, PublishingInv, PinningInv, ModelsPublished, ManifestsPinned, ModelsPinned, Pinned,
        NodeAt, OnLedger, AfterNodes, AfterModels
  <2>3. SubmissionsInv' /\ MonitorInv' /\ LegacyTypeOK' /\ PinsTruthful'
    BY <2>1 DEF LegacyInv, LegacyTypeOK, PinsTruthful, SubmissionsInv, MonitorInv, ExpectedCids
  <2> QED
    BY <2>2, <2>3 DEF LegacyInv
<1> QED
  BY <1>1, <1>2, <1>3, <1>4, <1>5, <1>6, ProveInv, PublishArtifactInv, PinManifestInv, PinModelInv,
     AggregateModelsInv, PublishGlobalInv, SubmitModelInv DEF Next

\* The round is past cancellation only where the ledger's eligible models are those
\* that the script will compare them with.
StartedInv ==
  state = "AggregationStarted" => stage \in {"comparing", "raised"} /\ eligible = ExpectedCids

LEMMA StartedStep == LegacyInv /\ StartedInv /\ [Next]_vars => StartedInv'
<1> SUFFICES ASSUME LegacyInv, StartedInv, [Next]_vars PROVE StartedInv'
  OBVIOUS
<1>1. CASE CloseSubmissions \/ PublishGlobalModel \/ ArchiveRound
  BY <1>1 DEF CloseSubmissions, PublishGlobalModel, ArchiveRound, Transition, StartedInv
<1>2. CASE StartAggregation
  <2>1. eligible = ExpectedCids /\ stage' = "comparing" /\ UNCHANGED <<eligible, cids, verified>>
    BY <1>2 DEF StartAggregation, Transition, storeVars, LegacyInv, SubmissionsInv, OnLedger
  <2> QED
    BY <2>1 DEF StartedInv, ExpectedCids
<1>3. ASSUME NEW why, Raises(why) PROVE StartedInv'
  BY <1>3 DEF Raises, storeVars, ledgerVars, StartedInv, ExpectedCids
<1>4. CASE /\ stage \notin {"comparing", "raised"}
           /\ \/ UNCHANGED state
              \/ state' = "Open"
  BY <1>4 DEF StartedInv
<1>5. CASE Begin \/ AggregateModels \/ SubmitModel \/ ContractFails
  BY <1>3, <1>4, <1>5 DEF Begin, AggregateModels, SubmitModel, ContractFails, ledgerVars
<1>6. CASE \/ Prove \/ PublishArtifact \/ PinManifest \/ PinModel \/ PublishGlobal \/ Monitor
  BY <1>4, <1>6
  DEF Prove, PublishArtifact, PinManifest, PinModel, PublishGlobal, GlobalArtifacts, Monitor,
      ledgerVars
<1>7. CASE UNCHANGED vars
  BY <1>7 DEF vars, storeVars, ledgerVars, StartedInv, ExpectedCids
<1> QED
  BY <1>1, <1>2, <1>5, <1>6, <1>7 DEF Next

\* A directory that passes the monitor (monitor_run) has in Kubo what the audit
\* reads: the manifests of all nodes, the models averaged, the global model and the
\* report, for any number of nodes and however many calls fell back to the mirror.
THEOREM MonitorVouchesForKubo == Spec => []MonitoredIsPinned
<1>1. LegacyInv => MonitoredIsPinned
  <2> SUFFICES ASSUME LegacyInv, monitor = "passed",
                      NEW a \in {<<"manifest", n>> : n \in Node} \cup {<<"model", n>> : n \in aggregated}
                                  \cup {<<"global_model", 0>>, <<"report", 0>>}
               PROVE  cids[a] \in kuboPins
    BY DEF MonitoredIsPinned
  <2>1. stage = "completed" /\ config.api /\ \A p \in pins : p[2] /\ p[1] \in kuboPins
    BY DEF LegacyInv, MonitorInv, PinsTruthful
  <2>2. /\ ManifestsPinned(NumNodes + 1) /\ aggregated = verified /\ ModelsPinned(NumNodes + 1)
        /\ Pinned(<<"global_model", 0>>) /\ Pinned(<<"report", 0>>)
    BY <2>1 DEF LegacyInv, PinningInv, OnLedger, AfterNodes, AfterModels
  <2>3. verified \subseteq Node /\ \A n \in Node : n < NumNodes + 1
    BY NodesAssumption DEF LegacyInv, LegacyTypeOK, Node
  <2>4. Pinned(a)
    BY <2>2, <2>3 DEF ManifestsPinned, ModelsPinned
  <2> QED
    BY <2>1, <2>4 DEF Pinned
<1> QED
  BY <1>1, LegacyInit, LegacyStep, PTL DEF Spec

\* In a completed run of the pipeline (run_pipeline) the models averaged before the
\* contract was asked are the models it approved and published, and every node has
\* a record; and no round is begun to be aggregated (run_round.js) with participants
\* that differ from those.
THEOREM AveragedBeforeAsking == Spec => []AggregatedAsApproved
<1>1. Init => StartedInv
  BY DEF Init, StartedInv
<1>2. LegacyInv /\ StartedInv => AggregatedAsApproved
  BY DEF LegacyInv, PinningInv, SubmissionsInv, StartedInv, AggregatedAsApproved, ExpectedCids,
     AfterModels, AfterNodes, OnLedger
<1> QED
  BY <1>1, <1>2, LegacyInit, LegacyStep, StartedStep, PTL DEF Spec

-----------------------------------------------------------------------------
(***************************************************************************)
(* The recovery benchmark                                                  *)
(***************************************************************************)

BeforeFirst ==
  {"initialize", "start_publisher", "poll_publisher", "start_consumer", "poll_consumer", "connect"}
InRepetition == {"add", "cat", "stop", "cat_in_outage", "restart"}
Restarted == {"poll_restart", "reconnect", "add_recovery", "cat_recovery"}
CleaningUp == {"cleanup_publisher", "cleanup_consumer", "fail_publisher", "fail_consumer"}

RecoveryTypeOK ==
  /\ step \in BeforeFirst \cup InRepetition \cup Restarted \cup CleaningUp \cup {"returned", "raised"}
  /\ handle \subseteq Peer
  /\ daemon \in [Peer -> {"none", "starting", "ready", "dead"}]
  /\ spawned \in [Peer -> Nat]
  /\ repetition \in Nat \ {0}
  /\ rows \in Seq([absent : BOOLEAN, daemon : Nat])
  /\ absent \in BOOLEAN

\* A process attribute is set exactly while there is a child process, and where the
\* benchmark is tells which of the two it cannot have.
HandlesInv ==
  /\ \A n \in Peer : n \in handle <=> daemon[n] # "none"
  /\ step \in {"initialize", "start_publisher", "cat_in_outage", "restart", "cleanup_consumer",
               "fail_consumer", "returned"} => "publisher" \notin handle
  /\ step \in {"initialize", "start_publisher", "poll_publisher", "start_consumer", "returned"} =>
       "consumer" \notin handle
  /\ step = "raised" /\ stuck = {} => handle = {}

\* How many publishers a repetition has started, and what has been measured.
RowsInv ==
  /\ step \in BeforeFirst => repetition = 1 /\ rows = <<>>
  /\ step \in {"initialize", "start_publisher"} => spawned["publisher"] = 0
  /\ step \in BeforeFirst \ {"initialize", "start_publisher"} => spawned["publisher"] = 1
  /\ step \in InRepetition \cup Restarted => Len(rows) = repetition - 1
  /\ step \in InRepetition => spawned["publisher"] = repetition
  /\ step \in Restarted => spawned["publisher"] = repetition + 1
  /\ "publisher" \notin leftover /\ step \in {"restart"} \cup Restarted => absent

RecoveryInv == RecoveryTypeOK /\ HandlesInv /\ RowsInv /\ OutageIsReal

LEMMA RecoveryInitInv == RecoveryInit => RecoveryInv
<1> SUFFICES ASSUME RecoveryInit PROVE RecoveryInv
  OBVIOUS
<1>1. RecoveryTypeOK
  <2>1. rows = <<>> /\ <<>> \in Seq([absent : BOOLEAN, daemon : Nat])
    BY DEF RecoveryInit
  <2>2. /\ daemon \in [Peer -> {"none", "starting", "ready", "dead"}]
        /\ spawned \in [Peer -> Nat] /\ handle \subseteq Peer
    BY DEF RecoveryInit
  <2>3. repetition \in Nat \ {0} /\ step \in BeforeFirst
    BY DEF RecoveryInit, BeforeFirst
  <2>4. absent \in BOOLEAN
    BY Zenon DEF RecoveryInit
  <2> QED
    BY <2>1, <2>2, <2>3, <2>4, Zenon DEF RecoveryTypeOK
<1>2. HandlesInv /\ RowsInv
  BY DEF RecoveryInit, HandlesInv, RowsInv, Peer, BeforeFirst, InRepetition, Restarted
<1>3. OutageIsReal
  BY DEF RecoveryInit, OutageIsReal
<1> QED
  BY <1>1, <1>2, <1>3 DEF RecoveryInv

\* A daemon is started where there is none.
LEMMA SpawnInv ==
  ASSUME RecoveryInv, NEW n \in Peer, Spawn(n)
  PROVE  RecoveryInv'
<1>1. /\ handle' = handle \cup {n} /\ daemon' = [daemon EXCEPT ![n] = "starting"]
      /\ spawned' = [spawned EXCEPT ![n] = @ + 1]
      /\ UNCHANGED <<leftover, stuck, repetition, absent, rows>>
  BY DEF Spawn, Stay
<1>2. /\ handle \subseteq Peer /\ repetition \in Nat \ {0} /\ absent \in BOOLEAN
      /\ daemon \in [Peer -> {"none", "starting", "ready", "dead"}]
      /\ spawned \in [Peer -> Nat]
      /\ rows \in Seq([absent : BOOLEAN, daemon : Nat])
      /\ \A m \in Peer : m \in handle <=> daemon[m] # "none"
  BY DEF RecoveryInv, RecoveryTypeOK, HandlesInv
<1>3. \A m \in Peer : m \in handle' <=> daemon'[m] # "none"
  BY <1>1, <1>2
<1>4. \/ n = "publisher" /\ step = "start_publisher" /\ step' = "poll_publisher"
      \/ n = "publisher" /\ step = "restart" /\ step' = "poll_restart"
      \/ n = "consumer" /\ step = "start_consumer" /\ step' = "poll_consumer"
  BY DEF Spawn, Starting, Polling, Then
<1>5. RecoveryTypeOK'
  BY <1>1, <1>2, <1>4 DEF RecoveryTypeOK, BeforeFirst, Restarted
<1>6. HandlesInv'
  BY <1>1, <1>3, <1>4 DEF RecoveryInv, HandlesInv
<1>7. RowsInv'
  BY <1>1, <1>2, <1>4 DEF RecoveryInv, RowsInv, Peer, BeforeFirst, InRepetition, Restarted
<1>8. OutageIsReal'
  BY <1>1 DEF RecoveryInv, OutageIsReal
<1> QED
  BY <1>5, <1>6, <1>7, <1>8 DEF RecoveryInv

\* Stopping a node, or failing to, as far as the processes go.
LEMMA StopsInv ==
  ASSUME RecoveryInv, NEW n \in Peer, Stopped(n) \/ StopHangs(n)
  PROVE  /\ handle' \subseteq handle /\ UNCHANGED <<leftover, spawned>>
         /\ handle' \subseteq Peer
         /\ daemon' \in [Peer -> {"none", "starting", "ready", "dead"}]
         /\ \A m \in Peer : m \in handle' <=> daemon'[m] # "none"
         /\ Stopped(n) => n \notin handle'
         /\ StopHangs(n) => stuck' # {}
<1>1. /\ handle \subseteq Peer
      /\ daemon \in [Peer -> {"none", "starting", "ready", "dead"}]
      /\ \A m \in Peer : m \in handle <=> daemon[m] # "none"
  BY DEF RecoveryInv, RecoveryTypeOK, HandlesInv
<1>2. CASE Stopped(n)
  BY <1>1, <1>2 DEF Stopped, StopHangs
<1>3. CASE StopHangs(n)
  BY <1>1, <1>3 DEF StopHangs, Stopped
<1> QED
  BY <1>2, <1>3

\* A step that records nothing, at the start of the clean-up or in it.
LEMMA CleaningInv ==
  ASSUME RecoveryInv, Stay, HandlesInv', UNCHANGED <<leftover, spawned>>,
         step' \in CleaningUp \cup {"returned", "raised"},
         handle' \subseteq Peer,
         daemon' \in [Peer -> {"none", "starting", "ready", "dead"}]
  PROVE  RecoveryInv'
<1>1. RecoveryTypeOK'
  BY DEF RecoveryInv, RecoveryTypeOK, Stay
<1>2. RowsInv'
  BY DEF RowsInv, CleaningUp, BeforeFirst, InRepetition, Restarted
<1>3. OutageIsReal'
  BY DEF RecoveryInv, OutageIsReal, Stay
<1> QED
  BY <1>1, <1>2, <1>3 DEF RecoveryInv

LEMMA RecoveryStepInv == RecoveryInv /\ [RecoveryNext]_recoveryVars => RecoveryInv'
<1> SUFFICES ASSUME RecoveryInv, [RecoveryNext]_recoveryVars PROVE RecoveryInv'
  OBVIOUS
<1> USE DEF RecoveryInv, RecoveryTypeOK, HandlesInv, RowsInv, OutageIsReal, Peer,
        BeforeFirst, InRepetition, Restarted, CleaningUp, Then, Stay,
        Fails, processVars
<1>1. CASE Initialize
  BY <1>1 DEF Initialize
<1>2. ASSUME NEW n \in Peer, Spawn(n) PROVE RecoveryInv'
  BY <1>2, SpawnInv
<1>3. ASSUME NEW n \in Peer, PollAnswered(n) PROVE RecoveryInv'
  BY <1>3 DEF PollAnswered, AfterPoll, PollsFor
<1>4. ASSUME NEW n \in Peer, PollExited(n) PROVE RecoveryInv'
  BY <1>4 DEF PollExited, PollsFor
<1>5. ASSUME NEW n \in Peer, PollTimesOut(n) PROVE RecoveryInv'
  <2>1. /\ Stopped(n) \/ StopHangs(n)
        /\ step' = "fail_publisher" /\ Stay
    BY <1>5 DEF PollTimesOut
  <2>2. HandlesInv'
    BY <2>1, <1>5, StopsInv DEF HandlesInv
  <2> QED
    BY <2>1, <2>2, <1>5, StopsInv, CleaningInv
<1>6. CASE Connect
  BY <1>6 DEF Connect, Identity
<1>7. CASE Add
  BY <1>7 DEF Add, Adds
<1>8. CASE CatAndPin
  BY <1>8 DEF CatAndPin
<1>9. CASE StopPublisher
  BY <1>9 DEF StopPublisher, Stopped, StopHangs, Alive
<1>10. CASE CatInOutage
  BY <1>10 DEF CatInOutage, Answers
<1>11. CASE CatRecovery
  BY <1>11 DEF CatRecovery
<1>12. CASE CallFails
  BY <1>12 DEF CallFails, CallSteps
<1>13. CASE Cleanup
  <2>1. PICK n \in Peer :
          \/ /\ Stopped(n)
             /\ \/ n = "publisher" /\ step = "cleanup_publisher" /\ step' = "cleanup_consumer"
                \/ n = "consumer" /\ step = "cleanup_consumer" /\ step' = "returned"
                \/ n = "publisher" /\ step = "fail_publisher" /\ step' = "fail_consumer"
                \/ n = "consumer" /\ step = "fail_consumer" /\ step' = "raised"
          \/ StopHangs(n) /\ step' = "raised"
    BY <1>13 DEF Cleanup, InCleanup, AfterCleanup
  <2>2. HandlesInv'
    BY <2>1, StopsInv DEF HandlesInv
  <2> QED
    BY <2>1, <2>2, <1>13, StopsInv, CleaningInv DEF Cleanup
<1>14. ASSUME NEW n \in Peer, DaemonReady(n) PROVE RecoveryInv'
  BY <1>14 DEF DaemonReady
<1>15. ASSUME NEW n \in Peer, DaemonDies(n) PROVE RecoveryInv'
  BY <1>15 DEF DaemonDies, Alive
<1>16. CASE UNCHANGED recoveryVars
  BY <1>16 DEF recoveryVars
<1> QED
  BY <1>1, <1>2, <1>3, <1>4, <1>5, <1>6, <1>7, <1>8, <1>9, <1>10, <1>11, <1>12, <1>13, <1>14, <1>15,
     <1>16 DEF RecoveryNext

\* However the benchmark ends (finally of benchmark_native_kubo_recovery), no daemon
\* is left unless one outlived SIGKILL, and no daemon is started over another, for
\* any number of repetitions.
THEOREM BenchmarkStopsDaemons == RecoverySpec => []DaemonsStopped
<1>1. RecoveryInv => DaemonsStopped
  BY DEF RecoveryInv, RecoveryTypeOK, HandlesInv, DaemonsStopped, Ended,
     Alive, Starting, Peer
<1> QED
  BY <1>1, RecoveryInitInv, RecoveryStepInv, PTL DEF RecoverySpec

\* Every row was measured on a real outage and on a publisher started in that
\* repetition, unless an earlier benchmark left a daemon on the publisher's ports.
THEOREM RowsMeasureOutages == RecoverySpec => []OutageIsReal
<1>1. RecoveryInv => OutageIsReal
  BY DEF RecoveryInv
<1> QED
  BY <1>1, RecoveryInitInv, RecoveryStepInv, PTL DEF RecoverySpec
=============================================================================
