-------------------------- MODULE SimulationProofs --------------------------
(***************************************************************************)
(* What the simulation page shows when it is at rest, when the process     *)
(* goes down, and that what was written through the adapter keeps its      *)
(* series and is read back.                                                *)
(*                                                                         *)
(* A click that finds no request on its way and is followed by none is the *)
(* only one pending until it is answered or fails, and this is what makes  *)
(* the answer that comes last the answer to the last click.                *)
(*                                                                         *)
(* Graphite has the paths of what was written and nothing else: what a     *)
(* read finds is then a matter of what a path tells (NamingProofs).        *)
(*                                                                         *)
(* The samples of an answer are one segment after another, one for each    *)
(* datapoint: the datapoint and what is put in before the next one.        *)
(*                                                                         *)
(* What the page shows for a text is a matter of its lines, one by one: if *)
(* each is read as it is meant, the answer has no markup and is shown as   *)
(* it stands.                                                              *)
(***************************************************************************)
EXTENDS Simulation, NamingProofs, TLAPS

(* The last click, unless it overlapped, is alone on its way. *)
LastIsAlone ==
    /\ clicks \in Nat
    /\ clicks \notin overlapped => \A r \in pending : r.click = clicks

IInv == LastIsAlone /\ OutputsAnswerLastClick

LEMMA PageInit == SimulationInit => IInv
  BY DEF SimulationInit, IInv, LastIsAlone, OutputsAnswerLastClick

(* A click makes a request that is pending, the only one if it does not     *)
(* overlap.                                                                 *)
LEMMA ClickKeeps ==
  ASSUME NEW text, IInv, SimulWrite(text)
  PROVE  IInv'
<1> DEFINE sent == [click   |-> clicks + 1,
                    samples |-> FlattenSeq([i \in DOMAIN text |-> ParseSample(text[i])]),
                    body    |-> Null]
<1> HIDE DEF sent
<1>1. sent.click = clicks + 1
  BY DEF sent
<1>2. pending' = pending \cup {sent} /\ clicks' = clicks + 1 /\ clicks \in Nat
  BY DEF SimulWrite, sent, IInv, LastIsAlone
<1>3. clicks' \notin overlapped' => pending = {}
  BY <1>2 DEF SimulWrite
<1>4. LastIsAlone'
  BY <1>1, <1>2, <1>3 DEF LastIsAlone
<1>5. OutputsAnswerLastClick'
  BY <1>2 DEF OutputsAnswerLastClick
<1> QED BY <1>4, <1>5 DEF IInv

(* The server's answer leaves the request on its way to the page. *)
LEMMA ServeKeeps ==
  ASSUME IInv, NEW r \in pending, ServeDryRun(r)
  PROVE  IInv'
<1> DEFINE served == [r EXCEPT !.body = DryRun(r.samples)]
<1>1. PICK s : s = served
  OBVIOUS
<1>2. pending' = (pending \ {r}) \cup {s}
  BY <1>1 DEF ServeDryRun
<1>3. UNCHANGED <<clicks, overlapped, failed, outputs>>
  BY DEF ServeDryRun
<1>4. clicks \notin overlapped => s.click = clicks
  BY <1>1 DEF IInv, LastIsAlone
<1>5. LastIsAlone'
  BY <1>2, <1>3, <1>4 DEF IInv, LastIsAlone
<1>6. OutputsAnswerLastClick'
  BY <1>2, <1>3 DEF OutputsAnswerLastClick
<1> QED BY <1>5, <1>6 DEF IInv

(* A request that fails is the last click's, or the last click overlapped.  *)
LEMMA FailKeeps ==
  ASSUME IInv, NEW r \in pending, FailDryRun(r)
  PROVE  IInv'
<1>1. clicks \notin overlapped => clicks \in failed'
  BY DEF IInv, LastIsAlone, FailDryRun
<1>2. UNCHANGED <<clicks, overlapped>> /\ pending' \subseteq pending
  BY DEF FailDryRun
<1> QED BY <1>1, <1>2 DEF IInv, LastIsAlone, OutputsAnswerLastClick

(* So is one whose answer is put on the page. *)
LEMMA HandleKeeps ==
  ASSUME IInv, NEW r \in pending, HandleSimulationResult(r)
  PROVE  IInv'
<1>1. clicks \notin overlapped => outputs'.click = clicks
  BY DEF IInv, LastIsAlone, HandleSimulationResult
<1>2. UNCHANGED <<clicks, overlapped, failed>> /\ pending' \subseteq pending
  BY DEF HandleSimulationResult
<1> QED BY <1>1, <1>2 DEF IInv, LastIsAlone, OutputsAnswerLastClick

LEMMA PageStep == IInv /\ [SimulationNext]_simulationVars => IInv'
<1> SUFFICES ASSUME IInv, [SimulationNext]_simulationVars PROVE IInv'
  OBVIOUS
<1>1. CASE UNCHANGED page
  BY <1>1 DEF page, IInv, LastIsAlone, OutputsAnswerLastClick
<1>2. CASE \E text \in Texts : SimulWrite(text)
  BY <1>2, ClickKeeps
<1>3. CASE \E r \in pending : ServeDryRun(r)
  BY <1>3, ServeKeeps
<1>4. CASE \E r \in pending : FailDryRun(r)
  BY <1>4, FailKeeps
<1>5. CASE \E r \in pending : HandleSimulationResult(r)
  BY <1>5, HandleKeeps
<1> QED
  BY <1>1, <1>2, <1>3, <1>4, <1>5 DEF SimulationNext, simulationVars

(* At rest the page shows the answer to the last click, if its request was  *)
(* alone and did not fail: for any number of clicks, whatever the texts and  *)
(* the answers are.                                                         *)
THEOREM PageAnswersLastClick == SimulationSpec => []OutputsAnswerLastClick
<1>1. IInv => OutputsAnswerLastClick
  BY DEF IInv
<1> QED BY PageInit, PageStep, <1>1, PTL DEF SimulationSpec

-----------------------------------------------------------------------------
ConfigKept == cfg \in Configs /\ PanicsBelowASecond

(* The panic of a read: the only step of all that ends the process. *)
LEMMA ReadPanics ==
  ASSUME ConfigKept, NEW query, NEW datapoints, Read(query, datapoints)
  PROVE  ConfigKept'
<1>1. cfg.maxPointDelta \in Nat
  BY ConfigsAssumption DEF ConfigKept
<1>2. CASE running'
  BY <1>2 DEF ConfigKept, PanicsBelowASecond, Read
<1>3. CASE ~running'
  <2>1. DividesByZero(datapoints)
    BY <1>3 DEF Read, Request
  <2>2. cfg.maxPointDelta # 0 /\ cfg.maxPointDelta \div 1000 = 0
    BY <2>1 DEF DividesByZero, IntervalSecond
  <2>3. cfg.maxPointDelta \in 1..999
    BY <1>1, <2>2, SMTT(20)
  <2> QED BY <2>3 DEF ConfigKept, PanicsBelowASecond, Read
<1> QED BY <1>2, <1>3

LEMMA ConfigStep == ConfigKept /\ [SimulationNext]_simulationVars => ConfigKept'
<1> SUFFICES ASSUME ConfigKept, [SimulationNext]_simulationVars PROVE ConfigKept'
  OBVIOUS
<1>1. CASE UNCHANGED <<cfg, running>>
  BY <1>1 DEF ConfigKept, PanicsBelowASecond
<1>2. CASE \E query \in Queries, datapoints \in Datapoints : Read(query, datapoints)
  BY <1>2, ReadPanics
<1>3. ASSUME NEW m \in Metrics, Write(m) PROVE UNCHANGED <<cfg, running>>
  BY <1>3 DEF Write
<1>4. ASSUME NEW text \in Texts, SimulWrite(text) PROVE UNCHANGED <<cfg, running>>
  BY <1>4 DEF SimulWrite
<1>5. ASSUME NEW r \in pending, ServeDryRun(r) \/ FailDryRun(r) \/ HandleSimulationResult(r)
      PROVE  UNCHANGED <<cfg, running>>
  BY <1>5 DEF ServeDryRun, FailDryRun, HandleSimulationResult, archive
<1>6. UNCHANGED simulationVars => UNCHANGED <<cfg, running>>
  BY DEF simulationVars, archive
<1> QED
  BY <1>1, <1>2, <1>3, <1>4, <1>5, <1>6 DEF SimulationNext, ArchiveNext

(* Whatever is written, read or rendered, the interpolation takes the       *)
(* process down only with a max_point_delta of a part of a second.          *)
THEOREM PanicOnlyBelowASecond == SimulationSpec => []PanicsBelowASecond
<1>1. SimulationInit => ConfigKept
  BY DEF SimulationInit, ArchiveInit, ConfigKept, PanicsBelowASecond
<1>2. ConfigKept => PanicsBelowASecond
  BY DEF ConfigKept
<1> QED BY <1>1, ConfigStep, <1>2, PTL DEF SimulationSpec

-----------------------------------------------------------------------------
(* Only metrics are written, under a configuration that stays.             *)
WrittenAreMetrics == cfg \in Configs /\ written \subseteq Metrics

LEMMA WrittenStep == WrittenAreMetrics /\ [SimulationNext]_simulationVars => WrittenAreMetrics'
<1> SUFFICES ASSUME WrittenAreMetrics, [SimulationNext]_simulationVars PROVE WrittenAreMetrics'
  OBVIOUS
<1>1. CASE UNCHANGED <<cfg, written>>
  BY <1>1 DEF WrittenAreMetrics
<1>2. ASSUME NEW m \in Metrics, Write(m) PROVE WrittenAreMetrics'
  BY <1>2 DEF WrittenAreMetrics, Write
<1>3. ASSUME NEW query \in Queries, NEW datapoints \in Datapoints, Read(query, datapoints)
      PROVE  UNCHANGED <<cfg, written>>
  BY <1>3 DEF Read
<1>4. ASSUME NEW text \in Texts, SimulWrite(text) PROVE UNCHANGED <<cfg, written>>
  BY <1>4 DEF SimulWrite
<1>5. ASSUME NEW r \in pending, ServeDryRun(r) \/ FailDryRun(r) \/ HandleSimulationResult(r)
      PROVE  UNCHANGED <<cfg, written>>
  BY <1>5 DEF ServeDryRun, FailDryRun, HandleSimulationResult, archive
<1>6. UNCHANGED simulationVars => UNCHANGED <<cfg, written>>
  BY DEF simulationVars, archive
<1> QED
  BY <1>1, <1>2, <1>3, <1>4, <1>5, <1>6 DEF SimulationNext, ArchiveNext

(* The paths of two metrics tell them apart (PathTells), if Escape and     *)
(* EscapeTagged keep their values.                                         *)
LEMMA WrittenApart == WrittenAreMetrics => SeriesApart
<1> SUFFICES ASSUME WrittenAreMetrics, NEW m \in written, NEW n \in written,
                    DefaultPath(m, cfg.format) = DefaultPath(n, cfg.format),
                    All(m, Distinct), All(n, Distinct)
             PROVE  m = n
  BY DEF SeriesApart
<1>1. cfg.format \in Formats
  BY ConfigsAssumption DEF WrittenAreMetrics, Formats
<1>2. ASSUME NEW x \in written, All(x, Distinct) PROVE Named(x) /\ Kept(x, cfg.format)
  <2>1. x \in Metrics
    BY DEF WrittenAreMetrics
  <2>2. DOMAIN LabelNames = 1..Len(LabelNames)
    BY NamesAssumption
  <2>3. Named(x)
    BY <2>1, <2>2, MetricsAssumption DEF IsMetric, Named
  <2>4. ASSUME NEW k \in DOMAIN x.labels PROVE x.labels[k] \in Values(cfg.format)
    <3>1. PICK v \in Seq(Bytes) : v = x.labels[k]
      BY <2>1, MetricsAssumption DEF IsMetric
    <3>2. IF cfg.format = "tags" THEN \A i \in DOMAIN v : v[i] \in Untagged
          ELSE \A i \in DOMAIN v : v[i] >= 16
      BY <1>2, <3>1 DEF All, Distinct, Untagged
    <3>3. \A S : (\A i \in DOMAIN v : v[i] \in S) => v \in Seq(S)
      OBVIOUS
    <3>4. (\A i \in DOMAIN v : v[i] >= 16) => \A i \in DOMAIN v : v[i] \in Apart
      <4>1. \A i \in DOMAIN v : v[i] \in Bytes
        OBVIOUS
      <4>2. \A b \in Bytes : b >= 16 => b \in Apart
        BY DEF Bytes, Apart
      <4> QED BY <4>1, <4>2
    <3> QED BY <3>1, <3>2, <3>3, <3>4 DEF Values
  <2> QED BY <2>3, <2>4 DEF Kept
<1> QED BY <1>1, <1>2, PathTells

(* Two metrics share a series of graphite only if one has a value with     *)
(* bytes that Escape or EscapeTagged merge, for any metrics, label names   *)
(* and prefix: SeriesApart, of defaultPath.                                *)
THEOREM SeriesStayApart == SimulationSpec => []SeriesApart
<1>1. SimulationInit => WrittenAreMetrics
  BY DEF SimulationInit, ArchiveInit, WrittenAreMetrics
<1> QED BY <1>1, WrittenStep, WrittenApart, PTL DEF SimulationSpec

-----------------------------------------------------------------------------
(* What graphite has, and what was written to it.                           *)
ArchiveKept ==
    /\ cfg \in Configs
    /\ written \subseteq Metrics
    /\ graphite = {DefaultPath(m, cfg.format) : m \in written}

(* What was written are metrics.                                           *)
LEMMA WrittenNamed ==
    ASSUME ArchiveKept, NEW m \in written
    PROVE  Named(m) /\ Filled(m)
<1>1. m \in Metrics
  BY DEF ArchiveKept
<1>2. DOMAIN LabelNames = 1..Len(LabelNames)
  BY NamesAssumption
<1> QED BY <1>1, <1>2, MetricsAssumption, FilledAssumption DEF IsMetric, Named, Filled

(* The values of a metric that can be restored.                            *)
LEMMA RestoredValues ==
    ASSUME ArchiveKept, NEW m \in written, Restored(m)
    PROVE  /\ Kept(m, cfg.format)
           /\ cfg.format = "path" => \A k \in DOMAIN m.labels : ReadableValue(m.labels[k])
<1>1. m \in Metrics
  BY DEF ArchiveKept
<1>2. ASSUME NEW k \in DOMAIN m.labels
      PROVE  m.labels[k] \in Values(cfg.format) /\ (cfg.format = "path" => ReadableValue(m.labels[k]))
  <2>1. PICK v \in Seq(Bytes) : v = m.labels[k]
    BY <1>1, MetricsAssumption DEF IsMetric
  <2>2. IF cfg.format = "tags" THEN \A i \in DOMAIN v : v[i] \in Untagged
        ELSE \A i \in DOMAIN v : v[i] >= 16
    BY <2>1 DEF Restored, All, Readable, Distinct, Untagged
  <2>3. cfg.format = "path" => Unslashed(v)
    BY <2>1 DEF Restored, All, Readable, Unslashed
  <2>4. \A S : (\A i \in DOMAIN v : v[i] \in S) => v \in Seq(S)
    OBVIOUS
  <2>5. (\A i \in DOMAIN v : v[i] >= 16) => \A i \in DOMAIN v : v[i] \in Apart
    <3>1. \A i \in DOMAIN v : v[i] \in Bytes
      OBVIOUS
    <3>2. \A b \in Bytes : b >= 16 => b \in Apart
      BY DEF Bytes, Apart
    <3> QED BY <3>1, <3>2
  <2> QED BY <2>1, <2>2, <2>3, <2>4, <2>5 DEF Values, ReadableValue
<1> QED BY <1>2 DEF Kept

(* A path that is found by its labels. *)
LEMMA FoundByPath ==
    ASSUME ArchiveKept, cfg.format = "path", NEW m \in written, Restored(m), NEW query
    PROVE  /\ MetricLabelsFromPath(DefaultPath(m, "path")) = m
           /\ DefaultPath(m, "path") \in QueryToTargets(query) => Matches(m, query)
           /\ Matches(m, query) /\ DOMAIN m.labels # {} =>
                 DefaultPath(m, "path") \in QueryToTargets(query)
<1>1. Named(m) /\ Filled(m) /\ Kept(m, "path") /\ \A k \in DOMAIN m.labels : ReadableValue(m.labels[k])
  BY WrittenNamed, RestoredValues
<1>2. MetricLabelsFromPath(DefaultPath(m, "path")) = m
  BY <1>1, PathRead
<1>3. DefaultPath(m, "path") \in graphite
  BY DEF ArchiveKept
<1>4. m # Unreadable
  BY <1>1 DEF Filled, Unreadable
<1>5. Matches(m, query) /\ DOMAIN m.labels # {} =>
         IsPrefix(Prefix \o query.name \o <<Dot>>, DefaultPath(m, "path"))
  BY <1>1, PathBegins DEF Matches
<1> QED BY <1>2, <1>3, <1>4, <1>5, Zenon DEF QueryToTargets

(* A series that is found by its tags. *)
LEMMA FoundByTags ==
    ASSUME ArchiveKept, cfg.format = "tags", NEW m \in written, Restored(m),
           NEW query \in Queries, query.label # NameTag
    PROVE  /\ MetricLabelsFromTags(Tags(DefaultPath(m, "tags"))) = m
           /\ DefaultPath(m, "tags") \in QueryToTargetsWithTags(query) => Matches(m, query)
           /\ Matches(m, query) /\ ~(\E i \in DOMAIN query.value : query.value[i] = Quote) =>
                 DefaultPath(m, "tags") \in QueryToTargetsWithTags(query)
<1>1. Named(m) /\ Kept(m, "tags") /\ NameTag \notin DOMAIN m.labels
  BY WrittenNamed, RestoredValues DEF Restored
<1>2. MetricLabelsFromTags(Tags(DefaultPath(m, "tags"))) = m
  BY <1>1, TagsRestored
<1>3. DefaultPath(m, "tags") \in graphite
  BY DEF ArchiveKept
<1>4. PICK tags : tags = Tags(DefaultPath(m, "tags")) /\ tags = TagsOf(m)
  BY <1>1, TagsRead
<1> DEFINE found == [name |-> tags[NameTag], labels |-> tags]
           asked == [query EXCEPT !.name = Prefix \o @]
<1>5. /\ query.name \in Seq(Bytes)
      /\ asked.name = Prefix \o query.name /\ asked.label = query.label
      /\ asked.equal = query.equal /\ asked.value = query.value
  BY QueriesAssumption
<1>6. /\ found.name = Prefix \o m.name
      /\ LabelValue(found, query.label) = LabelValue(m, query.label)
  BY <1>4 DEF TagsOf, LabelValue, Cat
<1>7. Prefix \o m.name = Prefix \o query.name <=> m.name = query.name
  <2>1. PICK a \in Text(Nat), b \in Text(Nat), p \in Text(Nat) : a = m.name /\ b = query.name /\ p = Prefix
    <3>1. m.name \in Text(Nat)
      BY <1>1, NamesAreTexts, Alphabets DEF Named
    <3>2. query.name \in Text(Nat)
      <4>1. Bytes \in SUBSET Nat
        BY DEF Bytes
      <4> QED BY <1>5, <4>1, NamesAreTexts
    <3> QED BY <3>1, <3>2, PrefixType
  <2>2. Cat(p, a) = Cat(p, b) => a = b
    BY TextCancel
  <2> QED BY <2>1, <2>2 DEF Cat
<1> HIDE DEF found, asked
<1>8. Matches(found, asked) <=> Matches(m, query)
  BY <1>5, <1>6, <1>7 DEF Matches
<1>9. DefaultPath(m, "tags") \in QueryToTargetsWithTags(query)
         <=> ~(\E i \in DOMAIN query.value : query.value[i] = Quote) /\ Matches(found, asked)
  BY <1>3, <1>4, Zenon DEF QueryToTargetsWithTags, found, asked
<1> QED BY <1>2, <1>8, <1>9

(* What a read brings.                                                      *)
LEMMA AnswerRight ==
    ASSUME ArchiveKept, cfg.format # "openmetrics", NEW query \in Queries,
           cfg.format = "tags" => query.label # NameTag
    PROVE  /\ \A m \in {m \in written : Matches(m, query)} :
                 /\ Restored(m)
                 /\ IF cfg.format = "path" THEN DOMAIN m.labels # {}
                    ELSE Quote \notin {query.value[i] : i \in DOMAIN query.value}
                 => m \in {LabelsOf(path) : path \in Found(query)}
           /\ (\A m \in written : Restored(m)) =>
                 {LabelsOf(path) : path \in Found(query)} \subseteq {m \in written : Matches(m, query)}
<1>1. cfg.format = "path" \/ cfg.format = "tags"
  BY ConfigsAssumption DEF ArchiveKept
<1>2. ASSUME NEW m \in written, Restored(m)
      PROVE  /\ LabelsOf(DefaultPath(m, cfg.format)) = m
             /\ DefaultPath(m, cfg.format) \in Found(query) => Matches(m, query)
             /\ /\ Matches(m, query)
                /\ IF cfg.format = "path" THEN DOMAIN m.labels # {}
                   ELSE Quote \notin {query.value[i] : i \in DOMAIN query.value}
                => DefaultPath(m, cfg.format) \in Found(query)
  <2>1. CASE cfg.format = "path"
    BY <1>2, <2>1, FoundByPath DEF LabelsOf, Found
  <2>2. CASE cfg.format = "tags"
    BY <1>2, <2>2, FoundByTags DEF LabelsOf, Found
  <2> QED BY <1>1, <2>1, <2>2
<1>3. ASSUME NEW m \in written, Matches(m, query), Restored(m),
             IF cfg.format = "path" THEN DOMAIN m.labels # {}
             ELSE Quote \notin {query.value[i] : i \in DOMAIN query.value}
      PROVE  m \in {LabelsOf(path) : path \in Found(query)}
  BY <1>2, <1>3
<1>4. ASSUME \A m \in written : Restored(m), NEW path \in Found(query)
      PROVE  LabelsOf(path) \in {m \in written : Matches(m, query)}
  <2>1. path \in graphite
    BY DEF Found, QueryToTargets, QueryToTargetsWithTags
  <2>2. PICK m \in written : path = DefaultPath(m, cfg.format)
    BY <2>1 DEF ArchiveKept
  <2> QED BY <1>2, <1>4, <2>2
<1> QED BY <1>3, <1>4

-----------------------------------------------------------------------------
(* ArchiveKept carries ReadsBack through a read; a write leaves the answer *)
(* and what it is about alone.                                             *)
ReadInv == ArchiveKept /\ ReadsBack

LEMMA WriteReads ==
    ASSUME ReadInv, NEW m \in Metrics, Write(m)
    PROVE  ReadInv'
<1>1. cfg' = cfg /\ answer' = answer /\ written' = written \cup {m}
      /\ graphite' = graphite \cup {DefaultPath(m, cfg.format)}
  BY DEF Write
<1>2. ArchiveKept'
  BY <1>1 DEF ReadInv, ArchiveKept
<1>3. ReadsBack'
  BY <1>1 DEF ReadInv, ReadsBack, Wanted, Matches, LabelValue, Restored, All, Readable, Distinct
<1> QED BY <1>2, <1>3 DEF ReadInv

LEMMA ReadReads ==
    ASSUME ReadInv, NEW query \in Queries, NEW datapoints, Read(query, datapoints)
    PROVE  ReadInv'
<1>1. cfg' = cfg /\ written' = written /\ graphite' = graphite /\ cfg.format # "openmetrics"
  BY DEF Read
<1>2. ArchiveKept'
  BY <1>1 DEF ReadInv, ArchiveKept
<1>3. CASE answer' = Null
  BY <1>2, <1>3 DEF ReadInv, ReadsBack
<1>4. CASE answer' # Null
  <2>1. answer'.query = query /\ answer'.written = written
        /\ answer'.labels = {LabelsOf(path) : path \in Found(query)}
    BY <1>4 DEF Read
  <2>2. SUFFICES ASSUME cfg.format = "tags" => query.label # NameTag PROVE ReadsBack'
    BY <1>1, <1>2, <2>1 DEF ReadInv, ReadsBack
  <2>3. \A m : Restored(m)' <=> Restored(m)
    BY <1>1 DEF Restored, All, Readable, Distinct
  <2>4. Wanted' = {m \in written : Matches(m, query)}
    BY <2>1 DEF Wanted, Matches, LabelValue
  <2>5. PICK labels, wanted :
           labels = {LabelsOf(path) : path \in Found(query)} /\ wanted = {m \in written : Matches(m, query)}
    OBVIOUS
  <2>6. /\ \A m \in wanted :
              /\ Restored(m)
              /\ IF cfg.format = "path" THEN DOMAIN m.labels # {}
                 ELSE Quote \notin {query.value[i] : i \in DOMAIN query.value}
              => m \in labels
        /\ (\A m \in written : Restored(m)) => labels \subseteq wanted
    BY <1>1, <2>2, <2>5, AnswerRight DEF ReadInv
  <2> HIDE DEF Restored
  <2> QED BY <1>1, <2>1, <2>3, <2>4, <2>5, <2>6 DEF ReadsBack
<1> QED BY <1>2, <1>3, <1>4 DEF ReadInv

stored == <<cfg, graphite, written, answer>>

LEMMA ReadInvStep == ReadInv /\ [SimulationNext]_simulationVars => ReadInv'
<1> SUFFICES ASSUME ReadInv, [SimulationNext]_simulationVars PROVE ReadInv'
  OBVIOUS
<1>1. CASE UNCHANGED stored
  BY <1>1 DEF stored, ReadInv, ArchiveKept, ReadsBack, Wanted, Matches, LabelValue, Restored, All,
              Readable, Distinct
<1>2. ASSUME NEW text \in Texts, SimulWrite(text) PROVE UNCHANGED stored
  BY <1>2 DEF SimulWrite, stored
<1>3. ASSUME NEW r \in pending, ServeDryRun(r) \/ FailDryRun(r) \/ HandleSimulationResult(r)
      PROVE  UNCHANGED stored
  BY <1>3 DEF ServeDryRun, FailDryRun, HandleSimulationResult, archive, stored
<1>4. UNCHANGED simulationVars => UNCHANGED stored
  BY DEF simulationVars, archive, stored
<1> QED
  BY <1>1, <1>2, <1>3, <1>4, WriteReads, ReadReads DEF SimulationNext, ArchiveNext

(* What is written through the adapter is read through it: for any metrics, *)
(* any order of writes and reads and whatever graphite renders, a read       *)
(* brings every metric that it asks for and that its format can restore,    *)
(* and as long as all can be restored it brings nothing else.               *)
THEOREM WrittenReadsBack == SimulationSpec => []ReadsBack
<1>1. SimulationInit => ReadInv
  BY DEF SimulationInit, ArchiveInit, ReadInv, ArchiveKept, ReadsBack
<1>2. ReadInv => ReadsBack
  BY DEF ReadInv
<1> QED BY <1>1, <1>2, ReadInvStep, PTL DEF SimulationSpec

-----------------------------------------------------------------------------
(* y comes behind x in the texts of t, in one of them or at the end of one   *)
(* and at the beginning of the next one that is not empty.                  *)
Beside(t, x, y) ==
    \/ \E p \in 1..Len(t) : \E k \in 1..(Len(t[p]) - 1) : x = t[p][k] /\ y = t[p][k + 1]
    \/ \E p \in 1..Len(t) : \E q \in (p + 1)..Len(t) :
          /\ t[p] # <<>> /\ t[q] # <<>> /\ x = t[p][Len(t[p])] /\ y = t[q][1]
          /\ \A r \in (p + 1)..(q - 1) : t[r] = <<>>

(* x is the last thing in the texts of t. *)
AtEnd(t, x) ==
    \E p \in 1..Len(t) : /\ t[p] # <<>> /\ x = t[p][Len(t[p])]
                         /\ \A r \in (p + 1)..Len(t) : t[r] = <<>>

(* What the texts of t make, thing by thing.                                *)
MadeOf(t, f) ==
    /\ \A i \in 1..Len(f) : \E p \in 1..Len(t) : \E k \in 1..Len(t[p]) : f[i] = t[p][k]
    /\ \A p \in 1..Len(t) : \A k \in 1..Len(t[p]) : \E i \in 1..Len(f) : f[i] = t[p][k]
    /\ \A i \in 1..(Len(f) - 1) : Beside(t, f[i], f[i + 1])
    /\ f # <<>> => AtEnd(t, f[Len(f)])
    /\ f = <<>> => \A p \in 1..Len(t) : t[p] = <<>>

(* One text more is one more place where things come from.                 *)
LEMMA MadeNext ==
    ASSUME NEW A, NEW t \in Seq(Seq(A)), NEW f \in Seq(A), MadeOf(t, f), NEW c \in Seq(A),
           NEW u \in Seq(Seq(A)), u = Append(t, c), NEW g \in Seq(A), g = f \o c
    PROVE  MadeOf(u, g)
<1>1. PICK n \in Nat, l \in Nat, m \in Nat : n = Len(t) /\ l = Len(f) /\ m = Len(c)
  OBVIOUS
<1>2. Len(u) = n + 1 /\ u[n + 1] = c /\ \A p \in 1..n : u[p] = t[p]
  BY <1>1, AppendProperties
<1>3. Len(g) = l + m /\ (\A i \in 1..l : g[i] = f[i]) /\ \A i \in 1..m : g[l + i] = c[i]
  BY <1>1, ConcatProperties
<1>4. ASSUME NEW i \in 1..Len(g)
      PROVE  \E p \in 1..Len(u) : \E k \in 1..Len(u[p]) : g[i] = u[p][k]
  <2>1. CASE i \in 1..l
    <3>1. PICK p \in 1..n : \E k \in 1..Len(t[p]) : f[i] = t[p][k]
      BY <1>1, <2>1 DEF MadeOf
    <3>2. p \in 1..Len(u) /\ u[p] = t[p] /\ g[i] = f[i]
      BY <1>2, <1>3, <2>1, SMTT(20)
    <3> QED BY <3>1, <3>2
  <2>2. CASE i \notin 1..l
    <3>1. i - l \in 1..m /\ g[l + (i - l)] = c[i - l] /\ i = l + (i - l)
      BY <1>3, <2>2
    <3>2. n + 1 \in 1..Len(u) /\ i - l \in 1..Len(u[n + 1]) /\ g[i] = u[n + 1][i - l]
      BY <1>1, <1>2, <3>1
    <3> QED BY <3>2
  <2> QED BY <2>1, <2>2
<1>5. ASSUME NEW p \in 1..Len(u), NEW k \in 1..Len(u[p])
      PROVE  \E i \in 1..Len(g) : g[i] = u[p][k]
  <2>1. CASE p \in 1..n
    <3>1. u[p] = t[p]
      BY <1>2, <2>1
    <3>2. PICK i \in 1..l : f[i] = t[p][k]
      BY <1>1, <2>1, <3>1 DEF MadeOf
    <3>3. i \in 1..Len(g) /\ g[i] = u[p][k]
      BY <1>3, <3>1, <3>2, SMTT(20)
    <3> QED BY <3>3
  <2>2. CASE p = n + 1
    <3>1. u[p] = c /\ k \in 1..m
      BY <1>1, <1>2, <2>2
    <3>2. l + k \in 1..Len(g) /\ g[l + k] = u[p][k]
      BY <1>3, <3>1
    <3> QED BY <3>2
  <2>3. p \in 1..n \/ p = n + 1
    BY <1>2
  <2> QED BY <2>1, <2>2, <2>3
<1>6. ASSUME NEW i \in 1..(Len(g) - 1) PROVE Beside(u, g[i], g[i + 1])
  <2>1. CASE i \in 1..(l - 1)
    <3>1. Beside(t, f[i], f[i + 1]) /\ g[i] = f[i] /\ g[i + 1] = f[i + 1]
      <4>1. i \in 1..l /\ i + 1 \in 1..l /\ i \in 1..(Len(f) - 1)
        BY <1>1, <2>1
      <4>2. Beside(t, f[i], f[i + 1])
        BY <4>1 DEF MadeOf
      <4> QED BY <1>3, <4>1, <4>2
    <3>2. ASSUME NEW x, NEW y, Beside(t, x, y) PROVE Beside(u, x, y)
      <4>1. CASE \E p \in 1..n : \E k \in 1..(Len(t[p]) - 1) : x = t[p][k] /\ y = t[p][k + 1]
        <5>1. PICK p \in 1..n : \E k \in 1..(Len(t[p]) - 1) : x = t[p][k] /\ y = t[p][k + 1]
          BY <4>1
        <5>2. p \in 1..Len(u) /\ u[p] = t[p]
          BY <1>2
        <5> QED BY <5>1, <5>2 DEF Beside
      <4>2. CASE \E p \in 1..n : \E q \in (p + 1)..n :
                    /\ t[p] # <<>> /\ t[q] # <<>> /\ x = t[p][Len(t[p])] /\ y = t[q][1]
                    /\ \A r \in (p + 1)..(q - 1) : t[r] = <<>>
        <5>0. PICK p \in 1..n : \E q \in (p + 1)..n :
                 /\ t[p] # <<>> /\ t[q] # <<>> /\ x = t[p][Len(t[p])] /\ y = t[q][1]
                 /\ \A r \in (p + 1)..(q - 1) : t[r] = <<>>
          BY <4>2
        <5>1. PICK q \in (p + 1)..n :
                 /\ t[p] # <<>> /\ t[q] # <<>> /\ x = t[p][Len(t[p])] /\ y = t[q][1]
                 /\ \A r \in (p + 1)..(q - 1) : t[r] = <<>>
          BY <5>0
        <5>5. p \in 1..n /\ q \in 1..n /\ p \in 1..Len(u) /\ q \in (p + 1)..Len(u)
          BY <1>2
        <5>2. u[p] = t[p] /\ u[q] = t[q]
          BY <1>2, <5>5
        <5>3. \A r \in (p + 1)..(q - 1) : r \in 1..n
          BY <5>5
        <5>4. \A r \in (p + 1)..(q - 1) : u[r] = <<>>
          BY <1>2, <5>1, <5>3
        <5> QED BY <5>1, <5>2, <5>4, <5>5 DEF Beside
      <4> QED BY <1>1, <3>2, <4>1, <4>2 DEF Beside
    <3> QED BY <3>1, <3>2
  <2>2. CASE i = l /\ l # 0
    <3>1. f # <<>>
      BY <1>1, <2>2
    <3>2. PICK p \in 1..n : /\ t[p] # <<>> /\ f[l] = t[p][Len(t[p])]
                            /\ \A r \in (p + 1)..n : t[r] = <<>>
      BY <1>1, <3>1 DEF MadeOf, AtEnd
    <3>3. g[i] = f[l] /\ g[i + 1] = c[1] /\ c # <<>>
      BY <1>1, <1>3, <2>2
    <3>4. p \in 1..Len(u) /\ n + 1 \in (p + 1)..Len(u) /\ u[p] = t[p] /\ u[n + 1] = c
      BY <1>2
    <3>5. \A r \in (p + 1)..n : u[r] = <<>>
      <4>1. \A r \in (p + 1)..n : r \in 1..n
        OBVIOUS
      <4> QED BY <1>2, <3>2, <4>1
    <3>6. (p + 1)..((n + 1) - 1) = (p + 1)..n
      OBVIOUS
    <3> QED BY <3>2, <3>3, <3>4, <3>5, <3>6 DEF Beside
  <2>3. CASE i > l
    <3>1. i - l \in 1..(m - 1) /\ i = l + (i - l) /\ i + 1 = l + ((i - l) + 1)
      BY <1>3, <2>3
    <3>2. g[i] = c[i - l] /\ g[i + 1] = c[(i - l) + 1]
      <4>1. i - l \in 1..m /\ (i - l) + 1 \in 1..m
        BY <3>1
      <4>2. g[l + (i - l)] = c[i - l] /\ g[l + ((i - l) + 1)] = c[(i - l) + 1]
        BY <1>3, <4>1
      <4> QED BY <3>1, <4>2
    <3>3. n + 1 \in 1..Len(u) /\ i - l \in 1..(Len(u[n + 1]) - 1)
          /\ g[i] = u[n + 1][i - l] /\ g[i + 1] = u[n + 1][(i - l) + 1]
      BY <1>1, <1>2, <3>1, <3>2
    <3> QED BY <3>3 DEF Beside
  <2>4. i \in 1..(l - 1) \/ (i = l /\ l # 0) \/ i > l
    BY <1>3
  <2> QED BY <2>1, <2>2, <2>3, <2>4
<1>7. ASSUME g # <<>> PROVE AtEnd(u, g[Len(g)])
  <2>1. CASE c # <<>>
    <3>1. m # 0
      BY <1>1, <2>1
    <3>2. g[Len(g)] = c[m]
      BY <1>3, <3>1
    <3>3. n + 1 \in 1..Len(u) /\ u[n + 1] # <<>> /\ g[Len(g)] = u[n + 1][Len(u[n + 1])]
          /\ \A r \in ((n + 1) + 1)..Len(u) : u[r] = <<>>
      BY <1>1, <1>2, <2>1, <3>2
    <3> QED BY <3>3 DEF AtEnd
  <2>2. CASE c = <<>>
    <3>1. g = f /\ m = 0
      BY <1>1, <2>2
    <3>2. PICK p \in 1..n : /\ t[p] # <<>> /\ f[l] = t[p][Len(t[p])]
                            /\ \A r \in (p + 1)..n : t[r] = <<>>
      BY <1>1, <1>7, <3>1 DEF MadeOf, AtEnd
    <3>3. p \in 1..Len(u) /\ u[p] = t[p]
      BY <1>2
    <3>4. ASSUME NEW r \in (p + 1)..Len(u) PROVE u[r] = <<>>
      <4>1. r = n + 1 \/ (r \in 1..n /\ r \in (p + 1)..n)
        BY <1>2
      <4> QED BY <1>2, <2>2, <3>2, <4>1
    <3> QED BY <1>1, <3>1, <3>2, <3>3, <3>4 DEF AtEnd
  <2> QED BY <2>1, <2>2
<1>8. ASSUME g = <<>> PROVE \A p \in 1..Len(u) : u[p] = <<>>
  <2>1. l = 0 /\ m = 0
    BY <1>3, <1>8
  <2>2. f = <<>> /\ c = <<>>
    <3>1. \A x \in Seq(A) : Len(x) = 0 => x = <<>>
      OBVIOUS
    <3> QED BY <1>1, <2>1, <3>1
  <2>3. \A p \in 1..n : t[p] = <<>>
    BY <1>1, <2>2 DEF MadeOf
  <2>4. \A p \in 1..Len(u) : p \in 1..n \/ p = n + 1
    BY <1>2
  <2> QED BY <1>2, <2>2, <2>3, <2>4
<1> QED BY <1>4, <1>5, <1>6, <1>7, <1>8 DEF MadeOf

(* So it is for any number of texts.                                        *)
LEMMA FlattenMade ==
    ASSUME NEW A, NEW t \in Seq(Text(A))
    PROVE  MadeOf(t, FlattenSeq(t))
<1> DEFINE G == {u \in Seq(Text(A)) : MadeOf(u, FlattenSeq(u))}
<1>1. <<>> \in G
  <2>1. MadeOf(<<>>, <<>>)
    BY DEF MadeOf
  <2> QED BY <2>1, FlattenEmpty
<1>2. ASSUME NEW u \in Text(Text(A)), NEW c \in Text(A), u \in G PROVE Append(u, c) \in G
  <2>1. FlattenSeq(u) \in Text(A) /\ FlattenSeq(Append(u, c)) = Cat(FlattenSeq(u), c)
    BY <1>2, FlattenType, FlattenAppend
  <2>2. PICK f \in Text(A), g \in Text(A) :
           f = FlattenSeq(u) /\ g = FlattenSeq(Append(u, c)) /\ g = Cat(f, c)
    BY <2>1, TextConcat
  <2>3. PICK w \in Seq(Text(A)) : w = Append(u, c)
    <3>1. u \in Seq(Text(A))
      BY <1>2
    <3> QED BY <3>1, AppendProperties
  <2>4. MadeOf(u, f) /\ u \in Seq(Text(A))
    BY <1>2, <2>2
  <2>5. u \in Seq(Seq(A)) /\ w \in Seq(Seq(A)) /\ f \in Seq(A) /\ g \in Seq(A) /\ c \in Seq(A) /\ g = f \o c
    BY <2>2, <2>3, <2>4 DEF Text, Cat
  <2>6. MadeOf(w, g)
    BY <2>3, <2>4, <2>5, MadeNext
  <2> QED BY <2>2, <2>3, <2>6
<1>3. \A v \in Text(Text(A)) : v \in G
  <2> HIDE DEF G
  <2> QED BY <1>1, <1>2, TextInduction
<1>4. t \in Text(Text(A))
  BY DEF Text
<1> QED BY <1>3, <1>4

-----------------------------------------------------------------------------
(* Graphite's datapoints, and an interval that the code can divide by.      *)
Rendered == [time : Int, value : Int \cup {Null}]
Timed(d) ==
    /\ d \in Seq(Rendered)
    /\ \A i, j \in DOMAIN d : i < j => d[i].time < d[j].time
Divisible(d) == cfg.maxPointDelta \in Nat /\ ~DividesByZero(d)

Segment(d, i) ==
    IF d[i].value = Null THEN <<>>
    ELSE IF Paired(d, i) /\ cfg.maxPointDelta # 0
         THEN <<d[i]>> \o Intermediate(d[i], d[i + 1])
         ELSE <<d[i]>>

(* The samples of an answer are one segment after another.                 *)
LEMMA SamplesAre == \A d : SamplesFromDatapoints(d) = FlattenSeq([i \in DOMAIN d |-> Segment(d, i)])
  BY DEF SamplesFromDatapoints, Segment

(* The division of integers rounds down.                                   *)
LEMMA DivisionIs ==
    ASSUME NEW n \in Int, NEW m \in Nat, m >= 1
    PROVE  /\ n \div m \in Int
           /\ 0 <= n - m * (n \div m) /\ n - m * (n \div m) < m
           /\ n >= 0 => n \div m >= 0
  OBVIOUS

(* Where something is put in, the interval is at least a second.           *)
LEMMA IntervalIs ==
    ASSUME NEW d, Timed(d), Divisible(d), NEW p \in 1..Len(d), Paired(d, p), cfg.maxPointDelta # 0
    PROVE  IntervalSecond \in Nat /\ IntervalSecond >= 1 /\ cfg.maxPointDelta >= 1000
<1>1. cfg.maxPointDelta \in Nat
  BY DEF Divisible
<1>2. IntervalSecond \in Nat /\ (IntervalSecond >= 1 => cfg.maxPointDelta >= 1000)
  BY <1>1 DEF IntervalSecond
<1>3. p \in DOMAIN d
  BY DEF Timed
<1>4. IntervalSecond # 0
  BY <1>3 DEF Divisible, DividesByZero
<1> QED BY <1>2, <1>4

(* Two datapoints with values, next to each other.                         *)
LEMMA PairIs ==
    ASSUME NEW d, Timed(d), NEW p \in 1..Len(d), Paired(d, p)
    PROVE  /\ d[p].time \in Int /\ d[p].value \in Int
           /\ d[p + 1].time \in Int /\ d[p + 1].value \in Int
           /\ p + 1 \in 1..Len(d) /\ d[p].time < d[p + 1].time
<1>1. p \in DOMAIN d /\ p + 1 \in DOMAIN d /\ p + 1 \in 1..Len(d)
  BY DEF Timed, Paired
<1>2. d[p] \in Rendered /\ d[p + 1] \in Rendered
  BY <1>1 DEF Timed
<1>3. d[p].value # Null /\ d[p + 1].value # Null
  BY DEF Paired
<1>4. d[p].time < d[p + 1].time
  BY <1>1 DEF Timed
<1> QED BY <1>1, <1>2, <1>3, <1>4 DEF Rendered

(* The samples between two datapoints: how many there are, and when.        *)
LEMMA IntermediateIs ==
    ASSUME NEW a, NEW b, a.time \in Int, b.time \in Int, a.value \in Int, b.value \in Int,
           a.time < b.time, IntervalSecond \in Nat, IntervalSecond >= 1
    PROVE  \E n \in Nat :
              /\ Intermediate(a, b) \in Seq(Rendered) /\ Len(Intermediate(a, b)) = n
              /\ b.time - (a.time + n * IntervalSecond) < 2 * IntervalSecond
              /\ n > 0 => a.time + n * IntervalSecond + IntervalSecond <= b.time
              /\ \A j \in 1..n :
                    /\ Intermediate(a, b)[j].time = a.time + j * IntervalSecond
                    /\ OnTheLine(a, b, Intermediate(a, b)[j])
<1>1. PICK I \in Nat, e \in Nat, v \in Int :
         I = IntervalSecond /\ I >= 1 /\ e = b.time - a.time /\ e >= 1 /\ v = b.value - a.value
  OBVIOUS
<1>2. PICK x \in Nat : x = e \div I /\ 0 <= e - I * x /\ e - I * x < I
  <2>1. e \in Int /\ e >= 0 /\ I \in Nat /\ I >= 1
    BY <1>1
  <2>2. e \div I \in Int /\ 0 <= e - I * (e \div I) /\ e - I * (e \div I) < I /\ e \div I >= 0
    BY <2>1, DivisionIs
  <2> QED BY <2>2
<1>3. PICK n \in Nat : n = (IF x = 0 THEN 0 ELSE x - 1) /\ 1..(x - 1) = 1..n
  OBVIOUS
<1> DEFINE at(j) == [time |-> a.time + j * I, value |-> a.value + (j * I * v) \div e]
<1>4. Intermediate(a, b) = [j \in 1..n |-> at(j)]
  BY <1>1, <1>2, <1>3 DEF Intermediate
<1>5. ASSUME NEW j \in 1..n PROVE at(j) \in Rendered /\ OnTheLine(a, b, at(j))
  <2>1. PICK m \in Int : m = j * I * v
    BY <1>1
  <2>2. m \div e \in Int /\ 0 <= m - e * (m \div e) /\ m - e * (m \div e) < e
    BY <1>1, DivisionIs
  <2>3. PICK q \in Int : q = m \div e /\ 0 <= m - e * q /\ m - e * q < e
    BY <2>2
  <2>4. at(j).time = a.time + j * I /\ at(j).value = a.value + q /\ a.time + j * I \in Int
    BY <1>1, <2>1, <2>3
  <2>5. at(j) \in Rendered
    BY <2>4 DEF Rendered
  <2>6. at(j).time - a.time = j * I /\ at(j).value - a.value = q
    BY <1>1, <2>4
  <2>7. (at(j).time - a.time) * (b.value - a.value) - (at(j).value - a.value) * (b.time - a.time) = m - q * e
    BY <1>1, <2>1, <2>6
  <2>8. m - q * e \in 0..(e - 1)
    BY <1>1, <2>3
  <2> QED BY <1>1, <2>5, <2>7, <2>8 DEF OnTheLine
<1>6. [j \in 1..n |-> at(j)] \in Seq(Rendered) /\ Len([j \in 1..n |-> at(j)]) = n
  <2>1. \A j \in 1..n : at(j) \in Rendered
    BY <1>5
  <2> HIDE DEF at
  <2> QED BY <2>1
<1>7. e - n * I < 2 * I /\ (n > 0 => n * I + I <= e)
  <2>1. CASE x = 0
    BY <1>1, <1>2, <1>3, <2>1
  <2>2. CASE x # 0
    <3>1. n = x - 1 /\ n * I = I * x - I
      BY <1>1, <1>3, <2>2
    <3> QED BY <1>1, <1>2, <3>1
  <2> QED BY <2>1, <2>2
<1>8. b.time - (a.time + n * IntervalSecond) < 2 * IntervalSecond
  BY <1>1, <1>7
<1>9. n > 0 => a.time + n * IntervalSecond + IntervalSecond <= b.time
  BY <1>1, <1>7
<1>10. \A j \in 1..n : /\ Intermediate(a, b)[j].time = a.time + j * IntervalSecond
                       /\ OnTheLine(a, b, Intermediate(a, b)[j])
  BY <1>1, <1>4, <1>5
<1> QED BY <1>4, <1>6, <1>8, <1>9, <1>10

(* What a segment is: nothing for a datapoint without a value, and else the  *)
(* datapoint and the samples up to the next one.                            *)
Spaced(d, p, s) ==
    /\ \A k \in 2..Len(s) :
          /\ d[p].time < s[k].time /\ s[k].time < d[p + 1].time
          /\ s[k].time - s[k - 1].time = IntervalSecond
          /\ OnTheLine(d[p], d[p + 1], s[k])
    /\ s[Len(s)].time >= d[p].time /\ s[Len(s)].time < d[p + 1].time
    /\ d[p + 1].time - s[Len(s)].time < 2 * IntervalSecond

LEMMA SegmentIs ==
    ASSUME NEW d, Timed(d), Divisible(d), NEW p \in 1..Len(d)
    PROVE  /\ Segment(d, p) \in Text(Rendered)
           /\ Segment(d, p) = <<>> <=> d[p].value = Null
           /\ Segment(d, p) # <<>> => Segment(d, p)[1] = d[p]
           /\ ~Paired(d, p) \/ cfg.maxPointDelta = 0 => Len(Segment(d, p)) \in {0, 1}
           /\ Paired(d, p) /\ cfg.maxPointDelta # 0 => Spaced(d, p, Segment(d, p))
<1>1. d[p] \in Rendered /\ p \in DOMAIN d
  BY DEF Timed
<1>2. PICK a \in Rendered, one \in Seq(Rendered) :
         a = d[p] /\ one = <<a>> /\ Len(one) = 1 /\ one[1] = a /\ one # <<>>
  <2>1. <<d[p]>> \in Seq(Rendered) /\ Len(<<d[p]>>) = 1 /\ <<d[p]>>[1] = d[p] /\ <<d[p]>> # <<>>
    BY <1>1
  <2> QED BY <1>1, <2>1
<1>3. CASE d[p].value = Null
  <2>1. Segment(d, p) = <<>> /\ ~Paired(d, p)
    BY <1>3 DEF Segment, Paired
  <2> QED BY <1>3, <2>1, TextEmpty
<1>4. CASE d[p].value # Null /\ ~(Paired(d, p) /\ cfg.maxPointDelta # 0)
  <2>1. Segment(d, p) = one
    BY <1>2, <1>4 DEF Segment
  <2> QED BY <1>2, <1>4, <2>1 DEF Text
<1>5. CASE Paired(d, p) /\ cfg.maxPointDelta # 0
  <2>1. PICK b : b = d[p + 1]
    OBVIOUS
  <2>2. /\ a.time \in Int /\ a.value \in Int /\ b.time \in Int /\ b.value \in Int
        /\ a.time < b.time
    BY <1>2, <1>5, <2>1, PairIs
  <2>3. PICK I \in Nat : I = IntervalSecond /\ I >= 1
    BY <1>5, IntervalIs
  <2>4. PICK n \in Nat, c \in Seq(Rendered) :
           /\ c = Intermediate(a, b) /\ Len(c) = n
           /\ b.time - (a.time + n * I) < 2 * I
           /\ n > 0 => a.time + n * I + I <= b.time
           /\ \A j \in 1..n : c[j].time = a.time + j * I /\ OnTheLine(a, b, c[j])
    BY <2>2, <2>3, IntermediateIs
  <2>5. PICK s \in Seq(Rendered) : s = one \o c
    BY <1>2, <2>4, ConcatProperties
  <2>6. Len(s) = n + 1 /\ s[1] = a /\ \A j \in 1..n : s[1 + j] = c[j]
    BY <1>2, <2>4, <2>5, ConcatProperties
  <2>7. Segment(d, p) = s /\ d[p].value # Null
    BY <1>2, <1>5, <2>1, <2>4, <2>5 DEF Segment, Paired
  <2>8. s # <<>>
    BY <2>6
  <2>9. \A k \in 1..(n + 1) : s[k].time = a.time + (k - 1) * I
    <3>1. ASSUME NEW k \in 1..(n + 1) PROVE s[k].time = a.time + (k - 1) * I
      <4>1. CASE k = 1
        BY <2>2, <2>3, <2>6, <4>1
      <4>2. CASE k # 1
        <5>1. k - 1 \in 1..n /\ k = 1 + (k - 1)
          BY <4>2
        <5> QED BY <2>4, <2>6, <5>1
      <4> QED BY <4>1, <4>2
    <3> QED BY <3>1
  <2>10. ASSUME NEW k \in 2..Len(s)
         PROVE  /\ a.time < s[k].time /\ s[k].time < b.time
                /\ s[k].time - s[k - 1].time = I
                /\ OnTheLine(a, b, s[k])
    <3>1. PICK j \in 1..n : j = k - 1 /\ k = 1 + j /\ s[k] = c[j]
      BY <2>6, <2>10
    <3>2. k \in 1..(n + 1) /\ k - 1 \in 1..(n + 1)
      BY <2>6, <2>10
    <3>3. s[k].time = a.time + (k - 1) * I /\ s[k - 1].time = a.time + ((k - 1) - 1) * I
      BY <2>9, <3>2
    <3>4. PICK x \in Int, y \in Int : x = j * I /\ y = n * I /\ I <= x /\ x <= y
      <4>1. j * I \in Int /\ n * I \in Int /\ I <= j * I /\ j * I <= n * I
        BY <2>3
      <4> QED BY <4>1
    <3>5. (k - 1) * I = x /\ ((k - 1) - 1) * I = x - I
      BY <3>1, <3>4, <2>3
    <3>6. a.time + y + I <= b.time
      BY <2>4, <3>1, <3>4, SMTT(20)
    <3>7. a.time < s[k].time /\ s[k].time < b.time /\ s[k].time - s[k - 1].time = I
      <4>1. PICK at \in Int, bt \in Int : at = a.time /\ bt = b.time
        BY <2>2
      <4>2. s[k].time = at + x /\ s[k - 1].time = at + (x - I)
        BY <3>3, <3>5, <4>1
      <4>3. PICK st \in Int, pt \in Int : st = s[k].time /\ pt = s[k - 1].time /\ st = at + x /\ pt = at + (x - I)
        BY <4>2
      <4>4. at + y + I <= bt
        BY <3>6, <4>1
      <4>5. I >= 1 /\ I <= x /\ x <= y
        BY <2>3, <3>4
      <4>6. st = at + x /\ pt = at + (x - I)
        BY <4>3
      <4>7. at < st /\ st < bt /\ st - pt = I
        BY <4>4, <4>5, <4>6
      <4> QED BY <4>1, <4>3, <4>7
    <3> QED BY <2>4, <3>1, <3>7
  <2>11. /\ s[Len(s)].time >= a.time /\ s[Len(s)].time < b.time
         /\ b.time - s[Len(s)].time < 2 * I
    <3>1. PICK y \in Int : y = n * I /\ y >= 0 /\ (n = 0 => y = 0)
      <4>1. n * I \in Int /\ n * I >= 0 /\ (n = 0 => n * I = 0)
        BY <2>3
      <4> QED BY <4>1
    <3>2. s[Len(s)].time = a.time + y
      <4>1. n + 1 \in 1..(n + 1) /\ (n + 1) - 1 = n
        OBVIOUS
      <4> QED BY <2>6, <2>9, <3>1, <4>1
    <3>3. n > 0 => a.time + y + I <= b.time
      BY <2>4, <3>1
    <3>4. b.time - (a.time + y) < 2 * I
      BY <2>4, <3>1
    <3>5. PICK at \in Int, bt \in Int : at = a.time /\ bt = b.time /\ at < bt
      BY <2>2
    <3>6. PICK lt \in Int : lt = s[Len(s)].time /\ lt = at + y
      BY <3>2, <3>5
    <3>7. lt >= at /\ lt < bt /\ bt - lt < 2 * I
      <4>1. n = 0 => lt < bt
        BY <3>1, <3>5, <3>6
      <4>2. n > 0 => lt < bt
        BY <2>3, <3>3, <3>5, <3>6, SMTT(20)
      <4>3. bt - lt < 2 * I
        BY <3>4, <3>5, <3>6
      <4> QED BY <3>1, <3>5, <3>6, <4>1, <4>2, <4>3
    <3> QED BY <3>5, <3>6, <3>7
  <2>12. Spaced(d, p, s)
    BY <1>2, <2>1, <2>3, <2>10, <2>11 DEF Spaced
  <2> QED BY <1>2, <1>5, <2>5, <2>6, <2>7, <2>8, <2>12 DEF Text
<1>6. Paired(d, p) => d[p].value # Null
  BY DEF Paired
<1> QED BY <1>3, <1>4, <1>5, <1>6

-----------------------------------------------------------------------------
(* The times of the datapoints, in terms of their places.                  *)
LEMMA TimesGrow ==
    ASSUME NEW d, Timed(d), NEW i \in 1..Len(d), NEW j \in 1..Len(d), i <= j
    PROVE  /\ d[i].time \in Int /\ d[j].time \in Int
           /\ d[i].time <= d[j].time /\ (i < j => d[i].time < d[j].time)
<1>1. i \in DOMAIN d /\ j \in DOMAIN d /\ d[i] \in Rendered /\ d[j] \in Rendered
  BY DEF Timed
<1>2. d[i].time \in Int /\ d[j].time \in Int
  BY <1>1 DEF Rendered
<1>3. i < j => d[i].time < d[j].time
  BY <1>1 DEF Timed
<1>4. i = j \/ i < j
  OBVIOUS
<1> QED BY <1>2, <1>3, <1>4

(* What is strictly between two datapoints is none of them, and between no  *)
(* other two.                                                               *)
LEMMA Inside ==
    ASSUME NEW d, Timed(d), NEW p \in 1..Len(d), Paired(d, p),
           NEW x, x.time \in Int, d[p].time < x.time, x.time < d[p + 1].time
    PROVE  x \notin Known(d) /\ \A j \in DOMAIN d : Between(d, j, x) => j = p
<1>1. p + 1 \in 1..Len(d) /\ DOMAIN d = 1..Len(d)
  BY PairIs DEF Timed
<1>2. PICK t \in Int : t = x.time
  OBVIOUS
<1>3. ASSUME NEW j \in 1..Len(d) PROVE d[j].time # t
  <2>1. CASE j <= p
    <3>1. d[j].time \in Int /\ d[p].time \in Int /\ d[j].time <= d[p].time
      BY <2>1, TimesGrow
    <3> QED BY <1>2, <3>1
  <2>2. CASE p + 1 <= j
    <3>1. d[j].time \in Int /\ d[p + 1].time \in Int /\ d[p + 1].time <= d[j].time
      BY <1>1, <2>2, TimesGrow
    <3> QED BY <1>2, <3>1
  <2> QED BY <2>1, <2>2
<1>4. x \notin Known(d)
  BY <1>1, <1>2, <1>3 DEF Known
<1>5. ASSUME NEW j \in 1..Len(d), Between(d, j, x) PROVE j = p
  <2>1. d[j].time <= t /\ t <= d[j + 1].time /\ j + 1 \in 1..Len(d)
    BY <1>2, <1>5 DEF Between, Paired
  <2>2. CASE j + 1 <= p
    <3>1. d[j + 1].time \in Int /\ d[p].time \in Int /\ d[j + 1].time <= d[p].time
      BY <2>1, <2>2, TimesGrow
    <3> QED BY <1>2, <2>1, <3>1
  <2>3. CASE p + 1 <= j
    <3>1. d[j].time \in Int /\ d[p + 1].time \in Int /\ d[p + 1].time <= d[j].time
      BY <1>1, <2>3, TimesGrow
    <3> QED BY <1>2, <2>1, <3>1
  <2> QED BY <2>2, <2>3
<1> QED BY <1>1, <1>4, <1>5

(* A datapoint lies between itself and one of its neighbours.               *)
LEMMA AtPoint ==
    ASSUME NEW d, Timed(d), NEW p \in 1..Len(d), NEW j \in 1..Len(d), Between(d, j, d[p])
    PROVE  (j = p \/ j + 1 = p) /\ Paired(d, j)
<1>1. /\ Paired(d, j) /\ j + 1 \in 1..Len(d)
      /\ d[j].time <= d[p].time /\ d[p].time <= d[j + 1].time
  BY DEF Between, Paired
<1>2. CASE p < j
  <2>1. d[p].time \in Int /\ d[j].time \in Int /\ d[p].time < d[j].time
    BY <1>2, TimesGrow
  <2> QED BY <1>1, <2>1
<1>3. CASE j + 1 < p
  <2>1. d[p].time \in Int /\ d[j + 1].time \in Int /\ d[j + 1].time < d[p].time
    BY <1>1, <1>3, TimesGrow
  <2> QED BY <1>1, <2>1
<1> QED BY <1>1, <1>2, <1>3

(* The ends of a line are on it.                                            *)
LEMMA EndsOnTheLine ==
    ASSUME NEW a, NEW b, a.time \in Int, b.time \in Int, a.value \in Int, b.value \in Int,
           a.time < b.time
    PROVE  OnTheLine(a, b, a) /\ OnTheLine(a, b, b)
<1>1. PICK at \in Int, bt \in Int, av \in Int, bv \in Int :
         at = a.time /\ bt = b.time /\ av = a.value /\ bv = b.value /\ at < bt
  OBVIOUS
<1>2. (at - at) * (bv - av) - (av - av) * (bt - at) = 0
      /\ (bt - at) * (bv - av) - (bv - av) * (bt - at) = 0
  OBVIOUS
<1>3. 0 \in 0..(bt - at - 1)
  BY <1>1
<1> QED BY <1>1, <1>2, <1>3 DEF OnTheLine

-----------------------------------------------------------------------------
(* One of the samples of segment p.                                         *)
LEMMA SampleIs ==
    ASSUME NEW d, Timed(d), Divisible(d), NEW p \in 1..Len(d), NEW k \in 1..Len(Segment(d, p))
    PROVE  /\ k = 1 => Segment(d, p)[k] = d[p] /\ d[p] \in Known(d)
           /\ k # 1 =>
                 /\ Paired(d, p) /\ cfg.maxPointDelta >= 1000
                 /\ Segment(d, p)[k].time \in Int
                 /\ d[p].time < Segment(d, p)[k].time /\ Segment(d, p)[k].time < d[p + 1].time
                 /\ OnTheLine(d[p], d[p + 1], Segment(d, p)[k])
                 /\ Segment(d, p)[k - 1].time \in Int
                 /\ Segment(d, p)[k].time - Segment(d, p)[k - 1].time = IntervalSecond
<1>1. PICK s \in Seq(Rendered) : s = Segment(d, p)
  BY SegmentIs DEF Text
<1>2. s # <<>> /\ k \in 1..Len(s)
  BY <1>1
<1>3. d[p].value # Null /\ s[1] = d[p] /\ p \in DOMAIN d
  BY <1>1, <1>2, SegmentIs DEF Timed
<1>4. d[p] \in Known(d)
  BY <1>3 DEF Known
<1>5. CASE k # 1
  <2>1. Paired(d, p) /\ cfg.maxPointDelta # 0
    <3>1. Len(s) \notin {0, 1}
      <4>1. PICK l \in Nat : l = Len(s)
        OBVIOUS
      <4>2. k >= 1 /\ k <= l /\ k # 1
        BY <1>2, <1>5, <4>1
      <4> QED BY <4>1, <4>2
    <3> QED BY <1>1, <3>1, SegmentIs
  <2>2. cfg.maxPointDelta >= 1000
    BY <2>1, IntervalIs
  <2>3. Spaced(d, p, s)
    BY <1>1, <2>1, SegmentIs
  <2>4. k \in 2..Len(s) /\ k - 1 \in 1..Len(s)
    BY <1>2, <1>5
  <2>5. s[k].time \in Int /\ s[k - 1].time \in Int
    <3>1. s[k] \in Rendered /\ s[k - 1] \in Rendered
      BY <1>2, <2>4
    <3> QED BY <3>1 DEF Rendered
  <2> QED BY <1>1, <1>5, <2>1, <2>2, <2>3, <2>4, <2>5 DEF Spaced
<1> QED BY <1>1, <1>3, <1>4, <1>5

(* Two samples, one after the other in a segment.                           *)
LEMMA Within ==
    ASSUME NEW d, Timed(d), Divisible(d), NEW p \in 1..Len(d), NEW k \in 1..(Len(Segment(d, p)) - 1),
           NEW x, NEW y, x = Segment(d, p)[k], y = Segment(d, p)[k + 1]
    PROVE  /\ y.time - x.time > 0 /\ y.time - x.time = IntervalSecond
           /\ y \notin Known(d)
           /\ \E j \in DOMAIN d : Between(d, j, x) /\ Between(d, j, y)
<1>1. PICK l \in Nat : l = Len(Segment(d, p)) /\ k + 1 \in 1..l /\ k \in 1..l /\ k + 1 # 1 /\ (k + 1) - 1 = k
  <2>1. Segment(d, p) \in Seq(Rendered)
    BY SegmentIs DEF Text
  <2>2. Len(Segment(d, p)) \in Nat
    BY <2>1
  <2> QED BY <2>2
<1>2. /\ Paired(d, p) /\ cfg.maxPointDelta >= 1000
      /\ y.time \in Int /\ d[p].time < y.time /\ y.time < d[p + 1].time
      /\ x.time \in Int /\ y.time - x.time = IntervalSecond
  BY <1>1, SampleIs
<1>3. IntervalSecond \in Nat /\ IntervalSecond >= 1
  BY <1>2, IntervalIs
<1>4. y \notin Known(d)
  BY <1>2, Inside
<1>5. d[p].time \in Int /\ d[p + 1].time \in Int /\ d[p].time < d[p + 1].time /\ p \in DOMAIN d
  BY <1>2, PairIs DEF Timed
<1>6. d[p].time <= x.time /\ x.time <= d[p + 1].time
  <2>1. CASE k = 1
    <3>1. x = d[p]
      BY <1>1, <2>1, SampleIs
    <3> QED BY <1>5, <3>1
  <2>2. CASE k # 1
    <3>1. d[p].time < x.time /\ x.time < d[p + 1].time
      BY <1>1, <2>2, SampleIs, SMTT(20)
    <3> QED BY <1>2, <1>5, <3>1
  <2> QED BY <2>1, <2>2
<1>7. Between(d, p, x) /\ Between(d, p, y)
  BY <1>2, <1>5, <1>6 DEF Between
<1>8. y.time - x.time > 0
  BY <1>2, <1>3
<1> QED BY <1>2, <1>4, <1>5, <1>7, <1>8

(* A sample at the end of a segment, and the first one of the next that is  *)
(* not empty.                                                               *)
LEMMA Across ==
    ASSUME NEW d, Timed(d), Divisible(d), NEW p \in 1..Len(d), NEW q \in (p + 1)..Len(d),
           Segment(d, p) # <<>>, Segment(d, q) # <<>>,
           \A r \in (p + 1)..(q - 1) : Segment(d, r) = <<>>,
           NEW x, NEW y, x = Segment(d, p)[Len(Segment(d, p))], y = Segment(d, q)[1]
    PROVE  /\ y.time - x.time > 0
           /\ y \in Known(d)
           /\ LET joined == \E j \in DOMAIN d : Between(d, j, x) /\ Between(d, j, y)
              IN  /\ cfg.maxPointDelta >= 1000 /\ joined => y.time - x.time < 2 * IntervalSecond
                  /\ ~joined => x \in Known(d)
<1>1. q \in 1..Len(d) /\ p < q /\ DOMAIN d = 1..Len(d) /\ p + 1 \in 1..Len(d)
  BY DEF Timed
<1>2. y = d[q] /\ d[q].value # Null /\ d[p].value # Null
  BY <1>1, SegmentIs
<1>3. y \in Known(d) /\ d[p] \in Known(d)
  BY <1>1, <1>2 DEF Known
<1>4. /\ d[p].time \in Int /\ d[q].time \in Int /\ d[p].time < d[q].time
  BY <1>1, TimesGrow
<1>5. CASE Paired(d, p) /\ cfg.maxPointDelta # 0
  <2>1. q = p + 1
    <3>1. d[p + 1].value # Null
      BY <1>5 DEF Paired
    <3>2. Segment(d, p + 1) # <<>>
      BY <1>1, <3>1, SegmentIs
    <3>3. p + 1 \notin (p + 1)..(q - 1)
      BY <3>2
    <3> QED BY <1>1, <3>3
  <2>2. PICK s \in Seq(Rendered) : s = Segment(d, p) /\ s # <<>> /\ x = s[Len(s)]
    BY SegmentIs DEF Text
  <2>3. x.time \in Int
    <3>1. s[Len(s)] \in Rendered
      BY <2>2
    <3> QED BY <2>2, <3>1 DEF Rendered
  <2>4. x.time >= d[p].time /\ x.time < y.time /\ y.time - x.time < 2 * IntervalSecond
    <3>1. Spaced(d, p, s)
      BY <1>5, <2>2, SegmentIs
    <3> QED BY <1>2, <2>1, <2>2, <3>1 DEF Spaced
  <2>5. Between(d, p, x) /\ Between(d, p, y)
    BY <1>2, <1>4, <1>5, <2>1, <2>3, <2>4 DEF Between
  <2>6. y.time - x.time > 0
    BY <1>2, <1>4, <2>3, <2>4, SMTT(20)
  <2> QED BY <1>1, <1>3, <2>4, <2>5, <2>6
<1>6. CASE ~(Paired(d, p) /\ cfg.maxPointDelta # 0)
  <2>1. x = d[p]
    <3>1. Len(Segment(d, p)) \in {0, 1}
      BY <1>6, SegmentIs
    <3>2. Segment(d, p) \in Seq(Rendered)
      BY SegmentIs DEF Text
    <3>3. Len(Segment(d, p)) = 1
      BY <3>1, <3>2
    <3>4. Segment(d, p)[1] = d[p]
      BY SegmentIs
    <3> QED BY <3>3, <3>4
  <2>2. y.time - x.time > 0
    BY <1>2, <1>4, <2>1
  <2>3. ASSUME cfg.maxPointDelta >= 1000, NEW j \in DOMAIN d, Between(d, j, x), Between(d, j, y)
        PROVE  FALSE
    <3>1. j \in 1..Len(d) /\ cfg.maxPointDelta # 0
      BY <1>1, <2>3 DEF Divisible
    <3>2. (j = p \/ j + 1 = p) /\ Paired(d, j)
      BY <2>1, <2>3, <3>1, AtPoint
    <3>3. j = q \/ j + 1 = q
      BY <1>1, <1>2, <2>3, <3>1, AtPoint
    <3>4. j = p
      BY <1>1, <3>1, <3>2, <3>3
    <3> QED BY <1>6, <3>1, <3>2, <3>4
  <2> QED BY <1>3, <2>1, <2>2, <2>3
<1> QED BY <1>5, <1>6

(* The segments, as a sequence of texts.                                   *)
LEMMA SamplesMade ==
    ASSUME NEW d, Timed(d), Divisible(d)
    PROVE  \E t \in Seq(Text(Rendered)) :
              /\ Len(t) = Len(d) /\ \A p \in 1..Len(d) : t[p] = Segment(d, p)
              /\ SamplesFromDatapoints(d) \in Seq(Rendered)
              /\ MadeOf(t, SamplesFromDatapoints(d))
<1>1. PICK n \in Nat : n = Len(d) /\ DOMAIN d = 1..n
  BY DEF Timed
<1>2. \A p \in 1..n : Segment(d, p) \in Text(Rendered)
  BY <1>1, SegmentIs
<1>3. PICK t \in Seq(Text(Rendered)) :
         t = [p \in 1..n |-> Segment(d, p)] /\ Len(t) = n /\ \A p \in 1..n : t[p] = Segment(d, p)
  <2> DEFINE g == [p \in 1..n |-> Segment(d, p)]
  <2>1. g \in [1..n -> Text(Rendered)]
    BY <1>2
  <2>2. \A p \in 1..n : g[p] = Segment(d, p)
    OBVIOUS
  <2> HIDE DEF g
  <2>3. g \in Seq(Text(Rendered)) /\ Len(g) = n
    BY <2>1
  <2> QED BY <2>2, <2>3 DEF g
<1>4. SamplesFromDatapoints(d) = FlattenSeq(t)
  BY <1>1, <1>3, SamplesAre
<1>5. FlattenSeq(t) \in Seq(Rendered) /\ MadeOf(t, FlattenSeq(t))
  BY FlattenType, FlattenMade DEF Text
<1> QED BY <1>1, <1>3, <1>4, <1>5

-----------------------------------------------------------------------------
(* The four parts of Fill, for the samples s of the datapoints d.           *)
LEMMA KnownAreThere ==
    ASSUME NEW d, Timed(d), Divisible(d), NEW t \in Seq(Text(Rendered)), NEW s \in Seq(Rendered),
           Len(t) = Len(d), \A p \in 1..Len(d) : t[p] = Segment(d, p), MadeOf(t, s)
    PROVE  \A x \in Known(d) : \E i \in DOMAIN s : s[i] = x
<1> SUFFICES ASSUME NEW x \in Known(d) PROVE \E i \in 1..Len(s) : s[i] = x
  OBVIOUS
<1>1. PICK j \in 1..Len(d) : d[j].value # Null /\ x = d[j]
  BY DEF Known, Timed
<1>2. t[j] = Segment(d, j) /\ Segment(d, j) # <<>> /\ Segment(d, j)[1] = d[j]
  BY <1>1, SegmentIs
<1>3. 1 \in 1..Len(t[j]) /\ j \in 1..Len(t)
  <2>1. t[j] \in Seq(Rendered) /\ t[j] # <<>>
    BY <1>2 DEF Text
  <2> QED BY <2>1
<1>4. \E i \in 1..Len(s) : s[i] = t[j][1]
  BY <1>3 DEF MadeOf
<1> QED BY <1>1, <1>2, <1>4

(* A sample is a datapoint, or between two, and on every line that it      *)
(* could be on.                                                            *)
LEMMA SamplesAreBetween ==
    ASSUME NEW d, Timed(d), Divisible(d), NEW t \in Seq(Text(Rendered)), NEW s \in Seq(Rendered),
           Len(t) = Len(d), \A p \in 1..Len(d) : t[p] = Segment(d, p), MadeOf(t, s),
           NEW i \in 1..Len(s)
    PROVE  /\ \/ s[i] \in Known(d)
              \/ cfg.maxPointDelta >= 1000 /\ \E j \in DOMAIN d : Between(d, j, s[i])
           /\ \A j \in DOMAIN d : Between(d, j, s[i]) => OnTheLine(d[j], d[j + 1], s[i])
<1>0. DOMAIN d = 1..Len(d)
  BY DEF Timed
<1>1. PICK p \in 1..Len(d) : \E k \in 1..Len(Segment(d, p)) : s[i] = Segment(d, p)[k]
  <2>1. PICK p \in 1..Len(t) : \E k \in 1..Len(t[p]) : s[i] = t[p][k]
    BY Zenon DEF MadeOf
  <2>2. p \in 1..Len(d) /\ t[p] = Segment(d, p)
    OBVIOUS
  <2> QED BY <2>1, <2>2
<1>2. PICK k \in 1..Len(Segment(d, p)) : s[i] = Segment(d, p)[k]
  BY <1>1
<1>3. CASE k = 1
  <2>1. s[i] = d[p] /\ d[p] \in Known(d)
    BY <1>2, <1>3, SampleIs
  <2>2. ASSUME NEW j \in 1..Len(d), Between(d, j, s[i]) PROVE OnTheLine(d[j], d[j + 1], s[i])
    <3>1. (j = p \/ j + 1 = p) /\ Paired(d, j)
      BY <2>1, <2>2, AtPoint
    <3>2. OnTheLine(d[j], d[j + 1], d[j]) /\ OnTheLine(d[j], d[j + 1], d[j + 1])
      BY <3>1, PairIs, EndsOnTheLine
    <3> QED BY <2>1, <3>1, <3>2
  <2> QED BY <1>0, <2>1, <2>2
<1>4. CASE k # 1
  <2>1. PICK x : x = s[i]
    OBVIOUS
  <2>2. /\ Paired(d, p) /\ cfg.maxPointDelta >= 1000
        /\ x.time \in Int /\ d[p].time < x.time /\ x.time < d[p + 1].time
        /\ OnTheLine(d[p], d[p + 1], x)
    BY <1>2, <1>4, <2>1, SampleIs, SMTT(20)
  <2>3. \A j \in DOMAIN d : Between(d, j, x) => j = p
    BY <2>2, Inside
  <2>4. d[p].time \in Int /\ d[p + 1].time \in Int
    BY <2>2, PairIs
  <2>5. Between(d, p, x)
    BY <2>2, <2>4 DEF Between
  <2> QED BY <1>0, <2>1, <2>2, <2>3, <2>5
<1> QED BY <1>3, <1>4

(* What holds of two samples that come one after the other.                 *)
Neighbours(d, x, y) ==
    LET joined == \E j \in DOMAIN d : Between(d, j, x) /\ Between(d, j, y)
    IN  /\ y.time - x.time > 0
        /\ cfg.maxPointDelta >= 1000 /\ joined =>
              IF y \in Known(d) THEN y.time - x.time < 2 * IntervalSecond
              ELSE y.time - x.time = IntervalSecond
        /\ ~joined => x \in Known(d) /\ y \in Known(d)

(* So it is within a segment,                                              *)
LEMMA WithinFits ==
    \A d : Timed(d) /\ Divisible(d) =>
        \A p \in 1..Len(d) : \A k \in 1..(Len(Segment(d, p)) - 1) :
            Neighbours(d, Segment(d, p)[k], Segment(d, p)[k + 1])
<1> SUFFICES ASSUME NEW d, Timed(d), Divisible(d), NEW p \in 1..Len(d),
                    NEW k \in 1..(Len(Segment(d, p)) - 1),
                    NEW x, NEW y, x = Segment(d, p)[k], y = Segment(d, p)[k + 1]
             PROVE  Neighbours(d, x, y)
  OBVIOUS
<1>1. /\ y.time - x.time > 0 /\ y.time - x.time = IntervalSecond
      /\ y \notin Known(d)
      /\ \E j \in DOMAIN d : Between(d, j, x) /\ Between(d, j, y)
  BY Within
<1> QED BY <1>1 DEF Neighbours

(* from one segment to the next one,                                       *)
LEMMA AcrossFits ==
    \A d : Timed(d) /\ Divisible(d) =>
        \A p \in 1..Len(d) : \A q \in (p + 1)..Len(d) :
            /\ Segment(d, p) # <<>> /\ Segment(d, q) # <<>>
            /\ \A r \in (p + 1)..(q - 1) : Segment(d, r) = <<>>
            => Neighbours(d, Segment(d, p)[Len(Segment(d, p))], Segment(d, q)[1])
<1> SUFFICES ASSUME NEW d, Timed(d), Divisible(d), NEW p \in 1..Len(d), NEW q \in (p + 1)..Len(d),
                    Segment(d, p) # <<>>, Segment(d, q) # <<>>,
                    \A r \in (p + 1)..(q - 1) : Segment(d, r) = <<>>,
                    NEW x, NEW y, x = Segment(d, p)[Len(Segment(d, p))], y = Segment(d, q)[1]
             PROVE  Neighbours(d, x, y)
  OBVIOUS
<1>1. /\ y.time - x.time > 0
      /\ y \in Known(d)
      /\ LET joined == \E j \in DOMAIN d : Between(d, j, x) /\ Between(d, j, y)
         IN  /\ cfg.maxPointDelta >= 1000 /\ joined => y.time - x.time < 2 * IntervalSecond
             /\ ~joined => x \in Known(d)
  BY Across
<1> QED BY <1>1 DEF Neighbours

(* and hence all along.                                                    *)
LEMMA SamplesAreSpaced ==
    ASSUME NEW d, Timed(d), Divisible(d), NEW t \in Seq(Text(Rendered)), NEW s \in Seq(Rendered),
           Len(t) = Len(d), \A p \in 1..Len(d) : t[p] = Segment(d, p), MadeOf(t, s),
           NEW i \in 1..(Len(s) - 1)
    PROVE  Neighbours(d, s[i], s[i + 1])
<1>1. Beside(t, s[i], s[i + 1])
  BY Zenon DEF MadeOf
<1>2. PICK x, y : x = s[i] /\ y = s[i + 1]
  OBVIOUS
<1>3. CASE \E p \in 1..Len(t) : \E k \in 1..(Len(t[p]) - 1) : x = t[p][k] /\ y = t[p][k + 1]
  <2>1. PICK p \in 1..Len(t) : \E k \in 1..(Len(t[p]) - 1) : x = t[p][k] /\ y = t[p][k + 1]
    BY <1>3
  <2>2. p \in 1..Len(d) /\ t[p] = Segment(d, p)
    OBVIOUS
  <2>3. PICK k \in 1..(Len(Segment(d, p)) - 1) :
           x = Segment(d, p)[k] /\ y = Segment(d, p)[k + 1]
    BY <2>1, <2>2
  <2>4. Neighbours(d, Segment(d, p)[k], Segment(d, p)[k + 1])
    BY <2>2, WithinFits
  <2> QED BY <1>2, <2>3, <2>4
<1>4. CASE \E p \in 1..Len(t) : \E q \in (p + 1)..Len(t) :
              /\ t[p] # <<>> /\ t[q] # <<>> /\ x = t[p][Len(t[p])] /\ y = t[q][1]
              /\ \A r \in (p + 1)..(q - 1) : t[r] = <<>>
  <2>1. PICK p \in 1..Len(t) : \E q \in (p + 1)..Len(t) :
              /\ t[p] # <<>> /\ t[q] # <<>> /\ x = t[p][Len(t[p])] /\ y = t[q][1]
              /\ \A r \in (p + 1)..(q - 1) : t[r] = <<>>
    BY <1>4
  <2>2. PICK q \in (p + 1)..Len(t) :
              /\ t[p] # <<>> /\ t[q] # <<>> /\ x = t[p][Len(t[p])] /\ y = t[q][1]
              /\ \A r \in (p + 1)..(q - 1) : t[r] = <<>>
    BY <2>1
  <2>3. p \in 1..Len(d) /\ q \in (p + 1)..Len(d) /\ q \in 1..Len(d)
        /\ \A r \in (p + 1)..(q - 1) : r \in 1..Len(d)
    <3>1. PICK n \in Nat : n = Len(t) /\ n = Len(d)
      OBVIOUS
    <3> QED BY <3>1
  <2>4. /\ Segment(d, p) # <<>> /\ Segment(d, q) # <<>>
        /\ x = Segment(d, p)[Len(Segment(d, p))] /\ y = Segment(d, q)[1]
        /\ \A r \in (p + 1)..(q - 1) : Segment(d, r) = <<>>
    BY <2>2, <2>3
  <2>5. Neighbours(d, Segment(d, p)[Len(Segment(d, p))], Segment(d, q)[1])
    BY <2>3, <2>4, AcrossFits
  <2> QED BY <1>2, <2>4, <2>5
<1> QED BY <1>1, <1>2, <1>3, <1>4 DEF Beside

(* What an answer shows is what the gaps should be filled with.             *)
LEMMA SamplesFill ==
    ASSUME NEW d, Timed(d), Divisible(d)
    PROVE  Fill(SamplesFromDatapoints(d), d)
<1>1. PICK t \in Seq(Text(Rendered)) :
         /\ Len(t) = Len(d) /\ \A p \in 1..Len(d) : t[p] = Segment(d, p)
         /\ SamplesFromDatapoints(d) \in Seq(Rendered)
         /\ MadeOf(t, SamplesFromDatapoints(d))
  BY SamplesMade
<1>2. PICK s \in Seq(Rendered) : s = SamplesFromDatapoints(d) /\ MadeOf(t, s)
  BY <1>1
<1>3. \A x \in Known(d) : \E i \in DOMAIN s : s[i] = x
  BY <1>1, <1>2, KnownAreThere
<1>4. \A i \in DOMAIN s :
         /\ \/ s[i] \in Known(d)
            \/ cfg.maxPointDelta >= 1000 /\ \E j \in DOMAIN d : Between(d, j, s[i])
         /\ \A j \in DOMAIN d : Between(d, j, s[i]) => OnTheLine(d[j], d[j + 1], s[i])
  <2>1. DOMAIN s = 1..Len(s)
    OBVIOUS
  <2> QED BY <1>1, <1>2, <2>1, SamplesAreBetween, ZenonT(40)
<1>5. \A i \in 1..(Len(s) - 1) : Neighbours(d, s[i], s[i + 1])
  BY <1>1, <1>2, SamplesAreSpaced
<1>6. Fill(s, d)
  BY <1>3, <1>4, <1>5 DEF Fill, Neighbours
<1> QED BY <1>2, <1>6

-----------------------------------------------------------------------------
(* An answer with a series has the samples of datapoints that graphite may  *)
(* have, and of which the division by the interval does not go wrong.       *)
AnswerSampled ==
    answer # Null /\ answer.labels # {} =>
        /\ answer.datapoints \in Datapoints
        /\ ~DividesByZero(answer.datapoints)
        /\ answer.samples = SamplesFromDatapoints(answer.datapoints)

(* A read is the only step that changes the answer, and none changes the   *)
(* configuration.                                                          *)
LEMMA ReadSamples ==
    ASSUME NEW query \in Queries, NEW datapoints \in Datapoints, Read(query, datapoints)
    PROVE  AnswerSampled'
<1>1. cfg' = cfg
  BY DEF Read
<1>2. CASE answer' # Null /\ answer'.labels # {}
  <2>1. /\ ~(Found(query) # {} /\ DividesByZero(datapoints))
        /\ answer' = [query      |-> query,
                      written    |-> written,
                      datapoints |-> IF Found(query) = {} THEN <<>> ELSE datapoints,
                      labels     |-> {LabelsOf(path) : path \in Found(query)},
                      samples    |-> IF Found(query) = {} THEN <<>>
                                     ELSE SamplesFromDatapoints(datapoints)]
    BY <1>2, Zenon DEF Read
  <2>2. Found(query) # {}
    BY <1>2, <2>1
  <2>3. /\ ~DividesByZero(datapoints) /\ answer'.datapoints = datapoints
        /\ answer'.samples = SamplesFromDatapoints(datapoints)
    BY <2>1, <2>2
  <2>4. ~DividesByZero(datapoints)' /\ SamplesFromDatapoints(datapoints)' = SamplesFromDatapoints(datapoints)
    BY <1>1, <2>3 DEF DividesByZero, SamplesFromDatapoints, IntervalSecond, Intermediate, Paired
  <2> QED BY <2>3, <2>4 DEF AnswerSampled
<1> QED BY <1>2 DEF AnswerSampled

-----------------------------------------------------------------------------
LEMMA SamplesStep ==
    ASSUME AnswerSampled, [SimulationNext]_simulationVars
    PROVE  AnswerSampled'
<1>1. CASE UNCHANGED <<cfg, answer>>
  <2>1. cfg' = cfg /\ answer' = answer
    BY <1>1
  <2>2. DividesByZero(answer.datapoints)' <=> DividesByZero(answer.datapoints)
    BY <2>1 DEF DividesByZero, IntervalSecond, Paired
  <2>3. SamplesFromDatapoints(answer.datapoints)' = SamplesFromDatapoints(answer.datapoints)
    BY <2>1 DEF SamplesFromDatapoints, IntervalSecond, Intermediate, Paired
  <2> QED BY <2>1, <2>2, <2>3 DEF AnswerSampled
<1>2. CASE \E query \in Queries, datapoints \in Datapoints : Read(query, datapoints)
  BY <1>2, ReadSamples
<1>3. ASSUME NEW m \in Metrics, Write(m) PROVE UNCHANGED <<cfg, answer>>
  BY <1>3 DEF Write
<1>4. ASSUME NEW text \in Texts, SimulWrite(text) PROVE UNCHANGED <<cfg, answer>>
  BY <1>4 DEF SimulWrite
<1>5. ASSUME NEW r \in pending, ServeDryRun(r) \/ FailDryRun(r) \/ HandleSimulationResult(r)
      PROVE  UNCHANGED <<cfg, answer>>
  BY <1>5 DEF ServeDryRun, FailDryRun, HandleSimulationResult, archive
<1>6. UNCHANGED simulationVars => UNCHANGED <<cfg, answer>>
  BY DEF simulationVars, archive
<1> QED
  BY <1>1, <1>2, <1>3, <1>4, <1>5, <1>6 DEF SimulationNext, ArchiveNext

(* The samples of every answer are the datapoints of graphite that have a   *)
(* value and, between two of them that are next to each other, one sample   *)
(* for each interval, on the line that joins them: for all datapoints, of   *)
(* any number, and all configurations (samplesFromDatapoints).              *)
THEOREM GapsAreFilled == SimulationSpec => []GapsFilled
<1>1. SimulationInit => ConfigKept /\ AnswerSampled
  BY DEF SimulationInit, ArchiveInit, ConfigKept, PanicsBelowASecond, AnswerSampled
<1>2. ConfigKept /\ AnswerSampled /\ [SimulationNext]_simulationVars => ConfigKept' /\ AnswerSampled'
  BY ConfigStep, SamplesStep
<1>3. ASSUME ConfigKept, AnswerSampled PROVE GapsFilled
  <2>1. ASSUME answer # Null, answer.labels # {}
        PROVE  Fill(answer.samples, answer.datapoints)
    <3>1. PICK d \in Datapoints : d = answer.datapoints
      BY <1>3, <2>1 DEF AnswerSampled
    <3>2. ~DividesByZero(d) /\ answer.samples = SamplesFromDatapoints(d)
      BY <1>3, <2>1, <3>1 DEF AnswerSampled
    <3>3. Timed(d)
      BY DatapointsAssumption DEF Timed, Rendered
    <3>4. cfg.maxPointDelta \in Nat
      BY <1>3, ConfigsAssumption DEF ConfigKept
    <3>5. Divisible(d)
      BY <3>2, <3>4 DEF Divisible
    <3>6. Fill(SamplesFromDatapoints(d), d)
      BY <3>3, <3>5, SamplesFill
    <3> QED BY <3>1, <3>2, <3>6
  <2> QED BY <1>3, <2>1 DEF GapsFilled, ConfigKept
<1> QED BY <1>1, <1>2, <1>3, PTL DEF SimulationSpec

-----------------------------------------------------------------------------
(* The texts of the members of u, one behind the other. *)
FlattenMap(f, u) == FlattenSeq([i \in DOMAIN u |-> f[u[i]]])

(* They are a text.                                                        *)
LEMMA MapType ==
    ASSUME NEW S, NEW A, NEW f \in [S -> Text(A)], NEW u \in Seq(S)
    PROVE  /\ [i \in DOMAIN u |-> f[u[i]]] \in Seq(Text(A))
           /\ FlattenMap(f, u) \in Text(A)
<1>1. PICK s : s = [i \in DOMAIN u |-> f[u[i]]]
  OBVIOUS
<1>2. s \in Seq(Text(A))
  <2>1. \A i \in 1..Len(u) : f[u[i]] \in Text(A)
    OBVIOUS
  <2> QED BY <1>1, <2>1
<1> QED BY <1>1, <1>2, FlattenType DEF FlattenMap

(* One member more is one text more,                                       *)
LEMMA MapAppend ==
    ASSUME NEW S, NEW A, NEW f \in [S -> Text(A)], NEW u \in Seq(S), NEW b \in S
    PROVE  FlattenMap(f, Append(u, b)) = Cat(FlattenMap(f, u), f[b])
<1> DEFINE s == [i \in DOMAIN u |-> f[u[i]]]
           t == [i \in DOMAIN Append(u, b) |-> f[Append(u, b)[i]]]
<1>1. s \in Seq(Text(A)) /\ f[b] \in Text(A)
  BY MapType
<1>2. t = Append(s, f[b])
  OBVIOUS
<1>3. FlattenMap(f, u) = FlattenSeq(s) /\ FlattenMap(f, Append(u, b)) = FlattenSeq(t)
  BY DEF FlattenMap
<1> HIDE DEF s, t
<1> QED BY <1>1, <1>2, <1>3, FlattenAppend

(* none is no text,                                                        *)
LEMMA MapEmpty == \A f : FlattenMap(f, <<>>) = <<>>
<1> TAKE f
<1>1. [i \in DOMAIN <<>> |-> f[<<>>[i]]] = <<>>
  OBVIOUS
<1> QED BY <1>1, FlattenEmpty DEF FlattenMap

(* one is one text,                                                        *)
LEMMA MapOne ==
    ASSUME NEW S, NEW A, NEW f \in [S -> Text(A)], NEW b \in S
    PROVE  FlattenMap(f, <<b>>) = f[b]
<1>1. <<>> \in Seq(S) /\ Append(<<>>, b) = <<b>>
  OBVIOUS
<1>2. FlattenMap(f, Append(<<>>, b)) = Cat(FlattenMap(f, <<>>), f[b])
  BY <1>1, MapAppend
<1>3. f[b] \in Text(A)
  OBVIOUS
<1> QED BY <1>1, <1>2, <1>3, MapEmpty, TextEmpty

(* and two sequences are one text behind the other.                        *)
LEMMA MapConcat ==
    ASSUME NEW S, NEW A, NEW f \in [S -> Text(A)], NEW u \in Text(S), NEW v \in Text(S)
    PROVE  FlattenMap(f, Cat(u, v)) = Cat(FlattenMap(f, u), FlattenMap(f, v))
<1> DEFINE G == {w \in Text(S) : FlattenMap(f, Cat(u, w)) = Cat(FlattenMap(f, u), FlattenMap(f, w))}
<1>1. u \in Seq(S) /\ FlattenMap(f, u) \in Text(A)
  BY MapType DEF Text
<1>2. <<>> \in G
  BY <1>1, TextEmpty, MapEmpty
<1>3. ASSUME NEW w \in Text(S), NEW b \in S, w \in G PROVE Append(w, b) \in G
  <2>1. PICK x \in Seq(S) : x = w /\ Append(w, b) \in Text(S)
    <3>1. w \in Seq(S)
      BY DEF Text
    <3>2. Append(w, b) \in Seq(S)
      BY <3>1, AppendProperties
    <3> QED BY <3>1, <3>2 DEF Text
  <2>2. Cat(u, x) \in Seq(S) /\ Append(Cat(u, x), b) = Cat(u, Append(x, b))
    BY <1>1, CatAppend
  <2>3. FlattenMap(f, Append(Cat(u, x), b)) = Cat(FlattenMap(f, Cat(u, x)), f[b])
    BY <2>2, MapAppend
  <2>4. FlattenMap(f, Append(x, b)) = Cat(FlattenMap(f, x), f[b])
    BY MapAppend
  <2>5. FlattenMap(f, Cat(u, x)) = Cat(FlattenMap(f, u), FlattenMap(f, x))
    BY <1>3, <2>1
  <2>6. FlattenMap(f, x) \in Text(A) /\ f[b] \in Text(A)
    BY MapType
  <2>7. Cat(Cat(FlattenMap(f, u), FlattenMap(f, x)), f[b])
          = Cat(FlattenMap(f, u), Cat(FlattenMap(f, x), f[b]))
    BY <1>1, <2>6, TextAssociative
  <2>8. FlattenMap(f, Cat(u, Append(x, b))) = Cat(FlattenMap(f, u), FlattenMap(f, Append(x, b)))
    BY <2>2, <2>3, <2>4, <2>5, <2>7
  <2> QED BY <2>1, <2>8
<1> HIDE DEF G
<1>4. v \in G
  <2>1. \A w \in Text(S) : \A b \in S : w \in G => Append(w, b) \in G
    BY <1>3
  <2> QED BY <1>2, <2>1, TextInduction
<1> QED BY <1>4 DEF G

(* One map behind another one. *)
LEMMA MapsCompose ==
    ASSUME NEW R, NEW S, NEW A, NEW g \in [R -> Text(S)], NEW f \in [S -> Text(A)],
           NEW h \in [R -> Text(A)], \A r \in R : FlattenMap(f, g[r]) = h[r],
           NEW v \in Text(R)
    PROVE  FlattenMap(f, FlattenMap(g, v)) = FlattenMap(h, v)
<1> DEFINE G == {w \in Text(R) : FlattenMap(f, FlattenMap(g, w)) = FlattenMap(h, w)}
<1>1. <<>> \in G
  BY TextEmpty, MapEmpty
<1>2. ASSUME NEW w \in Text(R), NEW b \in R, w \in G PROVE Append(w, b) \in G
  <2>1. PICK x \in Seq(R) : x = w /\ Append(w, b) \in Text(R)
    <3>1. w \in Seq(R)
      BY DEF Text
    <3>2. Append(w, b) \in Seq(R)
      BY <3>1, AppendProperties
    <3> QED BY <3>1, <3>2 DEF Text
  <2>2. FlattenMap(g, Append(x, b)) = Cat(FlattenMap(g, x), g[b])
    BY MapAppend
  <2>3. FlattenMap(h, Append(x, b)) = Cat(FlattenMap(h, x), h[b])
    BY MapAppend
  <2>4. FlattenMap(g, x) \in Text(S) /\ g[b] \in Text(S)
    BY MapType
  <2>5. FlattenMap(f, Cat(FlattenMap(g, x), g[b]))
          = Cat(FlattenMap(f, FlattenMap(g, x)), FlattenMap(f, g[b]))
    BY <2>4, MapConcat
  <2>6. FlattenMap(f, FlattenMap(g, x)) = FlattenMap(h, x)
    BY <1>2, <2>1
  <2> QED BY <2>1, <2>2, <2>3, <2>5, <2>6
<1> HIDE DEF G
<1>3. v \in G
  <2>1. \A w \in Text(R) : \A b \in R : w \in G => Append(w, b) \in G
    BY <1>2
  <2> QED BY <1>1, <2>1, TextInduction
<1> QED BY <1>3 DEF G

-----------------------------------------------------------------------------
(* What the page sends for a text. *)
Sent(text) == FlattenSeq([i \in DOMAIN text |-> ParseSample(text[i])])

(* What a request has on its way: the samples of the text of its click, and *)
(* behind the server the answer of a dry run.                               *)
IsOnItsWay(r) ==
    \E c \in 1..clicks :
        /\ r = [click |-> c, samples |-> Sent(typed[c]), body |-> r.body]
        /\ r.body \in {Null, DryRun(Sent(typed[c]))}

IsShown ==
    \/ outputs.click = 0
    \/ /\ outputs.click \in 1..clicks
       /\ outputs.lines = Displayed(DryRun(Sent(typed[outputs.click])))

SentIsTyped ==
    /\ typed \in Seq(Texts) /\ clicks = Len(typed)
    /\ \A r \in pending : IsOnItsWay(r)
    /\ IsShown

LEMMA SentInit == SimulationInit => SentIsTyped
  BY DEF SimulationInit, SentIsTyped, IsShown

(* A dry run depends on nothing but the configuration.                     *)
LEMMA DryRunKept == ASSUME cfg' = cfg, NEW s PROVE DryRun(s)' = DryRun(s)
  BY DEF DryRun, ToDatapoints

(* Nor does what is seen of its answer.                                    *)
LEMMA DisplayKept == ASSUME cfg' = cfg, NEW s PROVE Displayed(DryRun(s))' = Displayed(DryRun(s))
<1>1. PICK d : d = DryRun(s)
  OBVIOUS
<1>2. DryRun(s)' = d
  BY <1>1, DryRunKept
<1>3. \A b : IsMarkup(b)' = IsMarkup(b)
  BY DEF IsMarkup
<1>4. Displayed(DryRun(s))' = Displayed(d)
  BY <1>2, <1>3 DEF Displayed
<1> QED BY <1>1, <1>4

(* With the texts and the configuration as they were, what was on its way   *)
(* and what was shown still is.                                             *)
LEMMA WayKept ==
    ASSUME UNCHANGED <<cfg, clicks, typed>>
    PROVE  \A r : IsOnItsWay(r) => IsOnItsWay(r)'
<1>1. \A c : Sent(typed[c])' = Sent(typed[c])
  BY DEF Sent, ParseSample, ParseLabels, Quoted, SentTime
<1>2. \A c : DryRun(Sent(typed[c]))' = DryRun(Sent(typed[c]))
  <2>1. ASSUME NEW c PROVE DryRun(Sent(typed[c]))' = DryRun(Sent(typed[c]))
    <3>1. PICK s : s = Sent(typed[c])
      OBVIOUS
    <3> QED BY <1>1, <3>1, DryRunKept
  <2> QED BY <2>1
<1> QED BY <1>1, <1>2 DEF IsOnItsWay

(* So it is with what the page shows.                                      *)
LEMMA ShownKept ==
    ASSUME UNCHANGED <<cfg, clicks, typed, outputs>>, IsShown
    PROVE  IsShown'
<1>1. \A c : Sent(typed[c])' = Sent(typed[c])
  BY DEF Sent, ParseSample, ParseLabels, Quoted, SentTime
<1>2. PICK c : c = outputs.click
  OBVIOUS
<1>3. PICK s : s = Sent(typed[c])
  OBVIOUS
<1>4. Displayed(DryRun(s))' = Displayed(DryRun(s)) /\ Sent(typed[c])' = s
  BY <1>1, <1>3, DisplayKept
<1> QED BY <1>2, <1>3, <1>4 DEF IsShown

(* Nor does what is sent depend on more than the text.                     *)
LEMMA SentNext ==
    ASSUME NEW c, NEW t, t = typed'[c]
    PROVE  Sent(typed[c])' = Sent(t)
<1>1. Sent(typed[c])' = FlattenSeq([i \in DOMAIN (typed'[c]) |-> ParseSample((typed'[c])[i])])
  BY DEF Sent, ParseSample, ParseLabels, Quoted, SentTime
<1>2. Sent(typed[c])' = FlattenSeq([i \in DOMAIN t |-> ParseSample(t[i])])
  BY <1>1
<1> QED BY <1>2 DEF Sent

(* A click that is new leaves the texts of the others.                      *)
LEMMA ClickSends ==
    ASSUME SentIsTyped, NEW text \in Texts, SimulWrite(text)
    PROVE  SentIsTyped'
<1>1. /\ typed \in Seq(Texts) /\ clicks = Len(typed) /\ clicks \in Nat
      /\ typed' = Append(typed, text) /\ clicks' = clicks + 1 /\ cfg' = cfg /\ outputs' = outputs
  BY DEF SentIsTyped, SimulWrite
<1>2. /\ typed' \in Seq(Texts) /\ Len(typed') = clicks + 1 /\ typed'[clicks + 1] = text
      /\ \A c \in 1..clicks : typed'[c] = typed[c]
  BY <1>1, AppendProperties
<1>3. \A c \in 1..clicks : c \in 1..clicks'
  BY <1>1
<1>4. \A c \in 1..clicks : Sent(typed[c])' = Sent(typed[c])
  <2>1. ASSUME NEW c \in 1..clicks PROVE Sent(typed[c])' = Sent(typed[c])
    <3>1. PICK t : t = typed'[c] /\ t = typed[c]
      BY <1>2
    <3> QED BY <3>1, SentNext
  <2> QED BY <2>1
<1>5. \A c \in 1..clicks : DryRun(Sent(typed[c]))' = DryRun(Sent(typed[c]))
  <2>1. ASSUME NEW c \in 1..clicks PROVE DryRun(Sent(typed[c]))' = DryRun(Sent(typed[c]))
    <3>1. PICK s : s = Sent(typed[c])
      OBVIOUS
    <3> QED BY <1>1, <1>4, <3>1, DryRunKept
  <2> QED BY <2>1
<1>6. \A r : IsOnItsWay(r) => IsOnItsWay(r)'
  BY <1>3, <1>4, <1>5 DEF IsOnItsWay
<1>7. IsShown'
  <2>1. CASE outputs.click = 0
    BY <1>1, <2>1 DEF IsShown
  <2>2. CASE outputs.click # 0
    <3>1. PICK c \in 1..clicks : /\ c = outputs.click
                                /\ outputs.lines = Displayed(DryRun(Sent(typed[c])))
      BY <2>2 DEF IsShown, SentIsTyped
    <3>2. PICK s : s = Sent(typed[c])
      OBVIOUS
    <3>3. Displayed(DryRun(s))' = Displayed(DryRun(s)) /\ Sent(typed[c])' = s
      BY <1>1, <1>4, <3>2, DisplayKept
    <3> QED BY <1>1, <1>3, <3>1, <3>2, <3>3 DEF IsShown
  <2> QED BY <2>1, <2>2
<1>8. PICK s : s = Sent(text)
  OBVIOUS
<1>9. PICK n : n = [click |-> clicks + 1, samples |-> s, body |-> Null]
  OBVIOUS
<1>10. pending' = pending \cup {n}
  BY <1>8, <1>9 DEF SimulWrite, Sent
<1>11. IsOnItsWay(n)'
  <2>1. clicks + 1 \in 1..clicks' /\ n.body = Null /\ n' = n
    BY <1>1, <1>9
  <2>2. PICK c : c = clicks + 1
    OBVIOUS
  <2>3. Sent(typed[c])' = s
    BY <1>8, <1>2, <2>2, SentNext
  <2>4. n = [click |-> c, samples |-> Sent(typed[c])', body |-> n.body]
    BY <1>9, <2>1, <2>2, <2>3
  <2> QED BY <2>1, <2>2, <2>4 DEF IsOnItsWay
<1> QED BY <1>1, <1>2, <1>6, <1>7, <1>10, <1>11 DEF SentIsTyped

(* The server answers with the dry run of what was sent,                   *)
LEMMA ServeSends ==
    ASSUME SentIsTyped, NEW r \in pending, ServeDryRun(r)
    PROVE  SentIsTyped'
<1>1. UNCHANGED <<cfg, clicks, typed, outputs>>
  BY DEF ServeDryRun, archive
<1>2. PICK c \in 1..clicks : r = [click |-> c, samples |-> Sent(typed[c]), body |-> r.body]
  BY DEF SentIsTyped, IsOnItsWay
<1>3. PICK s : s = Sent(typed[c])
  OBVIOUS
<1>4. PICK d : d = DryRun(s)
  OBVIOUS
<1>5. PICK n : n = [click |-> c, samples |-> s, body |-> d]
  OBVIOUS
<1>6. r.samples = s /\ [r EXCEPT !.body = d] = n
  BY <1>2, <1>3, <1>5
<1>7. pending' = (pending \ {r}) \cup {n}
  BY <1>4, <1>6 DEF ServeDryRun
<1>8. IsOnItsWay(n)
  BY <1>3, <1>4, <1>5 DEF IsOnItsWay
<1>9. \A q \in pending' : IsOnItsWay(q)
  BY <1>7, <1>8 DEF SentIsTyped
<1>10. \A q \in pending' : IsOnItsWay(q)'
  BY <1>1, <1>9, WayKept
<1>11. IsShown'
  BY <1>1, ShownKept DEF SentIsTyped
<1> QED BY <1>1, <1>10, <1>11 DEF SentIsTyped

(* and the page shows it.                                                  *)
LEMMA HandleSends ==
    ASSUME SentIsTyped, NEW r \in pending, HandleSimulationResult(r)
    PROVE  SentIsTyped'
<1>1. UNCHANGED <<cfg, clicks, typed>> /\ pending' \subseteq pending
  BY DEF HandleSimulationResult, archive
<1>2. outputs' = [click |-> r.click, lines |-> Displayed(r.body)] /\ r.body # Null
  BY DEF HandleSimulationResult
<1>3. PICK c \in 1..clicks : /\ r = [click |-> c, samples |-> Sent(typed[c]), body |-> r.body]
                             /\ r.body \in {Null, DryRun(Sent(typed[c]))}
  BY DEF SentIsTyped, IsOnItsWay
<1>4. PICK s : s = Sent(typed[c])
  OBVIOUS
<1>5. outputs'.click = c /\ outputs'.lines = Displayed(DryRun(s))
  <2>1. r.body = DryRun(s) /\ r.click = c
    BY <1>2, <1>3, <1>4
  <2> QED BY <1>2, <2>1
<1>6. Displayed(DryRun(s))' = Displayed(DryRun(s)) /\ Sent(typed[c])' = s
  <2>1. Sent(typed[c])' = Sent(typed[c])
    BY <1>1 DEF Sent, ParseSample, ParseLabels, Quoted, SentTime
  <2> QED BY <1>1, <1>4, <2>1, DisplayKept
<1>7. Displayed(DryRun(Sent(typed[c])))' = Displayed(DryRun(s))
  BY <1>4, <1>6
<1>8. IsShown'
  BY <1>1, <1>5, <1>7 DEF IsShown
<1>9. \A q \in pending' : IsOnItsWay(q)'
  BY <1>1, WayKept DEF SentIsTyped
<1> QED BY <1>1, <1>8, <1>9 DEF SentIsTyped

LEMMA SentStep == SentIsTyped /\ [SimulationNext]_simulationVars => SentIsTyped'
<1> SUFFICES ASSUME SentIsTyped, [SimulationNext]_simulationVars PROVE SentIsTyped'
  OBVIOUS
<1>1. CASE UNCHANGED <<cfg, clicks, typed, outputs>> /\ pending' \subseteq pending
  <2>1. \A q \in pending' : IsOnItsWay(q)'
    BY <1>1, WayKept DEF SentIsTyped
  <2>2. IsShown'
    BY <1>1, ShownKept DEF SentIsTyped
  <2> QED BY <1>1, <2>1, <2>2 DEF SentIsTyped
<1>2. ASSUME NEW query \in Queries, NEW datapoints \in Datapoints, Read(query, datapoints)
      PROVE  cfg' = cfg
  BY <1>2 DEF Read
<1>3. ASSUME NEW m \in Metrics, Write(m) PROVE cfg' = cfg
  BY <1>3 DEF Write
<1>4. CASE \E text \in Texts : SimulWrite(text)
  BY <1>4, ClickSends
<1>5. CASE \E r \in pending : ServeDryRun(r)
  BY <1>5, ServeSends
<1>6. CASE \E r \in pending : HandleSimulationResult(r)
  BY <1>6, HandleSends
<1>7. CASE \E r \in pending : FailDryRun(r)
  BY <1>1, <1>7 DEF FailDryRun, archive
<1>8. CASE ArchiveNext /\ UNCHANGED page
  BY <1>1, <1>2, <1>3, <1>8 DEF ArchiveNext, page
<1>9. CASE UNCHANGED simulationVars
  BY <1>1, <1>9 DEF simulationVars, archive, page
<1> QED
  BY <1>4, <1>5, <1>6, <1>7, <1>8, <1>9 DEF SimulationNext

-----------------------------------------------------------------------------
(* A line that is read as it is meant makes the sample that it is meant for, *)
(* or none where none would be sent.                                        *)
LEMMA ReadIsMeant ==
    ASSUME NEW l, ReadAsMeant(l),
           l.metric # Null => IsMetric(l.metric)
    PROVE  \/ \E s : ParseSample(l) = <<s>> /\ Intended(l) = ToDatapoints(s)
           \/ ParseSample(l) = <<>> /\ Intended(l) = <<>>
<1>1. CASE l.metric # Null /\ l.numeric
  <2>1. PICK m : m = l.metric
    OBVIOUS
  <2>2. /\ m = [name |-> m.name, labels |-> [k \in DOMAIN m.labels |-> m.labels[k]]]
        /\ \A k \in DOMAIN m.labels : Quoted(m.labels[k]) = m.labels[k]
    BY <1>1, <2>1 DEF ReadAsMeant, IsMetric
  <2>3. ParseLabels(m) = m
    <3>1. PICK n, v : n = m.name /\ v = m.labels
      OBVIOUS
    <3>2. m = [name |-> n, labels |-> [k \in DOMAIN v |-> v[k]]]
      BY <2>2, <3>1
    <3>3. m = [name |-> n, labels |-> v] /\ v = [k \in DOMAIN v |-> v[k]]
      BY <3>1, <3>2
    <3>4. [k \in DOMAIN v |-> Quoted(v[k])] = [k \in DOMAIN v |-> v[k]]
      BY <2>2, <3>1
    <3>5. ParseLabels(m) = [name |-> n, labels |-> [k \in DOMAIN v |-> Quoted(v[k])]]
      BY <3>3 DEF ParseLabels
    <3> QED BY <3>3, <3>4, <3>5
  <2>4. l.value = l.mantissa /\ UnixSeconds(SentTime(l)) = UnixSeconds(l.time)
    BY <1>1 DEF ReadAsMeant
  <2>5. PICK s : s = [metric |-> m, value |-> l.value, time |-> SentTime(l)]
    OBVIOUS
  <2>6. ParseSample(l) = <<s>>
    BY <1>1, <2>1, <2>3, <2>4, <2>5 DEF ParseSample
  <2>7. Intended(l) = ToDatapoints(s)
    <3>1. PICK i : i = [metric |-> m, value |-> l.value, time |-> l.time]
      OBVIOUS
    <3>2. UnixSeconds(i.time) = UnixSeconds(s.time) /\ i.metric = s.metric /\ i.value = s.value
      BY <2>4, <2>5, <3>1
    <3>3. ToDatapoints(i) = ToDatapoints(s)
      BY <3>2 DEF ToDatapoints
    <3> QED BY <1>1, <2>1, <3>1, <3>3 DEF Intended
  <2> QED BY <2>6, <2>7
<1>2. CASE ~(l.metric # Null /\ l.numeric)
  <2>1. (l.metric = Null \/ l.value = Null) /\ l.word = Null
    BY <1>2 DEF ReadAsMeant
  <2>2. ParseSample(l) = <<>>
    BY <1>2, <2>1 DEF ParseSample
  <2>3. Intended(l) = <<>>
    BY <2>1 DEF Intended, ToDatapoints
  <2> QED BY <2>2, <2>3
<1> QED BY <1>1, <1>2

(* For a text of such lines the dry run gives what would be sent: the      *)
(* lines are read one by one, and so are the samples.                      *)
LEMMA DryRunMeant ==
    ASSUME NEW text \in Texts, \A i \in DOMAIN text : ReadAsMeant(text[i]), cfg.carbon
    PROVE  DryRun(Sent(text)) = IntendedLines(text)
<1> DEFINE L == {text[i] : i \in DOMAIN text}
           S == {ParseSample(l)[1] : l \in L}
           A == {ToDatapoints(s)[1] : s \in S}
           g == [l \in L |-> ParseSample(l)]
           f == [s \in S |-> ToDatapoints(s)]
           h == [l \in L |-> Intended(l)]
<1>1. text \in Seq(L)
  BY TextsAssumption
<1>2. ASSUME NEW l \in L
      PROVE  \/ \E s \in S : ParseSample(l) = <<s>> /\ Intended(l) = ToDatapoints(s)
             \/ ParseSample(l) = <<>> /\ Intended(l) = <<>>
  <2>1. ReadAsMeant(l)
    OBVIOUS
  <2>2. l.metric # Null => IsMetric(l.metric)
    <3>1. PICK i \in DOMAIN text : l = text[i]
      OBVIOUS
    <3> QED BY <3>1, TextsAssumption
  <2>3. CASE \E s : ParseSample(l) = <<s>> /\ Intended(l) = ToDatapoints(s)
    <3>1. PICK s : ParseSample(l) = <<s>> /\ Intended(l) = ToDatapoints(s)
      BY <2>3
    <3>2. s = ParseSample(l)[1]
      BY <3>1
    <3>3. s \in S
      BY <3>2
    <3> QED BY <3>1, <3>3
  <2> QED BY <2>1, <2>2, <2>3, ReadIsMeant
<1>3. ASSUME NEW s \in S PROVE ToDatapoints(s) \in Text(A)
  <2>1. CASE ToDatapoints(s) = <<>>
    BY <2>1, TextEmpty
  <2>2. CASE ToDatapoints(s) # <<>>
    <3>1. PICK x : ToDatapoints(s) = <<x>>
      BY <2>2 DEF ToDatapoints
    <3>2. x = ToDatapoints(s)[1]
      BY <3>1
    <3>3. x \in A
      BY <3>2
    <3>4. <<x>> \in Seq(A)
      BY <3>3
    <3> QED BY <3>1, <3>4 DEF Text
  <2> QED BY <2>1, <2>2
<1>4. f \in [S -> Text(A)]
  BY <1>3
<1>5. \A l \in L : ParseSample(l) \in Text(S)
  <2>1. ASSUME NEW l \in L PROVE ParseSample(l) \in Text(S)
    <3>1. CASE \E s \in S : ParseSample(l) = <<s>>
      <4>1. PICK s \in S : ParseSample(l) = <<s>>
        BY <3>1
      <4> HIDE DEF S
      <4>2. <<s>> \in Seq(S)
        OBVIOUS
      <4> QED BY <4>1, <4>2 DEF Text
    <3>2. CASE ParseSample(l) = <<>>
      BY <3>2, TextEmpty
    <3> QED BY <1>2, <3>1, <3>2
  <2> QED BY <2>1
<1>6. g \in [L -> Text(S)]
  BY <1>5
<1>7. \A l \in L : g[l] = ParseSample(l) /\ h[l] = Intended(l)
  OBVIOUS
<1>8. \A s \in S : f[s] = ToDatapoints(s)
  OBVIOUS
<1>9. ASSUME NEW l \in L PROVE FlattenMap(f, g[l]) = h[l] /\ h[l] \in Text(A)
  <2> HIDE DEF f, g, h, S, A, L
  <2>1. CASE \E s \in S : ParseSample(l) = <<s>> /\ Intended(l) = ToDatapoints(s)
    <3>1. PICK s \in S : ParseSample(l) = <<s>> /\ Intended(l) = ToDatapoints(s)
      BY <2>1
    <3>2. FlattenMap(f, <<s>>) = f[s]
      BY <1>4, MapOne
    <3> QED BY <1>3, <1>7, <1>8, <3>1, <3>2
  <2>2. CASE ParseSample(l) = <<>> /\ Intended(l) = <<>>
    BY <1>7, <2>2, MapEmpty, TextEmpty
  <2> QED BY <1>2, <2>1, <2>2
<1>10. h \in [L -> Text(A)]
  <2>1. h = [l \in L |-> h[l]]
    BY <1>7
  <2> HIDE DEF h, L, A
  <2> QED BY <1>9, <2>1
<1>11. Sent(text) = FlattenMap(g, text)
  <2>1. \A i \in DOMAIN text : text[i] \in L
    OBVIOUS
  <2>2. [i \in DOMAIN text |-> ParseSample(text[i])] = [i \in DOMAIN text |-> g[text[i]]]
    BY <1>7, <2>1
  <2> QED BY <2>2 DEF Sent, FlattenMap
<1>12. IntendedLines(text) = FlattenMap(h, text)
  <2>1. \A i \in DOMAIN text : text[i] \in L
    OBVIOUS
  <2>2. [i \in DOMAIN text |-> Intended(text[i])] = [i \in DOMAIN text |-> h[text[i]]]
    BY <1>7, <2>1
  <2> QED BY <2>2 DEF IntendedLines, FlattenMap
<1> HIDE DEF f, g, h, S, A, L
<1>13. PICK sent \in Seq(S) : sent = Sent(text)
  <2>1. FlattenMap(g, text) \in Text(S)
    BY <1>1, <1>6, MapType
  <2> QED BY <1>11, <2>1 DEF Text
<1>14. DryRun(sent) = FlattenMap(f, sent)
  <2>1. DryRun(sent) = FlattenSeq([i \in DOMAIN sent |-> ToDatapoints(sent[i])])
    BY DEF DryRun
  <2>2. \A i \in DOMAIN sent : sent[i] \in S
    OBVIOUS
  <2>3. [i \in DOMAIN sent |-> ToDatapoints(sent[i])] = [i \in DOMAIN sent |-> f[sent[i]]]
    BY <1>8, <2>2
  <2> QED BY <2>1, <2>3 DEF FlattenMap
<1>15. FlattenMap(f, FlattenMap(g, text)) = FlattenMap(h, text)
  <2>1. text \in Text(L)
    BY <1>1 DEF Text
  <2> QED BY <1>4, <1>6, <1>9, <1>10, <2>1, MapsCompose
<1> QED BY <1>11, <1>12, <1>13, <1>14, <1>15

(* There is no markup in what would be sent for such a text.               *)
LEMMA NoMarkup ==
    ASSUME NEW text \in Texts, \A i \in DOMAIN text : ReadAsMeant(text[i])
    PROVE  \A i \in DOMAIN IntendedLines(text) : ~IsMarkup(IntendedLines(text)[i].path)
<1> DEFINE L == {text[i] : i \in DOMAIN text}
           A == {x \in {Intended(l)[1] : l \in L} : ~IsMarkup(x.path)}
           h == [l \in L |-> Intended(l)]
<1>1. ASSUME NEW l \in L PROVE Intended(l) \in Text(A)
  <2>1. ReadAsMeant(l)
    OBVIOUS
  <2>2. CASE Intended(l) = <<>>
    BY <2>2, TextEmpty
  <2>3. CASE Intended(l) # <<>>
    <3>1. l.metric # Null /\ l.value # Null
      BY <2>3 DEF Intended, ToDatapoints
    <3>2. ~IsMarkup(DefaultPath(l.metric, cfg.format))
      BY <2>1, <3>1 DEF ReadAsMeant
    <3>3. PICK x : Intended(l) = <<x>> /\ x.path = DefaultPath(l.metric, cfg.format)
      BY <3>1 DEF Intended, ToDatapoints
    <3>4. x \in A
      <4>1. x = Intended(l)[1]
        BY <3>3
      <4> QED BY <3>2, <3>3, <4>1
    <3> HIDE DEF A
    <3>5. <<x>> \in Seq(A)
      BY <3>4
    <3> QED BY <3>3, <3>5 DEF Text
  <2> QED BY <2>2, <2>3
<1>2. h \in [L -> Text(A)]
  BY <1>1
<1>3. text \in Seq(L)
  BY TextsAssumption
<1>4. IntendedLines(text) = FlattenMap(h, text)
  <2>1. \A i \in DOMAIN text : text[i] \in L
    OBVIOUS
  <2>2. [i \in DOMAIN text |-> Intended(text[i])] = [i \in DOMAIN text |-> h[text[i]]]
    BY <2>1
  <2> QED BY <2>2 DEF IntendedLines, FlattenMap
<1>5. \A x \in A : ~IsMarkup(x.path)
  OBVIOUS
<1> HIDE DEF h, A, L
<1>6. IntendedLines(text) \in Seq(A)
  <2>1. FlattenMap(h, text) \in Text(A)
    BY <1>2, <1>3, MapType
  <2> QED BY <1>4, <2>1 DEF Text
<1> QED BY <1>5, <1>6

(* The page shows what carbon would get for the text of its click if every  *)
(* line of that is read as it is meant and has no markup: for any texts and *)
(* any number of clicks, whichever answers are lost or come late            *)
(* (simulWrite, parseSample, Client.Write, handleSimulationResult).         *)
THEOREM PageShowsWhatIsMeant == SimulationSpec => []MeantIsPredicted
<1>1. ASSUME SentIsTyped PROVE MeantIsPredicted
  <2>1. SUFFICES ASSUME outputs.click > 0, cfg.carbon, NEW text, text = typed[outputs.click],
                        \A i \in DOMAIN text : ReadAsMeant(text[i])
                 PROVE  outputs.lines = IntendedLines(text)
    BY DEF MeantIsPredicted
  <2>2. outputs.click \in 1..clicks /\ outputs.lines = Displayed(DryRun(Sent(text)))
    BY <1>1, <2>1 DEF SentIsTyped, IsShown
  <2>3. text \in Texts
    BY <1>1, <2>1, <2>2 DEF SentIsTyped
  <2>4. PICK lines : lines = IntendedLines(text)
    OBVIOUS
  <2>5. DryRun(Sent(text)) = lines
    BY <2>1, <2>3, <2>4, DryRunMeant
  <2>6. \A i \in DOMAIN lines : ~IsMarkup(lines[i].path)
    BY <2>1, <2>3, <2>4, NoMarkup
  <2>7. Displayed(lines) = lines
    BY <2>6 DEF Displayed
  <2> QED BY <2>2, <2>4, <2>5, <2>7
<1> QED BY SentInit, SentStep, <1>1, PTL DEF SimulationSpec

=============================================================================
