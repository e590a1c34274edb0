------------------------------ MODULE Archive -------------------------------
(***************************************************************************)
(* What a metric written through the adapter comes back as: graphite keeps *)
(* the series under the paths that /write gives them, and /read finds them *)
(* by their names and turns paths into labels and datapoints into samples. *)
(*                                                                         *)
(* The rules are left to PathsCache, the sockets to CarbonWrite and the    *)
(* pool of fetches to RemoteRead: a write or a read is one step.  FetchURL  *)
(* brings the bodies of the responses, as the one of the tests does; for    *)
(* that of utils, see RemoteRead.                                          *)
(***************************************************************************)
EXTENDS Naming, Integers, FiniteSets

CONSTANTS
    Configs,      \* [format, carbon, maxPointDelta]
    Metrics,      \* what Prometheus may write
    Queries,      \* [name, label, equal, value]: a name and one matcher more
    Datapoints,   \* what graphite may render for a series
    Null,         \* a datapoint without a value; no answer
    MaxRequests,  \* bounds the writes and the reads
    MaxWrites     \* bounds the writes

(* maxPointDelta is in milliseconds; carbon tells whether there is a carbon  *)
(* address.                                                                 *)
ASSUME ConfigsAssumption ==
    Configs \subseteq [format : {"path", "tags", "openmetrics"}, carbon : BOOLEAN,
                       maxPointDelta : Nat]

(* Label names are among LabelNames, and label values are any bytes. *)
IsMetric(m) ==
    /\ m = [name |-> m.name, labels |-> m.labels]
    /\ m.name \in Seq(MetricBytes)
    /\ \A k \in DOMAIN m.labels :
          /\ m.labels[k] \in Seq(Bytes)
          /\ \E i \in DOMAIN LabelNames : LabelNames[i] = k
    /\ m.labels = [k \in DOMAIN m.labels |-> m.labels[k]]

(* The adapter takes this from Prometheus and does not check it. *)
ASSUME MetricsAssumption == \A m \in Metrics : IsMetric(m)

(* To Prometheus an empty label is a label that is not there. *)
ASSUME FilledAssumption ==
    \A m \in Metrics : m.name # <<>> /\ \A k \in DOMAIN m.labels : m.labels[k] # <<>>

(* Graphite renders datapoints in the order of time, and the adapter takes   *)
(* them as they come.                                                       *)
ASSUME DatapointsAssumption ==
    \A d \in Datapoints :
        /\ d \in Seq([time : Int, value : Int \cup {Null}])
        /\ \A i, j \in DOMAIN d : i < j => d[i].time < d[j].time

(* A read of one metric by its name and one matcher more, of any      *)
(* bytes.                                                                   *)
ASSUME QueriesAssumption ==
    Queries \subseteq [name : Seq(Bytes), label : Seq(Bytes), equal : BOOLEAN, value : Seq(Bytes)]

VARIABLES
    cfg,
    graphite,   \* the paths of the series that graphite has
    written,    \* the metrics that were written
    answer,     \* the last read: its query, what was written by then, its
                \* datapoints and its series
    running,    \* the process has not panicked
    requests    \* the number of requests so far

archive == <<cfg, graphite, written, answer, running, requests>>

ArchiveInit ==
    /\ cfg \in Configs
    /\ graphite = {} /\ written = {}
    /\ answer = Null
    /\ running = TRUE
    /\ requests = 0

Request ==
    /\ running
    /\ requests < MaxRequests
    /\ requests' = requests + 1

(* POST /write of a sample of m. *)
Write(m) ==
    /\ Request
    /\ cfg.carbon
    /\ m \notin written
    /\ Cardinality(written) < MaxWrites
    /\ graphite' = graphite \cup {DefaultPath(m, cfg.format)}
    /\ written' = written \cup {m}
    /\ UNCHANGED <<cfg, answer, running>>

-----------------------------------------------------------------------------
LabelValue(m, k) == IF k \in DOMAIN m.labels THEN m.labels[k] ELSE <<>>

(* plabels.Matcher.Matches, for the name and the other matcher of a query.   *)
Matches(m, query) ==
    /\ m.name = query.name
    /\ (LabelValue(m, query.label) = query.value) <=> query.equal

(* The leaves that graphite finds for <prefix><name>.** and that pass        *)
(* filterTargets.                                                           *)
QueryToTargets(query) ==
    {path \in graphite :
        /\ IsPrefix(Prefix \o query.name \o <<Dot>>, path)
        /\ LET labels == MetricLabelsFromPath(path)
           IN  labels # Unreadable /\ Matches(labels, query)}

(* The series of seriesByTag("name=...","label=value"), a call that graphite *)
(* cannot read when the value has a quote.                                  *)
QueryToTargetsWithTags(query) ==
    {path \in graphite :
        /\ ~ \E i \in DOMAIN query.value : query.value[i] = Quote
        /\ Matches([name |-> Tags(path)[NameTag], labels |-> Tags(path)],
                   [query EXCEPT !.name = Prefix \o @])}

Found(query) ==
    IF cfg.format = "path" THEN QueryToTargets(query) ELSE QueryToTargetsWithTags(query)

(* The labels that TargetToTimeseries gives to the series. *)
LabelsOf(path) ==
    IF cfg.format = "path" THEN MetricLabelsFromPath(path)
    ELSE MetricLabelsFromTags(Tags(path))

-----------------------------------------------------------------------------
IntervalSecond == cfg.maxPointDelta \div 1000

(* Datapoint i and the next one have values. *)
Paired(datapoints, i) ==
    i < Len(datapoints) /\ datapoints[i].value # Null /\ datapoints[i + 1].value # Null

(* Mutant: the samples are put on multiples of the interval. *)
Intermediate_Aligned(a, b) ==
    [j \in 1..((b.time - a.time) \div IntervalSecond - 1) |->
        LET time == ((a.time + j * IntervalSecond) \div IntervalSecond) * IntervalSecond
        IN  [time |-> time,
             value |-> a.value + ((time - a.time) * (b.value - a.value)) \div (b.time - a.time)]]

(* The samples between two datapoints, with values rounded down to integers. *)
Intermediate(a, b) ==
    [j \in 1..((b.time - a.time) \div IntervalSecond - 1) |->
        [time  |-> a.time + j * IntervalSecond,
         value |-> a.value + (j * IntervalSecond * (b.value - a.value)) \div (b.time - a.time)]]

SamplesFromDatapoints(datapoints) ==
    FlattenSeq([i \in DOMAIN datapoints |->
        IF datapoints[i].value = Null THEN <<>>
        ELSE IF Paired(datapoints, i) /\ cfg.maxPointDelta # 0
             THEN <<datapoints[i]>> \o Intermediate(datapoints[i], datapoints[i + 1])
             ELSE <<datapoints[i]>>])

(* deltaSecond / intervalSecond, in a goroutine that nobody recovers. *)
DividesByZero(datapoints) ==
    /\ cfg.maxPointDelta # 0 /\ IntervalSecond = 0
    /\ \E i \in DOMAIN datapoints : Paired(datapoints, i)

(* POST /read.  How graphite stores the openmetrics format is its own matter *)
(* and not shown by the adapter.                                            *)
Read(query, datapoints) ==
    /\ Request
    /\ cfg.format # "openmetrics"
    /\ IF Found(query) # {} /\ DividesByZero(datapoints)
       THEN running' = FALSE /\ answer' = Null
       ELSE /\ answer' = [query      |-> query,
                          written    |-> written,
                          datapoints |-> IF Found(query) = {} THEN <<>> ELSE datapoints,
                          labels     |-> {LabelsOf(path) : path \in Found(query)},
                          samples    |-> IF Found(query) = {} THEN <<>>
                                         ELSE SamplesFromDatapoints(datapoints)]
            /\ UNCHANGED running
    /\ UNCHANGED <<cfg, graphite, written>>

ArchiveNext ==
    \/ \E m \in Metrics : Write(m)
    \/ \E query \in Queries, datapoints \in Datapoints : Read(query, datapoints)

-----------------------------------------------------------------------------
(* The values that a format keeps apart: Escape merges a byte under 16 with  *)
(* the hexadecimal digit that follows it, EscapeTagged writes four           *)
(* characters as one and does not escape the % of its own escapes.           *)
Distinct(v) ==
    IF cfg.format = "tags" THEN \A i \in DOMAIN v : v[i] \in Printables \ Underlined
    ELSE \A i \in DOMAIN v : v[i] >= 16

(* The values that come back as they were written. *)
Readable(v) ==
    /\ Distinct(v)
    /\ cfg.format = "path" =>
          \A i \in 1..(Len(v) - 1) : v[i] = Backslash => v[i + 1] \notin Symbols

All(m, Good(_)) == \A k \in DOMAIN m.labels : Good(m.labels[k])

(* Two metrics share a series of graphite only if a value of one of them has *)
(* bytes that its format merges.                                            *)
SeriesApart ==
    \A m, n \in written :
        m # n /\ DefaultPath(m, cfg.format) = DefaultPath(n, cfg.format) =>
            ~All(m, Distinct) \/ ~All(n, Distinct)

(* The metrics that had been written and that the query asks for. *)
Wanted == {m \in answer.written : Matches(m, answer.query)}

(* The metrics that come back as they were written: with tags the name of   *)
(* the metric takes the place of a label that is called name.               *)
Restored(m) ==
    /\ All(m, Readable)
    /\ cfg.format = "tags" => NameTag \notin DOMAIN m.labels

(* A read that is answered brings, under its own labels, every metric that   *)
(* the query asks for, if it can be restored; paths find no metric that has  *)
(* no label, and tags none by a value with a quote or by a label that is     *)
(* called name.  It brings nothing else, as long as all metrics that were    *)
(* written can be restored.                                                 *)
ReadsBack ==
    answer # Null /\ (cfg.format = "tags" => answer.query.label # NameTag) =>
        /\ \A m \in Wanted :
              /\ Restored(m)
              /\ IF cfg.format = "path" THEN DOMAIN m.labels # {}
                 ELSE Quote \notin {answer.query.value[i] : i \in DOMAIN answer.query.value}
              => m \in answer.labels
        /\ (\A m \in answer.written : Restored(m)) => answer.labels \subseteq Wanted

(* The process goes down only with an interval under a second. *)
PanicsBelowASecond == ~running => cfg.maxPointDelta \in 1..999

(* The datapoints of d that have a value. *)
Known(d) == {d[j] : j \in {i \in DOMAIN d : d[i].value # Null}}

(* x lies between datapoint j and the next one, and these have values. *)
Between(d, j, x) == Paired(d, j) /\ d[j].time <= x.time /\ x.time <= d[j + 1].time

(* x is on the line from a to b, but for the rounding of its value. *)
OnTheLine(a, b, x) ==
    (x.time - a.time) * (b.value - a.value) - (x.value - a.value) * (b.time - a.time)
        \in 0..(b.time - a.time - 1)

(* The samples s of the datapoints d: these are among them, in their order,  *)
(* and between two with values that are next to each other there is one      *)
(* sample for each interval, on the line that joins them, until less than    *)
(* two intervals are left.  Where a value is missing nothing is put in.      *)
Fill(s, d) ==
    LET gap(i) == s[i + 1].time - s[i].time
        joined(i) == \E j \in DOMAIN d : Between(d, j, s[i]) /\ Between(d, j, s[i + 1])
    IN  /\ \A x \in Known(d) : \E i \in DOMAIN s : s[i] = x
        /\ \A i \in DOMAIN s :
              \/ s[i] \in Known(d)
              \/ cfg.maxPointDelta >= 1000 /\ \E j \in DOMAIN d : Between(d, j, s[i])
        /\ \A i \in DOMAIN s, j \in DOMAIN d :
              Between(d, j, s[i]) => OnTheLine(d[j], d[j + 1], s[i])
        /\ \A i \in 1..(Len(s) - 1) :
              /\ gap(i) > 0
              /\ cfg.maxPointDelta >= 1000 /\ joined(i) =>
                    IF s[i + 1] \in Known(d) THEN gap(i) < 2 * IntervalSecond
                    ELSE gap(i) = IntervalSecond
              /\ ~joined(i) => s[i] \in Known(d) /\ s[i + 1] \in Known(d)

(* What a read answers with are the samples of what graphite rendered, with  *)
(* the gaps filled; the division by the interval goes wrong only when that   *)
(* is under a second (samplesFromDatapoints).                               *)
GapsFilled ==
    /\ PanicsBelowASecond
    /\ answer # Null /\ answer.labels # {} => Fill(answer.samples, answer.datapoints)

=============================================================================
