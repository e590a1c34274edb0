# Verification of the Graphite remote adapter

TLA+ specifications of the adapter, the TLC runs that check them on small
instances, and proofs, checked by TLAPS, of what matters most. The source is
Go; paths below are relative to the root of the repository.

The adapter stands between Prometheus and Graphite. Prometheus posts samples to
`/write`; the adapter names them by templating rules and sends them as lines to
a carbon server over TCP or UDP, optionally in LZ4 frames. Prometheus posts
queries to `/read`; the adapter asks graphite-web for the matching series. A
SIGHUP or a `POST /-/reload` replaces the configuration while requests are
being served.

## 1. The parts of the system

| Part | Where | State | Operations |
|---|---|---|---|
| Handler | `web/handler.go`, `web/write.go`, `web/read.go` | `cfg`, `writers`, `readers`, under an `RWMutex`; counters; the channel `reloadCh` | `write`, `read`, `healthy`, `reload`, `home`, `ApplyConfig` |
| Main | `main.go` | the channel of signals, the reload loop | `reload()`, `main` |
| Graphite client | `client/graphite/client.go`, `write.go` | `carbonCon` and the time of the last dial, under `carbonConLock` | `NewClient`, `Write`, `Target`, `Shutdown` |
| Remote read | `client/graphite/read.go`, `utils/http.go` | per request: the deadline, two channels, ten workers | `Read`, `handleReadQuery`, `fetchData`, `FetchURL` |
| Paths | `client/graphite/paths/` | the process-wide `pathsCache` | `ToDatapoints`, `pathsFromMetric`, `templatedPaths`, `InitPathsCache` |
| LZ4 | `utils/lz4/` | one compression context a frame | `NewWriter`, `Write`, `Close` |
| Templates | `client/graphite/template/`, `utils/template/` | a global map of compiled regular expressions | `Escape`, `Unescape`, `replaceRegex`, ... |
| Configuration | `config/`, `client/graphite/config/` | defaults, file, flags | `Load`, `ParseCommandLine`, `UnmarshalYAML` |
| Simulation page | `ui/static/js/api.js`, `ui/templates/simulation.html` | in the browser: the text, the requests on their way, the outputs | `simulWrite`, `parseSample`, `handleSimulationResult` |
| UI | `ui/`, `utils/template/web.go` | none | pages and assets |

How they interact:

* Every request runs in a goroutine of its own and holds the handler's **read
  lock** while it runs; `ApplyConfig` holds the write lock. A waiting writer
  keeps new readers out.
* All `/write` requests share one client and one connection, under
  **carbonConLock**. A buffer reaches the connection through an `io.Pipe`, with
  a producer goroutine on the other side that shares the variable `err` with the
  request.
* All `/write` requests share the **paths cache**, a global that `NewClient`
  replaces.
* A `/read` has a feeding goroutine, workers, a closing goroutine and a
  collecting loop, joined by two bounded **channels**.
* What `/write` stores in Graphite is what `/read` has to find again: both sides
  share the **naming** of metrics (`Escape`, `Unescape`, the prefix, the format)
  and nothing but Graphite in between.
* The **simulation page** sends what the user typed to `/write` as JSON, which
  makes a dry run of it; answers come back in any order, or not at all.
* The **reload loop** is one goroutine, fed by a channel of capacity 1 (signals)
  and an unbuffered one (POSTs).

What is hard, in one line each (`PROJECT.json` lists every hazard at its line):
interleaved use of the connection, and its life across reconnects, errors and
reloads; the shared `err`; an unlocked read of `carbonCon`; a write without a
deadline under two locks; signals that coalesce and files that do not load;
entries of the cache that outlive the rules they came from; channels that are
smaller than what goes through them; datagram boundaries; flags that override
the file with defaults nobody gave; label values that share a series or come back
changed; gaps between points; answers to the page that overtake each other.

## 2. The modules

| Module | What it is | Lines of code it stands for |
|---|---|---|
| `ClientLifecycle` | abstract: clients are built, serve, and are retired when they serve nobody | the promise of `ApplyConfig` |
| `CarbonWrite` | `/write` down to the socket, one client from its building to its shutdown | `web/write.go`, `client/graphite/write.go`, `client.go` |
| `Reload` | the reload loop, `ApplyConfig`, and requests under the lock | `main.go`, `web/handler.go` |
| `Settings` | refines `Reload`: the defaults, the file and the flags, setting by setting | `config/`, `reload()` in `main.go` |
| `PathsCache` | rules, default path, the shared cache, reloads | `client/graphite/paths/` |
| `Gather` | abstract: a response has all that was found, or nothing | the promise of `Client.Read` |
| `RemoteRead` | one `/read`, with all its goroutines | `web/read.go`, `client/graphite/read.go`, `utils/http.go` |
| `Packing` | datapoints into buffers | `prepareWrite`, `ToDatapoints` |
| `Naming` | bytes of label values to paths, and back | `template/escape.go`, `paths/read.go`, `defaultPath` |
| `Archive` | what is written through the adapter and what a read brings back | `QueryToTargets`, `filterTargets`, `TargetToTimeseries`, `samplesFromDatapoints` |
| `Simulation` | the simulation page, in front of the adapter of `Archive` | `api.js`, `simulation.html`, the dry run of `Client.Write` |
| `MC*` | the instances that TLC checks | |
| `*Proofs` | theorems and their proofs | |

`ClientLifecycle` composes the two halves of the story: `CarbonWrite` shows that
one client keeps its promise whatever happens on the network
(`ServesThenRetires`), `Reload` shows that the sequence of clients that reloads
build does (`ClientsLiveAndDie`), and `NobodyUsesARetiredClient` says what the
promise is good for. `CarbonWrite` takes the buffers as given, `Packing` says
how they come to be, and `PathsCache` where the paths in them come from; `Naming` has
the text of the default path. `RemoteRead` moves series through goroutines
without looking at them, `Archive` looks at their labels and samples and takes a
read as one step. `Simulation` extends `Archive`: page and remote write share the
operators that make lines for carbon, and a panic of a read is felt by the page.

Operators whose names have a suffix after an underscore (`CloseCon_NoClose`) are
seeded bugs: variants of the definition that follows them, which no
specification uses. Each property is broken by one of them under its own run,
which shows that it can fail.

### CarbonWrite

`pc[r]` is where the goroutine of a request stands, named after what it does
next. Between `ctx` and `leave` it holds `carbonConLock`; `parse` to `respond`
is the span of the handler's read lock. `size`, `buf`, `left`, `prod`, `err` are
the locals of a call of `Client.Write`: the chunks of each buffer, the buffer at
hand, what the producer still has to give, the producer goroutine, and the
variable that both assign. A chunk is what one read of the pipe brings and one
`conn.Write` takes. The counters are sets of requests, since the code adds
`len(samples)` of a whole request at once.

`Assign` is the race on `err`: the producer's assignment lands at any time
between the end of its work and the return of `Write`, and after that nobody
reads it. `TargetCheck`, `TargetPanics` and `TargetReturns` are the two unlocked
reads in `Target()`. `Send` to a lost peer may succeed, as the kernel buffers,
and a datagram may be lost on any `Send`; `SendFails` needs a lost peer or a
datagram. `PeerLost` is about TCP only, as UDP has no peer to lose.

### Reload

An *edition* is one content of the configuration file; `kind` says, for each,
whether it loads and whether it names a client. `at` is where the loop stands:
`select`, `load`, `lock`, `shutdown`, `build`, `unlock`, `reply`. `built` is the
sequence of clients ever built, each known by its edition, and `shut` those that
`Shutdown` was called on. `Arrive`, `Depart` and `Unlock` are Go's `RWMutex`:
readers that come while a writer waits have to wait, and go first when it leaves.
The behaviour starts when main has applied the first edition; that `New` and the
first `ApplyConfig` build a client each, one after the other with nobody served,
is left out.

### PathsCache

A metric is a model value, a rule the set of metrics that it matches, its
template, those on which the template fails, and `continue`. `TemplatedPaths` and
`Paths` give in one step what the loop over the rules does. The request at hand
is one call of `pathsFromMetric`; between `Get` and `Compute` another may store
the same key. An entry remembers the edition of the configuration it was computed
under, which only the properties read. Its key is the hash of the metric, and two
metrics may have the same. A rule that continues without a template makes `Execute`
be called on nil: text/template hands runtime errors on, and the goroutine of
`Handler.write` has nobody to recover them, so that `Panic` ends the process, with its
cache and every other request. `NewClient` waits for calls in progress,
which is what the handler's lock amounts to for a single sample.

### RemoteRead and Gather

`pc` is the goroutine of the request, `at[w]` each worker; `input` and `output`
are the channels with the capacities of `fetchData`. `FetchURL` is a variable in
the code, which the tests replace; the model keeps it as `fetcher`: `"utils"` is
`utils.FetchURL`, which closes the body before it reads it, so that every fetch
ends in an error, and `"mock"` returns the body. `served` is what graphite sent.
`NothingLost` says that a result holds each series of it exactly once. It holds
with `"mock"`, which shows what the pool does once fetching works, and is violated
with `"utils"`, which is what the program runs with (`RemoteReadBody`), although the
comment at `utils/http.go:49` says that the function returns the body. `closed` stands for the nil and the close
of `output` together, since nobody looks at the channel after the nil.

### Settings

A setting is a model value; a file or a command line is a function on the settings
that it names. `Settings` extends `Reload` and fills in what an edition of the
file says: `Kind` derives from the merged settings what `Reload` took as given,
whether a file loads and whether it gives a client, and `Configure` is
`BuildClients` with `h.cfg = cfg`. `SettingsInForce` says what the user may rely
on: a flag that was given a value wins (and a zero for one of the durations that
`reload()` puts back), and a setting that has neither a default nor a flag is as
the running edition of the file has it. A setting that has a default and no given flag
should be as the file has it as well, and is not: the command line is parsed on top of
the defaults and merged over the file, so that what the file says of it is lost
(`FileInForce`, which the run `ReloadFile` shows to be violated). A flag with any other
zero has no effect, as the merge skips it; `SettingsInForce` claims nothing of it.

### Naming and Archive

A text is a sequence of bytes. `Escape`, `EscapeTagged`, `Unescape`, `DefaultPath`
and the two `MetricLabels` operators are the Go functions byte by byte, with
`url.PathUnescape` as the library has it. A metric is a name and a function from
label names to values. `written` is what was written, `graphite` the paths that
arrived; `answer` is the last read with what had been written by then. Expansion
of `<name>.**`, tags and `seriesByTag` are Graphite's and modelled from how the
adapter uses them; matchers are equalities and inequalities.

What the constants may be is what Prometheus and Graphite give the adapter, which
does not check it: names consist of letters, digits and underscores (in a metric's
also colons) and are not empty (`NamesAssumption`, `MetricsAssumption`), an empty value
is a label that is not there (`FilledAssumption`), datapoints are rendered in the order
of time (`DatapointsAssumption`), and a prefix has no semicolon, behind which Graphite
would read tags (`PrefixAssumption`). Values are arbitrary bytes, and so is what a query
asks for (`QueriesAssumption`).

The properties name the values for which they hold:

* `SeriesApart`: metrics share a series only if one has a value with bytes under
  16 (which `Escape` writes with one digit), or, in the tags format, characters
  that become an underscore or a percent-encoding that is not escaped itself.
* `ReadsBack`: values come back unless they have such bytes or, in a path, a
  backslash before one of Graphite's symbols; a metric without labels is not found
  by `<name>.**`, and a value with a quote is not found by `seriesByTag`. With tags, a
  label that is called `name` is lost: the name of the metric takes its place among the
  tags of the series.
* `GapsFilled`: every datapoint with a value is there, in the order of time, every
  sample between two of them is on the line that joins them, one interval after the
  one before, nothing is put in across a missing value, less than two intervals are
  left open at the end of a gap, and a panic happens only with an interval under a
  second.

The first two exceptions (merged values, lost backslashes) and the interval under a second
contradict comments of the code: section 5 lists them. That four characters become an
underscore, that a label called `name` gets lost, and which metrics a read does not find,
no comment denies.

### Simulation

A line of the text is known by what the regular expressions of `api.js` tell
apart: the sample it is meant for, whether its value is an unsigned number, what
remains of the value without a signed exponent, the time, and a word followed by a
number elsewhere in the line, which is read as a sample when the rest does not
match. `MeantIsPredicted` compares the outputs with what remote write makes of
the samples that were meant, and holds for the texts whose lines are read as they are
meant (`ReadAsMeant`): unsigned finite values, no quoting, and no time but one that is
the same second in seconds and in milliseconds. The page's own
examples (`simulation.html:30`) include a time in milliseconds, which is exempted: for it
the page shows another time than carbon would get, although it says that the line works.

`handleSimulationResult` puts the lines between `<pre>` and `</pre>` and sets the
whole as HTML. `Escape` and `EscapeTagged` leave `<` and `&` alone and nobody else escapes
them, so that a path with `<` before a letter, or with `&` before the name of a character,
is not shown as it stands. `IsMarkup` says which paths these are, for any set
`References` of names; what the browser shows instead is the model value `Garbled`.
`ReadAsMeant` exempts them: no comment speaks of such values.

Times are scaled down: `Milli` is the factor
between seconds and milliseconds, `Horizon` the range of `UnixNano`.
`OutputsAnswerLastClick` says that an answer, even one without lines, replaces what was
on the page. It exempts clicks that overlap, of which the answer that comes last stays, and
clicks that fail, for which the page has no handler: nothing in the repository says what
should be shown then.

### Packing

A line is its sample, its index and its length. `ToDatapoints` gives for every
byte of every returned slice the line that wrote it, as the slices share one
buffer. `EveryLineOnce` claims the place of every line, and the bytes of the last line of
each sample: a sample with several paths has wrong bytes in the lines before it, here as
in the code.

## 3. The runs

| Run | Expected | What it shows |
|---|---|---|
| `CarbonWriteSafety` | pass | two requests, two connections, TCP, UDP, LZ4 and a client without an address; nobody waits in a circle |
| `CarbonWriteLive` | pass | every request is answered, every reload completes |
| `CarbonWriteSwallow` | violation | a failed request is counted as sent |
| `CarbonWriteTarget` | violation | `Target()` panics |
| `Reload` | pass | three editions, two signals, a POST, a request; six settings of three sorts, two files that load and one that does not, two command lines |
| `ReloadFile` | violation | what a file sets, as the values of the chart do, is overridden by the defaults |
| `PathsCache` | pass | two calls, three metrics (two with one hash), two prefixes, a reload among seven configurations |
| `PathsCachePrefix` | violation | a cached path has the prefix of another request |
| `RemoteRead` | pass | two queries of two targets with two series each, three workers |
| `RemoteReadBody` | violation | with `utils.FetchURL` the series that graphite sent are in no result |
| `Packing` | pass | requests of up to four samples, lines around the limit |
| `Simulation` | pass | up to two written metrics of thirteen, eight queries, seven configurations, two clicks among thirteen texts |

Bounds, and why they are enough:

* *CarbonWrite.* Two requests are enough for every race on `carbonCon`, the lock
  and the wire, as each involves the holder and one other; two connections let
  one of them be replaced; two chunks let a buffer be cut in the middle, two
  buffers let a datagram fail after another went out. When both connections are
  used up further dials fail, as they may at any time. For liveness one chunk and
  one buffer keep the run short; the loops that might not end (retries, waiting
  for the pipe) are all there. Requests and connections are symmetric in the runs
  without liveness. LZ4 over UDP, which `ConfigsAssumption` allows and the theorems
  cover, is not among the configurations of the runs: it is the largest of all (14
  million states) and has nothing that LZ4 over TCP and plain UDP do not have.
* *Reload.* Three editions allow a broken one between two that load; two signals
  let one wait while another is worked on, and a POST beside them. One request
  is enough for `RequestServed`, which is about a request and the loop; that
  requests do not disturb one another is part of the proofs, which hold for any
  number.
* *PathsCache.* Two metrics and two prefixes are what tells entries apart, and a third
  metric has the hash of the first; one reload gives two editions of rules, and time to
  live 0 (for ever) and 2. The lists of rules are chosen for the default path, a
  templated one, both, a silenced metric, a template that fails first or last, and a
  missing template that one metric reaches and another does not.
* *RemoteRead.* Two targets with two series each are more than the channel of
  three holds with the nil; three workers leave one idle.
* *Simulation.* `MaxRequests` bounds writes, reads and clicks together at three:
  two writes and a read show one metric in the way of another, two clicks and a
  write or a read show answers that overlap beside the archive. The label values
  are one or two for each way in which a byte is treated, among them the pairs
  that collide; the steps between datapoints are below, at, and between multiples
  of the interval. The intervals are 0, half a second, one and two and a half.
* *Settings.* The settings of the instance are an address and a prefix (no default),
  two durations with a default and two that are put back as well; files name all,
  or set one with a default to zero; command lines are empty, or name all, some with
  a zero.
* *Packing.* A limit of 4 bytes and lines of 1, 2, 3, 4 and 5 give every
  relation between a line, what is left, and the limit.

`CHECK_DEADLOCK FALSE` stands only in `PathsCache.cfg`, where a configuration without
a client and no reload left, or a panic, leaves nothing to do, and in `Simulation.cfg`,
where the requests are bounded and a panic ends the process. `CarbonWrite` and
`RemoteRead` have an explicit step for a system that is done (`Finished`,
`Answered`), so that TLC's deadlock check still catches goroutines that wait for
each other.

### Fairness

* The Go scheduler runs every goroutine that can run, and `sync.Mutex` and
  `sync.RWMutex` do not starve a waiter (starvation mode; a waiting writer blocks
  new readers). That is weak fairness of the steps that the adapter takes by
  itself: `Compute`, `Producer`, `ApplyLocked \/ Shutdown`, `LoopStep`,
  `TakePost`, `Worker`, `CloseOutput`, `Main`. Weak fairness suffices for
  `Acquire` in these runs since the other request of the instance releases the
  lock and needs it once.
* The body of a request arrives in finite time, or reading it fails. `Handler.write` and
  `Handler.read` decode it with the handler's read lock held, and `http.ListenAndServe`
  (`web/handler.go:172`) sets no read timeout, so that the code does not bound it:
  `Answered` and `ReloadCompletes` (and `ReadAnswered`) assume it of the sender, by the
  fairness of `Compute` (and `Main`).
* `DialTimeout` always returns: weak fairness of `Dial \/ DialFails`.
* Nothing in the code bounds a write to the socket: no deadline is set on the
  connection, and `write.timeout`, "Maximum duration before timing out remote write
  requests" (`config/cli.go:51`), reaches `net.DialTimeout` only. `FairSpec` has to assume,
  by the fairness of `Network`, that the carbon server keeps reading or fails; without it
  a peer that stalls keeps the request, and both locks, for ever.
* A GET of `/read` ends by the deadline of its context at the latest, so that a
  worker's step is fair.
* `FairSpec` of `Reload` takes it that served requests end, which is
  `CarbonWrite`'s `Answered`. `TakePost` is fair though the loop may choose a
  signal instead: signals are bounded.
* Nothing makes a request, a signal, an edit, a cancellation or a failure happen.
  The clock of `PathsCache` ticks.

## 4. What is proved

All theorems hold for every value of the constants under the assumptions that
the modules name. Proofs are in `ClientLifecycleProofs`, `CarbonWriteProofs`,
`ReloadProofs` (with those about `Settings`), `RemoteReadProofs`, `PathsCacheProofs`,
`PackingProofs`, `NamingProofs` and `SimulationProofs` (with those about `Archive`).
Every safety property that a passing run checks is a theorem. `HoldsItsConnection`,
`StaysShutDown` and `PackingClosedWhenFull` state more than the runs do: their
formulas (`ConnectionHeld`, `NothingAfterShutdown`, `ClosedWhenFull`) are on the way to,
or next to, ones that a run does check.

*CarbonWrite.* `TypeInv` is `TypeOK` with `BufferOK` (the buffer at hand exists,
and `left` is within it), without which `buf + 1` could leave its range. The
safety argument is mutual exclusion: whoever is between `ctx` and `leave` is the
owner of `carbonConLock`, so that only one request can be where `carbonCon` and
the open sockets change. From it `NeverLeaks` (`open` is exactly `carbonCon`) is
inductive together with what is known at `dial` and `closeCon`, and
`HoldsItsConnection` follows. `StaysShutDown` needs that once the writer has the
handler's lock no request is inside, and none enters. `CountersAddUp` ties `pc`
to membership in the three counters. `Implements` maps each step to `Enter`,
`Exit`, `Retire` or a stutter.

What goes over the wire takes more. `TakenInv`: a socket takes the chunks of a
request in order, each of them once. `ErrorInv`: what `err` and the producer can be
at each step, with the case in which the producer assigns after the copy has ended;
an error that survives to the end means that a chunk was taken by nobody, which is
`FailureIsReal`. `LogInv` ties the log of a connection to what was taken.
`StreamInv` and `TornInv` say how the end of the connection in use relates to where
the owner of the lock stands: an incomplete plain buffer there is the one that is being
copied, and its next chunk the one that comes next. `WireKept` (whole buffers, in
order, none twice) is inductive with these. `DeliveredInv` adds that, as long as no
peer is lost, what was sent has arrived and a copy ends without an error only when
nothing is left, and gives `SentArrives`.

`NobodyWaitsInACircle` is deadlock freedom: `Waits` says what a goroutine may wait for,
and `NoCircularWait` that it is coming. Who owns the lock is inside `Client.Write` with a
connection in hand (`LockInv`), so he waits at most for his pipe, and there the producer
exists and has a return or a close ahead as soon as it has nothing left to give
(`PipeInv`). That each of these goroutines is scheduled, and so that the waiting ends, is
`Answered`, which stays with TLC.

*Reload.* `AlwaysServedByCurrent` rests on: while the loop is between `shutdown`
and `unlock` nobody is served; a served request uses `client`; and at each point
of the loop `client`, `built`, `running` and `shut` stand in the relation that
the code has established by then. `NoClientLeftBehind` is the same invariant read
from the side of the clients. `NoSignalLost` needs the order of `edition`,
`asked` and `tried`. `AnswersAreHonest` needs, at `reply`, what was loaded for the
caller. `ReloadImplements` also bounds the number of clients by the signals and
POSTs that were taken (a lemma about finite sets and cardinality). `NobodyWaitsInVain`
is inductive: the loop works for the one POST that waits, and has `unlock` ahead while
a request waits for the lock.

*Settings.* `SettingsImplementReload`: each behaviour of `Settings` is one of
`Reload` (the kinds of the editions are fixed at the start, and `Configure` is a
`BuildClients`), so that all of the above holds with settings too.
`SettingsAreInForce` is inductive with `FromEdition` (the settings in force are
those of the running edition) and a lemma on `Merge` that goes through the two cases.

*RemoteRead.* `TypeInv` adds `Control` to `TypeOK`: what a worker holds follows from
where it stands, the workers that have ended found the channel of targets closed and
empty, and the nil comes behind every series. `NobodyFetchesOn` follows, since whoever
collects the nil knows that all workers have ended (there is at least one of them:
`WorkersAssumption`). `EachSeriesOnce` assumes that `FetchURL` returns the bodies
(`"utils" \notin Fetchers`) and needs two more invariants. `Fresh`: no target is
fetched twice, so that what a fetch brings is new. `Placed`: a series that was found for
the query at hand is in exactly one place (with the worker that brought it, in the
channel, or collected), and one of an earlier query is in the result of that query.
From the same invariants `RemoteReadImplements` maps each step to one of `Gather` or to
a stutter. None of it needs to know which worker took which target, or when.
`PoolNeverStandsStill` says that the collecting loop never waits for a pool that waits
for it: with `PoolInv` (a closed channel has the nil at its end) an empty `output` is open
and has room, so that whoever is still at work can go on.

*Naming.* What a path tells, for every prefix, every set of label names and values of
any bytes. `PathTells` is unique decoding: a path is the prefix, the name and the texts
of the labels; a label begins with a byte at which the text before it must end, and
no escaped byte begins with another one (`EscapeWords`), so that two metrics with one
path agree in their first label, then in the second, and so on (`Decode`). This needs
that values have no byte under 16 and, with tags, no character that becomes an
underscore. On the way back each step undoes one of the writing: `UnescapeEscape`
(`url.PathUnescape` undoes the percent-encoding byte by byte, and the regular expression
removes the backslashes that `Escape` put there, and only those, if no value has a
backslash before a symbol), `Split` at the separators, which no escaped value
contains, and the removal of prefix and dots, which finds nothing else to remove.
`PathRead` and `TagsRestored` put them together for the two formats. Facts about texts
of any length are shown by the shortest text, or the smallest number, for which they
would fail: that such a one exists (`LeastElement`) follows from the library's theorem
that the naturals are well-founded, and `TextInduction` takes the set of the texts for which
the fact holds as its parameter. `FlattenSeq`, which the community modules define by a
recursive function, is first shown to obey its recursion (`FlattenTable`).

*Archive and Simulation.* `SeriesStayApart` is `PathTells` for what was written.
`WrittenReadsBack` needs `ArchiveKept`: Graphite has the paths of what was written and
nothing else; which of them a read finds, and what it makes of them, is then a matter of
`PathRead` and `TagsRestored`, and `ReadInv` carries it past later writes, as an answer
speaks of what had been written by then. `GapsAreFilled` needs that an answer's samples
are those of datapoints that Graphite may render and of which the division does not
panic (`AnswerSampled`). They are one segment after another, one for each datapoint:
`FlattenMade` says that two samples side by side are in one segment or at the border of two
with nothing between them, `SegmentIs` what a segment is, and the arithmetic of `\div`
gives the spacing and the line. `PanicOnlyBelowASecond` reduces the panic to the same
arithmetic. `PageAnswersLastClick` needs `LastIsAlone`: while the last click has not
overlapped, every request on its way is its own. `PageShowsWhatIsMeant` needs `SentIsTyped`:
every request on its way carries the samples of the text of its click, and behind the server
their dry run, and so does the page, as far as HTML shows it; parsing a text and then making
lines of its samples is the same as doing both line by line (`MapsCompose`), and no line of
such a text has markup (`NoMarkup`).

*PathsCache.* `NoStalePaths`: when the configuration enables the cache, the last
`NewClient` has emptied it, and what was stored since carries the edition.
`RulesAreFollowed` strengthens it: every entry holds what the rules of its edition make
of a metric with that fingerprint, for some prefix, and none that would have panicked
(`EntryInv`); nothing is assumed about collisions. `PathsTypeCorrect` adds the
types of what is stored and answered (`ValueInv`): every path is of a template or of a
prefix. For this the loop over the rules is a function on the rules (`Appended`, up to
`LastExecuted`), of which an induction on the number of rules shows that no rule without a
template is among those that it executes.

*Packing.* `Put` is described by two outcomes, `Grows` and `Follows`, and
`DatagramsFit` and `ClosedWhenFull` are inductive with the types of the buffers.
`EveryLineOnce` is not: it speaks of finished samples only. `PlacedInv` says the
same up to the cursor (every line before it is in a buffer, no line at or past it
is, and the lines are in order), and `PutPlaces` that a line is only ever added
behind all others. That the last line of a sample has its own bytes follows from the
types of the buffers and from `LastIsLast`: nothing is written to the shared buffer after it.

Only model-checked:

* Everything about liveness, which is beyond the prover, as is ENABLED: `Answered`,
  `ReloadCompletes`, `PostAnswered`, `RequestServed`, `SignalRead`, `StaleFades`,
  `ReadAnswered`.

## 5. What the runs that fail say

Each of these states what a comment, a help text or a test says, and TLC finds a
behaviour of the code that contradicts it.

1. `SentWasTaken` (`client/graphite/write.go:166`): after a failed copy, `err` is
   overwritten by the result of `pipeReader.Close()`, which is always nil. The
   request is counted in `sent_samples_total`, unless the producer goroutine
   happens to store its own error before the return.
2. `TargetNeverPanics` (`client/graphite/client.go:124`): a nil check and a use
   of `carbonCon` without the lock.
3. `PrefixIsPrepended` (`client/graphite/paths/write.go:77`): the cache key lacks
   the prefix.
4. `FileInForce` (`main.go:48`): the flags that nobody gave carry their defaults and
   are merged over the file. `carbon_reconnect_interval` and `paths_cache_ttl`, which the
   values of the chart offer, have no effect there.
5. `NothingLost` with `utils.FetchURL` (`utils/http.go:57`): the body is closed before
   it is read.

The modules show more disagreements of this kind, which no run states as a property of its
own; the properties that hold have them as exceptions written into them or assume that
they do not occur.

* `client/graphite/write.go:161`: no deadline bounds a write, whatever `config/cli.go:51`
  says of `write.timeout`. `Answered` and `ReloadCompletes` assume that the peer reacts.
* `client/graphite/paths/write.go:68`: the slices of all paths of a sample share a buffer
  that is reset, so that a metric with two paths becomes two copies of its last line, the
  first cut or padded; `paths/write_test.go:161` expects both. `EveryLineOnce` claims the
  bytes of the last line only.
* `main.go:48`: the merge skips the zeros of the command line, though `main.go:47` speaks of
  overwriting. `SettingsInForce` leaves such flags out.
* `ui/static/js/api.js:36`: milliseconds are sent as seconds, in the first of the lines of
  which `simulation.html:28` says that all will work. `MeantIsPredicted` exempts such times.
* `client/graphite/read.go:217`: a division by the whole seconds of an interval, for which
  `config.go:142` names no minimum. `GapsFilled` exempts an interval under a second.
* `client/graphite/template/escape.go:101`, `:142` and `:163`: one digit for a byte under 16,
  a `%` that is not escaped in tags, and a backslash of the value that goes with those that
  `Escape` put there, against the comments at lines 65, 120 and 153. `SeriesApart` and
  `ReadsBack` exempt such values.

`SentIsDelivered` assumes that no peer is lost, `AnswersFollowTheRules` allows an
error to be lost with the entry of the cache, `GiveUp` of `Gather` allows one empty result
for many queries, and `OutputsAnswerLastClick` says nothing of clicks that overlap or fail:
no document of the repository says what should happen there.

## 6. What is not modelled, and what comes next

Not modelled because there is nothing to check: assets and pages of the UI but for
the simulation (`jquery.js`, the largest file of the repository, is a vendored
library, and so is what is in `fonts` and `css`), logging, metrics other than the
sample counters, routing, pprof, YAML parsing, and the C library behind LZ4. The two
lint configurations have no behaviour. Of the JavaScript of the repository that
leaves `api.js`, which `Simulation` models as a whole.

Not modelled, and not planned:

* `rexGet` and its global map, and `home`, which dumps the handler and the client
  while they change: data races whose outcome is the runtime's (a fatal error, a torn
  string) and that any two concurrent calls show; a model would restate them.
* The template functions, which are pure calls of the Go library.
* The buffers of `lz4frame.go`: a writer belongs to one goroutine and one frame, and
  its buffers are only resliced within their capacity.

Simplifications that a reader should know: one writer per handler (the code
builds at most one); samples are not told apart in `CarbonWrite`; times are ticks; `PathsCache` lets a
reload fall between two samples of a request, where the code holds the lock for
the whole request; labels, values and timestamps of the series are left out of
`RemoteRead`; in `Archive` a write or a read is one step, all series that a read
finds have the same datapoints, matchers with regular expressions are left out, and
so is the reading of the openmetrics format, whose tags are Graphite's own affair;
values are integers, and interpolated ones are rounded down to integers, so that
`GapsFilled` has them on the line but for less than one.
