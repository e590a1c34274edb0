----------------------------- MODULE RemoteRead -----------------------------
(***************************************************************************)
(* One /read request: Handler.read, Client.Read with its deadline, the     *)
(* queries one after the other, and for each of them fetchData: the        *)
(* goroutine that feeds the targets, the workers that fetch them, the one  *)
(* that waits for the workers and sends the nil, and the loop that         *)
(* collects the series until the nil.                                      *)
(*                                                                         *)
(* A target is its place in the list, a series its place in what graphite  *)
(* renders for a target of a query; labels, samples and time stamps are    *)
(* left out.  The request holds the handler's read lock and shares nothing *)
(* else with other requests.                                               *)
(***************************************************************************)
EXTENDS Naturals, Sequences, FiniteSets

CONSTANTS
    Workers,      \* the maxFetchWorkers goroutines of fetchData
    Fetchers,     \* what the variable FetchURL may hold: "utils", "mock"
    Configs,      \* [readers, url, tags, ignoreError], see ConfigsAssumption
    MaxQueries,   \* bound on the queries of the request
    MaxTargets,   \* bound on the targets of a query
    MaxSeries,    \* bound on the series of a target
    Nil           \* what tells the collecting loop to end

ASSUME FetchersAssumption == Fetchers \subseteq {"utils", "mock"}

ASSUME ConfigsAssumption ==
    \A c \in Configs : /\ c.readers \in {0, 1}
                       /\ {c.url, c.tags, c.ignoreError} \subseteq BOOLEAN

ASSUME BoundsAssumption ==
    MaxQueries \in Nat /\ MaxTargets \in Nat \ {0} /\ MaxSeries \in Nat

Targets == 1..MaxTargets
Series  == (1..MaxQueries) \X Targets \X (1..MaxSeries)

ASSUME NilAssumption == Nil \notin Series

(* maxFetchWorkers is not 0. *)
ASSUME WorkersAssumption == Workers # {}

VARIABLES
    cfg,
    fetcher,    \* what FetchURL holds
    queries,    \* the number of queries of the request
    pc,         \* where the goroutine of the request stands
    expired,    \* the deadline of Read has passed
    query,      \* the query at hand
    targets,    \* the number of its targets
    fed,        \* how many of them were sent to input
    input,      \* the channel of targets
    at,         \* where each worker stands
    job,        \* the target it fetches, 0 for none
    left,       \* the series it still has to send
    output,     \* the channel of series
    closed,     \* the nil was sent and output is closed
    timeseries, \* queryResult.Timeseries of the query at hand
    results,    \* resp.Results
    status,     \* the HTTP status of the answer, 0 before it
    served      \* the series in the bodies that graphite sent with a 200

request == <<cfg, fetcher, queries>>
fetch   == <<targets, fed, input, at, job, left, output, closed>>
answer  == <<timeseries, results, status>>
record  == served
vars    == <<request, pc, expired, query, fetch, answer, record>>

Items(s) == {s[i] : i \in DOMAIN s}

Init ==
    /\ cfg \in Configs
    /\ fetcher \in Fetchers
    /\ queries \in 0..MaxQueries
    /\ pc = "decode"
    /\ expired = FALSE
    /\ query = 1
    /\ targets = 0 /\ fed = 0 /\ input = <<>>
    /\ at = [w \in Workers |-> "none"]
    /\ job = [w \in Workers |-> 0]
    /\ left = [w \in Workers |-> <<>>]
    /\ output = <<>> /\ closed = FALSE
    /\ timeseries = <<>> /\ results = <<>> /\ status = 0
    /\ served = {}

-----------------------------------------------------------------------------
(* Handler.read and Client.Read *)

(* The body cannot be read, or it is not snappy, or not a ReadRequest. *)
BadRequest ==
    /\ pc = "decode"
    /\ status' \in {400, 500}
    /\ pc' = "answered"
    /\ UNCHANGED <<request, expired, query, fetch, timeseries, results, record>>

NoReader ==
    /\ pc = "decode"
    /\ cfg.readers # 1
    /\ status' = 500
    /\ pc' = "answered"
    /\ UNCHANGED <<request, expired, query, fetch, timeseries, results, record>>

(* A reader without a URL has no response: one empty result is sent. *)
NoURL ==
    /\ pc = "decode"
    /\ cfg.readers = 1
    /\ ~cfg.url
    /\ results' = << <<>> >>
    /\ status' = 200
    /\ pc' = "answered"
    /\ UNCHANGED <<request, expired, query, fetch, timeseries, record>>

Read ==
    /\ pc = "decode"
    /\ cfg.readers = 1
    /\ cfg.url
    /\ pc' = "query"
    /\ UNCHANGED <<request, expired, query, fetch, answer, record>>

(* context.WithTimeout *)
Expire ==
    /\ pc \notin {"decode", "answered"}
    /\ ~expired
    /\ expired' = TRUE
    /\ UNCHANGED <<request, pc, query, fetch, answer, record>>

(* Mutant: an error that is ignored leaves the results there are. *)
Fail_KeepsResults ==
    /\ pc = "fail"
    /\ status' = IF cfg.ignoreError THEN 200 ELSE 500
    /\ pc' = "answered"
    /\ UNCHANGED <<request, expired, query, fetch, timeseries, results, record>>

(* An error of one query is an error of Read: the other results are lost,   *)
(* and with ignore_error one empty result is sent.                          *)
Fail ==
    /\ pc = "fail"
    /\ IF cfg.ignoreError
       THEN status' = 200 /\ results' = << <<>> >>
       ELSE status' = 500 /\ results' = <<>>
    /\ pc' = "answered"
    /\ UNCHANGED <<request, expired, query, fetch, timeseries, record>>

Respond ==
    /\ pc = "query"
    /\ query > queries
    /\ status' = 200
    /\ pc' = "answered"
    /\ UNCHANGED <<request, expired, query, fetch, timeseries, results, record>>

-----------------------------------------------------------------------------
(* FetchURL: GET, close the body, read it.  The body was closed before it   *)
(* is read, so that utils.FetchURL always ends in an error; the tests put a *)
(* function of their own in its place, which returns the body.              *)
FetchURL(get) == get = "ok" /\ ~expired /\ fetcher = "mock"

(* What a GET may come to.                                                  *)
Gets == {"refused", "status", "ok"}

-----------------------------------------------------------------------------
(* handleReadQuery *)

EmptyRange ==
    /\ pc = "query"
    /\ query <= queries
    /\ results' = Append(results, <<>>)
    /\ query' = query + 1
    /\ UNCHANGED <<request, pc, expired, fetch, timeseries, status, record>>

(* The workers start, the targets are there to be fed.                      *)
StartFetch(n) ==
    /\ targets' = n
    /\ fed' = 0
    /\ input' = <<>>
    /\ at' = [w \in Workers |-> "range"]
    /\ job' = [w \in Workers |-> 0]
    /\ left' = [w \in Workers |-> <<>>]
    /\ output' = <<>>
    /\ closed' = FALSE
    /\ timeseries' = <<>>
    /\ pc' = "feed"

(* One seriesByTag target, unless a matcher is of an unknown type. *)
QueryToTargetsWithTags ==
    /\ pc = "query"
    /\ query <= queries
    /\ cfg.tags
    /\ \/ StartFetch(1)
       \/ pc' = "fail" /\ UNCHANGED <<fetch, timeseries>>
    /\ UNCHANGED <<request, expired, query, results, status, record>>

(* How many of the expanded paths satisfy the matchers of the query.        *)
FilteredTargets == 0..MaxTargets

(* The metric's paths are expanded, and those that match are kept. *)
QueryToTargets ==
    /\ pc = "query"
    /\ query <= queries
    /\ ~cfg.tags
    /\ \/ \E get \in Gets, n \in FilteredTargets : FetchURL(get) /\ StartFetch(n)
       \/ pc' = "fail" /\ UNCHANGED <<fetch, timeseries>>
    /\ UNCHANGED <<request, expired, query, results, status, record>>

-----------------------------------------------------------------------------
(* fetchData *)

(* input has room for every target. *)
Feed ==
    /\ pc = "feed"
    /\ fed < targets
    /\ input' = Append(input, fed + 1)
    /\ fed' = fed + 1
    /\ UNCHANGED <<request, pc, expired, query, targets, at, job, left, output,
                   closed, answer, record>>

(* close(input); the goroutine that awaits the workers starts. *)
CloseInput ==
    /\ pc = "feed"
    /\ fed = targets
    /\ pc' = "collect"
    /\ UNCHANGED <<request, expired, query, fetch, answer, record>>

(* Mutant: input is not closed. *)
InputClosed_Never == FALSE

InputClosed == pc # "feed"

Take(w) ==
    /\ at[w] = "range"
    /\ input # <<>>
    /\ job' = [job EXCEPT ![w] = Head(input)]
    /\ input' = Tail(input)
    /\ at' = [at EXCEPT ![w] = "fetch"]
    /\ UNCHANGED <<request, pc, expired, query, targets, fed, left, output, closed,
                   answer, record>>

(* Mutant: a worker that finds the channel empty does not wait for more. *)
Exit_Early(w) ==
    /\ at[w] = "range"
    /\ input = <<>>
    /\ at' = [at EXCEPT ![w] = "done"]
    /\ UNCHANGED <<request, pc, expired, query, targets, fed, input, job, left,
                   output, closed, answer, record>>

(* Mutant: a worker polls the channel, and does not see that it is closed. *)
Exit_Spins(w) ==
    /\ at[w] = "range"
    /\ input = <<>>
    /\ InputClosed
    /\ UNCHANGED vars

(* The channel is empty and closed: wg.Done(). *)
Exit(w) ==
    /\ at[w] = "range"
    /\ input = <<>>
    /\ InputClosed
    /\ at' = [at EXCEPT ![w] = "done"]
    /\ UNCHANGED <<request, pc, expired, query, targets, fed, input, job, left,
                   output, closed, answer, record>>

(* TargetToTimeseries: the body may hold no JSON or a series whose labels   *)
(* cannot be made out (~good), and then nothing is kept of the target.      *)
TargetToTimeseries(w) ==
    /\ at[w] = "fetch"
    /\ \E get \in Gets, n \in 0..MaxSeries, good \in BOOLEAN :
          LET list == [i \in 1..n |-> <<query, job[w], i>>]
              ok   == FetchURL(get) /\ good
          IN  /\ served' = IF get = "ok" /\ good /\ ~expired
                           THEN served \cup Items(list) ELSE served
              /\ left' = [left EXCEPT ![w] = IF ok THEN list ELSE <<>>]
              /\ at' = [at EXCEPT ![w] = IF ok /\ n > 0 THEN "send" ELSE "range"]
    /\ job' = [job EXCEPT ![w] = 0]
    /\ UNCHANGED <<request, pc, expired, query, targets, fed, input, output, closed,
                   answer>>

(* Mutant: one series more than the channel holds. *)
Room_OneMore == Len(output) <= targets + 1

(* output has room for one series a target, and the nil. *)
Room == Len(output) < targets + 1

(* Mutant: a worker that finds no room gives the series up. *)
Send_Drops(w) ==
    /\ at[w] = "send"
    /\ output' = IF Room THEN Append(output, Head(left[w])) ELSE output
    /\ left' = [left EXCEPT ![w] = Tail(left[w])]
    /\ at' = [at EXCEPT ![w] = IF Len(left[w]) = 1 THEN "range" ELSE "send"]
    /\ UNCHANGED <<request, pc, expired, query, targets, fed, input, job, closed,
                   answer, record>>

Send(w) ==
    /\ at[w] = "send"
    /\ Room
    /\ output' = Append(output, Head(left[w]))
    /\ left' = [left EXCEPT ![w] = Tail(left[w])]
    /\ at' = [at EXCEPT ![w] = IF Len(left[w]) = 1 THEN "range" ELSE "send"]
    /\ UNCHANGED <<request, pc, expired, query, targets, fed, input, job, closed,
                   answer, record>>

(* Mutant: the nil is sent as soon as the targets have been taken. *)
CloseOutput_Early ==
    /\ pc = "collect"
    /\ ~closed
    /\ input = <<>>
    /\ Room
    /\ output' = Append(output, Nil)
    /\ closed' = TRUE
    /\ UNCHANGED <<request, pc, expired, query, targets, fed, input, at, job, left,
                   answer, record>>

(* wg.Wait(), output <- nil, close(output): nobody looks at the channel     *)
(* after the nil.                                                           *)
CloseOutput ==
    /\ pc = "collect"
    /\ ~closed
    /\ \A w \in Workers : at[w] = "done"
    /\ Room
    /\ output' = Append(output, Nil)
    /\ closed' = TRUE
    /\ UNCHANGED <<request, pc, expired, query, targets, fed, input, at, job, left,
                   answer, record>>

Collect ==
    /\ pc = "collect"
    /\ output # <<>>
    /\ output' = Tail(output)
    /\ IF Head(output) # Nil
       THEN /\ timeseries' = Append(timeseries, Head(output))
            /\ UNCHANGED <<pc, query, results>>
       ELSE /\ results' = Append(results, timeseries)
            /\ timeseries' = <<>>
            /\ query' = query + 1
            /\ pc' = "query"
    /\ UNCHANGED <<request, expired, targets, fed, input, at, job, left, closed,
                   status, record>>

-----------------------------------------------------------------------------
Main ==
    \/ BadRequest \/ NoReader \/ NoURL \/ Read \/ Fail \/ Respond
    \/ EmptyRange \/ QueryToTargets \/ QueryToTargetsWithTags
    \/ Feed \/ CloseInput \/ Collect

Worker(w) == Take(w) \/ Exit(w) \/ TargetToTimeseries(w) \/ Send(w)

(* The request is over. *)
Answered == pc = "answered" /\ UNCHANGED vars

Next == Main \/ Expire \/ CloseOutput \/ (\E w \in Workers : Worker(w)) \/ Answered

Spec == Init /\ [][Next]_vars

(* Every goroutine that can run runs; a GET ends, by the deadline of the    *)
(* context at the latest.                                                   *)
FairSpec ==
    /\ Spec
    /\ WF_vars(Main)
    /\ WF_vars(CloseOutput)
    /\ \A w \in Workers : WF_vars(Worker(w))

-----------------------------------------------------------------------------
TypeOK ==
    /\ cfg \in Configs /\ fetcher \in Fetchers /\ queries \in 0..MaxQueries
    /\ pc \in {"decode", "query", "feed", "collect", "fail", "answered"}
    /\ expired \in BOOLEAN
    /\ query \in 1..(queries + 1)
    /\ targets \in 0..MaxTargets /\ fed \in 0..targets
    /\ input \in Seq(1..fed)
    /\ at \in [Workers -> {"none", "range", "fetch", "send", "done"}]
    /\ job \in [Workers -> 0..fed]
    /\ left \in [Workers -> Seq(Series)]
    /\ output \in Seq(Series \cup {Nil}) /\ Len(output) <= targets + 1
    /\ closed \in BOOLEAN
    /\ timeseries \in Seq(Series)
    /\ results \in Seq(Seq(Series))
    /\ status \in {0, 200, 400, 500}
    /\ served \subseteq Series

(* When fetchData returns, its targets have all been tried and its workers  *)
(* have ended: none is still at work when the next query starts, or when    *)
(* the response is written.                                                 *)
FetchIsOver ==
    pc \in {"query", "fail", "answered"} =>
        /\ input = <<>> /\ output = <<>>
        /\ \A w \in Workers :
              at[w] \in {"none", "done"} /\ job[w] = 0 /\ left[w] = <<>>

(* The result of a query holds each series that graphite sent for it        *)
(* exactly once, whichever worker brought it and however full the channel   *)
(* was.  It rests on what utils.FetchURL says it does, "return body of a    *)
(* fetched url.URL", and the function of the tests does.                    *)
NothingLost ==
    pc # "answered" =>
        \A q \in DOMAIN results :
            /\ Items(results[q]) = {s \in served : s[1] = q}
            /\ \A i, j \in DOMAIN results[q] : i # j => results[q][i] # results[q][j]

(* What keeps a worker from its next step: an empty channel that is not     *)
(* closed, or a full one.                                                   *)
Held(w) ==
    \/ at[w] = "range" /\ input = <<>> /\ ~InputClosed
    \/ at[w] = "send" /\ ~Room
    \/ at[w] \in {"none", "done"}

(* The pool never stands still while the loop waits for a series or the     *)
(* nil: as long as output is empty, every worker that has not ended can go  *)
(* on, and when all have, the nil can be sent.                              *)
PoolGoesOn ==
    pc = "collect" /\ output = <<>> =>
        /\ \A w \in Workers : Held(w) => at[w] = "done"
        /\ (\A w \in Workers : at[w] = "done") => Room /\ ~closed

(* A read that has begun is answered: neither a full channel nor a failed   *)
(* fetch holds it up.                                                       *)
ReadAnswered == pc = "query" ~> pc = "answered"

(* The series that the fetches brought: none if FetchURL returns no body. *)
Found == IF fetcher = "mock" THEN served ELSE {}

(* The series in the response so far. *)
Gathered == Items(timeseries) \cup UNION {Items(results[q]) : q \in DOMAIN results}

Response == INSTANCE Gather WITH
    found <- Found, gathered <- Gathered,
    wanted <- queries, done <- query - 1, over <- pc = "answered"

(* The response has everything that was found, or nothing (Client.Read      *)
(* gives up all results for an error in one query).                         *)
AllOrNothing == Response!Spec

=============================================================================
