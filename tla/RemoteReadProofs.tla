-------------------------- MODULE RemoteReadProofs --------------------------
(***************************************************************************)
(* Theorems about RemoteRead, for every number of workers, queries,        *)
(* targets and series.                                                     *)
(***************************************************************************)
EXTENDS RemoteRead, SequenceTheorems, TLAPS

Distinct(s) == \A i, j \in DOMAIN s : i # j => s[i] # s[j]

(* What is appended joins the items, and they stay distinct if it is new.   *)
LEMMA ItemsOfAppend ==
    ASSUME NEW S, NEW s \in Seq(S), NEW e \in S
    PROVE  /\ Append(s, e) \in Seq(S)
           /\ Len(Append(s, e)) = Len(s) + 1
           /\ Items(Append(s, e)) = Items(s) \cup {e}
           /\ Distinct(s) /\ e \notin Items(s) => Distinct(Append(s, e))
<1>1. /\ Append(s, e) \in Seq(S)
      /\ Len(s) \in Nat
      /\ DOMAIN s = 1..Len(s)
      /\ DOMAIN Append(s, e) = 1..(Len(s) + 1)
      /\ Len(Append(s, e)) = Len(s) + 1
      /\ \A i \in 1..Len(s) : Append(s, e)[i] = s[i]
      /\ Append(s, e)[Len(s) + 1] = e
  BY AppendProperties, LenProperties
<1>2. 1..(Len(s) + 1) = (1..Len(s)) \cup {Len(s) + 1}
  BY <1>1
<1>3. Items(Append(s, e)) = Items(s) \cup {e}
  BY <1>1, <1>2 DEF Items
<1>4. ASSUME Distinct(s), e \notin Items(s)
      PROVE  Distinct(Append(s, e))
  <2>1. \A i \in 1..Len(s) : s[i] # e
    BY <1>1, <1>4 DEF Items
  <2>2. QED
    BY <1>1, <1>2, <1>4, <2>1 DEF Distinct
<1>5. QED
  BY <1>1, <1>3, <1>4

(* The first item and the others make up the items.                         *)
LEMMA ItemsOfTail ==
    ASSUME NEW S, NEW s \in Seq(S), s # <<>>
    PROVE  /\ Head(s) \in S /\ Tail(s) \in Seq(S)
           /\ Len(Tail(s)) = Len(s) - 1
           /\ Items(s) = {Head(s)} \cup Items(Tail(s))
           /\ Distinct(s) => Distinct(Tail(s)) /\ Head(s) \notin Items(Tail(s))
<1>1. /\ Head(s) = s[1] /\ s[1] \in S
      /\ Tail(s) \in Seq(S)
      /\ Len(s) \in Nat \ {0}
      /\ Len(Tail(s)) = Len(s) - 1
      /\ DOMAIN s = 1..Len(s)
      /\ DOMAIN Tail(s) = 1..(Len(s) - 1)
      /\ \A i \in 1..(Len(s) - 1) : Tail(s)[i] = s[i + 1]
  <2>1. Len(s) \in Nat \ {0}
    BY EmptySeq
  <2>2. /\ Tail(s) \in Seq(S) /\ Len(Tail(s)) = Len(s) - 1
        /\ \A i \in 1..Len(Tail(s)) : Tail(s)[i] = s[i + 1]
    BY HeadTailProperties
  <2>3. DOMAIN s = 1..Len(s) /\ DOMAIN Tail(s) = 1..Len(Tail(s))
    BY <2>2, LenProperties
  <2>4. Head(s) = s[1] /\ s[1] \in S
    BY <2>1, ElementOfSeq
  <2>5. QED
    BY <2>1, <2>2, <2>3, <2>4
<1>2. 1..Len(s) = {1} \cup {i + 1 : i \in 1..(Len(s) - 1)}
  <2>1. ASSUME NEW i \in 1..Len(s), i # 1
        PROVE  i - 1 \in 1..(Len(s) - 1) /\ i = (i - 1) + 1
    BY <1>1, <2>1
  <2>2. QED
    BY <1>1, <2>1
<1>3. Items(s) = {Head(s)} \cup Items(Tail(s))
  <2>1. Items(s) = {s[i] : i \in 1..Len(s)}
    BY <1>1 DEF Items
  <2>2. Items(Tail(s)) = {s[i + 1] : i \in 1..(Len(s) - 1)}
    BY <1>1 DEF Items
  <2>3. QED
    BY <1>1, <1>2, <2>1, <2>2
<1>4. ASSUME Distinct(s)
      PROVE  Distinct(Tail(s)) /\ Head(s) \notin Items(Tail(s))
  <2>1. ASSUME NEW i \in 1..(Len(s) - 1)
        PROVE  /\ i + 1 \in 1..Len(s) /\ i + 1 # 1
               /\ Tail(s)[i] = s[i + 1]
    BY <1>1, <2>1
  <2>2. Head(s) \notin Items(Tail(s))
    BY <1>1, <1>4, <2>1 DEF Distinct, Items
  <2>3. Distinct(Tail(s))
    BY <1>1, <1>4, <2>1 DEF Distinct
  <2>4. QED
    BY <2>2, <2>3
<1>5. QED
  BY <1>1, <1>3, <1>4

LEMMA ItemsOfNone == Items(<<>>) = {} /\ Distinct(<<>>)
BY DEF Items, Distinct

-----------------------------------------------------------------------------
Fetching == pc \in {"feed", "collect"}

(* Where the goroutines of a fetch may stand: a worker holds what its place *)
(* says; those that have ended found input closed and empty, and the nil    *)
(* comes after them and after every series.                                 *)
Control ==
    /\ Fetching => query <= queries
    /\ pc = "feed" => ~closed
    /\ ~Fetching => input = <<>> /\ output = <<>>
    /\ \A w \in Workers :
          /\ at[w] = "fetch" <=> job[w] # 0
          /\ at[w] = "send" <=> left[w] # <<>>
          /\ Fetching /\ at[w] = "done" => pc = "collect" /\ input = <<>>
          /\ Fetching /\ closed => at[w] = "done"
          /\ ~Fetching => at[w] \in {"none", "done"}
    /\ \A i \in DOMAIN output : output[i] = Nil => closed /\ i = Len(output)

TypeInv == TypeOK /\ Control

LEMMA TypeInit == Init => TypeInv
<1> SUFFICES ASSUME Init PROVE TypeInv
  OBVIOUS
<1>1. <<>> \in Seq(1..fed) /\ <<>> \in Seq(Series) /\ <<>> \in Seq(Series \cup {Nil})
      /\ <<>> \in Seq(Seq(Series)) /\ Len(<<>>) = 0
  BY EmptySeq
<1>2. left \in [Workers -> Seq(Series)] /\ job \in [Workers -> 0..fed]
      /\ at \in [Workers -> {"none", "range", "fetch", "send", "done"}]
  BY <1>1 DEF Init
<1>3. TypeOK
  <2>1. query \in 1..(queries + 1) /\ targets \in 0..MaxTargets /\ fed \in 0..targets
        /\ Len(output) <= targets + 1
    BY <1>1, BoundsAssumption DEF Init
  <2>2. QED
    BY <1>1, <1>2, <2>1 DEF Init, TypeOK
<1>4. Control
  BY DEF Init, Control, Fetching
<1>5. QED
  BY <1>3, <1>4 DEF TypeInv

(* What Handler.read and handleReadQuery do between the fetches. *)
Outside ==
    \/ BadRequest \/ NoReader \/ NoURL \/ Read \/ Fail \/ Respond \/ EmptyRange
    \/ Expire \/ UNCHANGED vars

LEMMA TypeOutside ==
    ASSUME TypeInv, Outside
    PROVE  TypeInv'
<1>1. <<>> \in Seq(Seq(Series)) /\ << <<>> >> \in Seq(Seq(Series)) /\ <<>> \in Seq(Series)
  <2>1. <<>> \in Seq(Series) /\ <<>> \in Seq(Seq(Series))
    BY EmptySeq
  <2>2. QED
    BY <2>1
<1>2. results \in Seq(Seq(Series)) => Append(results, <<>>) \in Seq(Seq(Series))
  BY <1>1, AppendProperties
<1>0. results \in Seq(Seq(Series)) /\ Append(results, <<>>) \in Seq(Seq(Series))
  BY <1>2 DEF TypeInv, TypeOK
<1>3. /\ UNCHANGED <<cfg, fetcher, queries, timeseries, served>>
      /\ UNCHANGED fetch
      /\ Fetching' <=> Fetching
      /\ Fetching => query' = query /\ pc' = pc
      /\ pc' \in {pc, "query", "answered"}
      /\ status' \in {status, 200, 400, 500}
      /\ expired' \in {expired, TRUE}
      /\ query' = query \/ (query <= queries /\ query' = query + 1)
      /\ results' \in Seq(Seq(Series))
  <2>1. CASE BadRequest
    BY <1>0, <1>1, <2>1 DEF BadRequest, request, record, Fetching
  <2>2. CASE NoReader
    BY <1>0, <1>1, <2>2 DEF NoReader, request, record, Fetching
  <2>3. CASE NoURL
    BY <1>0, <1>1, <2>3 DEF NoURL, request, record, Fetching
  <2>4. CASE Read
    BY <1>0, <1>1, <2>4 DEF Read, request, record, answer, Fetching
  <2>5. CASE Fail
    BY <1>0, <1>1, <2>5 DEF Fail, request, record, Fetching
  <2>6. CASE Respond
    BY <1>0, <1>1, <2>6 DEF Respond, request, record, Fetching
  <2>7. CASE EmptyRange
    BY <1>0, <1>1, <2>7 DEF EmptyRange, request, record, Fetching
  <2>8. CASE Expire
    BY <1>0, <1>1, <2>8 DEF Expire, request, record, answer, Fetching
  <2>9. CASE UNCHANGED vars
    BY <1>0, <1>1, <2>9 DEF vars, request, record, answer, Fetching
  <2>10. QED
    BY <2>1, <2>2, <2>3, <2>4, <2>5, <2>6, <2>7, <2>8, <2>9 DEF Outside
<1>4. TypeOK'
  <2>1. query' \in 1..(queries + 1)
    BY <1>3, BoundsAssumption DEF TypeInv, TypeOK
  <2>2. expired' \in BOOLEAN
    BY <1>3 DEF TypeInv, TypeOK
  <2>3. pc' \in {"decode", "query", "feed", "collect", "fail", "answered"}
        /\ status' \in {0, 200, 400, 500}
    BY <1>3 DEF TypeInv, TypeOK
  <2>4. QED
    BY <1>3, <2>1, <2>2, <2>3 DEF TypeInv, TypeOK, fetch
<1>5. Control'
  BY <1>3 DEF TypeInv, Control, Fetching, fetch
<1>6. QED
  BY <1>4, <1>5 DEF TypeInv

(* The targets of a query are to be fetched. *)
LEMMA TypeStart ==
    ASSUME TypeInv, QueryToTargets \/ QueryToTargetsWithTags
    PROVE  TypeInv'
<1>1. CASE pc' = "fail" /\ UNCHANGED <<fetch, timeseries>>
  <2>1. pc = "query" /\ UNCHANGED <<request, expired, query, fetch, answer, record>>
    BY <1>1 DEF QueryToTargets, QueryToTargetsWithTags, answer, fetch
  <2>2. TypeOK'
    BY <1>1, <2>1 DEF TypeInv, TypeOK, request, fetch, answer, record
  <2>3. Control'
    BY <1>1, <2>1 DEF TypeInv, Control, Fetching, request, fetch
  <2>4. QED
    BY <2>2, <2>3 DEF TypeInv
<1>2. ASSUME NEW n \in 0..MaxTargets, StartFetch(n) PROVE TypeInv'
  <2>1. /\ query <= queries
        /\ UNCHANGED <<request, expired, query, results, status, record>>
    BY DEF QueryToTargets, QueryToTargetsWithTags
  <2>2. <<>> \in Seq(1..fed') /\ <<>> \in Seq(Series) /\ <<>> \in Seq(Series \cup {Nil})
        /\ Len(<<>>) = 0
    BY EmptySeq
  <2>5. left' \in [Workers -> Seq(Series)] /\ job' \in [Workers -> 0..fed']
        /\ at' \in [Workers -> {"none", "range", "fetch", "send", "done"}]
    BY <1>2, <2>2 DEF StartFetch
  <2>6. targets' \in 0..MaxTargets /\ fed' \in 0..targets'
        /\ Len(output') <= targets' + 1
    BY <1>2, <2>2, BoundsAssumption DEF StartFetch
  <2>3. TypeOK'
    BY <1>2, <2>1, <2>2, <2>5, <2>6 DEF TypeInv, TypeOK, StartFetch, request, record
  <2>4. Control'
    BY <1>2, <2>1 DEF TypeInv, Control, Fetching, StartFetch, request
  <2>7. QED
    BY <2>3, <2>4 DEF TypeInv
<1>3. 1 \in 0..MaxTargets
  BY BoundsAssumption
<1>4. QED
  BY <1>1, <1>2, <1>3 DEF QueryToTargets, QueryToTargetsWithTags, FilteredTargets

LEMMA TypeFeed == TypeInv /\ (Feed \/ CloseInput) => TypeInv'
<1>1. ASSUME TypeInv, Feed PROVE TypeInv'
  <2>1. /\ fed \in Nat /\ fed + 1 \in 1..(fed + 1) /\ fed' = fed + 1
        /\ input \in Seq(1..(fed + 1))
    <3>1. fed \in Nat /\ fed' = fed + 1 /\ input \in Seq(1..fed)
      BY <1>1, BoundsAssumption DEF TypeInv, TypeOK, Feed
    <3>2. 1..fed \subseteq 1..(fed + 1)
      BY <3>1
    <3>3. QED
      BY <3>1, <3>2, SeqMonotonic
  <2>2. input' \in Seq(1..fed') /\ input' # <<>>
    BY <1>1, <2>1, AppendProperties DEF Feed
  <2>3. job \in [Workers -> 0..fed'] /\ fed' \in 0..targets
    BY <1>1, <2>1, BoundsAssumption DEF TypeInv, TypeOK, Feed
  <2>4. TypeOK'
    BY <1>1, <2>2, <2>3 DEF TypeInv, TypeOK, Feed, request, answer, record
  <2>5. Control'
    BY <1>1 DEF TypeInv, Control, Fetching, Feed, request
  <2>6. QED
    BY <2>4, <2>5 DEF TypeInv
<1>2. ASSUME TypeInv, CloseInput PROVE TypeInv'
  <2>1. TypeOK'
    BY <1>2 DEF TypeInv, TypeOK, CloseInput, request, fetch, answer, record
  <2>2. Control'
    BY <1>2 DEF TypeInv, Control, Fetching, CloseInput, request, fetch
  <2>3. QED
    BY <2>1, <2>2 DEF TypeInv
<1>3. QED
  BY <1>1, <1>2

(* A worker takes a target, or finds that there are no more. *)
LEMMA TypeTake ==
    ASSUME TypeInv, NEW w \in Workers, Take(w) \/ Exit(w)
    PROVE  TypeInv'
<1>1. CASE Take(w)
  <2>1. /\ Head(input) \in 1..fed /\ input' \in Seq(1..fed)
    BY <1>1, ItemsOfTail, SMTT(20) DEF TypeInv, TypeOK, Take
  <2>2. Head(input) \in 0..fed /\ Head(input) # 0
    BY <2>1
  <2>3. TypeOK'
    BY <1>1, <2>1, <2>2, SMTT(20) DEF TypeInv, TypeOK, Take, request, answer, record
  <2>4. ~closed
    BY <1>1 DEF TypeInv, TypeOK, Control, Take, Fetching
  <2>5. Fetching /\ Fetching'
    BY <1>1 DEF TypeInv, Control, Take, Fetching
  <2>6. ASSUME NEW v \in Workers
        PROVE  /\ at'[v] = "fetch" <=> job'[v] # 0
               /\ at'[v] = "send" <=> left'[v] # <<>>
               /\ at'[v] = "done" => FALSE
    BY <1>1, <2>2, <2>5 DEF TypeInv, TypeOK, Control, Take
  <2>7. Control'
    BY <1>1, <2>4, <2>5, <2>6 DEF TypeInv, Control, Take, request, Fetching
  <2>8. QED
    BY <2>3, <2>7 DEF TypeInv
<1>2. CASE Exit(w)
  <2>1. TypeOK'
    BY <1>2 DEF TypeInv, TypeOK, Exit, request, answer, record
  <2>2. Fetching /\ pc = "collect" /\ UNCHANGED pc
    BY <1>2 DEF TypeInv, TypeOK, Control, Exit, Fetching, InputClosed
  <2>3. Control'
    BY <1>2, <2>2 DEF TypeInv, TypeOK, Control, Exit, request, Fetching
  <2>4. QED
    BY <2>1, <2>3 DEF TypeInv
<1>3. QED
  BY <1>1, <1>2

(* The series that a target of the query at hand may come to. *)
SeriesList(t, n) == [i \in 1..n |-> <<query, t, i>>]

LEMMA SeriesListBasics ==
    ASSUME TypeInv, NEW w \in Workers, at[w] = "fetch", NEW n \in 0..MaxSeries
    PROVE  /\ SeriesList(job[w], n) \in Seq(Series)
           /\ SeriesList(job[w], n) # <<>> <=> n > 0
           /\ Items(SeriesList(job[w], n)) = {<<query, job[w], i>> : i \in 1..n}
           /\ Distinct(SeriesList(job[w], n))
<1>1. n \in Nat /\ 1..n \subseteq 1..MaxSeries
  BY BoundsAssumption
<1>2. query \in 1..MaxQueries /\ job[w] \in Targets
  <2>1. /\ queries \in 0..MaxQueries /\ query \in 1..(queries + 1)
        /\ targets \in 0..MaxTargets /\ fed \in 0..targets /\ job[w] \in 0..fed
    BY DEF TypeInv, TypeOK
  <2>2. query <= queries /\ job[w] # 0
    BY DEF TypeInv, Control, Fetching
  <2>3. QED
    BY <2>1, <2>2, BoundsAssumption DEF Targets
<1>3. \A i \in 1..n : <<query, job[w], i>> \in Series
  BY <1>1, <1>2 DEF Series
<1>4. SeriesList(job[w], n) \in Seq(Series)
  BY <1>1, <1>3, IsASeq DEF SeriesList
<1>5. SeriesList(job[w], n) # <<>> <=> n > 0
  <2>1. Len(SeriesList(job[w], n)) = n
    BY <1>1 DEF SeriesList
  <2>2. QED
    BY <1>1, <1>4, <2>1, EmptySeq
<1>6. QED
  BY <1>4, <1>5 DEF SeriesList, Items, Distinct

(* What a worker has to send after a fetch: all that graphite sent, or      *)
(* nothing.                                                                 *)
LEMMA FetchedSeries ==
    ASSUME TypeInv, NEW w \in Workers, TargetToTimeseries(w)
    PROVE  \E n \in 0..MaxSeries : \E list \in {<<>>, SeriesList(job[w], n)} :
              /\ list \in Seq(Series)
              /\ left' = [left EXCEPT ![w] = list]
              /\ at' = [at EXCEPT ![w] = IF list # <<>> THEN "send" ELSE "range"]
              /\ fetcher = "mock" =>
                    served' = served \cup Items(list)
              /\ fetcher # "mock" =>
                    /\ list = <<>>
                    /\ served' \in {served, served \cup Items(SeriesList(job[w], n))}
<1>1. PICK get \in Gets, n \in 0..MaxSeries, good \in BOOLEAN :
         /\ served' = IF get = "ok" /\ good /\ ~expired
                      THEN served \cup Items(SeriesList(job[w], n)) ELSE served
         /\ left' = [left EXCEPT ![w] = IF FetchURL(get) /\ good
                                        THEN SeriesList(job[w], n) ELSE <<>>]
         /\ at' = [at EXCEPT ![w] = IF FetchURL(get) /\ good /\ n > 0
                                    THEN "send" ELSE "range"]
  BY Zenon DEF TargetToTimeseries, SeriesList
<1>2. at[w] = "fetch"
  BY DEF TargetToTimeseries
<1>3. /\ SeriesList(job[w], n) \in Seq(Series)
      /\ SeriesList(job[w], n) # <<>> <=> n > 0
      /\ <<>> \in Seq(Series)
  BY <1>2, SeriesListBasics, EmptySeq
<1>4. CASE FetchURL(get) /\ good
  <2>1. get = "ok" /\ good /\ ~expired /\ fetcher = "mock"
    BY <1>4 DEF FetchURL
  <2>2. QED
    BY <1>1, <1>3, <1>4, <2>1
<1>5. CASE ~(FetchURL(get) /\ good)
  <2>1. fetcher = "mock" => ~(get = "ok" /\ good /\ ~expired)
    BY <1>5 DEF FetchURL
  <2>2. served' \in {served, served \cup Items(SeriesList(job[w], n))}
        /\ (fetcher = "mock" => served' = served \cup Items(<<>>))
    BY <1>1, <2>1, ItemsOfNone
  <2>3. QED
    BY <1>1, <1>3, <1>5, <2>2
<1>6. QED
  BY <1>4, <1>5

LEMMA TypeFetch ==
    ASSUME TypeInv, NEW w \in Workers, TargetToTimeseries(w)
    PROVE  TypeInv'
<1>1. PICK n \in 0..MaxSeries, list \in Seq(Series) :
         /\ left' = [left EXCEPT ![w] = list]
         /\ at' = [at EXCEPT ![w] = IF list # <<>> THEN "send" ELSE "range"]
         /\ served' \in {served, served \cup Items(list),
                         served \cup Items(SeriesList(job[w], n))}
  BY FetchedSeries
<1>2. /\ at[w] = "fetch" /\ job' = [job EXCEPT ![w] = 0]
      /\ UNCHANGED <<cfg, fetcher, queries, pc, expired, query, targets, fed, input,
                     output, closed, timeseries, results, status>>
  BY DEF TargetToTimeseries, request, answer
<1>3. Items(list) \subseteq Series /\ Items(SeriesList(job[w], n)) \subseteq Series
  <2>1. SeriesList(job[w], n) \in Seq(Series)
    BY <1>2, SeriesListBasics
  <2>2. QED
    BY <2>1, ElementOfSeq, LenProperties DEF Items
<1>4. TypeOK'
  <2>1. served' \subseteq Series
    BY <1>1, <1>3 DEF TypeInv, TypeOK
  <2>2. left \in [Workers -> Seq(Series)] /\ job \in [Workers -> 0..fed] /\ 0 \in 0..fed
        /\ at \in [Workers -> {"none", "range", "fetch", "send", "done"}]
    BY BoundsAssumption DEF TypeInv, TypeOK
  <2>3. left' \in [Workers -> Seq(Series)]
    BY <1>1, <2>2
  <2>4. job' \in [Workers -> 0..fed]
        /\ at' \in [Workers -> {"none", "range", "fetch", "send", "done"}]
    BY <1>1, <1>2, <2>2
  <2>5. QED
    BY <1>2, <2>1, <2>3, <2>4 DEF TypeInv, TypeOK
<1>5. Control'
  <2>1. Fetching /\ Fetching' /\ ~closed
    BY <1>2, SMTT(20) DEF TypeInv, TypeOK, Control, Fetching
  <2>2. at \in [Workers -> {"none", "range", "fetch", "send", "done"}]
        /\ DOMAIN left = Workers /\ DOMAIN job = Workers
    BY DEF TypeInv, TypeOK
  <2>3. ASSUME NEW v \in Workers
        PROVE  /\ at'[v] = "fetch" <=> job'[v] # 0
               /\ at'[v] = "send" <=> left'[v] # <<>>
               /\ at'[v] = "done" => at[v] = "done"
    <3>1. /\ at[v] = "fetch" <=> job[v] # 0
          /\ at[v] = "send" <=> left[v] # <<>>
      BY DEF TypeInv, Control
    <3>2. QED
      BY <1>1, <1>2, <2>2, <3>1
  <2>4. QED
    BY <1>2, <2>1, <2>3 DEF TypeInv, Control, Fetching
<1>6. QED
  BY <1>4, <1>5 DEF TypeInv

LEMMA TypeSend ==
    ASSUME TypeInv, NEW w \in Workers, Send(w)
    PROVE  TypeInv'
<1>1. /\ at[w] = "send" /\ left[w] # <<>> /\ left[w] \in Seq(Series)
      /\ output \in Seq(Series \cup {Nil}) /\ Len(output) < targets + 1
      /\ output' = Append(output, Head(left[w]))
      /\ left' = [left EXCEPT ![w] = Tail(left[w])]
      /\ at' = [at EXCEPT ![w] = IF Len(left[w]) = 1 THEN "range" ELSE "send"]
      /\ UNCHANGED <<cfg, fetcher, queries, pc, expired, query, targets, fed, input, job,
                     closed, timeseries, results, status, served>>
  BY DEF TypeInv, TypeOK, Control, Send, Room, request, answer, record
<1>2. /\ Head(left[w]) \in Series /\ Tail(left[w]) \in Seq(Series)
      /\ Len(Tail(left[w])) = Len(left[w]) - 1 /\ Len(left[w]) \in Nat
  BY <1>1, ItemsOfTail, LenProperties
<1>3. Tail(left[w]) # <<>> <=> Len(left[w]) # 1
  <2>1. Tail(left[w]) # <<>> => Len(Tail(left[w])) \in Nat \ {0}
    BY <1>2, EmptySeq
  <2>2. Tail(left[w]) = <<>> => Len(Tail(left[w])) = 0
    BY EmptySeq
  <2>3. QED
    BY <1>2, <2>1, <2>2
<1>4. /\ output' \in Seq(Series \cup {Nil})
      /\ Len(output) \in Nat /\ Len(output') = Len(output) + 1
      /\ \A i \in 1..Len(output) : output'[i] = output[i]
      /\ output'[Len(output) + 1] # Nil
      /\ DOMAIN output = 1..Len(output) /\ DOMAIN output' = 1..(Len(output) + 1)
  BY <1>1, <1>2, AppendProperties, LenProperties, NilAssumption
<1>5. TypeOK'
  <2>1. left \in [Workers -> Seq(Series)]
        /\ at \in [Workers -> {"none", "range", "fetch", "send", "done"}]
    BY DEF TypeInv, TypeOK
  <2>2. left' \in [Workers -> Seq(Series)]
    BY <1>1, <1>2, <2>1
  <2>3. at' \in [Workers -> {"none", "range", "fetch", "send", "done"}]
    BY <1>1, <2>1
  <2>4. Len(output') <= targets + 1
    BY <1>1, <1>4, BoundsAssumption DEF TypeInv, TypeOK
  <2>5. QED
    BY <1>1, <1>4, <2>2, <2>3, <2>4 DEF TypeInv, TypeOK
<1>6. Control'
  <2>1. Fetching /\ Fetching' /\ ~closed
    BY <1>1, ZenonT(40) DEF TypeInv, TypeOK, Control, Fetching
  <2>2. DOMAIN at = Workers /\ DOMAIN left = Workers
    BY DEF TypeInv, TypeOK
  <2>3. ASSUME NEW v \in Workers
        PROVE  /\ at'[v] = "fetch" <=> job'[v] # 0
               /\ at'[v] = "send" <=> left'[v] # <<>>
               /\ at'[v] = "done" => at[v] = "done"
    <3>1. /\ at[v] = "fetch" <=> job[v] # 0
          /\ at[v] = "send" <=> left[v] # <<>>
      BY DEF TypeInv, Control
    <3>2. QED
      BY <1>1, <1>2, <1>3, <2>2, <3>1
  <2>4. \A i \in DOMAIN output : output[i] # Nil
    BY <2>1 DEF TypeInv, Control
  <2>5. \A i \in DOMAIN output' : output'[i] # Nil
    BY <1>4, <2>4
  <2>6. QED
    BY <1>1, <2>1, <2>3, <2>5 DEF TypeInv, Control, Fetching
<1>7. QED
  BY <1>5, <1>6 DEF TypeInv

LEMMA TypeCloseOutput == TypeInv /\ CloseOutput => TypeInv'
<1> SUFFICES ASSUME TypeInv, CloseOutput PROVE TypeInv'
  OBVIOUS
<1>1. /\ pc = "collect" /\ ~closed /\ \A w \in Workers : at[w] = "done"
      /\ output \in Seq(Series \cup {Nil}) /\ Len(output) < targets + 1
      /\ output' = Append(output, Nil) /\ closed' = TRUE
      /\ UNCHANGED <<cfg, fetcher, queries, pc, expired, query, targets, fed, input, at,
                     job, left, timeseries, results, status, served>>
  BY DEF TypeInv, TypeOK, CloseOutput, Room, request, answer, record
<1>2. /\ output' \in Seq(Series \cup {Nil})
      /\ Len(output) \in Nat /\ Len(output') = Len(output) + 1
      /\ \A i \in 1..Len(output) : output'[i] = output[i]
      /\ DOMAIN output = 1..Len(output) /\ DOMAIN output' = 1..(Len(output) + 1)
  BY <1>1, AppendProperties, LenProperties
<1>3. TypeOK'
  <2>1. Len(output') <= targets + 1
    BY <1>1, <1>2, BoundsAssumption DEF TypeInv, TypeOK
  <2>2. QED
    BY <1>1, <1>2, <2>1 DEF TypeInv, TypeOK
<1>4. Control'
  <2>1. \A i \in DOMAIN output : output[i] # Nil
    BY <1>1 DEF TypeInv, Control
  <2>2. \A i \in DOMAIN output' : output'[i] = Nil => closed' /\ i = Len(output')
    BY <1>1, <1>2, <2>1
  <2>3. QED
    BY <1>1, <2>2 DEF TypeInv, Control, Fetching
<1>5. QED
  BY <1>3, <1>4 DEF TypeInv

(* The nil is collected after everything else, when nobody is at work.      *)
LEMMA NilIsLast ==
    ASSUME TypeInv, Collect, Head(output) = Nil
    PROVE  /\ Tail(output) = <<>> /\ output = <<Nil>> /\ input = <<>>
           /\ \A w \in Workers : at[w] = "done" /\ job[w] = 0 /\ left[w] = <<>>
<1>1. /\ pc = "collect" /\ output # <<>> /\ output \in Seq(Series \cup {Nil})
      /\ Fetching
  BY DEF TypeInv, TypeOK, Collect, Fetching
<1>2. Len(output) \in Nat \ {0} /\ Head(output) = output[1] /\ DOMAIN output = 1..Len(output)
  BY <1>1, EmptySeq, LenProperties
<1>3. closed /\ Len(output) = 1
  BY <1>2 DEF TypeInv, Control
<1>4. Tail(output) = <<>> /\ output = <<Nil>>
  <2>1. Tail(output) \in Seq(Series \cup {Nil}) /\ Len(Tail(output)) = 0
    BY <1>1, <1>3, HeadTailProperties
  <2>2. Tail(output) = <<>>
    BY <2>1, EmptySeq
  <2>3. output = <<Nil>>
    BY <1>1, <1>2, <1>3
  <2>4. QED
    BY <2>2, <2>3
<1>5. \A w \in Workers : at[w] = "done" /\ job[w] = 0 /\ left[w] = <<>>
  BY <1>1, <1>3 DEF TypeInv, Control
<1>6. input = <<>>
  BY <1>1, <1>5, WorkersAssumption DEF TypeInv, Control
<1>7. QED
  BY <1>4, <1>5, <1>6

LEMMA TypeCollect == TypeInv /\ Collect => TypeInv'
<1> SUFFICES ASSUME TypeInv, Collect PROVE TypeInv'
  OBVIOUS
<1>1. /\ pc = "collect" /\ output # <<>> /\ output \in Seq(Series \cup {Nil})
      /\ output' = Tail(output)
      /\ UNCHANGED <<cfg, fetcher, queries, expired, targets, fed, input, at, job, left,
                     closed, status, served>>
  BY DEF TypeInv, TypeOK, Collect, request, record
<1>2. /\ Head(output) \in Series \cup {Nil} /\ output' \in Seq(Series \cup {Nil})
      /\ Len(output) \in Nat /\ Len(output') = Len(output) - 1
      /\ DOMAIN output = 1..Len(output) /\ DOMAIN output' = 1..(Len(output) - 1)
      /\ \A i \in 1..(Len(output) - 1) : output'[i] = output[i + 1]
  <2>1. output' \in Seq(Series \cup {Nil}) /\ Len(output') = Len(output) - 1
        /\ Head(output) \in Series \cup {Nil}
    BY <1>1, ItemsOfTail
  <2>2. \A i \in 1..Len(output') : output'[i] = output[i + 1]
    BY <1>1, HeadTailProperties
  <2>3. QED
    BY <1>1, <2>1, <2>2, LenProperties
<1>3. Len(output') <= targets + 1
  BY <1>2, BoundsAssumption DEF TypeInv, TypeOK
<1>4. CASE Head(output) # Nil
  <2>1. /\ timeseries' = Append(timeseries, Head(output)) /\ UNCHANGED <<pc, query, results>>
    BY <1>4 DEF Collect
  <2>2. timeseries' \in Seq(Series)
    BY <1>2, <1>4, <2>1, AppendProperties DEF TypeInv, TypeOK
  <2>3. TypeOK'
    BY <1>1, <1>2, <1>3, <2>1, <2>2 DEF TypeInv, TypeOK
  <2>4. \A i \in DOMAIN output' : output'[i] = Nil => closed' /\ i = Len(output')
    <3>1. ASSUME NEW i \in 1..(Len(output) - 1), output'[i] = Nil
          PROVE  closed' /\ i = Len(output')
      <4>1. i + 1 \in DOMAIN output /\ output[i + 1] = Nil
        BY <1>2, <3>1
      <4>2. closed /\ i + 1 = Len(output)
        BY <4>1 DEF TypeInv, Control
      <4>3. i \in Int /\ i = Len(output')
        BY <1>2, <3>1, <4>2
      <4>4. QED
        BY <1>1, <4>2, <4>3
    <3>2. QED
      BY <1>2, <3>1
  <2>5. Control'
    BY <1>1, <2>1, <2>4 DEF TypeInv, Control, Fetching
  <2>6. QED
    BY <2>3, <2>5 DEF TypeInv
<1>5. CASE Head(output) = Nil
  <2>1. /\ results' = Append(results, timeseries) /\ timeseries' = <<>>
        /\ query' = query + 1 /\ pc' = "query"
    BY <1>5 DEF Collect
  <2>2. /\ output' = <<>> /\ input = <<>>
        /\ \A w \in Workers : at[w] = "done" /\ job[w] = 0 /\ left[w] = <<>>
    BY <1>1, <1>5, NilIsLast
  <2>3. results' \in Seq(Seq(Series)) /\ timeseries' \in Seq(Series)
    BY <2>1, AppendProperties, EmptySeq DEF TypeInv, TypeOK
  <2>4. query' \in 1..(queries + 1)
    BY <1>1, <2>1, BoundsAssumption DEF TypeInv, TypeOK, Control, Fetching
  <2>5. TypeOK'
    BY <1>1, <1>2, <1>3, <2>1, <2>3, <2>4 DEF TypeInv, TypeOK
  <2>6. Control'
    BY <1>1, <2>1, <2>2 DEF TypeInv, Control, Fetching
  <2>7. QED
    BY <2>5, <2>6 DEF TypeInv
<1>6. QED
  BY <1>4, <1>5

LEMMA TypeStep == TypeInv /\ [Next]_vars => TypeInv'
BY TypeOutside, TypeStart, TypeFeed, TypeTake, TypeFetch, TypeSend, TypeCloseOutput,
   TypeCollect DEF Next, Main, Worker, Answered, Outside

LEMMA TypeAlways == Spec => []TypeInv
BY TypeInit, TypeStep, PTL DEF Spec

(* Every channel stays within what the code made it for, every worker holds *)
(* one target or one list of series, whatever the numbers.                  *)
THEOREM RemoteReadTypeCorrect == Spec => []TypeOK
BY TypeAlways, PTL DEF TypeInv

(* No goroutine of fetchData outlives it: when a query is done, when the    *)
(* read has failed and when it is answered, nobody is at work.              *)
THEOREM NobodyFetchesOn == Spec => []FetchIsOver
<1>1. TypeInv => FetchIsOver
  BY DEF TypeInv, Control, FetchIsOver, Fetching
<1>2. QED
  BY <1>1, TypeAlways, PTL

-----------------------------------------------------------------------------
(* No target is fetched twice: those that have been fetched for the query   *)
(* at hand are not in input and with no worker, and no later query has been *)
(* looked at.                                                               *)
Fresh ==
    /\ \A s \in served : s[1] <= query /\ (~Fetching => s[1] < query)
    /\ Fetching =>
        /\ Distinct(input)
        /\ \A w \in Workers : job[w] \notin Items(input)
        /\ \A v, w \in Workers : job[v] = job[w] /\ job[v] # 0 => v = w
        /\ \A s \in served : s[1] = query =>
              /\ s[2] <= fed
              /\ s[2] \notin Items(input)
              /\ \A w \in Workers : s[2] # job[w]

LEMMA SeriesBasics ==
    ASSUME NEW s \in Series
    PROVE  s[1] \in Nat /\ s[2] \in Nat /\ s[2] # 0 /\ s # Nil
BY BoundsAssumption, NilAssumption DEF Series, Targets

LEMMA FreshInit == Init => Fresh
BY DEF Init, Fresh, Fetching

(* The steps that leave alone what Fresh speaks of. *)
LEMMA FreshUnchanged ==
    ASSUME Fresh, Fetching' <=> Fetching,
           UNCHANGED <<served, query, input, job, fed>>
    PROVE  Fresh'
BY DEF Fresh, Items, Distinct

LEMMA FreshOutside == ASSUME TypeInv, Fresh, Outside PROVE Fresh'
<1>1. /\ UNCHANGED <<served, input, job, fed>>
      /\ Fetching' <=> Fetching
      /\ \/ UNCHANGED query
         \/ ~Fetching /\ query' = query + 1
  BY DEF Outside, BadRequest, NoReader, NoURL, Read, Fail, Respond, EmptyRange, Expire,
     vars, request, fetch, answer, record, Fetching
<1>2. CASE UNCHANGED query
  BY <1>1, <1>2, FreshUnchanged
<1>3. CASE ~Fetching /\ query' = query + 1
  <2>1. ASSUME NEW s \in served PROVE s[1] < query + 1 /\ s[1] <= query + 1
    <3>1. s[1] < query /\ s[1] \in Nat /\ query \in Nat
      BY <1>3, SeriesBasics, BoundsAssumption DEF Fresh, TypeInv, TypeOK
    <3>2. QED
      BY <3>1
  <2>2. \A s \in served : s[1] < query' /\ s[1] <= query'
    BY <1>3, <2>1
  <2>3. QED
    BY <1>1, <1>3, <2>2 DEF Fresh
<1>4. QED
  BY <1>1, <1>2, <1>3

LEMMA FreshStart ==
    ASSUME TypeInv, Fresh, QueryToTargets \/ QueryToTargetsWithTags
    PROVE  Fresh'
<1>1. ~Fetching /\ UNCHANGED <<query, served>>
  BY DEF QueryToTargets, QueryToTargetsWithTags, record, Fetching
<1>2. CASE pc' = "fail" /\ UNCHANGED <<fetch, timeseries>>
  BY <1>1, <1>2, FreshUnchanged DEF fetch, Fetching
<1>3. ASSUME NEW n \in 0..MaxTargets, StartFetch(n) PROVE Fresh'
  <2>1. \A s \in served : s[1] < query /\ s[1] # query
    <3>1. ASSUME NEW s \in served PROVE s[1] < query /\ s[1] # query
      <4>1. s[1] < query /\ s[1] \in Nat /\ query \in Nat
        BY <1>1, SeriesBasics, BoundsAssumption DEF Fresh, TypeInv, TypeOK
      <4>2. QED
        BY <4>1
    <3>2. QED
      BY <3>1
  <2>2. Distinct(input') /\ Items(input') = {} /\ job' = [w \in Workers |-> 0]
    BY <1>3, ItemsOfNone DEF StartFetch
  <2>3. QED
    BY <1>1, <2>1, <2>2 DEF Fresh
<1>4. 1 \in 0..MaxTargets
  BY BoundsAssumption
<1>5. QED
  BY <1>2, <1>3, <1>4 DEF QueryToTargets, QueryToTargetsWithTags, FilteredTargets

LEMMA FreshFeed == ASSUME TypeInv, Fresh, Feed PROVE Fresh'
<1>1. /\ Fetching /\ Fetching' /\ fed \in Nat /\ fed' = fed + 1
      /\ input' = Append(input, fed + 1)
      /\ UNCHANGED <<served, query, job>>
  BY BoundsAssumption DEF Feed, Fetching, record, TypeInv, TypeOK
<1>2. input \in Seq(Nat) /\ \A t \in Items(input) : t <= fed /\ t \in Nat
  <2>1. input \in Seq(1..fed)
    BY DEF TypeInv, TypeOK
  <2>2. 1..fed \subseteq Nat
    BY <1>1
  <2>3. \A t \in Items(input) : t \in 1..fed
    BY <2>1, ElementOfSeq, LenProperties DEF Items
  <2>4. QED
    BY <1>1, <2>1, <2>2, <2>3, SeqMonotonic
<1>3. Items(input') = Items(input) \cup {fed + 1} /\ Distinct(input')
  <2>1. fed + 1 \in Nat /\ fed + 1 \notin Items(input) /\ Distinct(input)
    BY <1>1, <1>2 DEF Fresh
  <2>2. QED
    BY <1>1, <1>2, <2>1, ItemsOfAppend
<1>4. ASSUME NEW w \in Workers
      PROVE  job[w] # fed + 1 /\ job[w] \notin Items(input')
  <2>1. job[w] \in 0..fed /\ job[w] \notin Items(input)
    BY <1>1 DEF TypeInv, TypeOK, Fresh
  <2>2. QED
    BY <1>1, <1>3, <2>1
<1>5. ASSUME NEW s \in served, s[1] = query
      PROVE  s[2] <= fed + 1 /\ s[2] \notin Items(input')
  <2>1. s[2] <= fed /\ s[2] \in Nat /\ s[2] \notin Items(input)
    BY <1>1, <1>5, SeriesBasics DEF TypeInv, TypeOK, Fresh
  <2>2. QED
    BY <1>1, <1>3, <2>1
<1>6. QED
  BY <1>1, <1>3, <1>4, <1>5 DEF Fresh

LEMMA FreshTake == ASSUME TypeInv, Fresh, NEW w \in Workers, Take(w) PROVE Fresh'
<1>1. /\ Fetching /\ Fetching'
      /\ input \in Seq(1..fed) /\ input # <<>> /\ input' = Tail(input)
      /\ job' = [job EXCEPT ![w] = Head(input)] /\ DOMAIN job = Workers
      /\ UNCHANGED <<served, query, fed>>
  BY DEF Take, Fetching, record, TypeInv, TypeOK, Control
<1>2. /\ Items(input) = {Head(input)} \cup Items(input')
      /\ Distinct(input') /\ Head(input) \notin Items(input')
  BY <1>1, ItemsOfTail DEF Fresh
<1>3. \A v \in Workers : job'[v] \notin Items(input')
  BY <1>1, <1>2 DEF Fresh
<1>4. \A u, v \in Workers : job'[u] = job'[v] /\ job'[u] # 0 => u = v
  BY <1>1, <1>2 DEF Fresh
<1>5. ASSUME NEW s \in served, s[1] = query
      PROVE  /\ s[2] <= fed /\ s[2] \notin Items(input')
             /\ \A v \in Workers : s[2] # job'[v]
  BY <1>1, <1>2, <1>5 DEF Fresh
<1>6. QED
  BY <1>1, <1>2, <1>3, <1>4, <1>5 DEF Fresh

(* What a fetch brings is of the query at hand and of the worker's target.  *)
LEMMA FetchedBasics ==
    ASSUME TypeInv, NEW w \in Workers, TargetToTimeseries(w)
    PROVE  \A s \in served' : s \notin served => s[1] = query /\ s[2] = job[w]
<1>1. PICK n \in 0..MaxSeries, list \in Seq(Series) :
         /\ list = <<>> \/ list = SeriesList(job[w], n)
         /\ served' \in {served, served \cup Items(list),
                         served \cup Items(SeriesList(job[w], n))}
  BY FetchedSeries
<1>2. Items(SeriesList(job[w], n)) = {<<query, job[w], i>> : i \in 1..n}
  BY SeriesListBasics DEF TargetToTimeseries
<1>3. QED
  BY <1>1, <1>2, ItemsOfNone

LEMMA FreshFetch ==
    ASSUME TypeInv, TypeInv', Fresh, NEW w \in Workers, TargetToTimeseries(w)
    PROVE  Fresh'
<1>1. /\ Fetching /\ Fetching' /\ at[w] = "fetch" /\ job[w] # 0
      /\ job' = [job EXCEPT ![w] = 0] /\ job \in [Workers -> 0..fed]
      /\ UNCHANGED <<query, input, fed>>
  BY DEF TargetToTimeseries, Fetching, request, TypeInv, TypeOK, Control
<1>2. 0 \notin Items(input)
  <2>1. input \in Seq(1..fed)
    BY DEF TypeInv, TypeOK
  <2>2. \A t \in Items(input) : t \in 1..fed
    BY <2>1, ElementOfSeq, LenProperties DEF Items
  <2>3. QED
    BY <2>2
<1>3. \A v \in Workers : job'[v] \notin Items(input)
  BY <1>1, <1>2 DEF Fresh
<1>4. \A u, v \in Workers : job'[u] = job'[v] /\ job'[u] # 0 => u = v
  BY <1>1 DEF Fresh
<1>5. ASSUME NEW s \in served'
      PROVE  /\ s[1] <= query
             /\ s[1] = query => /\ s[2] <= fed /\ s[2] \notin Items(input)
                                /\ \A v \in Workers : s[2] # job'[v]
  <2>1. s[2] # 0
    BY SeriesBasics DEF TypeInv, TypeOK
  <2>2. CASE s \in served
    BY <1>1, <2>1, <2>2 DEF Fresh
  <2>3. CASE s \notin served
    <3>1. s[1] = query /\ s[2] = job[w]
      BY <2>3, FetchedBasics
    <3>2. query \in Nat /\ fed \in Nat /\ job[w] \in 0..fed
      BY <1>1, BoundsAssumption DEF TypeInv, TypeOK
    <3>3. s[1] <= query /\ s[2] <= fed
      BY <3>1, <3>2
    <3>4. s[2] \notin Items(input)
      BY <1>1, <3>1 DEF Fresh
    <3>5. \A v \in Workers : s[2] # job'[v]
      BY <1>1, <2>1, <3>1 DEF Fresh
    <3>6. QED
      BY <3>3, <3>4, <3>5
  <2>4. QED
    BY <2>2, <2>3
<1>6. Distinct(input')
  BY <1>1 DEF Fresh
<1>7. QED
  BY <1>1, <1>3, <1>4, <1>5, <1>6 DEF Fresh

LEMMA FreshCollect == ASSUME TypeInv, Fresh, Collect PROVE Fresh'
<1>1. Fetching /\ UNCHANGED <<served, input, job, fed>>
  BY DEF Collect, Fetching, record
<1>2. CASE Head(output) # Nil
  BY <1>1, <1>2, FreshUnchanged DEF Collect, Fetching
<1>3. CASE Head(output) = Nil
  <2>1. query' = query + 1 /\ ~Fetching'
    BY <1>3 DEF Collect, Fetching
  <2>2. ASSUME NEW s \in served PROVE s[1] < query + 1 /\ s[1] <= query + 1
    <3>1. s[1] <= query /\ s[1] \in Nat /\ query \in Nat
      BY SeriesBasics, BoundsAssumption DEF Fresh, TypeInv, TypeOK
    <3>2. QED
      BY <3>1
  <2>3. QED
    BY <1>1, <2>1, <2>2 DEF Fresh
<1>4. QED
  BY <1>2, <1>3

LEMMA FreshStep == TypeInv /\ TypeInv' /\ Fresh /\ [Next]_vars => Fresh'
<1> SUFFICES ASSUME TypeInv, TypeInv', Fresh, [Next]_vars PROVE Fresh'
  OBVIOUS
<1>1. CASE CloseInput
  BY <1>1, FreshUnchanged DEF CloseInput, fetch, record, Fetching
<1>2. CASE CloseOutput
  BY <1>2, FreshUnchanged DEF CloseOutput, record, Fetching
<1>3. ASSUME NEW w \in Workers, Exit(w) \/ Send(w) PROVE Fresh'
  BY <1>3, FreshUnchanged DEF Exit, Send, record, Fetching
<1>4. QED
  BY <1>1, <1>2, <1>3, FreshOutside, FreshStart, FreshFeed, FreshTake, FreshFetch,
     FreshCollect DEF Next, Main, Worker, Answered, Outside

-----------------------------------------------------------------------------
OfQuery(q) == {s \in Found : s[1] = q}
Sent == Items(output) \ {Nil}
Holding == UNION {Items(left[w]) : w \in Workers}

ResultsHold ==
    \A q \in DOMAIN results : Items(results[q]) = OfQuery(q) /\ Distinct(results[q])

(* A series of the query at hand that was found is in exactly one place:    *)
(* with the worker that brought it, in the channel, or collected.  One of   *)
(* an earlier query is in the result of that query.                         *)
Placed ==
    /\ pc # "answered" => Len(results) = query - 1 /\ ResultsHold
    /\ ~Fetching => timeseries = <<>>
    /\ Fetching =>
        /\ Items(timeseries) \cup Sent \cup Holding = OfQuery(query)
        /\ Distinct(timeseries)
        /\ Distinct(output)
        /\ Items(timeseries) \cap Items(output) = {}
        /\ \A w \in Workers :
              /\ Distinct(left[w])
              /\ Items(left[w]) \cap (Items(timeseries) \cup Items(output)) = {}
        /\ \A v, w \in Workers : v # w => Items(left[v]) \cap Items(left[w]) = {}

LEMMA PlacedInit == Init => Placed
<1> SUFFICES ASSUME Init PROVE Placed
  OBVIOUS
<1>1. results = <<>> /\ timeseries = <<>> /\ query = 1 /\ ~Fetching /\ Len(<<>>) = 0
  BY EmptySeq DEF Init, Fetching
<1>2. DOMAIN results = {}
  BY <1>1
<1>3. QED
  BY <1>1, <1>2 DEF Placed, ResultsHold

(* Steps that move no series. *)
LEMMA PlacedUnchanged ==
    ASSUME Placed, Fetching' <=> Fetching, pc = "answered" => pc' = "answered",
           UNCHANGED <<served, fetcher, query, left, output, timeseries, results>>
    PROVE  Placed'
<1>1. \A q : OfQuery(q)' = OfQuery(q)
  BY DEF OfQuery, Found
<1>2. ResultsHold' <=> ResultsHold
  BY <1>1 DEF ResultsHold, Items, Distinct
<1>3. OfQuery(query)' = OfQuery(query) /\ Sent' = Sent /\ Holding' = Holding
  BY DEF OfQuery, Found, Sent, Holding, Items
<1>4. QED
  BY <1>2, <1>3 DEF Placed

LEMMA PlacedOutside == ASSUME TypeInv, Fresh, Placed, Outside PROVE Placed'
<1>1. UNCHANGED <<served, fetcher, left, output, timeseries>> /\ (Fetching' <=> Fetching)
  BY DEF Outside, BadRequest, NoReader, NoURL, Read, Fail, Respond, EmptyRange, Expire,
     vars, request, fetch, answer, record, Fetching
<1>2. CASE \/ BadRequest \/ NoReader \/ Read \/ Respond \/ Expire \/ UNCHANGED vars
  <2>1. UNCHANGED <<query, results>> /\ (pc = "answered" => pc' = "answered")
    BY <1>2 DEF BadRequest, NoReader, Read, Respond, Expire, vars, answer
  <2>2. QED
    BY <1>1, <2>1, PlacedUnchanged
<1>3. CASE NoURL \/ Fail
  <2>1. pc' = "answered" /\ ~Fetching /\ ~Fetching'
    BY <1>3 DEF NoURL, Fail, Fetching
  <2>2. QED
    BY <1>1, <2>1 DEF Placed
<1>4. CASE EmptyRange
  <2>1. /\ results' = Append(results, <<>>) /\ query' = query + 1 /\ UNCHANGED pc
        /\ pc # "answered" /\ ~Fetching
    BY <1>4 DEF EmptyRange, Fetching
  <2>2. /\ Len(results') = Len(results) + 1 /\ Len(results) = query - 1
        /\ \A q \in 1..Len(results) : results'[q] = results[q]
        /\ results'[Len(results) + 1] = <<>>
        /\ DOMAIN results = 1..Len(results) /\ DOMAIN results' = 1..(Len(results) + 1)
    <3>1. results \in Seq(Seq(Series)) /\ <<>> \in Seq(Series)
      BY EmptySeq DEF TypeInv, TypeOK
    <3>2. results' \in Seq(Seq(Series))
      BY <2>1, <3>1, AppendProperties
    <3>3. QED
      BY <2>1, <3>1, <3>2, AppendProperties, LenProperties DEF Placed
  <2>3. query \in Nat
    BY BoundsAssumption DEF TypeInv, TypeOK
  <2>4. OfQuery(query) = {}
    <3>1. ASSUME NEW s \in served PROVE s[1] # query
      <4>1. s[1] < query /\ s[1] \in Nat
        BY <2>1, SeriesBasics DEF Fresh, TypeInv, TypeOK
      <4>2. QED
        BY <2>3, <4>1
    <3>2. QED
      BY <3>1 DEF OfQuery, Found
  <2>5. \A q : OfQuery(q)' = OfQuery(q)
    BY <1>1 DEF OfQuery, Found
  <2>6. ASSUME NEW q \in DOMAIN results'
        PROVE  Items(results'[q]) = OfQuery(q) /\ Distinct(results'[q])
    <3>1. CASE q \in 1..Len(results)
      BY <2>1, <2>2, <3>1 DEF Placed, ResultsHold
    <3>2. CASE q = Len(results) + 1
      <4>1. q = query
        BY <2>2, <2>3, <3>2
      <4>2. results'[q] = <<>>
        BY <2>2, <3>2
      <4>3. QED
        BY <2>4, <4>1, <4>2, ItemsOfNone
    <3>3. QED
      BY <2>2, <2>3, <3>1, <3>2
  <2>7. ResultsHold'
    BY <2>5, <2>6 DEF ResultsHold
  <2>8. Len(results') = query' - 1
    BY <2>1, <2>2, <2>3
  <2>9. QED
    BY <1>1, <2>1, <2>7, <2>8 DEF Placed, Fetching
<1>5. QED
  BY <1>2, <1>3, <1>4 DEF Outside

LEMMA PlacedStart ==
    ASSUME TypeInv, Fresh, Placed, QueryToTargets \/ QueryToTargetsWithTags
    PROVE  Placed'
<1>1. /\ ~Fetching /\ pc = "query"
      /\ UNCHANGED <<query, served, fetcher, results>>
  BY DEF QueryToTargets, QueryToTargetsWithTags, record, request, Fetching
<1>2. CASE pc' = "fail" /\ UNCHANGED <<fetch, timeseries>>
  BY <1>1, <1>2, PlacedUnchanged DEF fetch, Fetching
<1>3. ASSUME NEW n \in 0..MaxTargets, StartFetch(n) PROVE Placed'
  <2>1. /\ output' = <<>> /\ timeseries' = <<>> /\ left' = [w \in Workers |-> <<>>]
        /\ pc' = "feed"
    BY <1>3 DEF StartFetch
  <2>2. OfQuery(query) = {}
    <3>1. ASSUME NEW s \in served PROVE s[1] # query
      <4>1. s[1] < query /\ s[1] \in Nat /\ query \in Nat
        BY <1>1, SeriesBasics, BoundsAssumption DEF Fresh, TypeInv, TypeOK
      <4>2. QED
        BY <4>1
    <3>2. QED
      BY <3>1 DEF OfQuery, Found
  <2>3. OfQuery(query)' = {}
    BY <1>1, <2>2 DEF OfQuery, Found
  <2>4. Sent' = {} /\ Holding' = {} /\ Items(timeseries)' = {}
    BY <2>1, ItemsOfNone DEF Sent, Holding
  <2>5. ResultsHold' <=> ResultsHold
    <3>1. \A q : OfQuery(q)' = OfQuery(q)
      BY <1>1 DEF OfQuery, Found
    <3>2. QED
      BY <1>1, <3>1 DEF ResultsHold, Items, Distinct
  <2>6. Len(results') = query' - 1 /\ ResultsHold'
    BY <1>1, <2>5 DEF Placed
  <2>7. \A w \in Workers : left'[w] = <<>>
    BY <2>1
  <2>8. QED
    BY <2>1, <2>3, <2>4, <2>6, <2>7, ItemsOfNone DEF Placed, Fetching
<1>4. 1 \in 0..MaxTargets
  BY BoundsAssumption
<1>5. QED
  BY <1>2, <1>3, <1>4 DEF QueryToTargets, QueryToTargetsWithTags, FilteredTargets

(* What has been found of the queries that are done does not change.        *)
LEMMA ResultsHoldOn ==
    ASSUME ResultsHold, UNCHANGED results,
           \A q \in DOMAIN results : OfQuery(q)' = OfQuery(q)
    PROVE  ResultsHold'
<1>1. ASSUME NEW q \in DOMAIN results PROVE {s \in Found' : s[1] = q} = OfQuery(q)
  BY DEF OfQuery
<1>2. \A q \in DOMAIN results' :
         Items(results'[q]) = {s \in Found' : s[1] = q} /\ Distinct(results'[q])
  BY <1>1 DEF ResultsHold
<1>3. QED
  BY <1>2 DEF ResultsHold, OfQuery

(* The nil is no series. *)
LEMMA NilIsNowhere ==
    ASSUME TypeInv
    PROVE  /\ Nil \notin Items(timeseries)
           /\ \A w \in Workers : Nil \notin Items(left[w])
           /\ ~closed => Nil \notin Items(output)
<1>1. timeseries \in Seq(Series) /\ \A w \in Workers : left[w] \in Seq(Series)
  BY DEF TypeInv, TypeOK
<1>2. ASSUME NEW q \in Seq(Series) PROVE Nil \notin Items(q)
  BY <1>2, ElementOfSeq, LenProperties, NilAssumption DEF Items
<1>3. ~closed => Nil \notin Items(output)
  BY DEF TypeInv, Control, Items
<1>4. QED
  BY <1>1, <1>2, <1>3

LEMMA PlacedFetch ==
    ASSUME TypeInv, Fresh, Placed, NEW w \in Workers, TargetToTimeseries(w)
    PROVE  Placed'
<1>1. PICK n \in 0..MaxSeries, list \in Seq(Series) :
         /\ list = <<>> \/ list = SeriesList(job[w], n)
         /\ left' = [left EXCEPT ![w] = list]
         /\ fetcher = "mock" => served' = served \cup Items(list)
         /\ fetcher # "mock" => list = <<>>
  BY FetchedSeries
<1>2. /\ Fetching /\ Fetching' /\ left[w] = <<>> /\ DOMAIN left = Workers
      /\ job[w] # 0 /\ pc # "answered" /\ pc' # "answered"
      /\ UNCHANGED <<fetcher, query, output, timeseries, results>>
  BY ZenonT(40) DEF TargetToTimeseries, Fetching, request, answer, TypeInv, TypeOK, Control
<1>3. /\ Distinct(list)
      /\ \A s \in Items(list) : s[1] = query /\ s[2] = job[w]
  <2>1. /\ Items(SeriesList(job[w], n)) = {<<query, job[w], i>> : i \in 1..n}
        /\ Distinct(SeriesList(job[w], n))
    BY SeriesListBasics DEF TargetToTimeseries
  <2>2. QED
    BY <1>1, <2>1, ItemsOfNone
<1>4. Found' = Found \cup Items(list)
  BY <1>1, <1>2, ItemsOfNone DEF Found
<1>5. Items(list) \cap Found = {}
  BY <1>2, <1>3 DEF Fresh, Found
<1>6. /\ OfQuery(query)' = OfQuery(query) \cup Items(list)
      /\ OfQuery(query) \subseteq Found
  BY <1>2, <1>3, <1>4 DEF OfQuery
<1>7. ResultsHold' /\ Len(results') = query' - 1
  <2>1. DOMAIN results = 1..(query - 1) /\ query \in Nat
    BY <1>2, LenProperties, BoundsAssumption DEF Placed, TypeInv, TypeOK
  <2>2. \A q \in DOMAIN results : q # query
    BY <2>1
  <2>3. ASSUME NEW q \in DOMAIN results PROVE OfQuery(q)' = OfQuery(q)
    BY <1>3, <1>4, <2>2 DEF OfQuery
  <2>4. QED
    BY <1>2, <2>3, ResultsHoldOn DEF Placed
<1>8. /\ Sent' = Sent
      /\ Holding' = Holding \cup Items(list)
  <2>1. \A v \in Workers : left'[v] = IF v = w THEN list ELSE left[v]
    BY <1>1, <1>2
  <2>2. Items(left[w]) = {}
    BY <1>2, ItemsOfNone
  <2>3. Holding' = Holding \cup Items(list)
    BY <2>1, <2>2 DEF Holding
  <2>4. QED
    BY <1>2, <2>3 DEF Sent
<1>9. Items(timeseries) \cup Sent \cup Holding = OfQuery(query)
  BY <1>2 DEF Placed
<1>10. ASSUME NEW v \in Workers
       PROVE  /\ Distinct(left'[v])
              /\ Items(left'[v]) \cap (Items(timeseries) \cup Items(output)) = {}
  <2>1. CASE v = w
    <3>1. left'[v] = list
      BY <1>1, <1>2, <2>1
    <3>2. Nil \notin Items(list)
      BY <1>1, ElementOfSeq, LenProperties, NilAssumption DEF Items
    <3>3. QED
      BY <1>3, <1>5, <1>6, <1>9, <3>1, <3>2 DEF Sent
  <2>2. CASE v # w
    BY <1>1, <1>2, <2>2 DEF Placed
  <2>3. QED
    BY <2>1, <2>2
<1>11. ASSUME NEW u \in Workers, NEW v \in Workers, u # v
       PROVE  Items(left'[u]) \cap Items(left'[v]) = {}
  <2>1. \A x \in Workers : Items(left[x]) \subseteq Found
    BY <1>6, <1>9 DEF Holding
  <2>2. \A x \in Workers : left'[x] = IF x = w THEN list ELSE left[x]
    BY <1>1, <1>2
  <2>3. CASE u # w /\ v # w
    BY <1>2, <1>11, <2>2, <2>3 DEF Placed
  <2>4. CASE u = w \/ v = w
    BY <1>5, <1>11, <2>1, <2>2, <2>4
  <2>5. QED
    BY <2>3, <2>4
<1>12. QED
  BY <1>2, <1>6, <1>7, <1>8, <1>9, <1>10, <1>11 DEF Placed

LEMMA PlacedSend ==
    ASSUME TypeInv, Placed, NEW w \in Workers, Send(w)
    PROVE  Placed'
<1>1. /\ left[w] # <<>> /\ left[w] \in Seq(Series) /\ DOMAIN left = Workers
      /\ output \in Seq(Series \cup {Nil})
      /\ output' = Append(output, Head(left[w]))
      /\ left' = [left EXCEPT ![w] = Tail(left[w])]
      /\ Fetching /\ Fetching' /\ pc # "answered" /\ pc' # "answered"
      /\ UNCHANGED <<fetcher, query, timeseries, results, served>>
  <2>1. /\ at[w] = "send" /\ output' = Append(output, Head(left[w]))
        /\ left' = [left EXCEPT ![w] = Tail(left[w])]
        /\ UNCHANGED <<fetcher, query, timeseries, results, served, pc>>
    BY DEF Send, request, answer, record
  <2>2. /\ left[w] \in Seq(Series) /\ DOMAIN left = Workers
        /\ output \in Seq(Series \cup {Nil})
    BY DEF TypeInv, TypeOK
  <2>3. left[w] # <<>> /\ Fetching
    BY <2>1 DEF TypeInv, Control
  <2>4. QED
    BY <2>1, <2>2, <2>3 DEF Fetching
<1> DEFINE h == Head(left[w])
<1>2. /\ h \in Series /\ h # Nil
      /\ Items(left[w]) = {h} \cup Items(left'[w])
      /\ Distinct(left'[w]) /\ h \notin Items(left'[w])
  <2>1. left'[w] = Tail(left[w]) /\ Distinct(left[w])
    BY <1>1 DEF Placed
  <2>2. QED
    BY <1>1, <2>1, ItemsOfTail, NilAssumption
<1>3. h \notin Items(output) /\ h \notin Items(timeseries)
  BY <1>1, <1>2 DEF Placed
<1>4. /\ Items(output') = Items(output) \cup {h}
      /\ Distinct(output')
  BY <1>1, <1>2, <1>3, ItemsOfAppend DEF Placed
<1>5. \A v \in Workers : v # w => left'[v] = left[v]
  BY <1>1
<1>6. \A v \in Workers : Items(left'[v]) \subseteq Items(left[v]) /\ h \notin Items(left'[v])
  <2>1. \A v \in Workers : v # w => h \notin Items(left[v])
    BY <1>1, <1>2 DEF Placed
  <2>2. QED
    BY <1>2, <1>5, <2>1
<1>7. Sent' \cup Holding' = Sent \cup Holding
  <2>1. Sent' = Sent \cup {h}
    BY <1>2, <1>4 DEF Sent
  <2>2. Holding = Holding' \cup {h}
    <3>1. Holding' \subseteq Holding
      BY <1>6 DEF Holding
    <3>2. h \in Holding
      BY <1>2 DEF Holding
    <3>3. Holding \subseteq Holding' \cup {h}
      BY <1>2, <1>5 DEF Holding
    <3>4. QED
      BY <3>1, <3>2, <3>3
  <2>3. QED
    BY <2>1, <2>2
<1>8. OfQuery(query)' = OfQuery(query) /\ ResultsHold'
  <2>1. \A q \in DOMAIN results : OfQuery(q)' = OfQuery(q)
    BY <1>1 DEF OfQuery, Found
  <2>2. ResultsHold'
    BY <1>1, <2>1, ResultsHoldOn DEF Placed
  <2>3. QED
    BY <1>1, <2>2 DEF OfQuery, Found
<1>9. ASSUME NEW v \in Workers
      PROVE  /\ Distinct(left'[v])
             /\ Items(left'[v]) \cap (Items(timeseries) \cup Items(output')) = {}
  BY <1>1, <1>2, <1>4, <1>5, <1>6 DEF Placed
<1>10. \A u, v \in Workers : u # v => Items(left'[u]) \cap Items(left'[v]) = {}
  BY <1>1, <1>6 DEF Placed
<1>11. Items(timeseries) \cap Items(output') = {}
  BY <1>1, <1>3, <1>4 DEF Placed
<1>12. Items(timeseries') \cup Sent' \cup Holding' = OfQuery(query)'
  BY <1>1, <1>7, <1>8 DEF Placed
<1>13. QED
  BY <1>1, <1>4, <1>8, <1>9, <1>10, <1>11, <1>12 DEF Placed

LEMMA PlacedCloseOutput == ASSUME TypeInv, Placed, CloseOutput PROVE Placed'
<1>1. /\ ~closed /\ output' = Append(output, Nil) /\ output \in Seq(Series \cup {Nil})
      /\ Fetching /\ Fetching' /\ pc # "answered" /\ pc' # "answered"
      /\ UNCHANGED <<fetcher, query, timeseries, results, served, left>>
  BY DEF TypeInv, TypeOK, CloseOutput, request, answer, record, Fetching
<1>2. /\ Items(output') = Items(output) \cup {Nil}
      /\ Distinct(output')
  BY <1>1, ItemsOfAppend, NilIsNowhere DEF Placed
<1>3. Sent' = Sent /\ Holding' = Holding
  BY <1>1, <1>2 DEF Sent, Holding
<1>4. OfQuery(query)' = OfQuery(query) /\ ResultsHold'
  <2>1. \A q \in DOMAIN results : OfQuery(q)' = OfQuery(q)
    BY <1>1 DEF OfQuery, Found
  <2>2. ResultsHold'
    BY <1>1, <2>1, ResultsHoldOn DEF Placed
  <2>3. QED
    BY <1>1, <2>2 DEF OfQuery, Found
<1>5. /\ Items(timeseries) \cap Items(output') = {}
      /\ \A w \in Workers :
            Items(left[w]) \cap (Items(timeseries) \cup Items(output')) = {}
  BY <1>1, <1>2, NilIsNowhere DEF Placed
<1>6. QED
  BY <1>1, <1>2, <1>3, <1>4, <1>5 DEF Placed

LEMMA PlacedCollect == ASSUME TypeInv, Placed, Collect PROVE Placed'
<1>1. /\ output # <<>> /\ output \in Seq(Series \cup {Nil}) /\ output' = Tail(output)
      /\ timeseries \in Seq(Series)
      /\ Fetching /\ pc # "answered" /\ pc' # "answered"
      /\ UNCHANGED <<fetcher, served, left>>
  BY DEF TypeInv, TypeOK, Collect, request, record, Fetching
<1>2. /\ Head(output) \in Series \cup {Nil}
      /\ Items(output) = {Head(output)} \cup Items(output')
      /\ Distinct(output') /\ Head(output) \notin Items(output')
  BY <1>1, ItemsOfTail DEF Placed
<1>3. \A q : OfQuery(q)' = OfQuery(q)
  BY <1>1 DEF OfQuery, Found
<1>4. CASE Head(output) # Nil
  <2>1. /\ timeseries' = Append(timeseries, Head(output))
        /\ UNCHANGED <<pc, query, results>>
    BY <1>4 DEF Collect
  <2>2. /\ Head(output) \in Series /\ Head(output) \notin Items(timeseries)
        /\ Distinct(timeseries)
    BY <1>1, <1>2, <1>4 DEF Placed
  <2>3. /\ Items(timeseries') = Items(timeseries) \cup {Head(output)}
        /\ Distinct(timeseries')
    BY <1>1, <2>1, <2>2, ItemsOfAppend
  <2>4. Items(timeseries') \cup Sent' \cup Holding' = OfQuery(query)'
    <3>1. Holding' = Holding /\ OfQuery(query)' = OfQuery(query)
      BY <1>1, <2>1 DEF Holding, OfQuery, Found
    <3>2. Sent = Sent' \cup {Head(output)}
      BY <1>2, <1>4 DEF Sent
    <3>3. QED
      BY <1>1, <2>3, <3>1, <3>2 DEF Placed
  <2>5. /\ Items(timeseries') \cap Items(output') = {}
        /\ \A w \in Workers :
              Items(left[w]) \cap (Items(timeseries') \cup Items(output')) = {}
    BY <1>1, <1>2, <2>3 DEF Placed
  <2>6. ResultsHold'
    BY <1>1, <1>3, <2>1, ResultsHoldOn DEF Placed
  <2>7. Fetching'
    BY <1>1, <2>1 DEF Fetching
  <2>8. QED
    BY <1>1, <1>2, <2>1, <2>3, <2>4, <2>5, <2>6, <2>7 DEF Placed
<1>5. CASE Head(output) = Nil
  <2>1. /\ results' = Append(results, timeseries) /\ timeseries' = <<>>
        /\ query' = query + 1 /\ pc' = "query"
    BY <1>5 DEF Collect
  <2>2. Items(output') = {} /\ \A w \in Workers : left[w] = <<>>
    BY <1>1, <1>5, NilIsLast, ItemsOfNone
  <2>3. Items(timeseries) = OfQuery(query) /\ Distinct(timeseries)
    <3>1. Sent = {} /\ Holding = {}
      BY <1>2, <1>5, <2>2, ItemsOfNone DEF Sent, Holding
    <3>2. QED
      BY <1>1, <3>1 DEF Placed
  <2>4. query \in Nat /\ Len(results) = query - 1 /\ results \in Seq(Seq(Series))
    BY <1>1, BoundsAssumption DEF Placed, TypeInv, TypeOK
  <2>5. /\ DOMAIN results = 1..(query - 1) /\ DOMAIN results' = 1..query
        /\ Len(results') = query
        /\ \A q \in 1..(query - 1) : results'[q] = results[q]
        /\ results'[query] = timeseries
    <3>1. results' \in Seq(Seq(Series))
      BY <1>1, <2>1, <2>4, AppendProperties
    <3>2. QED
      BY <1>1, <2>1, <2>4, <3>1, AppendProperties, LenProperties
  <2>6. ASSUME NEW q \in DOMAIN results'
        PROVE  Items(results'[q]) = OfQuery(q) /\ Distinct(results'[q])
    <3>1. q = query \/ q \in DOMAIN results
      BY <2>4, <2>5
    <3>2. QED
      BY <1>1, <2>3, <2>5, <3>1 DEF Placed, ResultsHold
  <2>7. ResultsHold'
    BY <1>3, <2>6 DEF ResultsHold
  <2>8. Len(results') = query' - 1
    BY <2>1, <2>4, <2>5
  <2>9. QED
    BY <2>1, <2>7, <2>8 DEF Placed, Fetching
<1>6. QED
  BY <1>4, <1>5

LEMMA PlacedStep == TypeInv /\ Fresh /\ Placed /\ [Next]_vars => Placed'
<1> SUFFICES ASSUME TypeInv, Fresh, Placed, [Next]_vars PROVE Placed'
  OBVIOUS
<1>1. CASE Feed \/ CloseInput
  BY <1>1, PlacedUnchanged DEF Feed, CloseInput, request, fetch, answer, record, Fetching
<1>2. ASSUME NEW w \in Workers, Take(w) \/ Exit(w) PROVE Placed'
  BY <1>2, PlacedUnchanged DEF Take, Exit, request, answer, record, Fetching
<1>3. QED
  BY <1>1, <1>2, PlacedOutside, PlacedStart, PlacedFetch, PlacedSend, PlacedCloseOutput,
     PlacedCollect DEF Next, Main, Worker, Answered, Outside

ReadInv == TypeInv /\ Fresh /\ Placed

LEMMA ReadAlways == Spec => []ReadInv
<1>1. Init => ReadInv
  BY TypeInit, FreshInit, PlacedInit DEF ReadInv
<1>2. ReadInv /\ [Next]_vars => ReadInv'
  BY TypeStep, FreshStep, PlacedStep DEF ReadInv
<1>3. QED
  BY <1>1, <1>2, PTL DEF Spec

(* However many workers race for the targets and for the channel, the       *)
(* result of a query holds what graphite sent for it, each series once, if  *)
(* FetchURL returns the bodies: fetchData and its goroutines lose nothing.  *)
THEOREM EachSeriesOnce ==
    ASSUME "utils" \notin Fetchers
    PROVE  Spec => []NothingLost
<1>1. ReadInv => NothingLost
  <2> SUFFICES ASSUME ReadInv PROVE NothingLost
    OBVIOUS
  <2>1. fetcher = "mock"
    BY FetchersAssumption DEF ReadInv, TypeInv, TypeOK
  <2>2. Found = served
    BY <2>1 DEF Found
  <2> QED BY <2>2 DEF ReadInv, Placed, ResultsHold, OfQuery, Distinct, NothingLost
<1>2. QED
  BY <1>1, ReadAlways, PTL

-----------------------------------------------------------------------------
(* The response is begun empty. *)
Beginning == pc = "decode" => results = <<>>

GatherInv == ReadInv /\ Beginning

LEMMA GatherAlways == Spec => []GatherInv
<1>1. Init => Beginning
  BY DEF Init, Beginning
<1>2. Beginning /\ [Next]_vars => Beginning'
  BY DEF Beginning, Next, Main, Worker, BadRequest, NoReader, NoURL, Read, Fail, Respond,
     EmptyRange, QueryToTargets, QueryToTargetsWithTags, StartFetch, Feed, CloseInput,
     Collect, Expire, CloseOutput, Take, Exit, TargetToTimeseries, Send, Answered, vars,
     answer
<1>3. QED
  BY <1>1, <1>2, ReadAlways, PTL DEF GatherInv, Spec

(* What is in the results was found, and is of an earlier query; all that   *)
(* was found of the earlier queries is in the results.                      *)
Given == UNION {Items(results[q]) : q \in DOMAIN results}

LEMMA GivenBasics ==
    ASSUME ReadInv, pc # "answered"
    PROVE  Given = {s \in Found : s[1] # query}
<1>1. DOMAIN results = 1..(query - 1) /\ query \in Nat
  BY LenProperties, BoundsAssumption DEF ReadInv, Placed, TypeInv, TypeOK
<1>2. \A q \in DOMAIN results : Items(results[q]) = {s \in Found : s[1] = q}
  BY DEF ReadInv, Placed, ResultsHold, OfQuery
<1>3. Given \subseteq {s \in Found : s[1] # query}
  BY <1>1, <1>2 DEF Given
<1>4. ASSUME NEW s \in Found, s[1] # query PROVE s \in Given
  <2>1. s \in served /\ s \in Series
    BY DEF Found, ReadInv, TypeInv, TypeOK
  <2>2. s[1] <= query /\ s[1] \in Nat /\ s[1] # 0
    BY <2>1 DEF ReadInv, Fresh, Series
  <2>3. s[1] \in 1..(query - 1)
    BY <1>1, <1>4, <2>2
  <2>4. QED
    BY <1>1, <1>2, <2>3 DEF Given
<1>5. QED
  BY <1>3, <1>4

(* When the query at hand holds no more, everything found is gathered.      *)
LEMMA AllGathered ==
    ASSUME ReadInv, pc # "answered"
    PROVE  /\ Gathered = Items(timeseries) \cup Given
           /\ ~Fetching => Gathered = Found /\ Gathered = Given
           /\ Items(timeseries) = OfQuery(query) => Gathered = Found
<1>1. Gathered = Items(timeseries) \cup Given
  BY DEF Gathered, Given
<1>2. Given = {s \in Found : s[1] # query}
  BY GivenBasics
<1>3. ASSUME ~Fetching PROVE Gathered = Found /\ Gathered = Given
  <2>1. Items(timeseries) = {}
    BY <1>3, ItemsOfNone DEF ReadInv, Placed
  <2>2. \A s \in Found : s[1] # query
    <3>1. ASSUME NEW s \in Found PROVE s[1] # query
      <4>1. s \in served /\ s \in Series
        BY DEF Found, ReadInv, TypeInv, TypeOK
      <4>2. s[1] < query /\ s[1] \in Nat /\ query \in Nat
        BY <1>3, <4>1, SeriesBasics, BoundsAssumption DEF ReadInv, Fresh, TypeInv, TypeOK
      <4>3. QED
        BY <4>2
    <3>2. QED
      BY <3>1
  <2>3. QED
    BY <1>1, <1>2, <2>1, <2>2
<1>4. ASSUME Items(timeseries) = OfQuery(query) PROVE Gathered = Found
  BY <1>1, <1>2, <1>4 DEF OfQuery
<1>5. QED
  BY <1>1, <1>3, <1>4

LEMMA GatherInit == Init => Response!Init
<1> SUFFICES ASSUME Init PROVE Response!Init
  OBVIOUS
<1>1. Items(timeseries) = {} /\ DOMAIN results = {} /\ Found = {}
  BY ItemsOfNone DEF Init, Found
<1>2. Gathered = {}
  BY <1>1 DEF Gathered
<1>3. queries \in Nat
  BY BoundsAssumption DEF Init
<1>4. QED
  BY <1>1, <1>2, <1>3 DEF Init, Response!Init

(* Steps that neither find nor gather, nor end a query or the read.         *)
LEMMA GatherUnchanged ==
    ASSUME UNCHANGED <<fetcher, served, timeseries, results, queries, query>>,
           pc = "answered" <=> pc' = "answered"
    PROVE  UNCHANGED Response!vars
BY DEF Response!vars, Gathered, Found

LEMMA GatherFetch ==
    ASSUME GatherInv, NEW w \in Workers, TargetToTimeseries(w)
    PROVE  Response!Next
<1>1. PICK n \in 0..MaxSeries, list \in Seq(Series) :
         /\ list = <<>> \/ list = SeriesList(job[w], n)
         /\ fetcher = "mock" => served' = served \cup Items(list)
         /\ fetcher # "mock" => list = <<>>
  BY FetchedSeries DEF GatherInv, ReadInv
<1>2. /\ Fetching /\ pc # "answered" /\ UNCHANGED <<pc, fetcher, timeseries, results>>
      /\ UNCHANGED <<queries, query>>
  <2>1. at[w] = "fetch" /\ (~Fetching => at[w] \in {"none", "done"})
    BY DEF TargetToTimeseries, GatherInv, ReadInv, TypeInv, Control
  <2>2. Fetching
    BY <2>1
  <2>3. UNCHANGED <<pc, fetcher, timeseries, results>> /\ UNCHANGED <<queries, query>>
    BY DEF TargetToTimeseries, request, answer
  <2>4. pc # "answered"
    BY <2>2 DEF Fetching
  <2> QED BY <2>2, <2>3, <2>4
<1>3. \A s \in Items(list) : s[1] = query /\ s[2] = job[w]
  <2>1. Items(SeriesList(job[w], n)) = {<<query, job[w], i>> : i \in 1..n}
    BY SeriesListBasics DEF TargetToTimeseries, GatherInv, ReadInv
  <2>2. QED
    BY <1>1, <2>1, ItemsOfNone
<1>4. Found' = Found \cup Items(list)
  BY <1>1, <1>2, ItemsOfNone DEF Found
<1>5. Items(list) \cap Found = {}
  BY <1>2, <1>3 DEF GatherInv, ReadInv, Fresh, Found
<1>6. Items(list) \in SUBSET Series
  BY <1>1, ElementOfSeq, LenProperties DEF Items
<1>7. Gathered' = Gathered
  BY <1>2 DEF Gathered
<1>8. Response!Find(Items(list))
  BY <1>2, <1>4, <1>5, <1>7 DEF Response!Find
<1>9. QED
  BY <1>6, <1>8 DEF Response!Next

LEMMA GatherCollect ==
    ASSUME GatherInv, Collect
    PROVE  Response!Next
<1>1. /\ output # <<>> /\ output \in Seq(Series \cup {Nil}) /\ output' = Tail(output)
      /\ timeseries \in Seq(Series) /\ results \in Seq(Seq(Series))
      /\ Fetching /\ pc # "answered" /\ pc' # "answered"
      /\ UNCHANGED <<fetcher, served, queries>> /\ Found' = Found
  BY DEF GatherInv, ReadInv, TypeInv, TypeOK, Collect, request, record, Fetching, Found
<1>2. /\ Head(output) \in Series \cup {Nil}
      /\ Items(output) = {Head(output)} \cup Items(output')
      /\ Distinct(output) => Head(output) \notin Items(output')
  BY <1>1, ItemsOfTail
<1>3. Gathered = Items(timeseries) \cup Given /\ Given = {s \in Found : s[1] # query}
  BY <1>1, AllGathered, GivenBasics DEF GatherInv
<1>4. CASE Head(output) # Nil
  <2>1. /\ timeseries' = Append(timeseries, Head(output)) /\ Head(output) \in Series
        /\ UNCHANGED <<pc, query, results>>
    BY <1>2, <1>4 DEF Collect
  <2>2. Head(output) \in OfQuery(query) /\ Head(output) \notin Items(timeseries)
    BY <1>1, <1>2, <1>4 DEF GatherInv, ReadInv, Placed, Sent
  <2>3. Head(output) \in Found \ Gathered
    BY <1>3, <2>2 DEF OfQuery
  <2>4. Items(timeseries') = Items(timeseries) \cup {Head(output)}
    BY <1>1, <2>1, ItemsOfAppend
  <2>5. Gathered' = Gathered \cup {Head(output)}
    BY <2>1, <2>4 DEF Gathered
  <2>6. Response!Add(Head(output))
    BY <1>1, <2>1, <2>3, <2>5 DEF Response!Add
  <2>7. QED
    BY <2>1, <2>6 DEF Response!Next
<1>5. CASE Head(output) = Nil
  <2>1. /\ results' = Append(results, timeseries) /\ timeseries' = <<>>
        /\ query' = query + 1 /\ query <= queries /\ query \in Nat /\ queries \in Nat
    BY <1>1, <1>5, BoundsAssumption
       DEF Collect, GatherInv, ReadInv, TypeInv, TypeOK, Control
  <2>2. Items(timeseries) = OfQuery(query)
    <3>1. output' = <<>> /\ \A w \in Workers : left[w] = <<>>
      BY <1>1, <1>5, NilIsLast DEF GatherInv, ReadInv
    <3>2. Sent = {} /\ Holding = {}
      BY <1>2, <1>5, <3>1, ItemsOfNone DEF Sent, Holding
    <3>3. QED
      BY <1>1, <3>2 DEF GatherInv, ReadInv, Placed
  <2>3. Gathered = Found
    BY <1>1, <2>2, AllGathered DEF GatherInv
  <2>4. Gathered' = Gathered
    <3>1. results' \in Seq(Seq(Series))
      BY <1>1, <2>1, AppendProperties
    <3>2. /\ DOMAIN results' = DOMAIN results \cup {Len(results) + 1}
          /\ \A q \in DOMAIN results : results'[q] = results[q]
          /\ results'[Len(results) + 1] = timeseries
      BY <1>1, <2>1, <3>1, AppendProperties, LenProperties
    <3>3. UNION {Items(results'[q]) : q \in DOMAIN results'} = Given \cup Items(timeseries)
      BY <3>2 DEF Given
    <3>4. Items(timeseries') = {}
      BY <2>1, ItemsOfNone
    <3>5. QED
      BY <1>3, <3>3, <3>4 DEF Gathered
  <2>5. query - 1 < queries /\ query' - 1 = (query - 1) + 1
    BY <2>1
  <2>6. Response!EndQuery
    BY <1>1, <2>3, <2>4, <2>5 DEF Response!EndQuery
  <2>7. QED
    BY <2>6 DEF Response!Next
<1>6. QED
  BY <1>4, <1>5

LEMMA GatherOutside ==
    ASSUME GatherInv, Outside
    PROVE  Response!Next \/ UNCHANGED Response!vars
<1>1. UNCHANGED <<fetcher, served, timeseries, queries>> /\ Found' = Found
  BY DEF Outside, BadRequest, NoReader, NoURL, Read, Fail, Respond, EmptyRange, Expire,
     vars, request, answer, record, Found
<1>2. CASE Read \/ Expire \/ UNCHANGED vars
  BY <1>1, <1>2, GatherUnchanged DEF Read, Expire, vars, answer
<1>3. CASE BadRequest \/ NoReader \/ NoURL \/ Fail
  <2>1. /\ pc # "answered" /\ ~Fetching /\ pc' = "answered" /\ query' = query
        /\ results' \in {<<>>, << <<>> >>}
    BY <1>3 DEF BadRequest, NoReader, NoURL, Fail, GatherInv, Beginning, Fetching
  <2>2. Items(timeseries') = {}
    BY <1>1, <2>1, ItemsOfNone DEF GatherInv, ReadInv, Placed
  <2>3. \A q \in DOMAIN results' : results'[q] = <<>>
    BY <2>1
  <2>4. Gathered' = {}
    BY <2>2, <2>3, ItemsOfNone DEF Gathered
  <2>5. Response!GiveUp
    BY <1>1, <2>1, <2>4 DEF Response!GiveUp
  <2>6. QED
    BY <2>5 DEF Response!Next
<1>4. CASE Respond
  <2>1. /\ pc # "answered" /\ pc' = "answered" /\ query > queries
        /\ UNCHANGED <<query, results>>
    BY <1>4 DEF Respond
  <2>2. query - 1 = queries
    <3>1. query \in 1..(queries + 1) /\ queries \in Nat
      BY BoundsAssumption DEF GatherInv, ReadInv, TypeInv, TypeOK
    <3>2. QED
      BY <2>1, <3>1
  <2>3. Gathered' = Gathered
    BY <1>1, <2>1 DEF Gathered
  <2>4. Response!Finish
    BY <1>1, <2>1, <2>2, <2>3 DEF Response!Finish
  <2>5. QED
    BY <2>4 DEF Response!Next
<1>5. CASE EmptyRange
  <2>1. /\ pc = "query" /\ ~Fetching /\ query <= queries /\ UNCHANGED pc
        /\ results' = Append(results, <<>>) /\ query' = query + 1
    BY <1>5 DEF EmptyRange, Fetching
  <2>2. Gathered = Found
    BY <2>1, AllGathered DEF GatherInv
  <2>3. Gathered' = Gathered
    <3>1. results \in Seq(Seq(Series)) /\ <<>> \in Seq(Series)
      BY EmptySeq DEF GatherInv, ReadInv, TypeInv, TypeOK
    <3>2. results' \in Seq(Seq(Series))
      BY <2>1, <3>1, AppendProperties
    <3>3. /\ DOMAIN results' = DOMAIN results \cup {Len(results) + 1}
          /\ \A q \in DOMAIN results : results'[q] = results[q]
          /\ results'[Len(results) + 1] = <<>>
      BY <2>1, <3>1, <3>2, AppendProperties, LenProperties
    <3>4. UNION {Items(results'[q]) : q \in DOMAIN results'} = Given
      BY <3>3, ItemsOfNone DEF Given
    <3>5. QED
      BY <1>1, <3>4 DEF Gathered, Given
  <2>4. query - 1 < queries /\ query' - 1 = (query - 1) + 1
    <3>1. query \in Nat /\ queries \in Nat
      BY BoundsAssumption DEF GatherInv, ReadInv, TypeInv, TypeOK
    <3>2. QED
      BY <2>1, <3>1
  <2>5. Response!EndQuery
    BY <1>1, <2>1, <2>2, <2>3, <2>4 DEF Response!EndQuery
  <2>6. QED
    BY <2>5 DEF Response!Next
<1>6. QED
  BY <1>2, <1>3, <1>4, <1>5 DEF Outside

LEMMA GatherStep == GatherInv /\ [Next]_vars => [Response!Next]_Response!vars
<1> SUFFICES ASSUME GatherInv, [Next]_vars PROVE Response!Next \/ UNCHANGED Response!vars
  OBVIOUS
<1>1. CASE QueryToTargets \/ QueryToTargetsWithTags
  <2>1. /\ UNCHANGED <<fetcher, served, queries, query, results>>
        /\ pc # "answered" /\ pc' # "answered" /\ timeseries = <<>>
    BY <1>1 DEF QueryToTargets, QueryToTargetsWithTags, StartFetch, request, record,
       GatherInv, ReadInv, Placed, Fetching
  <2>2. timeseries' = timeseries
    BY <1>1, <2>1 DEF QueryToTargets, QueryToTargetsWithTags, StartFetch
  <2>3. QED
    BY <2>1, <2>2, GatherUnchanged
<1>2. CASE Feed \/ CloseInput \/ CloseOutput
  BY <1>2, GatherUnchanged DEF Feed, CloseInput, CloseOutput, request, fetch, answer, record
<1>3. ASSUME NEW w \in Workers, Take(w) \/ Exit(w) \/ Send(w)
      PROVE  UNCHANGED Response!vars
  BY <1>3, GatherUnchanged DEF Take, Exit, Send, request, answer, record
<1>4. QED
  BY <1>1, <1>2, <1>3, GatherFetch, GatherCollect, GatherOutside
     DEF Next, Main, Worker, Answered, Outside

(* The pool of fetchers, for any number of workers, queries, targets and    *)
(* series, is a Gather: a query ends only when all that was found for it is *)
(* in the response, and the response has all of it or nothing.              *)
THEOREM RemoteReadImplements == Spec => AllOrNothing
BY GatherInit, GatherStep, GatherAlways, PTL DEF Spec, AllOrNothing, Response!Spec

-----------------------------------------------------------------------------
(* While a query is fetched its workers have started, and a channel that is *)
(* closed has the nil at its end until the loop takes it.                   *)
PoolInv ==
    /\ Fetching => \A w \in Workers : at[w] # "none"
    /\ pc = "collect" /\ closed => output # <<>> /\ output[Len(output)] = Nil

LEMMA PoolStep == TypeInv /\ PoolInv /\ [Next]_vars => PoolInv'
<1> SUFFICES ASSUME TypeInv, PoolInv, [Next]_vars PROVE PoolInv'
  OBVIOUS
<1> USE DEF Fetching, PoolInv
<1>1. CASE Outside
  BY <1>1 DEF Outside, BadRequest, NoReader, NoURL, Read, Fail, Respond, EmptyRange, Expire,
              fetch, vars
<1>2. CASE QueryToTargets \/ QueryToTargetsWithTags
  BY <1>2 DEF QueryToTargets, QueryToTargetsWithTags, StartFetch
<1>3. CASE Feed \/ CloseInput
  BY <1>3 DEF Feed, CloseInput, fetch, TypeInv, Control
<1>4. ASSUME NEW w \in Workers, Take(w) PROVE PoolInv'
  BY <1>4 DEF Take, TypeInv, TypeOK
<1>5. ASSUME NEW w \in Workers, Exit(w) PROVE PoolInv'
  BY <1>5 DEF Exit, TypeInv, TypeOK
<1>6. ASSUME NEW w \in Workers, TargetToTimeseries(w) PROVE PoolInv'
  BY <1>6 DEF TargetToTimeseries, TypeInv, TypeOK
<1>7. ASSUME NEW w \in Workers, Send(w) PROVE PoolInv'
  <2>1. ~(Fetching /\ closed)
    BY <1>7 DEF Send, TypeInv, Control
  <2>2. QED
    BY <1>7, <2>1 DEF Send, TypeInv, TypeOK
<1>8. CASE CloseOutput
  <2>1. /\ output \in Seq(Series \cup {Nil}) /\ output' = Append(output, Nil)
        /\ Nil \in Series \cup {Nil}
    BY <1>8 DEF CloseOutput, TypeInv, TypeOK
  <2>2. output' # <<>> /\ output'[Len(output')] = Nil
    BY <2>1, AppendProperties
  <2>3. QED
    BY <1>8, <2>2 DEF CloseOutput
<1>9. CASE Collect
  <2>1. CASE Head(output) = Nil
    BY <1>9, <2>1 DEF Collect
  <2>2. CASE Head(output) # Nil
    <3>1. /\ pc = "collect" /\ output # <<>> /\ output \in Seq(Series \cup {Nil})
          /\ output' = Tail(output) /\ UNCHANGED <<pc, at, closed>>
      BY <1>9, <2>2 DEF Collect, TypeInv, TypeOK
    <3>2. ASSUME closed PROVE output' # <<>> /\ output'[Len(output')] = Nil
      <4>1. output[Len(output)] = Nil /\ Len(output) \in Nat \ {0}
        BY <3>1, <3>2, EmptySeq, LenProperties
      <4>2. Head(output) = output[1]
        BY <3>1
      <4>3. Len(output) > 1
        BY <2>2, <4>1, <4>2
      <4>4. /\ Len(output') = Len(output) - 1
            /\ \A i \in 1..Len(output') : output'[i] = output[i + 1]
        BY <3>1, HeadTailProperties
      <4>5. output'[Len(output')] = output[Len(output)]
        BY <4>1, <4>3, <4>4
      <4>6. Len(<<>>) = 0
        OBVIOUS
      <4>7. QED
        BY <4>1, <4>3, <4>4, <4>5, <4>6
    <3>3. QED
      BY <3>1, <3>2
  <2>3. QED
    BY <2>1, <2>2
<1>10. QED
  BY <1>1, <1>2, <1>3, <1>4, <1>5, <1>6, <1>7, <1>8, <1>9
     DEF Next, Main, Worker, Answered, Outside

(* The pool of fetchers never stands still while the collecting loop waits, *)
(* for any number of workers, targets and series: input is closed by then,  *)
(* and an empty output has room for whatever comes next, the nil included.  *)
THEOREM PoolNeverStandsStill == Spec => []PoolGoesOn
<1>1. TypeInv /\ PoolInv => PoolGoesOn
  <2> SUFFICES ASSUME TypeInv, PoolInv, pc = "collect", output = <<>>
               PROVE  /\ \A w \in Workers : Held(w) => at[w] = "done"
                      /\ Room /\ ~closed
    BY DEF PoolGoesOn
  <2>1. Room
    <3>1. Len(output) = 0 /\ targets \in Nat
      BY BoundsAssumption DEF TypeInv, TypeOK
    <3>2. QED
      BY <3>1 DEF Room
  <2>2. ~closed
    BY DEF PoolInv
  <2>3. \A w \in Workers : Held(w) => at[w] = "done"
    BY <2>1 DEF Held, InputClosed, PoolInv, Fetching
  <2>4. QED
    BY <2>1, <2>2, <2>3
<1>2. Init => PoolInv
  BY DEF Init, PoolInv, Fetching
<1>3. TypeInv /\ PoolInv /\ [Next]_vars => PoolInv'
  BY PoolStep
<1>4. QED
  BY TypeAlways, <1>1, <1>2, <1>3, PTL DEF Spec

=============================================================================
