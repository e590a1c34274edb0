-------------------------- MODULE PathsCacheProofs --------------------------
(***************************************************************************)
(* Proofs about PathsCache.  The invariant knows an entry by the edition   *)
(* it was made under: what it holds is what the rules of that edition make *)
(* of a metric with its fingerprint, for some prefix, and under a          *)
(* configuration that enables the cache that edition is the current one.   *)
(***************************************************************************)
EXTENDS PathsCache, WellFoundedInduction, TLAPS

HistoryInv ==
    /\ running \in BOOLEAN
    /\ history \in Seq(Configs)
    /\ Edition \in Nat \ {0}

JobInv ==
    \A r \in Requests : at[r] # "idle" =>
        Cfg.client /\ metric[r] \in Metrics /\ prefix[r] \in Prefixes

(* The rules make paths of a metric with the fingerprint k, without panic.   *)
MadeOf(k, m, p, rules, paths) ==
    /\ FastFingerprint[m] = k
    /\ ~Panics(m, rules)
    /\ paths = Paths(m, p, rules)

EntryInv ==
    \A k \in DOMAIN pathsCache :
        /\ pathsCache[k].edition \in 1..Edition
        /\ \E m \in Metrics, p \in Prefixes :
              MadeOf(k, m, p, history[pathsCache[k].edition].rules, pathsCache[k].paths)

ShapeInv ==
    /\ at \in [Requests -> {"idle", "get", "miss", "return"}]
    /\ metric \in [Requests -> Metrics \cup {None}]
    /\ prefix \in [Requests -> Prefixes \cup {None}]
    /\ DOMAIN result = Requests
    /\ result = [r \in Requests |-> result[r]]

CacheInv ==
    /\ HistoryInv
    /\ ShapeInv
    /\ JobInv
    /\ EntryInv
    /\ CacheIsCurrent
    /\ AnswersFollowTheRules

-----------------------------------------------------------------------------
(* What the loop over the rules returns, by induction on its turns.         *)

(* Induction, used below as the least counterexample.                      *)
LEMMA LeastElement ==
    ASSUME NEW T \in SUBSET Nat, T # {}
    PROVE  \E x \in T : \A y \in T : x <= y
<1>1. IsWellFoundedOn(OpToRel(<, Nat), Nat)
  BY NatLessThanWellFounded
<1>2. \E x \in T : \A y \in T : <<y, x>> \notin OpToRel(<, Nat)
  BY <1>1, WFMin
<1>3. PICK x \in T : \A y \in T : <<y, x>> \notin OpToRel(<, Nat)
  BY <1>2
<1>4. ASSUME NEW y \in T PROVE x <= y
  <2>1. ~(y < x)
    BY <1>3 DEF OpToRel
  <2>2. QED
    BY <2>1
<1>5. QED
  BY <1>4

LEMMA FirstIsLeast ==
    ASSUME NEW S \in SUBSET Nat, S # {}
    PROVE  First(S) \in S /\ \A j \in S : First(S) <= j
  BY LeastElement DEF First

(* One turn of the loop over the rules, and a table of all its turns.      *)
Turn(m, rules, before, i) ==
    IF m \in rules[i].match THEN Append(before, <<rules[i].template, m>>) ELSE before

LoopOf(g, m, rules, last) ==
    g = [i \in 0..last |->
            IF i = 0 THEN <<>>
            ELSE IF m \in rules[i].match
                 THEN Append(g[i - 1], <<rules[i].template, m>>)
                 ELSE g[i - 1]]

LEMMA LoopExists ==
    ASSUME NEW m, NEW rules, NEW last \in Nat
    PROVE  \E g : LoopOf(g, m, rules, last)
<1> DEFINE T == {k \in Nat : ~ \E g : LoopOf(g, m, rules, k)}
<1>1. SUFFICES ASSUME T # {} PROVE FALSE
  OBVIOUS
<1>2. PICK k \in T : \A j \in T : k <= j
  BY <1>1, LeastElement
<1>3. k # 0
  <2>1. LoopOf([i \in 0..0 |-> <<>>], m, rules, 0)
    BY DEF LoopOf
  <2>2. QED
    BY <2>1
<1>4. k - 1 \in Nat /\ k - 1 \notin T
  BY <1>2, <1>3
<1>5. PICK g : LoopOf(g, m, rules, k - 1)
  BY <1>4
<1>6. LoopOf([i \in 0..k |-> IF i = k THEN Turn(m, rules, g[k - 1], k) ELSE g[i]], m, rules, k)
  <2> DEFINE h == [i \in 0..k |-> IF i = k THEN Turn(m, rules, g[k - 1], k) ELSE g[i]]
  <2>1. \A i \in 0..(k - 1) : h[i] = g[i]
    BY <1>4
  <2>2. h[k] = Turn(m, rules, g[k - 1], k)
    BY <1>4
  <2>3. \A i \in 0..(k - 1) : g[i] = IF i = 0 THEN <<>> ELSE Turn(m, rules, g[i - 1], i)
    BY <1>5 DEF LoopOf, Turn
  <2>4. DOMAIN h = 0..k /\ h = [i \in 0..k |-> h[i]]
    OBVIOUS
  <2> HIDE DEF h
  <2>5. \A i \in 0..k : h[i] = IF i = 0 THEN <<>> ELSE Turn(m, rules, h[i - 1], i)
    <3>1. SUFFICES ASSUME NEW i \in 0..k
                   PROVE  h[i] = IF i = 0 THEN <<>> ELSE Turn(m, rules, h[i - 1], i)
      OBVIOUS
    <3>2. CASE i = k
      <4>1. h[k - 1] = g[k - 1]
        BY <1>4, <2>1
      <4>2. QED
        BY <1>3, <2>2, <3>2, <4>1
    <3>3. CASE i # k
      <4>1. i \in 0..(k - 1)
        BY <3>1, <3>3, <1>4
      <4>2. CASE i = 0
        BY <4>1, <4>2, <2>1, <2>3
      <4>3. CASE i # 0
        <5>1. i - 1 \in 0..(k - 1)
          BY <4>1, <4>3
        <5>2. QED
          BY <4>1, <4>3, <5>1, <2>1, <2>3
      <4>4. QED
        BY <4>2, <4>3
    <3>4. QED
      BY <3>2, <3>3
  <2>6. LoopOf(h, m, rules, k)
    BY <2>4, <2>5 DEF LoopOf, Turn
  <2>7. QED
    BY <2>6 DEF h
<1>7. QED
  BY <1>6

LEMMA LoopTurns ==
    ASSUME NEW m, NEW rules, NEW last \in Nat
    PROVE  \E g : LoopOf(g, m, rules, last) /\ Appended(m, rules, last) = g[last]
<1> DEFINE paths == CHOOSE paths : LoopOf(paths, m, rules, last)
<1>1. LoopOf(paths, m, rules, last)
  BY LoopExists, Zenon
<1>2. Appended(m, rules, last) = paths[last]
  BY Zenon DEF LoopOf, Appended
<1>3. QED
  BY <1>1, <1>2, Zenon

(* The loop appends paths only, when the rules it executes have templates.  *)
LEMMA AppendedTyped ==
    ASSUME NEW m \in Metrics, NEW rules, NEW last \in Nat,
           \A i \in 1..last : m \in rules[i].match => rules[i].template \in Templates
    PROVE  Appended(m, rules, last) \in PathLists
<1>1. PICK g : LoopOf(g, m, rules, last) /\ Appended(m, rules, last) = g[last]
  BY LoopTurns
<1> DEFINE Wrong == {i \in 0..last : g[i] \notin PathLists}
<1>2. Wrong = {}
  <2>1. SUFFICES ASSUME Wrong # {} PROVE FALSE
    OBVIOUS
  <2>2. PICK i \in Wrong : \A j \in Wrong : i <= j
    <3>1. Wrong \in SUBSET Nat
      OBVIOUS
    <3> HIDE DEF Wrong
    <3>2. QED
      BY <2>1, <3>1, LeastElement
  <2>3. i # 0
    BY <1>1, <2>2 DEF LoopOf, PathLists
  <2>4. i \in 1..last /\ i - 1 \in 0..last /\ g[i - 1] \in PathLists
    BY <2>2, <2>3
  <2>5. g[i] = IF m \in rules[i].match THEN Append(g[i - 1], <<rules[i].template, m>>)
               ELSE g[i - 1]
    BY <1>1, <2>3, <2>4 DEF LoopOf
  <2>6. g[i] \in PathLists
    <3>1. CASE m \in rules[i].match
      <4>1. <<rules[i].template, m>> \in (Templates \cup Prefixes) \X Metrics
        BY <2>4, <3>1
      <4>2. QED
        BY <2>4, <2>5, <3>1, <4>1 DEF PathLists
    <3>2. QED
      BY <2>4, <2>5, <3>1
  <2>7. QED
    BY <2>2, <2>6
<1>3. QED
  BY <1>1, <1>2

Rule == [match : SUBSET Metrics, fails : SUBSET Metrics,
         template : Templates \cup {NoTemplate}, continue : BOOLEAN]

RuleList == Seq(Rule)

(* The rules whose templates are executed have one: a rule that has none    *)
(* panics if it continues, and ends the loop and silences the metric if not. *)
LEMMA PathsTyped ==
    ASSUME NEW m \in Metrics, NEW p \in Prefixes, NEW rules \in RuleList,
           ~Panics(m, rules)
    PROVE  Paths(m, p, rules) \in PathLists
<1>1. \A i \in 1..Len(rules) :
        /\ rules[i].template \in Templates \cup {NoTemplate}
        /\ rules[i].continue \in BOOLEAN
  <2>1. ASSUME NEW i \in 1..Len(rules)
        PROVE  rules[i] \in Rule
    BY <2>1 DEF RuleList
  <2>2. QED
    BY <2>1 DEF Rule
<1>2. DOMAIN rules = 1..Len(rules) /\ Len(rules) \in Nat
  BY DEF RuleList
<1> DEFINE E == Ends(m, rules)
           last == LastExecuted(m, rules)
<1>3. E \in SUBSET Nat /\ E \subseteq 1..Len(rules)
  BY <1>2 DEF Ends
<1>4. E # {} => First(E) \in E /\ \A j \in E : First(E) <= j
  BY <1>3, FirstIsLeast
<1>5. TemplatedPaths(m, rules) \in PathLists
  <2>1. CASE Silenced(m, rules)
    BY <2>1 DEF TemplatedPaths, PathLists
  <2>2. CASE ~Silenced(m, rules)
    <3>1. last \in Nat /\ last <= Len(rules) /\ (E # {} => last <= First(E))
      BY <1>2, <1>3, <1>4 DEF LastExecuted
    <3>2. ASSUME NEW i \in 1..last, m \in rules[i].match
          PROVE  rules[i].template \in Templates
      <4>1. i \in 1..Len(rules)
        BY <3>1
      <4>2. CASE i \in E
        <5>1. i = First(E)
          BY <1>3, <1>4, <3>1, <4>2
        <5>2. rules[i].template # NoTemplate
          BY <2>2, <4>2, <5>1 DEF Silenced
        <5>3. QED
          BY <1>1, <4>1, <5>2
      <4>3. CASE i \notin E
        <5>1. rules[i].continue
          BY <1>1, <1>2, <3>2, <4>1, <4>3 DEF Ends
        <5>2. \A j \in E : i <= j
          <6>1. SUFFICES ASSUME NEW j \in E PROVE i <= j
            OBVIOUS
          <6>2. First(E) \in Nat /\ j \in Nat /\ First(E) <= j /\ last <= First(E)
            BY <1>3, <1>4, <3>1
          <6>3. QED
            BY <3>1, <6>2
        <5>3. rules[i].template # NoTemplate
          BY <1>2, <3>2, <4>1, <5>1, <5>2 DEF Panics
        <5>4. QED
          BY <1>1, <4>1, <5>3
      <4>4. QED
        BY <4>2, <4>3
    <3>3. Appended(m, rules, last) \in PathLists
      BY <3>1, <3>2, AppendedTyped
    <3>4. QED
      BY <2>2, <3>3 DEF TemplatedPaths
  <2>3. QED
    BY <2>1, <2>2
<1>6. DefaultPath(m, p) \in (Templates \cup Prefixes) \X Metrics
  BY DEF DefaultPath
<1>7. QED
  BY <1>5, <1>6 DEF Paths, PathLists

-----------------------------------------------------------------------------
(* What AnswersFollowTheRules says of one answer.                           *)
Answers(n, p, m, own, answer) ==
    /\ FastFingerprint[n] = FastFingerprint[m]
    /\ ~Panics(n, Cfg.rules)
    /\ answer.paths = Paths(n, p, Cfg.rules)
    /\ answer.err => n = m /\ p = own /\ Fails(n, Cfg.rules)

LEMMA AnswersRestated ==
    AnswersFollowTheRules <=>
        \A r \in Requests : at[r] = "return" /\ Cfg.cache =>
            \E n \in Metrics, p \in Prefixes :
                Answers(n, p, metric[r], prefix[r], result[r])
  BY DEF AnswersFollowTheRules, Answers

LEMMA CacheInit == Init => CacheInv
<1> SUFFICES ASSUME Init PROVE CacheInv
  OBVIOUS
<1>1. PICK c \in Configs : history = <<c>>
  BY DEF Init
<1>2. HistoryInv /\ ShapeInv /\ JobInv
  BY <1>1 DEF Init, HistoryInv, ShapeInv, JobInv, Edition
<1>3. DOMAIN pathsCache = {}
  BY DEF Init
<1>4. EntryInv /\ CacheIsCurrent /\ AnswersFollowTheRules
  BY <1>3 DEF Init, EntryInv, CacheIsCurrent, AnswersFollowTheRules
<1>5. QED
  BY <1>2, <1>4 DEF CacheInv

LEMMA CacheReload ==
    ASSUME CacheInv, NEW c \in Configs, NewClient(c)
    PROVE  CacheInv'
<1>1. history' = Append(history, c) /\ history' \in Seq(Configs)
  BY DEF CacheInv, HistoryInv, NewClient
<1>2. Edition' = Edition + 1 /\ Edition \in Nat \ {0} /\ Cfg' = c
  BY <1>1 DEF CacheInv, HistoryInv, Edition, Cfg
<1>3. \A e \in 1..Edition : history'[e] = history[e]
  BY <1>1 DEF CacheInv, HistoryInv, Edition
<1>4. HistoryInv'
  BY <1>1, <1>2 DEF CacheInv, HistoryInv, NewClient
<1>5. ShapeInv' /\ JobInv' /\ AnswersFollowTheRules'
  BY DEF CacheInv, ShapeInv, JobInv, AnswersFollowTheRules, NewClient, jobVars
<1>6. CASE c.client /\ c.cache
  <2>1. DOMAIN pathsCache' = {}
    BY <1>6 DEF NewClient, InitPathsCache
  <2>2. EntryInv' /\ CacheIsCurrent'
    BY <2>1 DEF EntryInv, CacheIsCurrent
  <2>3. QED
    BY <1>4, <1>5, <2>2 DEF CacheInv
<1>7. CASE ~(c.client /\ c.cache)
  <2>1. pathsCache' = pathsCache
    BY <1>7 DEF NewClient, cacheVars
  <2>2. EntryInv'
    BY <1>2, <1>3, <2>1 DEF CacheInv, EntryInv, MadeOf
  <2>3. CacheIsCurrent'
    BY <1>2, <1>7 DEF CacheIsCurrent
  <2>4. QED
    BY <1>4, <1>5, <2>2, <2>3 DEF CacheInv
<1>8. QED
  BY <1>6, <1>7

LEMMA CacheBegin ==
    ASSUME CacheInv, NEW r \in Requests, NEW m \in Metrics, NEW p \in Prefixes, Begin(r, m, p)
    PROVE  CacheInv'
<1>1. /\ running' = running /\ history' = history /\ pathsCache' = pathsCache
      /\ Edition' = Edition /\ Cfg' = Cfg
  BY DEF Begin, cacheVars, Edition, Cfg
<1>2. HistoryInv' /\ EntryInv' /\ CacheIsCurrent'
  BY <1>1 DEF CacheInv, HistoryInv, EntryInv, CacheIsCurrent
<1>3. ShapeInv'
  BY DEF CacheInv, ShapeInv, Begin
<1>4. JobInv'
  BY <1>1 DEF CacheInv, ShapeInv, JobInv, Begin
<1>5. AnswersFollowTheRules'
  BY <1>1 DEF CacheInv, ShapeInv, AnswersFollowTheRules, Begin
<1>6. QED
  BY <1>2, <1>3, <1>4, <1>5 DEF CacheInv

(* What the other requests have been answered stays as it was.              *)
LEMMA CacheTranslate ==
    ASSUME CacheInv, NEW r \in Requests, Translate(r)
    PROVE  CacheInv'
<1> DEFINE m == metric[r]
<1>1. history' = history /\ Edition' = Edition /\ Cfg' = Cfg /\ Edition \in Nat \ {0}
  BY DEF CacheInv, HistoryInv, Translate, Get, Compute, Panic, Return, Edition, Cfg
<1>2. HistoryInv'
  BY <1>1 DEF CacheInv, HistoryInv, Translate, Get, Compute, Panic, Return
<1>3. m \in Metrics /\ prefix[r] \in Prefixes /\ Cfg.client
  BY DEF CacheInv, JobInv, Translate, Get, Compute, Panic, Return
<1>4. CASE Get(r)
  <2>1. pathsCache' = pathsCache /\ metric' = metric /\ prefix' = prefix
    BY <1>4 DEF Get, cacheVars
  <2>2. EntryInv' /\ CacheIsCurrent'
    BY <1>1, <2>1 DEF CacheInv, EntryInv, CacheIsCurrent
  <2>3. CASE pathsCacheEnabled /\ Key(m) \in DOMAIN pathsCache
    <3>1. /\ at' = [at EXCEPT ![r] = "return"]
          /\ result' = [result EXCEPT ![r] =
                          [paths |-> pathsCache[Key(m)].paths, err |-> FALSE]]
      BY <1>4, <2>3 DEF Get
    <3>2. ShapeInv' /\ JobInv'
      BY <1>1, <1>3, <2>1, <3>1 DEF CacheInv, ShapeInv, JobInv
    <3>3. ASSUME Cfg.cache
          PROVE  \E n \in Metrics, p \in Prefixes :
                    MadeOf(Key(m), n, p, Cfg.rules, pathsCache[Key(m)].paths)
      <4>1. pathsCache[Key(m)].edition = Edition
        BY <1>3, <2>3, <3>3 DEF CacheInv, CacheIsCurrent
      <4>2. QED
        BY <2>3, <4>1 DEF CacheInv, EntryInv, Cfg
    <3>4. AnswersFollowTheRules'
      <4>1. ASSUME NEW q \in Requests, at'[q] = "return", Cfg.cache
            PROVE  \E n \in Metrics, p \in Prefixes :
                      Answers(n, p, metric[q], prefix[q], result'[q])
        <5>1. CASE q = r
          <6>1. result'[q] = [paths |-> pathsCache[Key(m)].paths, err |-> FALSE]
            BY <3>1, <5>1 DEF CacheInv, ShapeInv
          <6>2. PICK n \in Metrics, p \in Prefixes :
                    MadeOf(Key(m), n, p, Cfg.rules, pathsCache[Key(m)].paths)
            BY <3>3, <4>1
          <6>3. Answers(n, p, metric[q], prefix[q], result'[q])
            BY <5>1, <6>1, <6>2 DEF MadeOf, Answers, Key
          <6>4. QED
            BY <6>3
        <5>2. CASE q # r
          <6>1. at[q] = "return" /\ result'[q] = result[q]
            BY <3>1, <4>1, <5>2 DEF CacheInv, ShapeInv
          <6>2. QED
            BY <4>1, <6>1, AnswersRestated DEF CacheInv
        <5>3. QED
          BY <5>1, <5>2
      <4>2. QED
        BY <1>1, <2>1, <4>1 DEF AnswersFollowTheRules, Answers
    <3>5. QED
      BY <1>2, <2>2, <3>2, <3>4 DEF CacheInv
  <2>4. CASE ~(pathsCacheEnabled /\ Key(m) \in DOMAIN pathsCache)
    <3>1. at' = [at EXCEPT ![r] = "miss"] /\ result' = result
      BY <1>4, <2>4 DEF Get
    <3>2. ShapeInv' /\ JobInv' /\ AnswersFollowTheRules'
      BY <1>1, <1>3, <2>1, <3>1 DEF CacheInv, ShapeInv, JobInv, AnswersFollowTheRules
    <3>3. QED
      BY <1>2, <2>2, <3>2 DEF CacheInv
  <2>5. QED
    BY <2>3, <2>4
<1>5. CASE Compute(r)
  <2> DEFINE paths == Paths(m, prefix[r], Cfg.rules)
             entry == [paths |-> paths, life |-> pathsCacheTTL, edition |-> Edition]
  <2>1. /\ at' = [at EXCEPT ![r] = "return"]
        /\ metric' = metric /\ prefix' = prefix
        /\ result' = [result EXCEPT ![r] = [paths |-> paths, err |-> Fails(m, Cfg.rules)]]
        /\ pathsCache' = IF pathsCacheEnabled THEN Updated(pathsCache, Key(m), entry)
                         ELSE pathsCache
    BY <1>5 DEF Compute
  <2>2. ShapeInv' /\ JobInv'
    BY <1>1, <1>3, <2>1 DEF CacheInv, ShapeInv, JobInv
  <2>3. ~Panics(m, Cfg.rules)
    BY <1>5 DEF Compute
  <2>4. /\ entry.edition = Edition
        /\ MadeOf(Key(m), m, prefix[r], history[Edition].rules, entry.paths)
    BY <2>3 DEF MadeOf, Key, Cfg
  <2> HIDE DEF entry
  <2>5. EntryInv' /\ CacheIsCurrent'
    <3>1. CASE pathsCacheEnabled
      <4>1. /\ DOMAIN pathsCache' = DOMAIN pathsCache \cup {Key(m)}
            /\ pathsCache'[Key(m)] = entry
            /\ \A k \in DOMAIN pathsCache : k # Key(m) => pathsCache'[k] = pathsCache[k]
        BY <2>1, <3>1 DEF Updated
      <4>2. CacheIsCurrent'
        BY <1>1, <2>4, <4>1 DEF CacheInv, CacheIsCurrent
      <4>3. ASSUME NEW k \in DOMAIN pathsCache'
            PROVE  /\ pathsCache'[k].edition \in 1..Edition
                   /\ \E n \in Metrics, p \in Prefixes :
                         MadeOf(k, n, p, history[pathsCache'[k].edition].rules,
                                pathsCache'[k].paths)
        <5>1. CASE k = Key(m)
          BY <1>1, <1>3, <2>4, <4>1, <5>1
        <5>2. CASE k # Key(m)
          <6>1. k \in DOMAIN pathsCache /\ pathsCache'[k] = pathsCache[k]
            BY <4>1, <4>3, <5>2
          <6>2. QED
            BY <6>1 DEF CacheInv, EntryInv
        <5>3. QED
          BY <5>1, <5>2
      <4>4. EntryInv'
        BY <1>1, <4>3 DEF EntryInv, MadeOf
      <4>5. QED
        BY <4>2, <4>4
    <3>2. CASE ~pathsCacheEnabled
      BY <1>1, <2>1, <3>2 DEF CacheInv, EntryInv, CacheIsCurrent, MadeOf
    <3>3. QED
      BY <3>1, <3>2
  <2>6. AnswersFollowTheRules'
    <3>1. ASSUME NEW q \in Requests, at'[q] = "return", Cfg.cache
          PROVE  \E n \in Metrics, p \in Prefixes :
                    Answers(n, p, metric[q], prefix[q], result'[q])
      <4>1. CASE q = r
        <5>1. result'[q] = [paths |-> paths, err |-> Fails(m, Cfg.rules)]
          BY <2>1, <4>1 DEF CacheInv, ShapeInv
        <5>2. Answers(m, prefix[r], metric[q], prefix[q], result'[q])
          BY <2>3, <4>1, <5>1 DEF Answers
        <5>3. QED
          BY <1>3, <5>2
      <4>2. CASE q # r
        <5>1. at[q] = "return" /\ result'[q] = result[q]
          BY <2>1, <3>1, <4>2 DEF CacheInv, ShapeInv
        <5>2. QED
          BY <3>1, <5>1, AnswersRestated DEF CacheInv
      <4>3. QED
        BY <4>1, <4>2
    <3>2. QED
      BY <1>1, <2>1, <3>1 DEF AnswersFollowTheRules, Answers
  <2>7. QED
    BY <1>2, <2>2, <2>5, <2>6 DEF CacheInv
<1>6. CASE Panic(r)
  <2>1. DOMAIN pathsCache' = {}
    BY <1>6 DEF Panic
  <2>2. EntryInv' /\ CacheIsCurrent'
    BY <2>1 DEF EntryInv, CacheIsCurrent
  <2>3. \A q \in Requests : at'[q] = "idle"
    BY <1>6 DEF Panic
  <2>4. ShapeInv' /\ JobInv' /\ AnswersFollowTheRules'
    BY <1>6, <2>3 DEF ShapeInv, JobInv, AnswersFollowTheRules, Panic
  <2>5. QED
    BY <1>2, <2>2, <2>4 DEF CacheInv
<1>7. CASE Return(r)
  <2>1. pathsCache' = pathsCache
    BY <1>7 DEF Return, cacheVars
  <2>2. EntryInv' /\ CacheIsCurrent'
    BY <1>1, <2>1 DEF CacheInv, EntryInv, CacheIsCurrent
  <2>3. ShapeInv' /\ JobInv'
    BY <1>1, <1>7 DEF CacheInv, ShapeInv, JobInv, Return
  <2>4. AnswersFollowTheRules'
    <3>1. ASSUME NEW q \in Requests, at'[q] = "return", Cfg.cache
          PROVE  \E n \in Metrics, p \in Prefixes :
                    Answers(n, p, metric'[q], prefix'[q], result'[q])
      <4>1. /\ at[q] = "return" /\ result'[q] = result[q]
            /\ metric'[q] = metric[q] /\ prefix'[q] = prefix[q]
        BY <1>7, <3>1 DEF CacheInv, ShapeInv, Return
      <4>2. QED
        BY <3>1, <4>1, AnswersRestated DEF CacheInv
    <3>2. QED
      BY <1>1, <3>1 DEF AnswersFollowTheRules, Answers
  <2>5. QED
    BY <1>2, <2>2, <2>3, <2>4 DEF CacheInv
<1>8. QED
  BY <1>4, <1>5, <1>6, <1>7 DEF Translate

LEMMA CacheTick ==
    ASSUME CacheInv, Tick
    PROVE  CacheInv'
<1>1. history' = history /\ Edition' = Edition /\ Cfg' = Cfg
  BY DEF Tick, Edition, Cfg
<1>2. HistoryInv' /\ ShapeInv' /\ JobInv' /\ AnswersFollowTheRules'
  BY <1>1 DEF CacheInv, HistoryInv, ShapeInv, JobInv, AnswersFollowTheRules, Tick, jobVars
<1>3. \A k \in DOMAIN pathsCache' :
        /\ k \in DOMAIN pathsCache
        /\ pathsCache'[k].paths = pathsCache[k].paths
        /\ pathsCache'[k].edition = pathsCache[k].edition
  BY DEF Tick
<1>4. EntryInv' /\ CacheIsCurrent'
  BY <1>1, <1>3 DEF CacheInv, EntryInv, CacheIsCurrent
<1>5. QED
  BY <1>2, <1>4 DEF CacheInv

LEMMA CacheInvariant == Spec => []CacheInv
<1>1. CacheInv /\ [Next]_vars => CacheInv'
  <2> SUFFICES ASSUME CacheInv, [Next]_vars PROVE CacheInv'
    OBVIOUS
  <2>1. CASE UNCHANGED vars
    BY <2>1 DEF vars, cacheVars, jobVars, CacheInv, HistoryInv, ShapeInv, JobInv, EntryInv,
                CacheIsCurrent, AnswersFollowTheRules, Cfg, Edition
  <2>2. QED
    BY <2>1, CacheReload, CacheBegin, CacheTranslate, CacheTick DEF Next
<1>2. QED
  BY CacheInit, <1>1, PTL DEF Spec

(* A reload to a configuration that enables the cache leaves no path of the *)
(* rules it replaces (NewClient, InitPathsCache), for any number of         *)
(* requests, metrics and reloads.                                           *)
THEOREM NoStalePaths == Spec => []CacheIsCurrent
<1>1. CacheInv => CacheIsCurrent
  BY DEF CacheInv
<1>2. QED
  BY CacheInvariant, <1>1, PTL

(* Whoever filled the cache, an answer is what the current rules make of    *)
(* the metric that was asked for, or of one with the same fingerprint, and   *)
(* never what a rule without a template would add (pathsFromMetric).        *)
THEOREM RulesAreFollowed == Spec => []AnswersFollowTheRules
<1>1. CacheInv => AnswersFollowTheRules
  BY DEF CacheInv
<1>2. QED
  BY CacheInvariant, <1>1, PTL

-----------------------------------------------------------------------------
(* What TypeOK says that CacheInv does not. *)
ValueInv ==
    /\ Edition <= MaxReloads + 1
    /\ DOMAIN pathsCache \subseteq Keys
    /\ \A k \in DOMAIN pathsCache :
          pathsCache[k] \in [paths : PathLists, life : Nat, edition : 1..Edition]
    /\ pathsCacheEnabled \in BOOLEAN
    /\ pathsCacheTTL \in Nat
    /\ \A r \in Requests : result[r] \in [paths : PathLists, err : BOOLEAN]

LEMMA NoResultTyped == NoResult \in [paths : PathLists, err : BOOLEAN]
  BY DEF NoResult, PathLists

LEMMA ValueInit == Init => ValueInv
<1> SUFFICES ASSUME Init PROVE ValueInv
  OBVIOUS
<1>1. PICK c \in Configs :
        /\ history = <<c>>
        /\ pathsCacheEnabled = (c.client /\ c.cache)
        /\ pathsCacheTTL = IF c.client /\ c.cache THEN c.ttl ELSE 0
  BY DEF Init
<1>2. Edition <= MaxReloads + 1
  BY <1>1, BoundAssumption DEF Edition
<1>3. DOMAIN pathsCache = {}
  BY DEF Init
<1>4. pathsCacheEnabled \in BOOLEAN
  BY <1>1
<1>5. pathsCacheTTL \in Nat
  BY <1>1, ConfigsAssumption
<1>6. \A r \in Requests : result[r] \in [paths : PathLists, err : BOOLEAN]
  BY NoResultTyped DEF Init
<1>7. QED
  BY <1>2, <1>3, <1>4, <1>5, <1>6 DEF ValueInv

LEMMA ValueReload ==
    ASSUME CacheInv, ValueInv, NEW c \in Configs, NewClient(c)
    PROVE  ValueInv'
<1>1. Edition' = Edition + 1 /\ Edition \in Nat \ {0} /\ Edition <= MaxReloads
  BY DEF CacheInv, HistoryInv, NewClient, Edition
<1>2. Edition' <= MaxReloads + 1
  BY <1>1, BoundAssumption
<1>3. \A r \in Requests : result'[r] \in [paths : PathLists, err : BOOLEAN]
  BY DEF ValueInv, NewClient, jobVars
<1>4. CASE c.client /\ c.cache
  <2>1. DOMAIN pathsCache' = {} /\ pathsCacheTTL' = c.ttl /\ pathsCacheEnabled' = TRUE
    BY <1>4 DEF NewClient, InitPathsCache
  <2>2. c.ttl \in Nat
    BY ConfigsAssumption
  <2>3. QED
    BY <1>2, <1>3, <2>1, <2>2 DEF ValueInv
<1>5. CASE ~(c.client /\ c.cache)
  <2>1. UNCHANGED <<pathsCache, pathsCacheEnabled, pathsCacheTTL>>
    BY <1>5 DEF NewClient, cacheVars
  <2>2. ASSUME NEW k \in DOMAIN pathsCache
        PROVE  pathsCache[k] \in [paths : PathLists, life : Nat, edition : 1..Edition']
    <3>1. 1..Edition \subseteq 1..Edition'
      BY <1>1
    <3>2. QED
      BY <3>1 DEF ValueInv
  <2>3. QED
    BY <1>2, <1>3, <2>1, <2>2 DEF ValueInv
<1>6. QED
  BY <1>4, <1>5

LEMMA ValueCompute ==
    ASSUME CacheInv, ValueInv, NEW r \in Requests, Compute(r)
    PROVE  ValueInv'
<1> DEFINE m == metric[r]
           paths == Paths(m, prefix[r], Cfg.rules)
           entry == [paths |-> paths, life |-> pathsCacheTTL, edition |-> Edition]
           answer == [paths |-> paths, err |-> Fails(m, Cfg.rules)]
           Entry == [paths : PathLists, life : Nat, edition : 1..Edition]
<1>1. m \in Metrics /\ prefix[r] \in Prefixes
  BY DEF CacheInv, JobInv, Compute
<1>2. Edition' = Edition /\ Edition \in Nat \ {0} /\ Cfg \in Configs
  BY DEF CacheInv, HistoryInv, Compute, Edition, Cfg
<1>3. Cfg.rules \in RuleList
  BY <1>2, ConfigsAssumption DEF RuleList, Rule
<1>4. paths \in PathLists
  <2>1. ~Panics(m, Cfg.rules)
    BY DEF Compute
  <2>2. QED
    BY <1>1, <1>3, <2>1, PathsTyped
<1>5. entry \in Entry /\ answer \in [paths : PathLists, err : BOOLEAN]
  <2>1. Fails(m, Cfg.rules) \in BOOLEAN
    BY Zenon DEF Fails
  <2>2. QED
    BY <1>2, <1>4, <2>1 DEF ValueInv
<1>6. /\ result' = [result EXCEPT ![r] = answer]
      /\ pathsCache' = IF pathsCacheEnabled THEN Updated(pathsCache, Key(m), entry)
                       ELSE pathsCache
      /\ UNCHANGED <<pathsCacheEnabled, pathsCacheTTL>>
  BY DEF Compute
<1>7. Key(m) \in Keys
  BY <1>1, FingerprintAssumption DEF Key
<1> HIDE DEF entry, answer
<1>8. \A q \in Requests : result'[q] \in [paths : PathLists, err : BOOLEAN]
  BY <1>5, <1>6 DEF CacheInv, ShapeInv, ValueInv
<1>9. DOMAIN pathsCache' \subseteq Keys /\ \A k \in DOMAIN pathsCache' : pathsCache'[k] \in Entry
  <2>1. CASE pathsCacheEnabled
    <3>1. /\ DOMAIN pathsCache' = DOMAIN pathsCache \cup {Key(m)}
          /\ \A k \in DOMAIN pathsCache' :
                pathsCache'[k] = IF k = Key(m) THEN entry ELSE pathsCache[k]
      BY <1>6, <2>1 DEF Updated
    <3>2. QED
      BY <1>5, <1>7, <3>1 DEF ValueInv
  <2>2. QED
    BY <1>6, <2>1 DEF ValueInv
<1>10. QED
  BY <1>2, <1>6, <1>8, <1>9 DEF ValueInv

LEMMA ValueStep ==
    ASSUME CacheInv, ValueInv, [Next]_vars
    PROVE  ValueInv'
<1>1. CASE UNCHANGED vars
  BY <1>1 DEF vars, cacheVars, jobVars, ValueInv, Edition
<1>2. ASSUME NEW r \in Requests, NEW m \in Metrics, NEW p \in Prefixes, Begin(r, m, p)
      PROVE  ValueInv'
  BY <1>2 DEF Begin, cacheVars, ValueInv, Edition
<1>3. ASSUME NEW r \in Requests, Get(r)
      PROVE  ValueInv'
  <2>1. UNCHANGED <<pathsCache, pathsCacheEnabled, pathsCacheTTL>> /\ Edition' = Edition
    BY <1>3 DEF Get, cacheVars, Edition
  <2>2. \A q \in Requests : result'[q] \in [paths : PathLists, err : BOOLEAN]
    <3>1. CASE result' = result
      BY <3>1 DEF ValueInv
    <3>2. CASE /\ Key(metric[r]) \in DOMAIN pathsCache
               /\ result' = [result EXCEPT ![r] =
                               [paths |-> pathsCache[Key(metric[r])].paths, err |-> FALSE]]
      <4>1. pathsCache[Key(metric[r])].paths \in PathLists
        BY <3>2 DEF ValueInv
      <4>2. QED
        BY <3>2, <4>1 DEF CacheInv, ShapeInv, ValueInv
    <3>3. QED
      BY <1>3, <3>1, <3>2 DEF Get
  <2>3. QED
    BY <2>1, <2>2 DEF ValueInv
<1>4. ASSUME NEW r \in Requests, Return(r)
      PROVE  ValueInv'
  <2>1. UNCHANGED <<pathsCache, pathsCacheEnabled, pathsCacheTTL>> /\ Edition' = Edition
    BY <1>4 DEF Return, cacheVars, Edition
  <2>2. \A q \in Requests : result'[q] \in [paths : PathLists, err : BOOLEAN]
    BY <1>4, NoResultTyped DEF Return, CacheInv, ShapeInv, ValueInv
  <2>3. QED
    BY <2>1, <2>2 DEF ValueInv
<1>5. CASE Tick
  <2>1. /\ UNCHANGED <<pathsCacheEnabled, pathsCacheTTL, result>> /\ Edition' = Edition
        /\ DOMAIN pathsCache' \subseteq DOMAIN pathsCache
    BY <1>5 DEF Tick, jobVars, Edition
  <2>2. ASSUME NEW k \in DOMAIN pathsCache'
        PROVE  pathsCache'[k] \in [paths : PathLists, life : Nat, edition : 1..Edition]
    <3>1. /\ pathsCache[k].paths \in PathLists
          /\ pathsCache[k].life \in Nat
          /\ pathsCache[k].edition \in 1..Edition
      BY <2>1 DEF ValueInv
    <3>2. pathsCache'[k] =
            [paths   |-> pathsCache[k].paths,
             life    |-> IF pathsCache[k].life > 0 THEN pathsCache[k].life - 1 ELSE 0,
             edition |-> pathsCache[k].edition]
      BY <1>5 DEF Tick
    <3>3. (IF pathsCache[k].life > 0 THEN pathsCache[k].life - 1 ELSE 0) \in Nat
      BY <3>1
    <3>4. QED
      BY <3>1, <3>2, <3>3
  <2>3. QED
    BY <2>1, <2>2 DEF ValueInv
<1>6. ASSUME NEW r \in Requests, Panic(r)
      PROVE  ValueInv'
  <2>1. /\ UNCHANGED <<pathsCacheEnabled, pathsCacheTTL>> /\ Edition' = Edition
        /\ DOMAIN pathsCache' = {}
    BY <1>6 DEF Panic, Edition
  <2>2. \A q \in Requests : result'[q] \in [paths : PathLists, err : BOOLEAN]
    BY <1>6, NoResultTyped DEF Panic
  <2>3. QED
    BY <2>1, <2>2 DEF ValueInv
<1>7. QED
  BY <1>1, <1>2, <1>3, <1>4, <1>5, <1>6, ValueReload, ValueCompute DEF Next, Translate

(* Whatever the rules, a request is answered with a list of paths that      *)
(* templates and prefixes make, and the cache holds nothing else: a rule    *)
(* without a template never gives a path (templatedPaths).                  *)
THEOREM PathsTypeCorrect == Spec => []TypeOK
<1>1. CacheInv /\ ValueInv => TypeOK
  <2> SUFFICES ASSUME CacheInv, ValueInv PROVE TypeOK
    OBVIOUS
  <2>1. running \in BOOLEAN /\ history \in Seq(Configs) /\ Edition \in 1..(MaxReloads + 1)
    BY BoundAssumption DEF CacheInv, HistoryInv, ValueInv
  <2>2. result \in [Requests -> [paths : PathLists, err : BOOLEAN]]
    BY DEF CacheInv, ShapeInv, ValueInv
  <2>3. QED
    BY <2>1, <2>2 DEF CacheInv, ShapeInv, JobInv, ValueInv, TypeOK
<1>2. CacheInv /\ ValueInv /\ [Next]_vars => ValueInv'
  BY ValueStep
<1>3. QED
  BY CacheInvariant, ValueInit, <1>1, <1>2, PTL DEF Spec

=============================================================================
