----------------------------- MODULE PathsCache -----------------------------
(***************************************************************************)
(* From a sample to the graphite paths it is written under: the templating *)
(* rules, the default path, and the process-wide cache of paths that all   *)
(* /write requests share and that NewClient replaces on a reload.          *)
(*                                                                         *)
(* A metric is a model value; a rule is known by the metrics it matches,   *)
(* its template, the metrics on which the template fails, and whether it   *)
(* continues.  A path is the pair of what it was made from (a template or  *)
(* a prefix) and the metric.  A time to live counts ticks of a clock.      *)
(***************************************************************************)
EXTENDS Naturals, Sequences, FiniteSets

CONSTANTS
    Requests,         \* the requests that translate samples
    Metrics,
    Keys,             \* the fingerprints of metrics
    FastFingerprint,  \* model.Metric.FastFingerprint
    Prefixes,         \* prefixes that requests ask for
    Templates,
    NoTemplate,       \* the template of a rule that has none
    None,             \* no metric, no prefix: a request between two samples
    Configs,          \* configurations that may be loaded
    MaxReloads        \* bound on the reloads

(* A configuration: whether NewClient makes a client of it, whether it      *)
(* enables the cache, for how many ticks (0: for ever), and its rules.      *)
ASSUME ConfigsAssumption ==
    \A c \in Configs :
        /\ c.client \in BOOLEAN
        /\ c.cache \in BOOLEAN
        /\ c.ttl \in Nat
        /\ c.rules \in Seq([match : SUBSET Metrics, fails : SUBSET Metrics,
                            template : Templates \cup {NoTemplate},
                            continue : BOOLEAN])

(* A hash of 64 bits: two metrics may have the same one.                    *)
ASSUME FingerprintAssumption == FastFingerprint \in [Metrics -> Keys]

ASSUME BoundAssumption == MaxReloads \in Nat

VARIABLES
    running,            \* the process has not panicked
    history,            \* the configurations applied so far, the current one last
    pathsCache,         \* the entries of the cache, by fingerprint
    pathsCacheEnabled,
    pathsCacheTTL,      \* the default expiration of the cache, 0 for none
    at,                 \* where each request stands in pathsFromMetric
    metric,             \* the metric of the sample at hand
    prefix,             \* the prefix of the request
    result              \* the paths and the error that pathsFromMetric returns

cacheVars == <<pathsCache, pathsCacheEnabled, pathsCacheTTL>>
jobVars   == <<at, metric, prefix, result>>
vars      == <<running, history, cacheVars, jobVars>>

Edition == Len(history)
Cfg     == history[Edition]

-----------------------------------------------------------------------------
(* templatedPaths and pathsFromMetric, without the cache *)

First(S) == CHOOSE i \in S : \A j \in S : i <= j

(* The rules at which the loop over the rules may end for m. *)
Ends(m, rules) ==
    {i \in DOMAIN rules : m \in rules[i].match
                          /\ (~rules[i].continue \/ m \in rules[i].fails)}

Silenced(m, rules) ==
    Ends(m, rules) # {} /\ rules[First(Ends(m, rules))].template = NoTemplate

(* The template of the last rule that was looked at could not be executed. *)
Fails(m, rules) ==
    /\ Ends(m, rules) # {}
    /\ m \in rules[First(Ends(m, rules))].fails
    /\ ~Silenced(m, rules)

(* A rule that continues without a template is reached: Execute is called   *)
(* on a nil template, and text/template hands the panic on.                 *)
Panics(m, rules) ==
    \E i \in DOMAIN rules :
        /\ m \in rules[i].match /\ rules[i].continue /\ rules[i].template = NoTemplate
        /\ \A j \in Ends(m, rules) : i <= j

(* No default path is added. *)
Stop(m, rules) ==
    \/ Silenced(m, rules)
    \/ Ends(m, rules) # {} /\ ~rules[First(Ends(m, rules))].continue

(* The paths that the loop has appended once it has been over last rules: *)
(* one for each rule that matched, in the order of the rules. *)
Appended(m, rules, last) ==
    LET paths[i \in 0..last] ==
            IF i = 0 THEN <<>>
            ELSE IF m \in rules[i].match
                 THEN Append(paths[i - 1], <<rules[i].template, m>>)
                 ELSE paths[i - 1]
    IN  paths[last]

(* The last rule whose template was executed. *)
LastExecuted(m, rules) ==
    IF Ends(m, rules) = {} THEN Len(rules)
    ELSE IF Fails(m, rules) THEN First(Ends(m, rules)) - 1
    ELSE First(Ends(m, rules))

(* Mutant: a rule without a template is used like the others. *)
TemplatedPaths_NoSilence(m, rules) == Appended(m, rules, LastExecuted(m, rules))

TemplatedPaths(m, rules) ==
    IF Silenced(m, rules) THEN <<>> ELSE Appended(m, rules, LastExecuted(m, rules))

(* The labels in their order, after the prefix.                             *)
DefaultPath(m, p) == <<p, m>>

(* Mutant: the default path is added to every metric that has no path yet,  *)
(* so that a silenced metric gets one.                                      *)
Paths_NotSilent(m, p, rules) ==
    IF TemplatedPaths(m, rules) # <<>> /\ Stop(m, rules)
    THEN TemplatedPaths(m, rules)
    ELSE Append(TemplatedPaths(m, rules), DefaultPath(m, p))

Paths(m, p, rules) ==
    IF Stop(m, rules) THEN TemplatedPaths(m, rules)
    ELSE Append(TemplatedPaths(m, rules), DefaultPath(m, p))

-----------------------------------------------------------------------------
Updated(f, k, v) == [x \in DOMAIN f \cup {k} |-> IF x = k THEN v ELSE f[x]]

NoResult == [paths |-> <<>>, err |-> FALSE]

Init ==
    /\ running = TRUE
    /\ \E c \in Configs :
        /\ history = <<c>>
        /\ pathsCacheEnabled = (c.client /\ c.cache)
        /\ pathsCacheTTL = IF c.client /\ c.cache THEN c.ttl ELSE 0
    /\ pathsCache = <<>>
    /\ at = [r \in Requests |-> "idle"]
    /\ metric = [r \in Requests |-> None]
    /\ prefix = [r \in Requests |-> None]
    /\ result = [r \in Requests |-> NoResult]

(* Mutant: the cache is made once, by the first client that enables it. *)
InitPathsCache_Once(ttl) ==
    /\ pathsCache' = pathsCache
    /\ pathsCacheTTL' = IF pathsCacheEnabled THEN pathsCacheTTL ELSE ttl
    /\ pathsCacheEnabled' = TRUE

InitPathsCache(ttl) ==
    /\ pathsCache' = <<>>
    /\ pathsCacheTTL' = ttl
    /\ pathsCacheEnabled' = TRUE

(* NewClient, from ApplyConfig: no request holds the handler's lock. *)
NewClient(c) ==
    /\ running
    /\ Edition <= MaxReloads
    /\ \A r \in Requests : at[r] = "idle"
    /\ history' = Append(history, c)
    /\ IF c.client /\ c.cache THEN InitPathsCache(c.ttl) ELSE UNCHANGED cacheVars
    /\ UNCHANGED <<running, jobVars>>

-----------------------------------------------------------------------------
(* pathsFromMetric, for one sample of the request r *)

Begin(r, m, p) ==
    /\ running /\ Cfg.client
    /\ at[r] = "idle"
    /\ at' = [at EXCEPT ![r] = "get"]
    /\ metric' = [metric EXCEPT ![r] = m]
    /\ prefix' = [prefix EXCEPT ![r] = p]
    /\ UNCHANGED <<running, history, cacheVars, result>>

(* Mutant: the fingerprint leaves out what tells two metrics apart. *)
Key_Coarse(m) == CHOOSE k \in Keys : TRUE

Key(m) == FastFingerprint[m]

(* Mutant: an entry that is found is kept for another time to live. *)
Get_Renews(r) ==
    /\ running /\ at[r] = "get"
    /\ LET key == Key(metric[r]) IN
       IF pathsCacheEnabled /\ key \in DOMAIN pathsCache
       THEN /\ at' = [at EXCEPT ![r] = "return"]
            /\ result' = [result EXCEPT ![r] =
                  [paths |-> pathsCache[key].paths, err |-> FALSE]]
            /\ pathsCache' = [pathsCache EXCEPT ![key].life = pathsCacheTTL]
       ELSE /\ at' = [at EXCEPT ![r] = "miss"]
            /\ UNCHANGED <<result, pathsCache>>
    /\ UNCHANGED <<running, history, pathsCacheEnabled, pathsCacheTTL, metric, prefix>>

(* A path that is found is returned whoever put it there. *)
Get(r) ==
    /\ running /\ at[r] = "get"
    /\ LET key == Key(metric[r]) IN
       IF pathsCacheEnabled /\ key \in DOMAIN pathsCache
       THEN /\ at' = [at EXCEPT ![r] = "return"]
            /\ result' = [result EXCEPT ![r] =
                  [paths |-> pathsCache[key].paths, err |-> FALSE]]
       ELSE /\ at' = [at EXCEPT ![r] = "miss"]
            /\ UNCHANGED result
    /\ UNCHANGED <<running, history, cacheVars, metric, prefix>>

(* The paths are worked out and stored, also after an error. *)
Compute(r) ==
    /\ running /\ at[r] = "miss"
    /\ ~Panics(metric[r], Cfg.rules)
    /\ LET paths == Paths(metric[r], prefix[r], Cfg.rules) IN
       /\ result' = [result EXCEPT ![r] =
             [paths |-> paths, err |-> Fails(metric[r], Cfg.rules)]]
       /\ pathsCache' =
             IF pathsCacheEnabled
             THEN Updated(pathsCache, Key(metric[r]),
                          [paths |-> paths, life |-> pathsCacheTTL, edition |-> Edition])
             ELSE pathsCache
    /\ at' = [at EXCEPT ![r] = "return"]
    /\ UNCHANGED <<running, history, pathsCacheEnabled, pathsCacheTTL, metric, prefix>>

(* The goroutine of Handler.write that translates has nobody to recover it:  *)
(* the process dies, the other requests and the cache with it.              *)
Panic(r) ==
    /\ running /\ at[r] = "miss"
    /\ Panics(metric[r], Cfg.rules)
    /\ running' = FALSE
    /\ pathsCache' = <<>>
    /\ at' = [q \in Requests |-> "idle"]
    /\ metric' = [q \in Requests |-> None]
    /\ prefix' = [q \in Requests |-> None]
    /\ result' = [q \in Requests |-> NoResult]
    /\ UNCHANGED <<history, pathsCacheEnabled, pathsCacheTTL>>

(* ToDatapoints takes the result; the next sample may follow. *)
Return(r) ==
    /\ running /\ at[r] = "return"
    /\ at' = [at EXCEPT ![r] = "idle"]
    /\ metric' = [metric EXCEPT ![r] = None]
    /\ prefix' = [prefix EXCEPT ![r] = None]
    /\ result' = [result EXCEPT ![r] = NoResult]
    /\ UNCHANGED <<running, history, cacheVars>>

(* Time passes for the entries that expire: one that has no time left is    *)
(* not found any more, whether the janitor has deleted it or not.           *)
Tick ==
    /\ running
    /\ \E k \in DOMAIN pathsCache : pathsCache[k].life > 0
    /\ pathsCache' =
          [k \in {x \in DOMAIN pathsCache : pathsCache[x].life # 1} |->
              [paths   |-> pathsCache[k].paths,
               life    |-> IF pathsCache[k].life > 0 THEN pathsCache[k].life - 1 ELSE 0,
               edition |-> pathsCache[k].edition]]
    /\ UNCHANGED <<running, history, pathsCacheEnabled, pathsCacheTTL, jobVars>>

Translate(r) == Get(r) \/ Compute(r) \/ Panic(r) \/ Return(r)

Next ==
    \/ \E c \in Configs : NewClient(c)
    \/ \E r \in Requests, m \in Metrics, p \in Prefixes : Begin(r, m, p)
    \/ \E r \in Requests : Translate(r)
    \/ Tick

Spec == Init /\ [][Next]_vars

(* Time passes.  No request has to come, and none has to end. *)
FairSpec == Spec /\ WF_vars(Tick)

-----------------------------------------------------------------------------
PathLists == Seq((Templates \cup Prefixes) \X Metrics)

TypeOK ==
    /\ running \in BOOLEAN
    /\ history \in Seq(Configs) /\ Edition \in 1..(MaxReloads + 1)
    /\ DOMAIN pathsCache \subseteq Keys
    /\ \A k \in DOMAIN pathsCache :
          pathsCache[k] \in [paths : PathLists, life : Nat, edition : 1..Edition]
    /\ pathsCacheEnabled \in BOOLEAN
    /\ pathsCacheTTL \in Nat
    /\ at \in [Requests -> {"idle", "get", "miss", "return"}]
    /\ metric \in [Requests -> Metrics \cup {None}]
    /\ prefix \in [Requests -> Prefixes \cup {None}]
    /\ \A r \in Requests :
          at[r] # "idle" => metric[r] \in Metrics /\ prefix[r] \in Prefixes
    /\ result \in [Requests -> [paths : PathLists, err : BOOLEAN]]

(* Under a configuration that enables the cache, no entry is older than     *)
(* that configuration: a reload leaves no path of the rules it replaces.    *)
CacheIsCurrent ==
    Cfg.client /\ Cfg.cache =>
        \A k \in DOMAIN pathsCache : pathsCache[k].edition = Edition

(* While the configuration enables the cache, every answer is what the      *)
(* current rules make of a metric with the same fingerprint, of this very   *)
(* metric if there is no other, for some prefix; and an error is one of the *)
(* request's own metric.  No answer is made of a rule without a template.   *)
AnswersFollowTheRules ==
    \A r \in Requests : at[r] = "return" /\ Cfg.cache =>
        \E m \in Metrics, p \in Prefixes :
            /\ FastFingerprint[m] = FastFingerprint[metric[r]]
            /\ ~Panics(m, Cfg.rules)
            /\ result[r].paths = Paths(m, p, Cfg.rules)
            /\ result[r].err =>
                  m = metric[r] /\ p = prefix[r] /\ Fails(m, Cfg.rules)

(* An entry of an earlier configuration, which only a configuration without *)
(* the cache can meet, is gone after its time to live however often it is   *)
(* asked for, unless it never expires.                                      *)
StaleFades ==
    \A k \in Keys :
        (k \in DOMAIN pathsCache
         /\ pathsCache[k].edition < Edition /\ pathsCache[k].life > 0)
        ~> (k \in DOMAIN pathsCache => pathsCache[k].edition = Edition)

(* What the help of graphite.default-prefix says ("The prefix to prepend to *)
(* all metrics exported to Graphite") of the prefix of a request: a default *)
(* path begins with it.                                                     *)
PrefixIsPrepended ==
    \A r \in Requests : at[r] = "return" =>
        \A i \in DOMAIN result[r].paths :
            result[r].paths[i][1] \in Templates \cup {prefix[r]}

=============================================================================
