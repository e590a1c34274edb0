---------------------------- MODULE MCPathsCache ----------------------------
(* Small instances of PathsCache for TLC. *)
EXTENDS PathsCache, TLC

CONSTANTS m1, m2, m3, p1, p2, t1, t2

MCMetrics   == {m1, m2, m3}
MCPrefixes  == {p1, p2}
MCTemplates == {t1, t2}

Identity == [m \in MCMetrics |-> m]

(* The hash of m3 is the one of m1. *)
Colliding == [m \in MCMetrics |-> IF m = m3 THEN m1 ELSE m]

Rule(match, fails, template, continue) ==
    [match |-> match, fails |-> fails, template |-> template, continue |-> continue]

FailingRules == << Rule({m1, m2}, {m2}, t1, TRUE), Rule({m1}, {m1}, t2, FALSE) >>

(* The default path alone, after a templated one, and none of it; a silenced *)
(* metric; a template that fails, last and not last; a rule without a       *)
(* template that continues, reached by m1 but not by m2.                    *)
RuleLists ==
    { <<>>,
      << Rule(MCMetrics, {}, t1, TRUE), Rule({m2}, {}, NoTemplate, FALSE),
         Rule({m1}, {}, t2, FALSE) >>,
      FailingRules,
      << Rule({m2}, {}, t1, FALSE), Rule({m1, m2}, {}, NoTemplate, TRUE) >> }

Config(cache, ttl, rules) ==
    [client |-> TRUE, cache |-> cache, ttl |-> ttl, rules |-> rules]

NoClient == [client |-> FALSE, cache |-> TRUE, ttl |-> 1, rules |-> <<>>]

(* Every list of rules with a cache that expires; a cache that does not, no *)
(* cache, and no client.                                                    *)
AllConfigs ==
    {Config(TRUE, 2, rules) : rules \in RuleLists}
    \cup {Config(TRUE, 0, <<>>), Config(FALSE, 1, FailingRules), NoClient}

OneConfig == {[client |-> TRUE, cache |-> TRUE, ttl |-> 1, rules |-> <<>>]}

=============================================================================
