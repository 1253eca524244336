----------------------------- MODULE MCJournal -----------------------------
(* A config key with its roles, rules and constraint, an experiment with a *)
(* field and another one, and two names of catalog.persistLogs.            *)
EXTENDS Journal

CONSTANTS app, bot, plan, free, pro

MCPaths == {"key", "roles", "rules", "limit", "experiment", "enabled", "other",
            "logA", "logB"}
MCHolder == [p \in MCPaths |-> IF p = "enabled" THEN "experiment" ELSE "top"]
MCLogNames == {"logA", "logB"}
MCLogOrder == <<"logA", "logB">>
MCReversed == <<"logB", "logA">>
MCBootstrap == [p \in MCPaths |->
                   IF p \in {"key", "roles", "logA", "logB"} THEN 1 ELSE None]

(* set_config_value, delete_config_value, set_signal, upsert_experiment,   *)
(* set_experiment_enabled, set_persist_log.                                *)
Set(p, v) == [q \in {p} |-> v]
SetValue(v, targets, rules) ==
    [q \in {"key", "roles"} \cup rules |-> IF q = "key" THEN v ELSE targets]
DeleteValue == [q \in {"key", "roles", "rules"} |-> None]
Upsert(v) == [q \in {"experiment", "enabled"} |-> IF q = "experiment" THEN 1 ELSE v]
MCEdits == {SetValue(2, 1, {"rules"}), SetValue(1, 2, {}), DeleteValue,
            Set("limit", 1), Set("enabled", 2), Set("logB", 1)}
MCUpserts == {Upsert(1), Set("other", 1), Set("other", 2)}

Number(n) == [kind |-> "number", of |-> n]
String(s) == [kind |-> "string", of |-> s]
Given(st, p, name, value) == [k \in {q \in {name} : st[p] # None} |-> value]
(* The key's audience, and what it is for a client that pays.              *)
Targets(v) == IF v = 1 THEN <<Anyone>> ELSE <<app>>
Rules(v) ==
    <<[when |-> <<[field |-> plan, op |-> "eq", operand |-> {String(pro)}]>>,
       value |-> Number(IF v = 1 THEN 1 ELSE 2)]>>
Variant(name, n) ==
    [key |-> name, weight |-> 1, values |-> [k \in {"key"} |-> Number(n)]]
(* For the experiment there is a plan; the other one has the same goal.    *)
Experiment(st) ==
    [id |-> "experiment", enabled |-> st["enabled"] = 2, allocation |-> 1,
     salt |-> 1, roles |-> <<app>>, goalMetric |-> "goal",
     assignmentUnitKind |-> "user", terminalRetentionMs |-> 1,
     outcomeKind |-> "mean", control |-> "a", targetSampleSizePerVariant |-> 2,
     earliestAnalysisAt |-> 0, familyWiseAlpha |-> 1, minimumEffect |-> 0,
     direction |-> "increase",
     healthThresholds |-> [field \in HealthThresholdFields |-> 0],
     variants |-> <<Variant("a", 1), Variant("b", 2)>>]
Other(v) ==
    [id |-> "other", enabled |-> TRUE, allocation |-> 2, salt |-> 1,
     roles |-> IF v = 1 THEN <<bot>> ELSE <<bot, app>>, goalMetric |-> "goal",
     assignmentUnitKind |-> "user", terminalRetentionMs |-> 1,
     variants |-> <<Variant("a", 1)>>]
MCSnapshot(st) ==
    [values |-> Given(st, "key", "key", Number(st["key"])),
     keyRoles |-> Given(st, "roles", "key", Targets(st["roles"])),
     keyRules |-> Given(st, "rules", "key", Rules(st["rules"])),
     experiments |-> {Experiment(s) : s \in {x \in {st} : x["experiment"] # None}}
                         \cup {Other(s["other"]) :
                                  s \in {x \in {st} : x["other"] # None}},
     constraints |-> Given(st, "limit", "key",
                           [type |-> "number", min |-> 0, max |-> st["limit"]])]

Client(role) == [field \in {"role", "appVersion", "environment", "platform"} |->
                    String(role)]
WithPlan(role, p) == [field \in DOMAIN Client(role) \cup {plan} |->
                         IF field = plan THEN String(p) ELSE String(role)]
MCProfiles == {WithPlan(app, free), WithPlan(app, pro), Client(bot)}
=============================================================================
