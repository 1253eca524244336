--------------------------- MODULE ProjectConfig ---------------------------
(***************************************************************************)
(* The config of one project: what makes a snapshot valid, and what of it  *)
(* a client is sent (ConfigRepository.js, rules.js, roles.js,              *)
(* configConstraints.js, validateExperiment.js).                           *)
(*                                                                         *)
(* A snapshot is a record of values, keyRoles and keyRules, functions of   *)
(* config keys; of experiments, a set, for their order decides nothing     *)
(* here; and of constraints, a function of the keys whose catalog signal   *)
(* has one.  An optional field of a JSON object is one that need not be in *)
(* the record's DOMAIN.  A JSON value is [kind, of]: numbers count in      *)
(* units of 1/Scale, other values are compared for equality only.          *)
(***************************************************************************)
EXTENDS Integers, Sequences, FiniteSets

CONSTANTS
    Anyone,      \* the role "*"
    Attributes,  \* the condition fields "attributes.<name>"
    Scale        \* the number 1

ASSUME ScaleIsPositive == Scale \in Nat \ {0}

In(x, seq) == \E i \in DOMAIN seq : seq[i] = x
Members(seq) == {seq[i] : i \in DOMAIN seq}
Distinct(seq) == \A i, j \in DOMAIN seq : seq[i] = seq[j] => i = j

ScalarKinds == {"string", "number", "boolean"}
Types == ScalarKinds \cup {"integer", "object", "array", "null"}

-----------------------------------------------------------------------------
(* Roles.  Targets are a list of role names, or the role Anyone alone.     *)
ValidTargets(targets) ==
    /\ targets # <<>>
    /\ Distinct(targets)
    /\ In(Anyone, targets) => Len(targets) = 1
RoleSees(targets, role) == In(Anyone, targets) \/ In(role, targets)
RolesOverlap(a, b) ==
    \/ In(Anyone, a) \/ In(Anyone, b)
    \/ \E role \in Members(a) : In(role, b)

ValidKeyRoles(s) ==
    /\ DOMAIN s.keyRoles = DOMAIN s.values
    /\ \A key \in DOMAIN s.values : ValidTargets(s.keyRoles[key])

-----------------------------------------------------------------------------
(* Rules.  The operand of a condition is a set, of one value unless the    *)
(* operator is "in".                                                       *)
ClientFields == {"role", "appVersion", "environment", "platform", "os"}

ValidCondition(c) ==
    /\ c.field \in ClientFields \cup Attributes
    /\ c.op \in {"eq", "in", "gt", "gte", "lt", "lte"}
    /\ c.operand # {}
    /\ c.op # "in" => Cardinality(c.operand) = 1
    /\ \A v \in c.operand :
          v.kind \in IF c.op \in {"eq", "in"} THEN ScalarKinds ELSE {"number"}
ValidRules(s) ==
    /\ DOMAIN s.keyRules \subseteq DOMAIN s.values
    /\ \A key \in DOMAIN s.keyRules : \A rule \in Members(s.keyRules[key]) :
          /\ rule.when # <<>>
          /\ \A c \in Members(rule.when) : ValidCondition(c)

Ordered(op, a, b) ==
    CASE op = "gt" -> a > b
      [] op = "gte" -> a >= b
      [] op = "lt" -> a < b
      [] op = "lte" -> a <= b
(* A client is a function of the fields it reports.                        *)
Matches(c, client) ==
    /\ c.field \in DOMAIN client
    /\ LET actual == client[c.field] IN
       IF c.op \in {"eq", "in"} THEN actual \in c.operand
       ELSE /\ actual.kind = "number"
            /\ \E bound \in c.operand : Ordered(c.op, actual.of, bound.of)

(* The first rule all of whose conditions match, else the base value.      *)
Ruled(rules, base, client) ==
    LET matching == {i \in DOMAIN rules :
                        \A c \in Members(rules[i].when) : Matches(c, client)}
    IN IF matching = {} THEN base
       ELSE rules[CHOOSE i \in matching : \A j \in matching : i <= j].value

(* What validateEnvelope requires of a client's metadata.                  *)
ValidClient(client) ==
    /\ {"role", "appVersion", "environment", "platform"} \subseteq DOMAIN client
    /\ DOMAIN client \subseteq ClientFields \cup Attributes
    /\ \A field \in DOMAIN client :
          client[field].kind \in
              IF field \in ClientFields THEN {"string"} ELSE ScalarKinds
    /\ client["role"].of # Anyone

-----------------------------------------------------------------------------
(* Constraints that catalog signals put on config values.                  *)
MatchesType(value, type) ==
    \/ value.kind = type
    \/ type = "integer" /\ value.kind = "number" /\ value.of % Scale = 0
Honours(value, constraint) ==
    /\ MatchesType(value, constraint.type)
    /\ "min" \in DOMAIN constraint => value.of >= constraint.min
    /\ "max" \in DOMAIN constraint => value.of <= constraint.max
    /\ "enum" \in DOMAIN constraint => In(value, constraint.enum)

ValidConstraint(c) ==
    /\ c.type \in Types
    /\ {"min", "max"} \cap DOMAIN c # {} => c.type \in {"number", "integer"}
    /\ {"min", "max"} \subseteq DOMAIN c =>
          /\ c.min <= c.max
          /\ c.type = "integer" => \E n \in c.min .. c.max : n % Scale = 0
    /\ "enum" \in DOMAIN c =>
          /\ c.type \notin {"object", "array"}
          /\ c.enum # <<>> /\ Distinct(c.enum)
          /\ \A value \in Members(c.enum) : Honours(value, c)

(* The values a key can take: its own, a rule's, a variant's.              *)
ValuesOf(s, key) ==
    {s.values[k] : k \in {key} \cap DOMAIN s.values}
        \cup {rule.value : rule \in UNION {Members(s.keyRules[k]) :
                                k \in {key} \cap DOMAIN s.keyRules}}
        \cup {v.values[key] : v \in {w \in UNION {Members(x.variants) :
                                x \in s.experiments} : key \in DOMAIN w.values}}
HonoursConstraints(s) ==
    \A key \in DOMAIN s.constraints :
        /\ ValidConstraint(s.constraints[key])
        /\ \A value \in ValuesOf(s, key) : Honours(value, s.constraints[key])

-----------------------------------------------------------------------------
(* Experiments.                                                            *)
FixedHorizonFields ==
    {"outcomeKind", "control", "targetSampleSizePerVariant",
     "earliestAnalysisAt", "familyWiseAlpha", "minimumEffect", "direction",
     "healthThresholds"}

HealthThresholdFields ==
    {"maxDroppedFrames", "maxDuplicateExposures", "maxDuplicateGoals",
     "maxConflictingGoals", "maxVariantConflicts", "maxUntrustedRows",
     "maxLateRows", "maxMissingExposures", "maxImplicitExposures"}

VariantKeys(x) == {v.key : v \in Members(x.variants)}

(* A plan is given whole or not at all.                                    *)
ValidPlan(x) ==
    FixedHorizonFields \cap DOMAIN x # {} =>
        /\ FixedHorizonFields \subseteq DOMAIN x
        /\ x.outcomeKind \in {"conversion", "mean"}
        /\ x.targetSampleSizePerVariant >= IF x.outcomeKind = "mean" THEN 2 ELSE 1
        /\ x.earliestAnalysisAt >= 0
        /\ 0 < x.familyWiseAlpha /\ x.familyWiseAlpha < Scale
        /\ x.minimumEffect >= 0
        /\ x.direction \in {"increase", "decrease", "two-sided"}
        /\ DOMAIN x.healthThresholds = HealthThresholdFields
        /\ \A field \in HealthThresholdFields : x.healthThresholds[field] >= 0
        /\ Cardinality(VariantKeys(x)) >= 2
        /\ x.control \in VariantKeys(x)
ValidExperiment(x) ==
    /\ 0 <= x.allocation /\ x.allocation <= Scale
    /\ ValidTargets(x.roles)
    /\ x.terminalRetentionMs >= 1
    /\ \A i, j \in DOMAIN x.variants :
          x.variants[i].key = x.variants[j].key => i = j
    /\ \A v \in Members(x.variants) : v.weight >= 0
    /\ \E v \in Members(x.variants) : v.weight > 0
    /\ ValidPlan(x)
    /\ "shippedVariant" \in DOMAIN x => x.shippedVariant \in VariantKeys(x)

(* A goal metric names one experiment to every client.                     *)
UnambiguousGoals(s) ==
    \A x, y \in {e \in s.experiments : e.enabled} :
        x # y /\ x.goalMetric = y.goalMetric => ~RolesOverlap(x.roles, y.roles)

(* assertExperimentKeysExist: an experiment varies keys its clients see.   *)
KeysExist(x, s) ==
    \A v \in Members(x.variants) : \A key \in DOMAIN v.values :
        /\ key \in DOMAIN s.values
        /\ \A role \in Members(x.roles) : RoleSees(s.keyRoles[key], role)

(* toWireExperiment: what a client is told of an experiment.               *)
Withheld == FixedHorizonFields \cup {"roles", "assignmentUnitKind",
                "terminalRetentionMs", "shippedVariant", "hypothesis"}
Wire(x) == [field \in DOMAIN x \ Withheld |-> x[field]]

-----------------------------------------------------------------------------
(* validateProjectState.                                                   *)
ValidSnapshot(s) ==
    /\ ValidKeyRoles(s)
    /\ ValidRules(s)
    /\ \A x \in s.experiments : ValidExperiment(x)
    /\ UnambiguousGoals(s)
    /\ HonoursConstraints(s)

(* What a role sees, before the rules that depend on the client.           *)
RoleView(s, role) ==
    LET visible == {key \in DOMAIN s.values : RoleSees(s.keyRoles[key], role)}
        ruled == {key \in visible \cap DOMAIN s.keyRules : s.keyRules[key] # <<>>}
    IN [values |-> [key \in visible |-> s.values[key]],
        keyRules |-> [key \in ruled |-> s.keyRules[key]],
        experiments |-> {Wire(x) : x \in {e \in s.experiments :
                                             RoleSees(e.roles, role)}}]
(* The config on the wire; its hash, the config context, stands for it.    *)
WireSnapshot(view, client) ==
    [values |-> [key \in DOMAIN view.values |->
                    IF key \in DOMAIN view.keyRules
                    THEN Ruled(view.keyRules[key], view.values[key], client)
                    ELSE view.values[key]],
     experiments |-> view.experiments]
ConfigFor(s, client) == WireSnapshot(RoleView(s, client["role"].of), client)
=============================================================================
