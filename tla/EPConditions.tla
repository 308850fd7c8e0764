----------------------------- MODULE EPConditions -----------------------------
(***************************************************************************)
(* The conditions of src/CIL/ep_dependencies_config.cpp, which say for     *)
(* which configurations of an EP a file of its dependencies is needed.     *)
(* A clause is a function from keys to the values it allows; a condition   *)
(* is a set of clauses, one of which must match, and the empty condition   *)
(* matches always.                                                         *)
(***************************************************************************)
CONSTANTS
  Key, Value,  (* of configurations                                        *)
  Lower(_)     (* a value in lower case                                    *)

Clause == UNION {[keys -> SUBSET Value \ {{}}] : keys \in SUBSET Key \ {{}}}
Condition == SUBSET Clause
Config == UNION {[keys -> Value] : keys \in SUBSET Key}

Always == {}

(* Of the file: a key without a value and a clause without a key count for *)
(* nothing.                                                                *)
ParseConditionClause(raw) ==
  [k \in {key \in DOMAIN raw : raw[key] # {}} |-> raw[k]]

ParseCondition(raws) == {ParseConditionClause(raw) : raw \in raws} \ {<< >>}

(* Values are compared in lower case.                                      *)
ClauseMatchesConfig(clause, config) ==
  \A k \in DOMAIN clause :
    /\ k \in DOMAIN config
    /\ \E v \in clause[k] : Lower(v) = Lower(config[k])

ConditionMatchesConfig(condition, config) ==
  condition = Always \/ \E clause \in condition : ClauseMatchesConfig(clause, config)

Common(a, b) == DOMAIN a \cap DOMAIN b

(* No value is left for a key of both. Here the case of letters counts.    *)
Exclude(a, b) == \E k \in Common(a, b) : a[k] \cap b[k] = {}

Merge(a, b) ==
  [k \in DOMAIN a \cup DOMAIN b |->
     IF k \in Common(a, b) THEN a[k] \cap b[k]
     ELSE IF k \in DOMAIN a THEN a[k] ELSE b[k]]

CombineConditions(a, b) ==
  IF a = Always THEN b
  ELSE IF b = Always THEN a
  ELSE {Merge(p[1], p[2]) : p \in {q \in a \X b : ~Exclude(q[1], q[2])}}

(* The two conditions spell the values they share alike, as those of the   *)
(* shipped dependencies do: none of their values differ by case alone.     *)
SpelledAlike(a, b) ==
  \A c \in a, d \in b : \A k \in Common(c, d) :
    \A v \in c[k], w \in d[k] : Lower(v) = Lower(w) => v = w

(* Of the files, those some configuration needs.                           *)
IsKept(file, configs) ==
  file.condition = Always
    \/ \E config \in configs : ConditionMatchesConfig(file.condition, config)

=============================================================================
