---------------------------- MODULE AppConfigRules ----------------------------
(***************************************************************************)
(* One field of an app's configuration on its way: a request brings it,    *)
(* _validate_draft_app_config refuses or normalises it, publishing does so *)
(* again, and a turn resolves what is then stored.  In between, tools,     *)
(* workflows and knowledge bases come and go.                              *)
(***************************************************************************)
EXTENDS Integers, Sequences, SequencesExt

CONSTANTS References,      \* tools, workflows or knowledge bases that may be named
          MaxReferences,   \* how many of them an app may bind
          Malformed        \* a list element of the wrong form

ASSUME ReferencesAssumption == Malformed \notin References /\ MaxReferences \in Nat

VARIABLES field,           \* the field and the value it has now
          fieldStage,      \* what has become of it
          existing,        \* the references that the owner has (workflows: published)
          resolved         \* what a turn was given: the value, and the model made of it

ruleVars == <<field, fieldStage, existing, resolved>>

-----------------------------------------------------------------------------
(***************************************************************************)
(* Parameters of a model.  A value has the type that get_value_type names, *)
(* and "null" is None.  Numbers are scaled; the rules are the templates of *)
(* the catalogue, whose float parameters have integers as their defaults.  *)
(***************************************************************************)
ValueTypes == {"int", "float", "string", "boolean", "null"}
Value == [type : {"int", "float"}, n : -3 .. 4] \union [type : {"string", "boolean", "null"}, n : {0}]
Integer(n) == [type |-> "int", n |-> n]

Rules == {[type |-> "float", min |-> 0, max |-> 2, default |-> Integer(1)],     \* temperature
          [type |-> "float", min |-> -2, max |-> 2, default |-> Integer(0)],    \* penalties
          [type |-> "int", min |-> 1, max |-> 3, default |-> Integer(2)]}       \* max_tokens

\* Mutant: no bound is compared.
Normalised_NoBounds(rule, v) ==
    IF v.type \in {"null", rule.type} THEN v ELSE rule.default

\* None of the parameters is required: None stays, another type is replaced,
\* and a number is compared with those bounds that are not zero.
Normalised(rule, v) ==
    LET typed == IF v.type \in {"null", rule.type} THEN v ELSE rule.default
        outside == \/ rule.min # 0 /\ typed.n < rule.min
                   \/ rule.max # 0 /\ typed.n > rule.max
    IN IF typed.type # "null" /\ outside THEN rule.default ELSE typed

-----------------------------------------------------------------------------
(***************************************************************************)
(* LanguageModelManager makes the model of a turn, or refuses.             *)
(***************************************************************************)
\* An integer is a float, None is neither.
_validate_parameter_value(rule, v) ==
    /\ v.type \in (IF rule.type = "float" THEN {"int", "float"} ELSE {rule.type})
    /\ rule.min <= v.n
    /\ v.n <= rule.max

validate_model_config(config) ==
    IF config.model = "listed" /\ _validate_parameter_value(config.rule, config.value)
    THEN {config}
    ELSE {}

\* Whoever runs the program must have given it the key that the provider asks for, if
\* it asks for one, and installed the package that its class imports.
create_language_model(config, key, sdk) == IF key /\ sdk THEN validate_model_config(config) ELSE {}

-----------------------------------------------------------------------------
(***************************************************************************)
(* Lists of references.  Tools that are not there are dropped before the   *)
(* list is searched for duplicates, the others after it.                   *)
(***************************************************************************)
Lists == UNION {[1 .. n -> References \union {Malformed}] : n \in 0 .. MaxReferences + 1}

Found(list) == FoldLeft(LAMBDA found, r : IF r \in existing THEN Append(found, r) ELSE found, << >>, list)

WellFormed(list) ==
    /\ Len(list) <= MaxReferences
    /\ \A i \in DOMAIN list : list[i] # Malformed

\* Mutant: what is not there stays in the list.
ValidTools_KeepsMissing(list) ==
    IF WellFormed(list) /\ IsInjective(Found(list)) THEN {list} ELSE {}

\* The list as it is stored, or nothing when it is refused.
ValidTools(list) == IF WellFormed(list) /\ IsInjective(Found(list)) THEN {Found(list)} ELSE {}
ValidWorkflows(list) == IF WellFormed(list) /\ IsInjective(list) THEN {Found(list)} ELSE {}
ValidDatasets(list) == IF WellFormed(list) /\ IsInjective(list) THEN {Found(list)} ELSE {}

-----------------------------------------------------------------------------
(***************************************************************************)
(* The remaining fields.  "other" is a value of another type, or a         *)
(* dictionary with other keys.                                             *)
(***************************************************************************)
Texts == {"short", "long", "other"}

Reviews == [enable : BOOLEAN, keywords : {"none", "some", "many", "other"},
            inputs : {"off", "on", "blank", "other"}, outputs : {"off", "on", "other"}]

\* An enabled review needs a keyword, a side that is on, and an answer for the input.
ValidReview(review) ==
    /\ review.keywords \in {"none", "some"}
    /\ review.enable => review.keywords = "some"
    /\ review.inputs # "other"
    /\ review.outputs # "other"
    /\ review.enable => /\ review.inputs # "off" \/ review.outputs # "off"
                        /\ review.inputs # "blank"

Retrievals == [strategy : {"semantic", "full_text", "hybrid", "other"}, k : {-1, 0, 10, 11},
               score : [type : {"int", "float"}, n : {0, 1}]]

\* k counts from 0 to 10; a score written as the integer 0 or 1 is no float.
ValidRetrieval(retrieval) ==
    /\ retrieval.strategy # "other"
    /\ 0 <= retrieval.k /\ retrieval.k <= 10
    /\ retrieval.score.type = "float"

Switches == {"on", "off", "other"}
Questions == {"none", "three", "four", "other"}
Rounds == {-1, 0, 100, 101}

ModelConfigs == [model : {"listed", "unlisted", "other"}, rule : Rules, value : Value]

Fields ==
    [name : {"tools", "workflows", "datasets"}, value : Lists]
    \union [name : {"model_config"}, value : ModelConfigs]
    \union [name : {"preset_prompt", "opening_statement"}, value : Texts]
    \union [name : {"long_term_memory", "speech_to_text", "suggested_after_answer", "text_to_speech"},
            value : Switches]
    \union [name : {"opening_questions"}, value : Questions]
    \union [name : {"dialog_round"}, value : Rounds]
    \union [name : {"retrieval_config"}, value : Retrievals]
    \union [name : {"review_config"}, value : Reviews]

\* A model that is not in the catalogue is refused, a parameter is normalised.
ValidModel(config) ==
    IF config.model = "listed"
    THEN {[config EXCEPT !.value = Normalised(config.rule, @)]}
    ELSE {}

_validate_draft_app_config(f) ==
    CASE f.name = "model_config" -> ValidModel(f.value)
      [] f.name = "tools" -> ValidTools(f.value)
      [] f.name = "workflows" -> ValidWorkflows(f.value)
      [] f.name = "datasets" -> ValidDatasets(f.value)
      [] f.name = "retrieval_config" -> {r \in {f.value} : ValidRetrieval(r)}
      [] f.name = "review_config" -> {r \in {f.value} : ValidReview(r)}
      [] f.name \in {"preset_prompt", "opening_statement"} -> {f.value} \intersect {"short"}
      [] f.name = "opening_questions" -> {f.value} \intersect {"none", "three"}
      [] f.name = "dialog_round" -> {f.value} \intersect (0 .. 100)
      [] OTHER -> {f.value} \intersect {"on", "off"}

-----------------------------------------------------------------------------
\* _resolve_app_config: what a turn gets of what is stored; the catalogue of
\* models does not change while the program runs.
Resolved(f) ==
    CASE f.name \in {"tools", "workflows", "datasets"} -> Found(f.value)
      [] f.name = "model_config" -> [f.value EXCEPT !.value = Normalised(f.value.rule, @)]
      [] OTHER -> f.value

RuleInit ==
    /\ field = [name |-> "dialog_round", value |-> 0]
    /\ fieldStage = "default"
    /\ existing = References
    /\ resolved = {}

Store(from, to, refused, f) ==
    /\ fieldStage \in from
    /\ LET stored == _validate_draft_app_config(f)
       IN \/ /\ stored = {}
             /\ fieldStage' = refused
             /\ field' = f
          \/ \E v \in stored :
                /\ fieldStage' = to
                /\ field' = [f EXCEPT !.value = v]
    /\ resolved' = {}
    /\ UNCHANGED existing

SaveDraft == \E f \in Fields : Store({"default"}, "saved", "refused", f)

\* publish_draft_app_config validates the stored draft once more.
PublishDraft == Store({"saved"}, "published", "unpublishable", field)

Resolve ==
    /\ fieldStage \in {"saved", "published"}
    /\ \E key, sdk \in BOOLEAN :
          resolved' = {[value |-> Resolved(field), key |-> key, sdk |-> sdk,
                        llm |-> IF field.name = "model_config"
                                THEN create_language_model(Resolved(field), key, sdk) ELSE {}]}
    /\ UNCHANGED <<field, fieldStage, existing>>

ReferencesChange ==
    /\ fieldStage \in {"default", "saved"}
    /\ \E r \in References :
          existing' = IF r \in existing THEN existing \ {r} ELSE existing \union {r}
    /\ UNCHANGED <<field, fieldStage, resolved>>

RuleNext == SaveDraft \/ PublishDraft \/ Resolve \/ ReferencesChange

RuleSpec == RuleInit /\ [][RuleNext]_ruleVars

-----------------------------------------------------------------------------
\* A draft that was saved is never refused when it is published, whatever has
\* been deleted, cancelled or published again in between.
SavedIsPublishable == fieldStage # "unpublishable"

\* What a turn gets of a stored field runs: nothing is bound twice, and the model has
\* the parameter that was stored and is there whenever the key and the package are, except for the two
\* values that the draft's check lets through and the model layer does not: None, and
\* a negative number where the minimum is 0.
ResolvedRuns ==
    \A given \in resolved :
        /\ field.name \in {"tools", "workflows", "datasets"} => IsInjective(given.value)
        /\ field.name = "model_config" =>
              LET rule == field.value.rule
                  v == field.value.value
                  slips == v.type = "null" \/ (rule.min = 0 /\ v.n < 0)
              IN given.llm = IF given.key /\ given.sdk /\ ~slips THEN {field.value} ELSE {}
=============================================================================
