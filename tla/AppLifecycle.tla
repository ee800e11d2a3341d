----------------------------- MODULE AppLifecycle -----------------------------
(***************************************************************************)
(* One app under AppService: its draft, its publications and the turns     *)
(* that read its runtime configuration.  Every write of the life cycle is  *)
(* a transaction that holds the row of the app from its first statement to *)
(* its commit; a turn holds nothing and reads the configuration in several *)
(* statements, and knowledge bases and workflows come and go meanwhile.    *)
(***************************************************************************)
EXTENDS Integers, Sequences

CONSTANTS Datasets,        \* knowledge bases of the owner
          Workflows,       \* workflows of the owner
          Writers,         \* requests that write the app
          Turns,           \* turns of the published app
          Readers,         \* requests that show the draft
          MaxVersions      \* bound on the publications of a run

ASSUME VersionsAssumption == MaxVersions \in Nat

VARIABLES app,             \* the row of the app
          draft,           \* the draft rows of the app (one, none once it is deleted)
          configs,         \* AppConfig rows in the order of their creation
          versions,        \* AppConfigVersion rows of type published
          joins,           \* AppDatasetJoin rows
          datasets,        \* the knowledge bases that exist
          published,       \* the workflows that are published
          job,             \* the open transaction of each writer
          turn,            \* how far each turn has read the configuration
          reader           \* the readers of the draft

appVars == <<app, draft, configs, versions, joins, datasets, published, job, turn, reader>>

\* What a configuration refers to; the other fields are checked in AppConfigRules.
Config == [datasets : SUBSET Datasets, workflows : SUBSET Workflows]
DefaultConfig == [datasets |-> {}, workflows |-> {}]

App == [exists : BOOLEAN, status : {"draft", "published"}, token : BOOLEAN, app_config_id : Nat]
Version == [version : Nat, config : Config]

NoJob == [at |-> "idle"]
Jobs == {"update", "fallback", "publish", "cancel", "delete", "copy",
         "get_published_config", "regenerate_web_app_token"}
Job == [at : Jobs, app : App, values : Config, version : Nat]

Turn == [at : {"new", "found", "config", "datasets", "ready", "refused"},
         app_config_id : Nat, datasets : SUBSET Datasets, workflows : SUBSET Workflows]

AppTypeOK ==
    /\ app \in App
    /\ draft \subseteq Config
    /\ configs \in Seq(SUBSET Workflows)
    /\ versions \in Seq(Version)
    /\ joins \subseteq Datasets
    /\ datasets \subseteq Datasets
    /\ published \subseteq Workflows
    /\ job \in [Writers -> {NoJob} \union Job]
    /\ turn \in [Turns -> Turn]
    /\ reader \in [Readers -> {"new", "found"}]

\* create_app
AppInit ==
    /\ app = [exists |-> TRUE, status |-> "draft", token |-> FALSE, app_config_id |-> 0]
    /\ draft = {DefaultConfig}
    /\ configs = << >>
    /\ versions = << >>
    /\ joins = {}
    /\ datasets = Datasets
    /\ published = Workflows
    /\ job = [w \in Writers |-> NoJob]
    /\ turn = [t \in Turns |-> [at |-> "new", app_config_id |-> 0, datasets |-> {}, workflows |-> {}]]
    /\ reader = [r \in Readers |-> "new"]

-----------------------------------------------------------------------------
(***************************************************************************)
(* Writers.  A transaction begins with the lock of the row and reads all   *)
(* it needs; what it writes is seen by others when it commits.             *)
(***************************************************************************)
\* _validate_draft_app_config keeps the references that are there.
Validated(config) ==
    [datasets |-> config.datasets \intersect datasets,
     workflows |-> config.workflows \intersect published]

\* Mutant: the row is read without FOR UPDATE.
RowIsFree_NoLock == app.exists

RowIsFree == app.exists /\ \A w \in Writers : job[w] = NoJob

\* coalesce(max(version), 0)
LastVersion ==
    LET numbers == {0} \union {versions[i].version : i \in DOMAIN versions}
    IN CHOOSE n \in numbers : \A m \in numbers : m <= n

_get_app_for_update(w, operation, values) ==
    /\ job[w] = NoJob
    /\ RowIsFree
    /\ job' = [job EXCEPT ![w] = [at |-> operation, app |-> app, values |-> values,
                                  version |-> LastVersion + 1]]
    /\ UNCHANGED <<app, draft, configs, versions, joins, datasets, published, turn, reader>>

\* A draft that is missing is replaced by the default one.
_get_draft_record == IF draft = {} THEN DefaultConfig ELSE CHOOSE config \in draft : TRUE

\* A request brings some of the fields, validated; the others stay as they are.
BeginUpdate(w) ==
    \E values \in [datasets : {_get_draft_record.datasets} \union SUBSET datasets,
                   workflows : {_get_draft_record.workflows} \union SUBSET published] :
        _get_app_for_update(w, "update", values)

BeginPublication(w) ==
    /\ Len(versions) < MaxVersions
    /\ _get_app_for_update(w, "publish", Validated(_get_draft_record))

BeginFallback(w) ==
    \E i \in DOMAIN versions :
        _get_app_for_update(w, "fallback", Validated(versions[i].config))

\* An app that is not published is not cancelled and gets no token.
BeginOther(w) ==
    \/ app.status = "published" /\ _get_app_for_update(w, "cancel", DefaultConfig)
    \/ app.status = "published" /\ _get_app_for_update(w, "regenerate_web_app_token", DefaultConfig)
    \/ \E operation \in {"get_published_config", "delete", "copy"} :
          _get_app_for_update(w, operation, DefaultConfig)

Commit(w, operation) ==
    /\ job[w].at = operation
    /\ job' = [job EXCEPT ![w] = NoJob]
    /\ UNCHANGED <<datasets, published, turn, reader>>

\* update_draft_app_config, fallback_history_to_draft
WriteDraft(w) ==
    /\ Commit(w, "update") \/ Commit(w, "fallback")
    /\ draft' = {job[w].values}
    /\ UNCHANGED <<app, configs, versions, joins>>

publish_draft_app_config(w) ==
    LET values == job[w].values
    IN /\ Commit(w, "publish")
       /\ configs' = Append(configs, values.workflows)
       /\ joins' = values.datasets
       /\ versions' = Append(versions, [version |-> job[w].version, config |-> values])
       /\ draft' = {values}
       /\ app' = [app EXCEPT !.app_config_id = Len(configs) + 1, !.status = "published"]

cancel_publish_app_config(w) ==
    /\ Commit(w, "cancel")
    /\ app' = [app EXCEPT !.status = "draft", !.app_config_id = 0, !.token = FALSE]
    /\ joins' = {}
    /\ UNCHANGED <<draft, configs, versions>>

\* Both decide by the row as they read it.
get_published_config(w) ==
    /\ Commit(w, "get_published_config")
    /\ app' = [app EXCEPT !.token = job[w].app.status = "published"]
    /\ UNCHANGED <<draft, configs, versions, joins>>

regenerate_web_app_token(w) ==
    /\ Commit(w, "regenerate_web_app_token")
    /\ app' = [app EXCEPT !.token = TRUE]
    /\ UNCHANGED <<draft, configs, versions, joins>>

delete_app(w) ==
    /\ Commit(w, "delete")
    /\ app' = [exists |-> FALSE, status |-> "draft", token |-> FALSE, app_config_id |-> 0]
    /\ joins' = {}
    /\ versions' = << >>
    /\ configs' = << >>
    /\ draft' = {}

\* The copy is another app with this draft; this one is only read.
copy_app(w) ==
    /\ Commit(w, "copy")
    /\ UNCHANGED <<app, draft, configs, versions, joins>>

\* The request fails and auto_commit rolls back.
Rollback(w) ==
    /\ job[w] # NoJob
    /\ job' = [job EXCEPT ![w] = NoJob]
    /\ UNCHANGED <<app, draft, configs, versions, joins, datasets, published, turn, reader>>

Write(w) ==
    \/ BeginUpdate(w) \/ BeginPublication(w) \/ BeginFallback(w) \/ BeginOther(w)
    \/ WriteDraft(w) \/ publish_draft_app_config(w) \/ cancel_publish_app_config(w)
    \/ get_published_config(w) \/ regenerate_web_app_token(w)
    \/ delete_app(w) \/ copy_app(w) \/ Rollback(w)

-----------------------------------------------------------------------------
(***************************************************************************)
(* The world around the app: delete_dataset removes the row and its joins, *)
(* and workflows are published and cancelled, none of them under the lock. *)
(***************************************************************************)
DeleteDataset(d) ==
    /\ d \in datasets
    /\ datasets' = datasets \ {d}
    /\ joins' = joins \ {d}
    /\ UNCHANGED <<app, draft, configs, versions, published, job, turn, reader>>

SwitchWorkflow(f) ==
    /\ published' = IF f \in published THEN published \ {f} ELSE published \union {f}
    /\ UNCHANGED <<app, draft, configs, versions, joins, datasets, job, turn, reader>>

-----------------------------------------------------------------------------
(***************************************************************************)
(* A turn of the published app: get_web_app, then get_app_config.          *)
(***************************************************************************)
TurnGoes(t, from, values) ==
    /\ turn[t].at = from
    /\ turn' = [turn EXCEPT ![t] = values]
    /\ UNCHANGED <<app, draft, configs, versions, joins, datasets, published, job, reader>>

get_web_app(t) ==
    /\ app.token
    /\ app.status = "published"
    /\ TurnGoes(t, "new", [turn[t] EXCEPT !.at = "found", !.app_config_id = app.app_config_id])

\* Mutant: a row of the app, not the row that the pointer names.
ReadConfig_AnyRow(t) ==
    \E i \in DOMAIN configs :
        TurnGoes(t, "found", [turn[t] EXCEPT !.at = "config", !.workflows = configs[i]])

\* The pointer is the one of the row that was found; the row may be gone.
ReadConfig(t) ==
    IF turn[t].app_config_id \in DOMAIN configs
    THEN TurnGoes(t, "found",
             [turn[t] EXCEPT !.at = "config", !.workflows = configs[turn[t].app_config_id]])
    ELSE TurnGoes(t, "found", [turn[t] EXCEPT !.at = "refused"])

ReadJoins(t) ==
    TurnGoes(t, "config", [turn[t] EXCEPT !.at = "datasets", !.datasets = joins \intersect datasets])

ReadWorkflows(t) ==
    TurnGoes(t, "datasets", [turn[t] EXCEPT !.at = "ready", !.workflows = @ \intersect published])

get_app_config(t) == ReadConfig(t) \/ ReadJoins(t) \/ ReadWorkflows(t)

-----------------------------------------------------------------------------
(***************************************************************************)
(* get_draft_app_config: the app is found first, and the property of the   *)
(* model creates a draft when it then finds none.                          *)
(***************************************************************************)
FindApp(r) ==
    /\ app.exists
    /\ reader[r] = "new"
    /\ reader' = [reader EXCEPT ![r] = "found"]
    /\ UNCHANGED <<app, draft, configs, versions, joins, datasets, published, job, turn>>

draft_app_config(r) ==
    /\ reader[r] = "found"
    /\ reader' = [reader EXCEPT ![r] = "new"]
    /\ draft' = IF draft = {} THEN {DefaultConfig} ELSE draft
    /\ UNCHANGED <<app, configs, versions, joins, datasets, published, job, turn>>

AppNext ==
    \/ \E w \in Writers : Write(w)
    \/ \E d \in Datasets : DeleteDataset(d)
    \/ \E f \in Workflows : SwitchWorkflow(f)
    \/ \E t \in Turns : get_web_app(t) \/ get_app_config(t)
    \/ \E r \in Readers : FindApp(r) \/ draft_app_config(r)

AppSpec == AppInit /\ [][AppNext]_appVars

-----------------------------------------------------------------------------
\* Publications are numbered 1, 2, 3, ... as they commit, though the number comes
\* of a query; and what a published app runs (the row its pointer names, and its
\* joins) is the newest, except for knowledge bases deleted since.  Only a published
\* app has a token by which the web app finds it.
VersionsAreSequential ==
    Len(configs) = Len(versions) /\ \A i \in DOMAIN versions : versions[i].version = i

PointsAtLatest ==
    LET n == Len(versions)
    IN /\ n > 0
       /\ app.app_config_id = n
       /\ configs[n] = versions[n].config.workflows
       /\ joins \intersect datasets = versions[n].config.datasets \intersect datasets

PublishedIsLatest ==
    /\ VersionsAreSequential
    /\ app.status = "published" => PointsAtLatest
    /\ app.token => app.status = "published"

\* A turn is never run with what had been published before the publication it
\* found: its workflows belong to that one, and its knowledge bases to it or to
\* a single later one.
TurnIsNotOlder ==
    \A t \in Turns :
        LET n == turn[t].app_config_id
        IN turn[t].at = "ready" /\ n \in DOMAIN versions =>
             /\ turn[t].workflows \subseteq versions[n].config.workflows
             /\ \E m \in n .. Len(versions) : turn[t].datasets \subseteq versions[m].config.datasets
=============================================================================
