-------------------------- MODULE AppLifecycle_proofs --------------------------
(***************************************************************************)
(* Theorems of AppLifecycle, for any number of writers, turns, knowledge   *)
(* bases, workflows and publications: a published app runs its newest      *)
(* publication, and no turn a mixture older than the one it found.         *)
(***************************************************************************)
EXTENDS AppLifecycle, TLAPS

Busy(w) == job[w].at # "idle"

\* One transaction at a time, and what it has read is still so.
JobAgrees(w) ==
    /\ \A v \in Writers : Busy(w) /\ Busy(v) => v = w
    /\ Busy(w) =>
          /\ app.exists
          /\ job[w].app = app
          /\ job[w].version = Len(versions) + 1
          /\ job[w].at \in {"cancel", "regenerate_web_app_token"} => app.status = "published"

\* The two tables of publications grow together.
Numbered ==
    /\ Len(configs) = Len(versions)
    /\ \A i \in 1 .. Len(versions) : versions[i].version = i /\ configs[i] = versions[i].config.workflows

RowAgrees ==
    /\ app.status = "published" => PointsAtLatest
    /\ app.token => app.status = "published"
    /\ app.status = "draft" => joins = {}

\* A turn has met no publication that is yet to come.
TurnAgrees(t) ==
    LET n == turn[t].app_config_id
    IN /\ app.exists => n <= Len(versions)
       /\ turn[t].at \in {"config", "datasets", "ready"} /\ n \in 1 .. Len(versions) =>
             turn[t].workflows \subseteq versions[n].config.workflows
       /\ turn[t].at \in {"datasets", "ready"} /\ n \in 1 .. Len(versions) =>
             \E m \in n .. Len(versions) : turn[t].datasets \subseteq versions[m].config.datasets

\* The inductive invariant.
AppInv ==
    /\ AppTypeOK
    /\ Numbered
    /\ RowAgrees
    /\ \A w \in Writers : JobAgrees(w)
    /\ \A t \in Turns : TurnAgrees(t)

-----------------------------------------------------------------------------
LEMMA ElementOfHistory ==
    ASSUME NEW S, NEW s \in Seq(S), NEW i \in 1 .. Len(s)
    PROVE  s[i] \in S
OBVIOUS

LEMMA MoreOfHistory ==
    ASSUME NEW S, NEW s \in Seq(S), NEW x \in S
    PROVE  /\ Append(s, x) \in Seq(S)
           /\ Len(Append(s, x)) = Len(s) + 1
           /\ Append(s, x)[Len(s) + 1] = x
           /\ \A i \in 1 .. Len(s) : Append(s, x)[i] = s[i]
OBVIOUS

LEMMA LengthOfSeq ==
    ASSUME NEW S, NEW s \in Seq(S)
    PROVE  Len(s) \in Nat /\ DOMAIN s = 1 .. Len(s)
OBVIOUS

LEMMA AppTypes ==
    ASSUME AppTypeOK
    PROVE  /\ app \in App /\ app.exists \in BOOLEAN /\ app.status \in {"draft", "published"}
           /\ app.token \in BOOLEAN /\ app.app_config_id \in Nat
           /\ draft \subseteq Config
           /\ Len(versions) \in Nat /\ DOMAIN versions = 1 .. Len(versions)
           /\ Len(configs) \in Nat /\ DOMAIN configs = 1 .. Len(configs)
           /\ \A i \in 1 .. Len(versions) : versions[i] \in Version /\ versions[i].config \in Config
           /\ \A i \in 1 .. Len(configs) : configs[i] \subseteq Workflows
           /\ joins \subseteq Datasets /\ datasets \subseteq Datasets /\ published \subseteq Workflows
<1>1. versions \in Seq(Version) /\ configs \in Seq(SUBSET Workflows)
  BY DEF AppTypeOK
<1>2. \A i \in 1 .. Len(versions) : versions[i] \in Version
  BY <1>1, ElementOfHistory
<1>3. \A i \in 1 .. Len(configs) : configs[i] \in SUBSET Workflows
  BY <1>1, ElementOfHistory
<1>4. \A i \in 1 .. Len(versions) : versions[i].config \in Config
  BY <1>2 DEF Version
<1>5. /\ Len(versions) \in Nat /\ DOMAIN versions = 1 .. Len(versions)
      /\ Len(configs) \in Nat /\ DOMAIN configs = 1 .. Len(configs)
  BY <1>1, LengthOfSeq
<1>6. /\ app \in App /\ draft \subseteq Config
      /\ joins \subseteq Datasets /\ datasets \subseteq Datasets /\ published \subseteq Workflows
  BY DEF AppTypeOK
<1>7. /\ app.exists \in BOOLEAN /\ app.status \in {"draft", "published"}
      /\ app.token \in BOOLEAN /\ app.app_config_id \in Nat
  BY <1>6 DEF App
<1> QED BY <1>2, <1>3, <1>4, <1>5, <1>6, <1>7

LEMMA JobRecord ==
    ASSUME AppTypeOK, NEW w \in Writers
    PROVE  /\ job[w] = NoJob <=> ~Busy(w)
           /\ Busy(w) => job[w].values \in Config
<1>1. job[w] \in {NoJob} \union Job
  BY DEF AppTypeOK
<1>2. CASE job[w] = NoJob
  BY <1>2 DEF NoJob, Busy
<1>3. CASE job[w] \in Job
  <2>1. job[w].at \in Jobs /\ job[w].values \in Config
    BY <1>3 DEF Job
  <2>2. job[w].at # "idle"
    BY <2>1 DEF Jobs
  <2>3. job[w] # NoJob
    BY <2>2 DEF NoJob
  <2> QED BY <2>1, <2>2, <2>3 DEF Busy
<1> QED BY <1>1, <1>2, <1>3

\* The number that the query finds is that of the newest publication.
LEMMA LastVersionIsLength == AppTypeOK /\ Numbered => LastVersion = Len(versions)
<1> SUFFICES ASSUME AppTypeOK, Numbered PROVE LastVersion = Len(versions)
  OBVIOUS
<1> DEFINE numbers == {0} \union {versions[i].version : i \in DOMAIN versions}
           n == Len(versions)
<1>1. n \in Nat /\ DOMAIN versions = 1 .. n
  BY AppTypes
<1>2. \A i \in 1 .. n : versions[i].version = i
  BY DEF Numbered
<1>3. n \in numbers
  <2>1. CASE n = 0 BY <2>1
  <2>2. CASE n # 0
    <3>1. n \in DOMAIN versions /\ versions[n].version = n
      BY <1>1, <1>2, <2>2
    <3> QED BY <3>1
  <2> QED BY <2>1, <2>2
<1>4. \A m \in numbers : m \in Nat /\ m <= n
  BY <1>1, <1>2
<1>5. \E k \in numbers : \A m \in numbers : m <= k
  BY <1>3, <1>4
<1>6. LastVersion = CHOOSE k \in numbers : \A m \in numbers : m <= k
  BY DEF LastVersion
<1> HIDE DEF numbers
<1>7. LastVersion \in numbers /\ \A m \in numbers : m <= LastVersion
  BY <1>5, <1>6
<1> QED BY <1>1, <1>3, <1>4, <1>7

LEMMA AppInitially == AppInit => AppInv
<1> SUFFICES ASSUME AppInit PROVE AppInv
  OBVIOUS
<1>1. /\ app = [exists |-> TRUE, status |-> "draft", token |-> FALSE, app_config_id |-> 0]
      /\ draft = {DefaultConfig} /\ configs = << >> /\ versions = << >> /\ joins = {}
      /\ datasets = Datasets /\ published = Workflows
      /\ job = [w \in Writers |-> NoJob]
      /\ turn = [t \in Turns |-> [at |-> "new", app_config_id |-> 0, datasets |-> {}, workflows |-> {}]]
      /\ reader = [r \in Readers |-> "new"]
  BY DEF AppInit
<1>2. app \in App /\ draft \subseteq Config
  BY <1>1 DEF App, DefaultConfig, Config
<1>3. configs \in Seq(SUBSET Workflows) /\ versions \in Seq(Version) /\ Len(versions) = 0 /\ Len(configs) = 0
  BY <1>1
<1>4. job \in [Writers -> {NoJob} \union Job] /\ turn \in [Turns -> Turn] /\ reader \in [Readers -> {"new", "found"}]
  BY <1>1 DEF Turn
<1>5. AppTypeOK
  BY <1>1, <1>2, <1>3, <1>4 DEF AppTypeOK
<1>6. Numbered
  BY <1>3 DEF Numbered
<1>7. RowAgrees
  BY <1>1 DEF RowAgrees
<1>8. \A w \in Writers : ~Busy(w)
  BY <1>1 DEF Busy, NoJob
<1>9. \A w \in Writers : JobAgrees(w)
  BY <1>8 DEF JobAgrees
<1>10. \A t \in Turns : turn[t].app_config_id = 0 /\ turn[t].at = "new"
  BY <1>1
<1>11. \A t \in Turns : TurnAgrees(t)
  BY <1>3, <1>10 DEF TurnAgrees
<1> QED BY <1>5, <1>6, <1>7, <1>9, <1>11 DEF AppInv

-----------------------------------------------------------------------------
\* A transaction begins: it is the only one, and has read the row as it is.
LEMMA BeginJobStep ==
    ASSUME AppInv, NEW w \in Writers, NEW operation \in Jobs, NEW values \in Config,
           _get_app_for_update(w, operation, values),
           operation \in {"cancel", "regenerate_web_app_token"} => app.status = "published"
    PROVE  AppInv'
<1>1. /\ UNCHANGED <<app, draft, configs, versions, joins, datasets, published, turn, reader>>
      /\ app.exists /\ \A v \in Writers : job[v] = NoJob
  BY DEF _get_app_for_update, RowIsFree
<1> DEFINE begun == [at |-> operation, app |-> app, values |-> values, version |-> LastVersion + 1]
<1>2. job' = [job EXCEPT ![w] = begun]
  BY DEF _get_app_for_update
<1>3. LastVersion = Len(versions) /\ Len(versions) \in Nat /\ app \in App
  BY LastVersionIsLength, AppTypes DEF AppInv
<1>4. /\ begun \in Job /\ begun.at = operation /\ begun.app = app
      /\ begun.version = Len(versions) + 1
  BY <1>3 DEF Job
<1> HIDE DEF begun
<1>5. job \in [Writers -> {NoJob} \union Job]
  BY DEF AppInv, AppTypeOK
<1>6. /\ job' \in [Writers -> {NoJob} \union Job] /\ job'[w] = begun
      /\ \A v \in Writers \ {w} : job'[v] = NoJob
  BY <1>1, <1>2, <1>4, <1>5
<1>7. \A v \in Writers \ {w} : ~Busy(v)'
  BY <1>6 DEF Busy, NoJob
<1>8. AppTypeOK'
  BY <1>1, <1>6 DEF AppInv, AppTypeOK
<1>9. JobAgrees(w)'
  BY <1>1, <1>4, <1>6, <1>7 DEF JobAgrees
<1>10. \A v \in Writers : JobAgrees(v)'
  BY <1>7, <1>9 DEF JobAgrees
<1>11. Numbered' /\ RowAgrees' /\ \A t \in Turns : TurnAgrees(t)'
  BY <1>1 DEF AppInv, Numbered, RowAgrees, PointsAtLatest, TurnAgrees
<1> QED BY <1>8, <1>10, <1>11 DEF AppInv

LEMMA DraftRecord == AppTypeOK => _get_draft_record \in Config
<1>1. DefaultConfig \in Config
  BY DEF DefaultConfig, Config
<1> QED BY <1>1 DEF AppTypeOK, _get_draft_record

LEMMA ValidatedConfig ==
    ASSUME NEW config \in Config
    PROVE  Validated(config) \in Config
BY DEF Config, Validated

LEMMA BeginSteps ==
    ASSUME AppInv, NEW w \in Writers,
           BeginUpdate(w) \/ BeginPublication(w) \/ BeginFallback(w) \/ BeginOther(w)
    PROVE  AppInv'
<1>1. _get_draft_record \in Config /\ DefaultConfig \in Config
  BY DraftRecord DEF AppInv, DefaultConfig, Config
<1>2. CASE BeginUpdate(w)
  <2>1. PICK values \in [datasets : {_get_draft_record.datasets} \union SUBSET datasets,
                         workflows : {_get_draft_record.workflows} \union SUBSET published] :
            _get_app_for_update(w, "update", values)
    BY <1>2 DEF BeginUpdate
  <2>2. datasets \subseteq Datasets /\ published \subseteq Workflows
    BY AppTypes DEF AppInv
  <2>3. _get_draft_record.datasets \subseteq Datasets /\ _get_draft_record.workflows \subseteq Workflows
    BY <1>1 DEF Config
  <2>4. values \in Config
    BY <2>2, <2>3 DEF Config
  <2> QED BY <2>1, <2>4, BeginJobStep DEF Jobs
<1>3. CASE BeginPublication(w)
  BY <1>1, <1>3, ValidatedConfig, BeginJobStep DEF BeginPublication, Jobs
<1>4. CASE BeginFallback(w)
  <2>1. PICK i \in DOMAIN versions : _get_app_for_update(w, "fallback", Validated(versions[i].config))
    BY <1>4 DEF BeginFallback
  <2>2. versions[i].config \in Config
    BY AppTypes DEF AppInv
  <2> QED BY <2>1, <2>2, ValidatedConfig, BeginJobStep DEF Jobs
<1>5. CASE BeginOther(w)
  BY <1>1, <1>5, BeginJobStep DEF BeginOther, Jobs
<1> QED BY <1>2, <1>3, <1>4, <1>5

-----------------------------------------------------------------------------
\* A transaction ends, and none is open.
LEMMA EndStep ==
    ASSUME AppInv, NEW w \in Writers, Busy(w), job' = [job EXCEPT ![w] = NoJob],
           UNCHANGED <<datasets, published, turn, reader>>,
           app' \in App, draft' \subseteq Config, configs' \in Seq(SUBSET Workflows),
           versions' \in Seq(Version), joins' \subseteq Datasets,
           Numbered', RowAgrees', \A t \in Turns : TurnAgrees(t)'
    PROVE  AppInv'
<1>1. job \in [Writers -> {NoJob} \union Job]
  BY DEF AppInv, AppTypeOK
<1>2. \A v \in Writers \ {w} : ~Busy(v)
  BY DEF AppInv, JobAgrees
<1>3. \A v \in Writers \ {w} : job'[v] = job[v]
  BY <1>1
<1>4. job' \in [Writers -> {NoJob} \union Job] /\ job'[w] = NoJob
  BY <1>1
<1>5. \A v \in Writers : ~Busy(v)'
  BY <1>2, <1>3, <1>4 DEF Busy, NoJob
<1>6. \A v \in Writers : JobAgrees(v)'
  BY <1>5 DEF JobAgrees
<1>7. AppTypeOK'
  BY <1>4 DEF AppInv, AppTypeOK
<1> QED BY <1>6, <1>7 DEF AppInv

LEMMA CommitFacts ==
    ASSUME AppInv, NEW w \in Writers, NEW operation \in Jobs, Commit(w, operation)
    PROVE  /\ Busy(w) /\ job[w].at = operation
           /\ job' = [job EXCEPT ![w] = NoJob]
           /\ UNCHANGED <<datasets, published, turn, reader>>
           /\ app.exists /\ job[w].app = app /\ job[w].version = Len(versions) + 1
           /\ job[w].values \in Config
           /\ operation \in {"cancel", "regenerate_web_app_token"} => app.status = "published"
<1>1. job[w].at = operation /\ operation # "idle"
  BY DEF Commit, Jobs
<1>2. Busy(w)
  BY <1>1 DEF Busy
<1>3. job[w].values \in Config
  BY <1>2, JobRecord DEF AppInv
<1> QED BY <1>1, <1>2, <1>3 DEF Commit, AppInv, JobAgrees

\* The publications do not change, nor does it whether the app exists.
LEMMA SamePublications ==
    ASSUME AppInv, UNCHANGED <<configs, versions, turn>>, app'.exists = app.exists
    PROVE  Numbered' /\ \A t \in Turns : TurnAgrees(t)'
BY DEF AppInv, Numbered, TurnAgrees

LEMMA QuietCommitStep ==
    ASSUME AppInv, NEW w \in Writers, WriteDraft(w) \/ copy_app(w) \/ Rollback(w)
    PROVE  AppInv'
<1>1. configs \in Seq(SUBSET Workflows) /\ versions \in Seq(Version)
  BY DEF AppInv, AppTypeOK
<1>2. app \in App /\ draft \subseteq Config /\ joins \subseteq Datasets
  BY AppTypes DEF AppInv
<1>3. ASSUME UNCHANGED <<app, configs, versions, joins, datasets, turn>>
      PROVE  Numbered' /\ RowAgrees' /\ \A t \in Turns : TurnAgrees(t)'
  <2>1. RowAgrees'
    BY <1>3 DEF AppInv, RowAgrees, PointsAtLatest
  <2> QED BY <1>3, <2>1, SamePublications
<1>4. CASE WriteDraft(w)
  <2>1. Commit(w, "update") \/ Commit(w, "fallback")
    BY <1>4 DEF WriteDraft
  <2>2. /\ Busy(w) /\ job' = [job EXCEPT ![w] = NoJob]
        /\ UNCHANGED <<datasets, published, turn, reader>> /\ job[w].values \in Config
    BY <2>1, CommitFacts DEF Jobs
  <2>3. draft' \subseteq Config /\ UNCHANGED <<app, configs, versions, joins>>
    BY <1>4, <2>2 DEF WriteDraft
  <2> QED BY <1>1, <1>2, <1>3, <2>2, <2>3, EndStep
<1>5. CASE copy_app(w)
  <2>1. /\ Busy(w) /\ job' = [job EXCEPT ![w] = NoJob]
        /\ UNCHANGED <<datasets, published, turn, reader>>
    BY <1>5, CommitFacts DEF copy_app, Jobs
  <2>2. UNCHANGED <<app, draft, configs, versions, joins>>
    BY <1>5 DEF copy_app
  <2> QED BY <1>1, <1>2, <1>3, <2>1, <2>2, EndStep
<1>6. CASE Rollback(w)
  <2>1. Busy(w)
    BY <1>6, JobRecord DEF Rollback, AppInv
  <2>2. /\ job' = [job EXCEPT ![w] = NoJob]
        /\ UNCHANGED <<app, draft, configs, versions, joins, datasets, published, turn, reader>>
    BY <1>6 DEF Rollback
  <2> QED BY <1>1, <1>2, <1>3, <2>1, <2>2, EndStep
<1> QED BY <1>4, <1>5, <1>6

\* What is written to the row alone: cancelling, and the two that write the token.
LEMMA RowStep ==
    ASSUME AppInv, NEW w \in Writers,
           cancel_publish_app_config(w) \/ get_published_config(w) \/ regenerate_web_app_token(w)
    PROVE  AppInv'
<1>1. /\ configs \in Seq(SUBSET Workflows) /\ versions \in Seq(Version)
      /\ app \in App /\ draft \subseteq Config /\ joins \subseteq Datasets
  BY DEF AppInv, AppTypeOK
<1>2. RowAgrees
  BY DEF AppInv
<1>3. CASE cancel_publish_app_config(w)
  <2>1. /\ Busy(w) /\ job' = [job EXCEPT ![w] = NoJob]
        /\ UNCHANGED <<datasets, published, turn, reader>>
    BY <1>3, CommitFacts DEF cancel_publish_app_config, Jobs
  <2>2. /\ app' = [app EXCEPT !.status = "draft", !.app_config_id = 0, !.token = FALSE]
        /\ joins' = {} /\ UNCHANGED <<draft, configs, versions>>
    BY <1>3 DEF cancel_publish_app_config
  <2>3. /\ app' \in App /\ app'.exists = app.exists /\ app'.status = "draft" /\ app'.token = FALSE
    BY <1>1, <2>2 DEF App
  <2>4. RowAgrees'
    BY <2>2, <2>3 DEF RowAgrees
  <2> QED BY <1>1, <2>1, <2>2, <2>3, <2>4, SamePublications, EndStep
<1>4. CASE get_published_config(w)
  <2>1. /\ Busy(w) /\ job' = [job EXCEPT ![w] = NoJob]
        /\ UNCHANGED <<datasets, published, turn, reader>> /\ job[w].app = app
    BY <1>4, CommitFacts DEF get_published_config, Jobs
  <2>2. /\ app' = [app EXCEPT !.token = app.status = "published"]
        /\ UNCHANGED <<draft, configs, versions, joins>>
    BY <1>4, <2>1 DEF get_published_config
  <2>3. /\ app' \in App /\ app'.exists = app.exists /\ app'.status = app.status
        /\ app'.token = (app.status = "published") /\ app'.app_config_id = app.app_config_id
    BY <1>1, <2>2 DEF App
  <2>4. RowAgrees'
    BY <1>2, <2>1, <2>2, <2>3 DEF RowAgrees, PointsAtLatest
  <2> QED BY <1>1, <2>1, <2>2, <2>3, <2>4, SamePublications, EndStep
<1>5. CASE regenerate_web_app_token(w)
  <2>1. /\ Busy(w) /\ job' = [job EXCEPT ![w] = NoJob]
        /\ UNCHANGED <<datasets, published, turn, reader>> /\ app.status = "published"
    BY <1>5, CommitFacts DEF regenerate_web_app_token, Jobs
  <2>2. app' = [app EXCEPT !.token = TRUE] /\ UNCHANGED <<draft, configs, versions, joins>>
    BY <1>5 DEF regenerate_web_app_token
  <2>3. /\ app' \in App /\ app'.exists = app.exists /\ app'.status = app.status
        /\ app'.app_config_id = app.app_config_id
    BY <1>1, <2>2 DEF App
  <2>4. RowAgrees'
    BY <1>2, <2>1, <2>2, <2>3 DEF RowAgrees, PointsAtLatest
  <2> QED BY <1>1, <2>1, <2>2, <2>3, <2>4, SamePublications, EndStep
<1> QED BY <1>3, <1>4, <1>5

LEMMA RowPublished ==
    ASSUME NEW row \in App, NEW k \in Nat
    PROVE  LET values == [row EXCEPT !.app_config_id = k, !.status = "published"]
           IN /\ values \in App /\ values.exists = row.exists
              /\ values.status = "published" /\ values.app_config_id = k
BY DEF App

LEMMA PublishStep ==
    ASSUME AppInv, NEW w \in Writers, publish_draft_app_config(w)
    PROVE  AppInv'
<1> DEFINE values == job[w].values
           n == Len(versions)
           new == [version |-> job[w].version, config |-> values]
<1>1. /\ Busy(w) /\ job' = [job EXCEPT ![w] = NoJob]
      /\ UNCHANGED <<datasets, published, turn, reader>>
      /\ app.exists /\ job[w].version = n + 1 /\ values \in Config
  BY CommitFacts DEF publish_draft_app_config, Jobs
<1>2. /\ configs' = Append(configs, values.workflows)
      /\ joins' = values.datasets
      /\ versions' = Append(versions, new)
      /\ draft' = {values}
      /\ app' = [app EXCEPT !.app_config_id = Len(configs) + 1, !.status = "published"]
  BY DEF publish_draft_app_config
<1>3. /\ n \in Nat /\ Len(configs) = n /\ app \in App
      /\ configs \in Seq(SUBSET Workflows) /\ versions \in Seq(Version)
  BY AppTypes DEF AppInv, AppTypeOK, Numbered
<1>4. values.workflows \subseteq Workflows /\ values.datasets \subseteq Datasets
  BY <1>1 DEF Config
<1>5. new \in Version /\ new.version = n + 1 /\ new.config = values
  BY <1>1, <1>3 DEF Version
<1> HIDE DEF new, values
<1>6. /\ configs' \in Seq(SUBSET Workflows) /\ Len(configs') = n + 1
      /\ configs'[n + 1] = values.workflows
      /\ \A i \in 1 .. n : configs'[i] = configs[i]
  BY <1>2, <1>3, <1>4, MoreOfHistory
<1>7. /\ versions' \in Seq(Version) /\ Len(versions') = n + 1
      /\ versions'[n + 1] = new
      /\ \A i \in 1 .. n : versions'[i] = versions[i]
  BY <1>2, <1>3, <1>5, MoreOfHistory
<1>8. /\ app' \in App /\ app'.exists = app.exists /\ app'.status = "published"
      /\ app'.app_config_id = n + 1
  <2>1. app' = [app EXCEPT !.app_config_id = n + 1, !.status = "published"]
    BY <1>2, <1>3
  <2>2. n + 1 \in Nat
    BY <1>3
  <2> QED BY <1>3, <2>1, <2>2, RowPublished
<1>9. Numbered'
  <2>1. \A i \in 1 .. n : versions'[i].version = i /\ configs'[i] = versions'[i].config.workflows
    BY <1>6, <1>7 DEF AppInv, Numbered
  <2>2. versions'[n + 1].version = n + 1 /\ configs'[n + 1] = versions'[n + 1].config.workflows
    BY <1>5, <1>6, <1>7
  <2>3. \A i \in 1 .. n + 1 : i \in 1 .. n \/ i = n + 1
    BY <1>3
  <2> QED BY <1>6, <1>7, <2>1, <2>2, <2>3 DEF Numbered
<1>10. PointsAtLatest'
  <2>1. Len(versions') > 0
    BY <1>3, <1>7
  <2> QED BY <1>1, <1>2, <1>5, <1>6, <1>7, <1>8, <2>1 DEF PointsAtLatest
<1>11. RowAgrees'
  BY <1>8, <1>10 DEF RowAgrees
<1>12. ASSUME NEW t \in Turns PROVE TurnAgrees(t)'
  <2> DEFINE k == turn[t].app_config_id
  <2>1. turn[t] \in Turn
    BY DEF AppInv, AppTypeOK
  <2>2. k \in Nat
    BY <2>1 DEF Turn
  <2>3. k <= n /\ TurnAgrees(t)
    BY <1>1 DEF AppInv, TurnAgrees
  <2>4. k <= n + 1 /\ (k \in 1 .. n + 1 => k \in 1 .. n)
    BY <1>3, <2>2, <2>3
  <2>5. \A m \in k .. n : m \in k .. n + 1 /\ (k \in 1 .. n => m \in 1 .. n)
    BY <1>3, <2>2
  <2>6. turn'[t] = turn[t]
    BY <1>1
  <2>7. app'.exists => turn'[t].app_config_id <= Len(versions')
    BY <1>7, <2>4, <2>6
  <2>8. ASSUME turn'[t].app_config_id \in 1 .. Len(versions')
        PROVE  k \in 1 .. n /\ versions'[k] = versions[k]
    BY <1>7, <2>4, <2>6, <2>8
  <2>9. ASSUME turn'[t].at \in {"config", "datasets", "ready"}, k \in 1 .. n
        PROVE  turn'[t].workflows \subseteq versions'[k].config.workflows
    BY <1>7, <2>3, <2>6, <2>9 DEF TurnAgrees
  <2>10. ASSUME turn'[t].at \in {"datasets", "ready"}, k \in 1 .. n
         PROVE  \E m \in k .. Len(versions') : turn'[t].datasets \subseteq versions'[m].config.datasets
    <3>1. PICK m \in k .. n : turn[t].datasets \subseteq versions[m].config.datasets
      BY <2>3, <2>6, <2>10 DEF TurnAgrees
    <3>2. m \in k .. Len(versions') /\ versions'[m] = versions[m]
      BY <1>7, <2>5, <2>10
    <3> QED BY <2>6, <3>1, <3>2
  <2> QED BY <2>6, <2>7, <2>8, <2>9, <2>10 DEF TurnAgrees
<1>13. draft' \subseteq Config /\ joins' \subseteq Datasets
  BY <1>1, <1>2, <1>4
<1> QED BY <1>1, <1>6, <1>7, <1>8, <1>9, <1>11, <1>12, <1>13, EndStep

LEMMA DeleteAppStep ==
    ASSUME AppInv, NEW w \in Writers, delete_app(w)
    PROVE  AppInv'
<1>1. /\ Busy(w) /\ job' = [job EXCEPT ![w] = NoJob]
      /\ UNCHANGED <<datasets, published, turn, reader>>
  BY CommitFacts DEF delete_app, Jobs
<1>2. /\ app' = [exists |-> FALSE, status |-> "draft", token |-> FALSE, app_config_id |-> 0]
      /\ joins' = {} /\ versions' = << >> /\ configs' = << >> /\ draft' = {}
  BY DEF delete_app
<1>3. app' \in App
  BY <1>2 DEF App
<1>4. /\ versions' \in Seq(Version) /\ configs' \in Seq(SUBSET Workflows)
      /\ Len(versions') = 0 /\ Len(configs') = 0
  BY <1>2
<1>5. Numbered' /\ \A t \in Turns : TurnAgrees(t)'
  BY <1>2, <1>4 DEF Numbered, TurnAgrees
<1>6. RowAgrees'
  BY <1>2 DEF RowAgrees
<1> QED BY <1>1, <1>2, <1>3, <1>4, <1>5, <1>6, EndStep

LEMMA WriteStep ==
    ASSUME AppInv, NEW w \in Writers, Write(w)
    PROVE  AppInv'
BY BeginSteps, QuietCommitStep, RowStep, PublishStep, DeleteAppStep DEF Write

-----------------------------------------------------------------------------
LEMMA WorldOfAppStep ==
    ASSUME AppInv,
           \/ \E d \in Datasets : DeleteDataset(d)
           \/ \E f \in Workflows : SwitchWorkflow(f)
           \/ \E r \in Readers : FindApp(r) \/ draft_app_config(r)
    PROVE  AppInv'
<1>1. UNCHANGED <<app, configs, versions, job, turn>>
  BY DEF DeleteDataset, SwitchWorkflow, FindApp, draft_app_config
<1>2. \A w \in Writers : JobAgrees(w)'
  BY <1>1 DEF AppInv, JobAgrees, Busy
<1>3. Numbered' /\ \A t \in Turns : TurnAgrees(t)'
  BY <1>1, SamePublications
<1>4. RowAgrees'
  <2>1. CASE UNCHANGED <<joins, datasets>>
    BY <1>1, <2>1 DEF AppInv, RowAgrees, PointsAtLatest
  <2>2. CASE \E d \in Datasets : DeleteDataset(d)
    <3>1. PICK d \in Datasets : datasets' = datasets \ {d} /\ joins' = joins \ {d}
      BY <2>2 DEF DeleteDataset
    <3>2. ASSUME PointsAtLatest PROVE PointsAtLatest'
      <4> DEFINE then == versions[Len(versions)].config.datasets
      <4>1. joins \intersect datasets = then \intersect datasets
        BY <3>2 DEF PointsAtLatest
      <4> HIDE DEF then
      <4>2. joins' \intersect datasets' = then \intersect datasets'
        BY <3>1, <4>1
      <4> QED BY <1>1, <3>2, <4>2 DEF PointsAtLatest, then
    <3> QED BY <1>1, <3>1, <3>2 DEF AppInv, RowAgrees
  <2> QED BY <2>1, <2>2 DEF SwitchWorkflow, FindApp, draft_app_config
<1>5. AppTypeOK'
  <2>1. /\ joins' \subseteq Datasets /\ datasets' \subseteq Datasets /\ published' \subseteq Workflows
    BY DEF AppInv, AppTypeOK, DeleteDataset, SwitchWorkflow, FindApp, draft_app_config
  <2>2. draft' \subseteq Config
    BY DEF AppInv, AppTypeOK, DeleteDataset, SwitchWorkflow, FindApp, draft_app_config,
           DefaultConfig, Config
  <2>3. reader' \in [Readers -> {"new", "found"}]
    BY DEF AppInv, AppTypeOK, DeleteDataset, SwitchWorkflow, FindApp, draft_app_config
  <2> QED BY <1>1, <2>1, <2>2, <2>3 DEF AppInv, AppTypeOK
<1> QED BY <1>2, <1>3, <1>4, <1>5 DEF AppInv

\* One turn reads more of the configuration.
LEMMA TurnGoesStep ==
    ASSUME AppInv, NEW t \in Turns, NEW from, NEW values \in Turn, TurnGoes(t, from, values),
           TurnAgrees(t)'
    PROVE  AppInv'
<1>1. UNCHANGED <<app, draft, configs, versions, joins, datasets, published, job, reader>>
  BY DEF TurnGoes
<1>2. turn \in [Turns -> Turn]
  BY DEF AppInv, AppTypeOK
<1>3. /\ turn' \in [Turns -> Turn]
      /\ \A s \in Turns \ {t} : turn'[s] = turn[s]
  BY <1>2 DEF TurnGoes
<1>4. AppTypeOK'
  BY <1>1, <1>3 DEF AppInv, AppTypeOK
<1>5. Numbered' /\ RowAgrees' /\ \A w \in Writers : JobAgrees(w)'
  BY <1>1 DEF AppInv, Numbered, RowAgrees, PointsAtLatest, JobAgrees, Busy
<1>6. \A s \in Turns : TurnAgrees(s)'
  BY <1>1, <1>3 DEF AppInv, TurnAgrees
<1> QED BY <1>4, <1>5, <1>6 DEF AppInv

LEMMA TurnBecomes ==
    ASSUME AppInv, NEW t \in Turns, NEW from, NEW values \in Turn, TurnGoes(t, from, values)
    PROVE  turn'[t] = values /\ turn[t].at = from /\ versions' = versions /\ app' = app
BY DEF AppInv, AppTypeOK, TurnGoes

LEMMA TurnStep ==
    ASSUME AppInv, NEW t \in Turns, get_web_app(t) \/ get_app_config(t)
    PROVE  AppInv'
<1>1. turn[t] \in Turn
  BY DEF AppInv, AppTypeOK
<1>2. /\ turn[t].app_config_id \in Nat
      /\ turn[t].datasets \subseteq Datasets /\ turn[t].workflows \subseteq Workflows
  BY <1>1 DEF Turn
<1>3. TurnAgrees(t)
  BY DEF AppInv
<1>4. /\ app.app_config_id \in Nat /\ Len(versions) \in Nat
      /\ DOMAIN configs = 1 .. Len(configs)
      /\ \A i \in 1 .. Len(configs) : configs[i] \subseteq Workflows
  BY AppTypes DEF AppInv
<1>5. CASE get_web_app(t)
  <2> DEFINE values == [turn[t] EXCEPT !.at = "found", !.app_config_id = app.app_config_id]
  <2>1. values \in Turn /\ values.at = "found" /\ values.app_config_id = app.app_config_id
    BY <1>1, <1>4 DEF Turn
  <2>2. app.app_config_id = Len(versions)
    BY <1>5 DEF get_web_app, AppInv, RowAgrees, PointsAtLatest
  <2>3. TurnGoes(t, "new", values)
    BY <1>5 DEF get_web_app
  <2> HIDE DEF values
  <2>4. turn'[t] = values /\ versions' = versions
    BY <2>1, <2>3, TurnBecomes
  <2>5. TurnAgrees(t)'
    BY <1>4, <2>1, <2>2, <2>4 DEF TurnAgrees
  <2> QED BY <2>1, <2>3, <2>5, TurnGoesStep
<1>6. CASE ReadConfig(t) /\ turn[t].app_config_id \in DOMAIN configs
  <2> DEFINE n == turn[t].app_config_id
             values == [turn[t] EXCEPT !.at = "config", !.workflows = configs[n]]
  <2>1. configs[n] \subseteq Workflows
    BY <1>4, <1>6
  <2>2. /\ values \in Turn /\ values.at = "config" /\ values.app_config_id = n
        /\ values.workflows = configs[n]
    BY <1>1, <2>1 DEF Turn
  <2>3. TurnGoes(t, "found", values)
    BY <1>6 DEF ReadConfig
  <2>4. n \in 1 .. Len(versions) => configs[n] = versions[n].config.workflows
    BY DEF AppInv, Numbered
  <2> HIDE DEF values
  <2>5. turn'[t] = values /\ versions' = versions /\ app' = app
    BY <2>2, <2>3, TurnBecomes
  <2>6. TurnAgrees(t)'
    BY <1>3, <2>2, <2>4, <2>5 DEF TurnAgrees
  <2> QED BY <2>2, <2>3, <2>6, TurnGoesStep
<1>7. CASE ReadConfig(t) /\ turn[t].app_config_id \notin DOMAIN configs
  <2> DEFINE values == [turn[t] EXCEPT !.at = "refused"]
  <2>1. values \in Turn /\ values.at = "refused" /\ values.app_config_id = turn[t].app_config_id
    BY <1>1 DEF Turn
  <2>2. TurnGoes(t, "found", values)
    BY <1>7 DEF ReadConfig
  <2> HIDE DEF values
  <2>3. turn'[t] = values /\ versions' = versions /\ app' = app
    BY <2>1, <2>2, TurnBecomes
  <2>4. TurnAgrees(t)'
    BY <1>3, <2>1, <2>3 DEF TurnAgrees
  <2> QED BY <2>1, <2>2, <2>4, TurnGoesStep
<1>8. CASE ReadJoins(t)
  <2> DEFINE n == turn[t].app_config_id
             there == joins \intersect datasets
             values == [turn[t] EXCEPT !.at = "datasets", !.datasets = there]
  <2>1. there \subseteq Datasets
    BY AppTypes DEF AppInv
  <2>2. TurnGoes(t, "config", values)
    BY <1>8 DEF ReadJoins
  <2>3. there = {} \/ (Len(versions) > 0 /\ there \subseteq versions[Len(versions)].config.datasets)
    <3>1. CASE app.status = "published"
      <4>1. PointsAtLatest
        BY <3>1 DEF AppInv, RowAgrees
      <4> QED BY <4>1 DEF PointsAtLatest
    <3>2. CASE app.status = "draft"
      BY <3>2 DEF AppInv, RowAgrees
    <3> QED BY <3>1, <3>2, AppTypes DEF AppInv
  <2> HIDE DEF there
  <2>4. /\ values \in Turn /\ values.at = "datasets" /\ values.app_config_id = n
        /\ values.workflows = turn[t].workflows /\ values.datasets = there
    BY <1>1, <2>1 DEF Turn
  <2> HIDE DEF values
  <2>5. turn'[t] = values /\ turn[t].at = "config" /\ versions' = versions /\ app' = app
    BY <2>2, <2>4, TurnBecomes
  <2>6. ASSUME n \in 1 .. Len(versions)
        PROVE  \E m \in n .. Len(versions) : there \subseteq versions[m].config.datasets
    <3>1. n \in n .. Len(versions) /\ Len(versions) \in n .. Len(versions)
      BY <1>2, <1>4, <2>6
    <3> QED BY <2>3, <3>1
  <2>7. TurnAgrees(t)'
    BY <1>3, <2>4, <2>5, <2>6 DEF TurnAgrees
  <2> QED BY <2>2, <2>4, <2>7, TurnGoesStep
<1>9. CASE ReadWorkflows(t)
  <2> DEFINE values == [turn[t] EXCEPT !.at = "ready", !.workflows = @ \intersect published]
  <2>1. /\ values \in Turn /\ values.at = "ready" /\ values.app_config_id = turn[t].app_config_id
        /\ values.workflows \subseteq turn[t].workflows /\ values.datasets = turn[t].datasets
    BY <1>1, <1>2 DEF Turn
  <2>2. TurnGoes(t, "datasets", values)
    BY <1>9 DEF ReadWorkflows
  <2> HIDE DEF values
  <2>3. turn'[t] = values /\ turn[t].at = "datasets" /\ versions' = versions /\ app' = app
    BY <2>1, <2>2, TurnBecomes
  <2>4. TurnAgrees(t)'
    BY <1>3, <2>1, <2>3 DEF TurnAgrees
  <2> QED BY <2>1, <2>2, <2>4, TurnGoesStep
<1> QED BY <1>5, <1>6, <1>7, <1>8, <1>9 DEF get_app_config

LEMMA AppStep == AppInv /\ [AppNext]_appVars => AppInv'
<1> SUFFICES ASSUME AppInv, [AppNext]_appVars PROVE AppInv'
  OBVIOUS
<1>1. CASE AppNext
  BY <1>1, WriteStep, WorldOfAppStep, TurnStep DEF AppNext
<1>2. CASE UNCHANGED appVars
  BY <1>2 DEF appVars, AppInv, AppTypeOK, Numbered, RowAgrees, PointsAtLatest, JobAgrees, Busy, TurnAgrees
<1> QED BY <1>1, <1>2

\* The row of a published app (AppService, under the lock of get_app_for_update) names
\* its newest publication, publications are numbered in the order of their commits, and
\* only a published app has a token, whichever requests overlap and fail.
THEOREM PublishedStaysLatest == AppSpec => []PublishedIsLatest
<1>1. AppInv => PublishedIsLatest
  <2> SUFFICES ASSUME AppInv PROVE PublishedIsLatest
    OBVIOUS
  <2>1. VersionsAreSequential
    BY AppTypes DEF AppInv, Numbered, VersionsAreSequential
  <2> QED BY <2>1 DEF AppInv, RowAgrees, PublishedIsLatest
<1> QED BY <1>1, AppInitially, AppStep, PTL DEF AppSpec

\* A turn reads the pointer, the row, the joins and the workflows in statements of their
\* own, without the lock (AppConfigService.get_app_config): what it then has is never
\* older than the publication it found.
THEOREM TurnsAreNotOlder == AppSpec => []TurnIsNotOlder
<1>1. AppInv => TurnIsNotOlder
  <2> SUFFICES ASSUME AppInv PROVE TurnIsNotOlder
    OBVIOUS
  <2>1. DOMAIN versions = 1 .. Len(versions)
    BY AppTypes DEF AppInv
  <2> QED BY <2>1 DEF AppInv, TurnAgrees, TurnIsNotOlder
<1> QED BY <1>1, AppInitially, AppStep, PTL DEF AppSpec
=============================================================================
