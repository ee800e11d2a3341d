--------------------------- MODULE Resources_proofs ---------------------------
(***************************************************************************)
(* Theorems of what apps refer to.  ApiTools: for any number of providers, *)
(* schemas and requests, and without the bound on edits, two providers     *)
(* never have one name, the tools of a provider are those of its schema,   *)
(* and what a call brings fills every field of the address of its tool     *)
(* that was compared with the parameters.                                  *)
(* Datasets: for any number of segments, of overlapping deletions and of   *)
(* searches, a deletion that has ended leaves nothing of what it found,    *)
(* and a search answers with nothing that was hidden.                      *)
(***************************************************************************)
EXTENDS ApiTools, Datasets, TLAPS

-----------------------------------------------------------------------------
(***************************************************************************)
(* ApiTools.                                                               *)
(***************************************************************************)
ProviderRow == [name : ProviderNames, schema : Schemas, version : Nat]
ToolRow == [provider : Providers, version : Nat, operation : UNION {schema.operations : schema \in Schemas},
            url : SUBSET UrlFields]
Operations == {"create", "update", "delete"}
Opened == [at : {"account", "checked", "provider"}, operation : Operations, provider : Providers,
           name : ProviderNames, schema : Schemas \union {NoSchema}]
Cleared == [at : {"cleared"}, operation : Operations, provider : Providers,
            name : ProviderNames, schema : Schemas \union {NoSchema}, cleared : SUBSET ToolRow]

RowsOK ==
    /\ providers \in [Providers -> SUBSET ProviderRow]
    /\ tools \subseteq ToolRow
    /\ edit \in [Catalogers -> {NoEdit} \union Opened \union Cleared]
    /\ edits \in Nat

\* A create or an update has a valid schema, and the account alone; once it has
\* checked its name nobody else has it, and what it creates is not there yet.
EditAgrees(c) ==
    HoldsAccount(c) =>
        /\ edit[c].schema \in Schemas
        /\ ValidSchema(edit[c].schema)
        /\ \A d \in Catalogers : HoldsAccount(d) => d = c
        /\ edit[c].at # "account" => ~NameIsTaken(c)
        /\ edit[c].operation = "create" => providers[edit[c].provider] = {}

\* Who holds a provider holds it alone, it is there unless it is being created, and
\* the tools to be removed are all it has.
HoldAgrees(c) ==
    edit[c].at \in {"provider", "cleared"} =>
        /\ \A d \in Catalogers : HoldsProvider(d, edit[c].provider) => d = c
        /\ edit[c].operation # "create" => providers[edit[c].provider] # {}
        /\ edit[c].at = "cleared" => edit[c].cleared = {t \in tools : t.provider = edit[c].provider}

SchemasAreValid == \A p \in Providers : \A r \in providers[p] : ValidSchema(r.schema)

\* The inductive invariant.
ToolsInv ==
    /\ RowsOK
    /\ \A c \in Catalogers : EditAgrees(c)
    /\ \A c \in Catalogers : HoldAgrees(c)
    /\ SchemasAreValid
    /\ ProviderNamesUnique
    /\ ToolsMatchProvider

-----------------------------------------------------------------------------
LEMMA EditShape ==
    ASSUME RowsOK, NEW c \in Catalogers, edit[c].at # "idle"
    PROVE  /\ edit[c].operation \in Operations /\ edit[c].provider \in Providers
           /\ edit[c].name \in ProviderNames /\ edit[c].schema \in Schemas \union {NoSchema}
           /\ edit[c].at # "cleared" => edit[c] \in Opened
           /\ edit[c].at = "cleared" => edit[c] \in Cleared
<1>1. edit[c] \in {NoEdit} \union Opened \union Cleared
  BY DEF RowsOK
<1>2. edit[c] \in Opened \/ edit[c] \in Cleared
  BY <1>1 DEF NoEdit
<1> QED BY <1>2 DEF Opened, Cleared

\* Which tools there are, tool by tool.
LEMMA MatchIsPointwise ==
    ToolsMatchProvider <=>
        \A t : t \in tools <=>
            \E p \in Providers : \E r \in providers[p] : t \in _add_tools(p, r.schema, r.version)
BY DEF ToolsMatchProvider

LEMMA AddedToolsAreRows ==
    ASSUME NEW p \in Providers, NEW schema \in Schemas, NEW version \in Nat
    PROVE  /\ _add_tools(p, schema, version) \subseteq ToolRow
           /\ \A t \in _add_tools(p, schema, version) : t.provider = p
<1>1. \A op \in Kept(schema) : /\ op \in UNION {sc.operations : sc \in Schemas}
                               /\ schema.server \union op.path \subseteq UrlFields
  BY SchemasAssumption DEF Kept
<1> QED BY <1>1 DEF _add_tools, ToolRow

LEMMA ToolsInitially == ToolsInit => ToolsInv
<1> SUFFICES ASSUME ToolsInit PROVE ToolsInv
  OBVIOUS
<1> USE DEF ToolsInit
<1>1. RowsOK
  BY DEF RowsOK
<1>2. \A c \in Catalogers : edit[c].at = "idle"
  BY DEF NoEdit
<1>3. \A c \in Catalogers : EditAgrees(c) /\ HoldAgrees(c)
  BY <1>2 DEF EditAgrees, HoldAgrees, HoldsAccount
<1>4. SchemasAreValid /\ ProviderNamesUnique
  BY DEF SchemasAreValid, ProviderNamesUnique
<1>5. ToolsMatchProvider
  BY MatchIsPointwise
<1> QED BY <1>1, <1>3, <1>4, <1>5 DEF ToolsInv

-----------------------------------------------------------------------------
(***************************************************************************)
(* Steps that change no row: one request goes on, or ends.                 *)
(***************************************************************************)
LEMMA EditChanges ==
    ASSUME RowsOK, NEW c \in Catalogers, NEW values \in {NoEdit} \union Opened \union Cleared,
           edit' = [edit EXCEPT ![c] = values]
    PROVE  /\ edit' \in [Catalogers -> {NoEdit} \union Opened \union Cleared]
           /\ edit'[c] = values
           /\ \A d \in Catalogers \ {c} : edit'[d] = edit[d]
BY DEF RowsOK

LEMMA EditStep ==
    ASSUME ToolsInv, NEW c \in Catalogers, NEW values \in {NoEdit} \union Opened \union Cleared,
           edit' = [edit EXCEPT ![c] = values],
           UNCHANGED <<providers, tools, edits>>,
           HoldsAccount(c)' => \A d \in Catalogers \ {c} : ~HoldsAccount(d),
           \A p \in Providers : HoldsProvider(c, p)' => \A d \in Catalogers \ {c} : ~HoldsProvider(d, p),
           EditAgrees(c)', HoldAgrees(c)'
    PROVE  ToolsInv'
<1>1. /\ edit' \in [Catalogers -> {NoEdit} \union Opened \union Cleared]
      /\ \A d \in Catalogers \ {c} : edit'[d] = edit[d]
  BY EditChanges DEF ToolsInv
<1>2. RowsOK'
  BY <1>1 DEF ToolsInv, RowsOK
<1>3. \A d \in Catalogers \ {c} : EditAgrees(d)' /\ HoldAgrees(d)'
  <2> SUFFICES ASSUME NEW d \in Catalogers \ {c} PROVE EditAgrees(d)' /\ HoldAgrees(d)'
    OBVIOUS
  <2>1. EditAgrees(d) /\ HoldAgrees(d) /\ edit'[d] = edit[d]
    BY <1>1 DEF ToolsInv
  <2>2. EditAgrees(d)'
    BY <1>1, <2>1 DEF EditAgrees, HoldsAccount, NameIsTaken
  <2>3. edit[d].at # "idle" => edit[d].provider \in Providers
    BY EditShape DEF ToolsInv
  <2>4. HoldAgrees(d)'
    BY <1>1, <2>1, <2>3 DEF HoldAgrees, HoldsProvider
  <2> QED BY <2>2, <2>4
<1>4. SchemasAreValid' /\ ProviderNamesUnique' /\ ToolsMatchProvider'
  BY DEF ToolsInv, SchemasAreValid, ProviderNamesUnique, ToolsMatchProvider
<1> QED BY <1>2, <1>3, <1>4 DEF ToolsInv

LEMMA LockAccountKeeps ==
    ASSUME ToolsInv, NEW c \in Catalogers, NEW operation \in {"create", "update"}, NEW p \in Providers,
           NEW name \in ProviderNames, NEW schema \in Schemas,
           operation = "create" => providers[p] = {},
           LockAccount(c, operation, p, name, schema)
    PROVE  ToolsInv'
<1> DEFINE values == [at |-> "account", operation |-> operation, provider |-> p,
                      name |-> name, schema |-> schema]
<1>1. values \in Opened
  BY DEF Opened, Operations
<1>2. /\ edit' = [edit EXCEPT ![c] = values] /\ UNCHANGED <<providers, tools, edits>>
      /\ ValidSchema(schema)
  BY DEF LockAccount, EditGoes
<1>3. edit'[c] = values /\ \A d \in Catalogers \ {c} : edit'[d] = edit[d]
  BY <1>1, <1>2, EditChanges DEF ToolsInv
<1>4. \A d \in Catalogers : ~HoldsAccount(d)
  BY DEF LockAccount, _lock_account
<1>5. \A d \in Catalogers \ {c} : ~HoldsAccount(d)'
  BY <1>3, <1>4 DEF HoldsAccount
<1>6. EditAgrees(c)'
  BY <1>2, <1>3, <1>5 DEF EditAgrees
<1>7. HoldAgrees(c)' /\ \A q \in Providers : ~HoldsProvider(c, q)'
  BY <1>3 DEF HoldAgrees, HoldsProvider
<1> HIDE DEF values
<1> QED BY <1>1, <1>2, <1>4, <1>6, <1>7, EditStep

\* What is being created is held by nobody: holders of others are of rows that are there.
LEMMA CheckNameKeeps ==
    ASSUME ToolsInv, NEW c \in Catalogers, CheckName(c)
    PROVE  ToolsInv'
<1> DEFINE p == edit[c].provider
           at == IF edit[c].operation = "create" THEN "provider" ELSE "checked"
           values == [edit[c] EXCEPT !.at = at]
<1>1. /\ RowsOK /\ EditAgrees(c)
      /\ edit[c].at = "account" /\ ~NameIsTaken(c)
      /\ edit[c].operation = "update" => providers[p] # {}
      /\ edit' = [edit EXCEPT ![c] = values] /\ UNCHANGED <<providers, tools, edits>>
  BY DEF ToolsInv, CheckName, EditGoes
<1>2. edit[c] \in Opened
  BY <1>1, EditShape
<1>3. /\ values \in Opened /\ values.at = at /\ values.operation = edit[c].operation
      /\ values.provider = p /\ values.name = edit[c].name /\ values.schema = edit[c].schema
  BY <1>2 DEF Opened
<1>4. edit'[c] = values /\ \A d \in Catalogers \ {c} : edit'[d] = edit[d]
  BY <1>1, <1>3, EditChanges
<1>5. HoldsAccount(c) => \A d \in Catalogers \ {c} : ~HoldsAccount(d) /\ ~HoldsAccount(d)'
  BY <1>1, <1>4 DEF EditAgrees, HoldsAccount
<1>6. HoldsAccount(c)' = HoldsAccount(c)
  BY <1>1, <1>3, <1>4 DEF HoldsAccount
<1>7. EditAgrees(c)'
  BY <1>1, <1>3, <1>4, <1>5, <1>6 DEF EditAgrees, NameIsTaken
<1>8. edit[c].operation = "create" => \A d \in Catalogers \ {c} : ~HoldsProvider(d, p)
  <2> SUFFICES ASSUME edit[c].operation = "create", NEW d \in Catalogers \ {c}, HoldsProvider(d, p)
               PROVE  FALSE
    OBVIOUS
  <2>1. HoldsAccount(c) /\ providers[p] = {}
    BY <1>1 DEF HoldsAccount, EditAgrees
  <2>2. edit[d].operation = "create"
    BY <2>1 DEF ToolsInv, HoldAgrees, HoldsProvider
  <2> QED BY <1>5, <2>1, <2>2 DEF HoldsAccount, HoldsProvider
<1>9. \A q \in Providers : HoldsProvider(c, q)' => \A d \in Catalogers \ {c} : ~HoldsProvider(d, q)
  BY <1>3, <1>4, <1>8 DEF HoldsProvider
<1>10. HoldAgrees(c)'
  BY <1>3, <1>4, <1>8 DEF HoldAgrees, HoldsProvider
<1> HIDE DEF values
<1> QED BY <1>1, <1>3, <1>5, <1>6, <1>7, <1>9, <1>10, EditStep

LEMMA LockProviderKeeps ==
    ASSUME ToolsInv, NEW c \in Catalogers, LockProvider(c)
    PROVE  ToolsInv'
<1> DEFINE p == edit[c].provider
           values == [edit[c] EXCEPT !.at = "provider"]
<1>1. /\ RowsOK /\ EditAgrees(c)
      /\ edit[c].at = "checked" /\ providers[p] # {}
      /\ \A d \in Catalogers : ~HoldsProvider(d, p)
      /\ edit' = [edit EXCEPT ![c] = values] /\ UNCHANGED <<providers, tools, edits>>
  BY DEF ToolsInv, LockProvider, ProviderIsFree, EditGoes
<1>2. edit[c] \in Opened
  BY <1>1, EditShape
<1>3. /\ values \in Opened /\ values.at = "provider" /\ values.operation = edit[c].operation
      /\ values.provider = p /\ values.name = edit[c].name /\ values.schema = edit[c].schema
  BY <1>2 DEF Opened
<1>4. edit'[c] = values /\ \A d \in Catalogers \ {c} : edit'[d] = edit[d]
  BY <1>1, <1>3, EditChanges
<1>5. HoldsAccount(c)' => \A d \in Catalogers \ {c} : ~HoldsAccount(d) /\ ~HoldsAccount(d)'
  BY <1>1, <1>3, <1>4 DEF EditAgrees, HoldsAccount
<1>6. EditAgrees(c)'
  BY <1>1, <1>3, <1>4, <1>5 DEF EditAgrees, NameIsTaken, HoldsAccount
<1>7. \A q \in Providers : HoldsProvider(c, q)' => \A d \in Catalogers \ {c} : ~HoldsProvider(d, q)
  BY <1>1, <1>3, <1>4 DEF HoldsProvider
<1>8. HoldAgrees(c)'
  BY <1>1, <1>3, <1>4 DEF HoldAgrees, HoldsProvider
<1> HIDE DEF values
<1> QED BY <1>1, <1>3, <1>5, <1>6, <1>7, <1>8, EditStep

LEMMA DeleteProviderKeeps ==
    ASSUME ToolsInv, NEW c \in Catalogers, DeleteProvider(c)
    PROVE  ToolsInv'
<1>1. PICK p \in Providers :
         /\ ProviderIsFree(p)
         /\ EditGoes(c, "idle", [at |-> "provider", operation |-> "delete", provider |-> p,
                                 name |-> CHOOSE n \in ProviderNames : TRUE, schema |-> NoSchema])
  BY DEF DeleteProvider
<1> DEFINE values == [at |-> "provider", operation |-> "delete", provider |-> p,
                      name |-> CHOOSE n \in ProviderNames : TRUE, schema |-> NoSchema]
<1>2. values \in Opened
  BY NamesAssumption DEF Opened, Operations
<1>3. edit' = [edit EXCEPT ![c] = values] /\ UNCHANGED <<providers, tools, edits>>
  BY <1>1 DEF DeleteProvider, EditGoes
<1>4. edit'[c] = values /\ \A d \in Catalogers \ {c} : edit'[d] = edit[d]
  BY <1>2, <1>3, EditChanges DEF ToolsInv
<1>5. ~HoldsAccount(c)' /\ EditAgrees(c)'
  BY <1>4 DEF HoldsAccount, EditAgrees
<1>6. \A q \in Providers : HoldsProvider(c, q)' => \A d \in Catalogers \ {c} : ~HoldsProvider(d, q)
  BY <1>1, <1>4 DEF HoldsProvider, ProviderIsFree
<1>7. HoldAgrees(c)'
  BY <1>1, <1>3, <1>4 DEF HoldAgrees, HoldsProvider, ProviderIsFree
<1> HIDE DEF values
<1> QED BY <1>2, <1>3, <1>5, <1>6, <1>7, EditStep

LEMMA ClearToolsKeeps ==
    ASSUME ToolsInv, NEW c \in Catalogers, ClearTools(c)
    PROVE  ToolsInv'
<1> DEFINE p == edit[c].provider
           mine == {t \in tools : t.provider = p}
           values == [at |-> "cleared", operation |-> edit[c].operation, provider |-> p,
                      name |-> edit[c].name, schema |-> edit[c].schema, cleared |-> mine]
<1>1. /\ RowsOK /\ EditAgrees(c) /\ HoldAgrees(c) /\ edit[c].at = "provider"
      /\ edit' = [edit EXCEPT ![c] = values] /\ UNCHANGED <<providers, tools, edits>>
  BY DEF ToolsInv, ClearTools, EditGoes
<1>2. p \in Providers /\ mine \subseteq ToolRow
  BY <1>1, EditShape DEF RowsOK
<1>3. values \in Cleared
  BY <1>1, <1>2, EditShape DEF Cleared
<1>4. edit'[c] = values /\ \A d \in Catalogers \ {c} : edit'[d] = edit[d]
  BY <1>1, <1>3, EditChanges
<1>5. HoldsAccount(c)' => \A d \in Catalogers \ {c} : ~HoldsAccount(d) /\ ~HoldsAccount(d)'
  BY <1>1, <1>4 DEF EditAgrees, HoldsAccount
<1>6. EditAgrees(c)'
  BY <1>1, <1>4, <1>5 DEF EditAgrees, NameIsTaken, HoldsAccount
<1>7. \A d \in Catalogers \ {c} : ~HoldsProvider(d, p) /\ ~HoldsProvider(d, p)'
  BY <1>1, <1>4 DEF HoldAgrees, HoldsProvider
<1>8. \A q \in Providers : HoldsProvider(c, q)' => \A d \in Catalogers \ {c} : ~HoldsProvider(d, q)
  BY <1>4, <1>7 DEF HoldsProvider
<1>9. HoldAgrees(c)'
  BY <1>1, <1>4, <1>7 DEF HoldAgrees
<1> HIDE DEF values
<1> QED BY <1>1, <1>3, <1>5, <1>6, <1>8, <1>9, EditStep

LEMMA RollbackKeeps ==
    ASSUME ToolsInv, NEW c \in Catalogers, RollbackEdit(c)
    PROVE  ToolsInv'
<1>1. edit' = [edit EXCEPT ![c] = NoEdit] /\ UNCHANGED <<providers, tools, edits>>
  BY DEF RollbackEdit
<1>2. edit'[c] = NoEdit
  BY <1>1, EditChanges DEF ToolsInv
<1>3. /\ ~HoldsAccount(c)' /\ \A q \in Providers : ~HoldsProvider(c, q)'
      /\ EditAgrees(c)' /\ HoldAgrees(c)'
  BY <1>2 DEF NoEdit, HoldsAccount, HoldsProvider, EditAgrees, HoldAgrees
<1> QED BY <1>1, <1>3, EditStep

-----------------------------------------------------------------------------
(***************************************************************************)
(* Commits.                                                                *)
(***************************************************************************)
\* What holds another provider is not touched by a commit.
LEMMA OthersHold ==
    ASSUME ToolsInv, NEW c \in Catalogers, edit[c].at = "cleared",
           \A q \in Providers \ {edit[c].provider} : providers'[q] = providers[q],
           \A t : t.provider # edit[c].provider => (t \in tools' <=> t \in tools),
           NEW d \in Catalogers, d # c, edit'[d] = edit[d],
           \A e \in Catalogers \ {c} : edit'[e] = edit[e],
           edit'[c] = NoEdit
    PROVE  HoldAgrees(d)'
<1>1. HoldAgrees(d) /\ HoldAgrees(c)
  BY DEF ToolsInv
<1> SUFFICES ASSUME edit[d].at \in {"provider", "cleared"} PROVE HoldAgrees(d)'
  BY DEF HoldAgrees
<1>2. edit[d].provider \in Providers \ {edit[c].provider}
  <2>1. edit[d].provider \in Providers
    BY EditShape DEF ToolsInv
  <2>2. HoldsProvider(d, edit[d].provider)
    BY DEF HoldsProvider
  <2> QED BY <1>1, <2>1, <2>2 DEF HoldAgrees
<1>3. \A e \in Catalogers : HoldsProvider(e, edit[d].provider)' => e = d
  BY <1>1 DEF HoldAgrees, HoldsProvider, NoEdit
<1>4. {t \in tools' : t.provider = edit[d].provider} = {t \in tools : t.provider = edit[d].provider}
  BY <1>2
<1> QED BY <1>1, <1>2, <1>3, <1>4 DEF HoldAgrees

LEMMA CommitProviderKeeps ==
    ASSUME ToolsInv, NEW c \in Catalogers, CommitProvider(c)
    PROVE  ToolsInv'
<1> DEFINE p == edit[c].provider
           schema == edit[c].schema
           row == [name |-> edit[c].name, schema |-> schema, version |-> edits + 1]
           new == _add_tools(p, schema, edits + 1)
<1>1. /\ edit[c].at = "cleared" /\ edit[c].operation # "delete" /\ edits' = edits + 1
      /\ providers' = [providers EXCEPT ![p] = {row}]
      /\ tools' = (tools \ edit[c].cleared) \union new
      /\ edit' = [edit EXCEPT ![c] = NoEdit]
  BY DEF CommitProvider
<1>2. /\ RowsOK /\ HoldsAccount(c) /\ EditAgrees(c) /\ HoldAgrees(c)
  BY <1>1 DEF ToolsInv, HoldsAccount
<1>3. /\ p \in Providers /\ edit[c].name \in ProviderNames /\ schema \in Schemas /\ ValidSchema(schema)
      /\ ~NameIsTaken(c)
      /\ \A d \in Catalogers : HoldsAccount(d) => d = c
      /\ edit[c].cleared = {t \in tools : t.provider = p}
  BY <1>1, <1>2, EditShape DEF EditAgrees, HoldAgrees
<1>4. row \in ProviderRow /\ edits + 1 \in Nat
  BY <1>2, <1>3 DEF RowsOK, ProviderRow
<1>5. new \subseteq ToolRow /\ \A t \in new : t.provider = p
  BY <1>3, <1>4, AddedToolsAreRows
<1>6. /\ providers'[p] = {row}
      /\ \A q \in Providers \ {p} : providers'[q] = providers[q]
      /\ providers' \in [Providers -> SUBSET ProviderRow]
  <2> HIDE DEF row
  <2> QED BY <1>1, <1>2, <1>3, <1>4 DEF RowsOK
<1>7. \A t : t \in tools' <=> (t \in tools /\ t.provider # p) \/ t \in new
  BY <1>1, <1>3
<1>8. edit'[c] = NoEdit /\ \A d \in Catalogers \ {c} : edit'[d] = edit[d]
  BY <1>1, <1>2, EditChanges
<1>9. RowsOK'
  <2>1. edit' \in [Catalogers -> {NoEdit} \union Opened \union Cleared]
    BY <1>1, <1>2, EditChanges
  <2> HIDE DEF new, row
  <2> QED BY <1>1, <1>2, <1>4, <1>5, <1>6, <2>1 DEF RowsOK
<1> HIDE DEF p, new
<1>10. \A d \in Catalogers : EditAgrees(d)'
  <2>1. \A d \in Catalogers : ~HoldsAccount(d)'
    BY <1>3, <1>8 DEF HoldsAccount, NoEdit
  <2> QED BY <2>1 DEF EditAgrees
<1>11. \A d \in Catalogers : HoldAgrees(d)'
  <2>1. \A t : t.provider # p => (t \in tools' <=> t \in tools)
    BY <1>5, <1>7
  <2>2. HoldAgrees(c)'
    BY <1>8 DEF HoldAgrees, NoEdit
  <2> QED BY <1>1, <1>6, <1>8, <2>1, <2>2, OthersHold DEF p
<1>12. row.name = edit[c].name /\ row.schema = schema /\ row.version = edits + 1
  OBVIOUS
<1> HIDE DEF row
<1>13. SchemasAreValid'
  BY <1>3, <1>6, <1>12 DEF ToolsInv, SchemasAreValid
<1>14. ProviderNamesUnique'
  <2>1. \A q \in Providers \ {p} : \A r \in providers[q] : r.name # row.name
    BY <1>3, <1>12 DEF NameIsTaken, p
  <2> QED BY <1>3, <1>6, <2>1 DEF ToolsInv, ProviderNamesUnique
<1>15. ToolsMatchProvider'
  <2>1. \A t : t \in tools <=>
            \E q \in Providers : \E r \in providers[q] : t \in _add_tools(q, r.schema, r.version)
    BY MatchIsPointwise DEF ToolsInv
  <2>2. \A q, sc, v, t : t \in _add_tools(q, sc, v) => t.provider = q
    BY DEF _add_tools
  <2>3. new = _add_tools(p, row.schema, row.version)
    BY <1>12 DEF new, p
  <2>4. \A t : t \in tools' =>
            \E q \in Providers : \E r \in providers'[q] : t \in _add_tools(q, r.schema, r.version)
    BY <1>3, <1>6, <1>7, <2>1, <2>2, <2>3
  <2>5. \A t : (\E q \in Providers : \E r \in providers'[q] : t \in _add_tools(q, r.schema, r.version))
            => t \in tools'
    BY <1>6, <1>7, <2>1, <2>2, <2>3
  <2>6. \A t : t \in tools' <=>
            \E q \in Providers : \E r \in providers'[q] : t \in _add_tools(q, r.schema, r.version)
    BY <2>4, <2>5
  <2> QED BY <2>6 DEF ToolsMatchProvider, _add_tools, Kept
<1> QED BY <1>9, <1>10, <1>11, <1>13, <1>14, <1>15 DEF ToolsInv

LEMMA CommitDeleteKeeps ==
    ASSUME ToolsInv, NEW c \in Catalogers, CommitDelete(c)
    PROVE  ToolsInv'
<1> DEFINE p == edit[c].provider
<1>1. /\ edit[c].at = "cleared" /\ edit[c].operation = "delete" /\ UNCHANGED edits
      /\ providers' = [providers EXCEPT ![p] = {}]
      /\ tools' = tools \ edit[c].cleared
      /\ edit' = [edit EXCEPT ![c] = NoEdit]
  BY DEF CommitDelete
<1>2. RowsOK /\ HoldAgrees(c)
  BY DEF ToolsInv
<1>3. p \in Providers /\ edit[c].cleared = {t \in tools : t.provider = p}
  BY <1>1, <1>2, EditShape DEF HoldAgrees
<1>4. /\ providers'[p] = {} /\ \A q \in Providers \ {p} : providers'[q] = providers[q]
      /\ \A q \in Providers : providers'[q] \subseteq providers[q]
      /\ providers' \in [Providers -> SUBSET ProviderRow]
  BY <1>1, <1>2, <1>3 DEF RowsOK
<1>5. \A t : t \in tools' <=> t \in tools /\ t.provider # p
  BY <1>1, <1>3
<1>6. edit'[c] = NoEdit /\ \A d \in Catalogers \ {c} : edit'[d] = edit[d]
  BY <1>1, <1>2, EditChanges
<1>7. RowsOK'
  <2>1. edit' \in [Catalogers -> {NoEdit} \union Opened \union Cleared]
    BY <1>1, <1>2, EditChanges
  <2> QED BY <1>1, <1>2, <1>4, <2>1 DEF RowsOK
<1> HIDE DEF p
<1>8. \A d \in Catalogers : EditAgrees(d)'
  <2> SUFFICES ASSUME NEW d \in Catalogers PROVE EditAgrees(d)'
    OBVIOUS
  <2>1. CASE d = c
    BY <1>6, <2>1 DEF EditAgrees, HoldsAccount, NoEdit
  <2>2. CASE d # c
    <3>1. EditAgrees(d) /\ edit'[d] = edit[d]
      BY <1>6, <2>2 DEF ToolsInv
    <3>2. NameIsTaken(d)' => NameIsTaken(d)
      BY <1>4, <3>1 DEF NameIsTaken
    <3>3. edit[d].at # "idle" => edit[d].provider \in Providers
      BY <1>2, EditShape
    <3>4. \A e \in Catalogers : HoldsAccount(e)' => HoldsAccount(e)
      BY <1>6 DEF HoldsAccount, NoEdit
    <3>5. HoldsAccount(d) => providers'[edit[d].provider] \subseteq providers[edit[d].provider]
      BY <1>4, <3>3 DEF HoldsAccount
    <3> QED BY <3>1, <3>2, <3>4, <3>5 DEF EditAgrees, HoldsAccount
  <2> QED BY <2>1, <2>2
<1>9. \A d \in Catalogers : HoldAgrees(d)'
  <2>1. \A t : t.provider # p => (t \in tools' <=> t \in tools)
    BY <1>5
  <2>2. HoldAgrees(c)'
    BY <1>6 DEF HoldAgrees, NoEdit
  <2> QED BY <1>1, <1>4, <1>6, <2>1, <2>2, OthersHold DEF p
<1>10. SchemasAreValid' /\ ProviderNamesUnique'
  BY <1>4 DEF ToolsInv, SchemasAreValid, ProviderNamesUnique
<1>11. ToolsMatchProvider'
  <2>1. \A t : t \in tools <=>
            \E q \in Providers : \E r \in providers[q] : t \in _add_tools(q, r.schema, r.version)
    BY MatchIsPointwise DEF ToolsInv
  <2>2. \A q, sc, v, t : t \in _add_tools(q, sc, v) => t.provider = q
    BY DEF _add_tools
  <2>3. \A t : t \in tools' <=>
            \E q \in Providers : \E r \in providers'[q] : t \in _add_tools(q, r.schema, r.version)
    BY <1>3, <1>4, <1>5, <2>1, <2>2
  <2> QED BY <2>3 DEF ToolsMatchProvider, _add_tools, Kept
<1> QED BY <1>7, <1>8, <1>9, <1>10, <1>11 DEF ToolsInv

-----------------------------------------------------------------------------
LEMMA ToolsStep == ToolsInv /\ [ToolsNext]_toolVars => ToolsInv'
<1> SUFFICES ASSUME ToolsInv, [ToolsNext]_toolVars PROVE ToolsInv'
  OBVIOUS
<1>1. ASSUME NEW c \in Catalogers, CreateProvider(c) PROVE ToolsInv'
  BY <1>1, LockAccountKeeps DEF CreateProvider
<1>2. ASSUME NEW c \in Catalogers, UpdateProvider(c) PROVE ToolsInv'
  BY <1>2, LockAccountKeeps DEF UpdateProvider
<1>3. CASE UNCHANGED toolVars
  BY <1>3 DEF toolVars, ToolsInv, RowsOK, EditAgrees, HoldAgrees, HoldsAccount, HoldsProvider,
              NameIsTaken, SchemasAreValid, ProviderNamesUnique, ToolsMatchProvider
<1> QED BY <1>1, <1>2, <1>3, CheckNameKeeps, LockProviderKeeps, DeleteProviderKeeps, ClearToolsKeeps,
           RollbackKeeps, CommitProviderKeeps, CommitDeleteKeeps DEF ToolsNext

LEMMA ToolsInvariant == ToolsSpec => []ToolsInv
BY ToolsInitially, ToolsStep, PTL DEF ToolsSpec

\* create_api_tool_provider, update_api_tool_provider: the lock of the account makes the
\* check of a name hold until the commit, whoever deletes meanwhile.
THEOREM NamesStayUnique == ToolsSpec => []ProviderNamesUnique
<1>1. ToolsInv => ProviderNamesUnique
  BY DEF ToolsInv
<1> QED BY <1>1, ToolsInvariant, PTL

\* Updates and deletions of one provider never leave a mixture of their tools.
THEOREM ToolsAlwaysMatch == ToolsSpec => []ToolsMatchProvider
<1>1. ToolsInv => ToolsMatchProvider
  BY DEF ToolsInv
<1> QED BY <1>1, ToolsInvariant, PTL

\* What the argument schema of a tool lets through fills the address of the tool, but
\* for the fields that the comparison of path and parameters leaves out or mistakes.
THEOREM ToolsAreCallable == ToolsSpec => []ToolsCanBeCalled
<1>1. ToolsInv => ToolsCanBeCalled
  <2> SUFFICES ASSUME ToolsInv, NEW t \in tools,
                      NEW given \in _create_model_from_parameters(t.operation)
               PROVE  tool_func(t, given) <=>
                          \A f \in t.url \ Checked(t.operation) : f.key \in PathNames(t.operation) /\ f.fits
    BY DEF ToolsCanBeCalled
  <2>0. PICK p \in Providers : \E r \in providers[p] : t \in _add_tools(p, r.schema, r.version)
    BY MatchIsPointwise DEF ToolsInv
  <2>1. PICK r \in providers[p] : t \in _add_tools(p, r.schema, r.version)
    BY <2>0
  <2>2. PICK op \in Kept(r.schema) : t.operation = op /\ t.url = r.schema.server \union op.path
    BY <2>1 DEF _add_tools
  <2>3. ValidOperation(op)
    BY <2>1, <2>2 DEF ToolsInv, SchemasAreValid, ValidSchema
  <2>4. {q.name : q \in {o \in op.parameters : o.required}} \subseteq given
    BY <2>2 DEF _create_model_from_parameters
  <2>5. t.url \subseteq UrlFields
    <3>1. t \in ToolRow
      BY DEF ToolsInv, RowsOK
    <3> QED BY <3>1 DEF ToolRow
  \* A path parameter is required, so that every call brings it.
  <2> DEFINE Found(f) == f.key \in {q.name : q \in {o \in op.parameters : o.location = "path" /\ o.name \in given}}
  <2>6. \A f \in t.url : Found(f) <=> f.key \in PathNames(op)
    <3>1. \A q \in op.parameters : q.location = "path" => q.required
      BY <2>3 DEF ValidOperation
    <3> QED BY <2>4, <3>1 DEF PathNames
  \* A field that goes by its own name is bare and one of the parameters.
  <2>7. \A f \in Checked(op) : f.key \in PathNames(op) /\ f.bare
    BY <2>3 DEF ValidOperation, PathIsDeclared, Checked
  <2>8. \A f \in Checked(op) : f \in t.url /\ f.name = f.key
    BY <2>2 DEF Checked
  <2>9. \A f \in Checked(op) : f.key \in PathNames(op) /\ f.fits
    BY <2>5, <2>7, <2>8 DEF UrlFields
  <2>10. tool_func(t, given) <=> \A f \in t.url : f.fits /\ Found(f)
    BY <2>2 DEF tool_func
  <2> HIDE DEF Found
  <2> QED BY <2>2, <2>6, <2>9, <2>10
<1> QED BY <1>1, ToolsInvariant, PTL

-----------------------------------------------------------------------------
(***************************************************************************)
(* The type of the catalogue: one row under an id, of a version that was   *)
(* given to a schema.                                                      *)
(***************************************************************************)
VersionsAgree ==
    /\ \A p \in Providers : \A r, s \in providers[p] : r = s
    /\ \A p \in Providers : \A r \in providers[p] : r.version <= edits
    /\ \A t \in tools : t.version <= edits

LEMMA ToolsTyped == ToolsInv /\ VersionsAgree => ToolsTypeOK
<1> SUFFICES ASSUME ToolsInv, VersionsAgree PROVE ToolsTypeOK
  OBVIOUS
<1>1. ASSUME NEW p \in Providers, providers[p] # {}
      PROVE  \E r \in providers[p] : providers[p] = {r} /\ r.name \in ProviderNames /\ r.version <= edits
  <2>1. PICK r \in providers[p] : TRUE
    BY <1>1
  <2>2. providers[p] = {r} /\ r.version <= edits
    BY <2>1 DEF VersionsAgree
  <2>3. r \in ProviderRow
    BY <2>1 DEF ToolsInv, RowsOK
  <2> QED BY <2>1, <2>2, <2>3 DEF ProviderRow
<1>2. ASSUME NEW t \in tools PROVE t.provider \in Providers /\ t.version <= edits
  <2>1. t \in ToolRow
    BY DEF ToolsInv, RowsOK
  <2> QED BY <2>1 DEF ToolRow, VersionsAgree
<1>3. ASSUME NEW c \in Catalogers
      PROVE  edit[c].at \in {"idle", "account", "checked", "provider", "cleared"}
  <2>1. edit[c] \in {NoEdit} \union Opened \union Cleared
    BY DEF ToolsInv, RowsOK
  <2> QED BY <2>1 DEF NoEdit, Opened, Cleared
<1> QED BY <1>1, <1>2, <1>3 DEF ToolsTypeOK

LEMMA VersionsStep == ToolsInv /\ VersionsAgree /\ [ToolsNext]_toolVars => VersionsAgree'
<1> SUFFICES ASSUME ToolsInv, VersionsAgree, [ToolsNext]_toolVars PROVE VersionsAgree'
  OBVIOUS
<1>1. /\ providers \in [Providers -> SUBSET ProviderRow] /\ tools \subseteq ToolRow /\ edits \in Nat
  BY DEF ToolsInv, RowsOK
<1>2. CASE UNCHANGED <<providers, tools, edits>>
  BY <1>2 DEF VersionsAgree
<1>3. ASSUME NEW c \in Catalogers, CommitProvider(c) PROVE VersionsAgree'
  <2>1. edit[c].at # "idle"
    BY <1>3 DEF CommitProvider
  <2>2. PICK p \in Providers : p = edit[c].provider
    BY <2>1, EditShape DEF ToolsInv
  <2>3. PICK name, schema : name = edit[c].name /\ schema = edit[c].schema
    OBVIOUS
  <2> DEFINE new == [name |-> name, schema |-> schema, version |-> edits + 1]
  <2>4. /\ edits' = edits + 1
        /\ providers' = [providers EXCEPT ![p] = {new}]
        /\ tools' = (tools \ edit[c].cleared) \union _add_tools(p, schema, edits + 1)
    BY <1>3, <2>2, <2>3 DEF CommitProvider
  <2>5. new.version = edits + 1
    OBVIOUS
  <2> HIDE DEF new
  <2>6. \A q \in Providers : providers'[q] = IF q = p THEN {new} ELSE providers[q]
    BY <1>1, <2>4
  <2>7. \A q \in Providers : \A r \in providers[q] : r.version \in Nat /\ r.version <= edits
    BY <1>1 DEF VersionsAgree, ProviderRow
  <2>8. \A t \in tools : t.version \in Nat /\ t.version <= edits
    BY <1>1 DEF VersionsAgree, ToolRow
  <2>9. \A t \in _add_tools(p, schema, edits + 1) : t.version = edits + 1
    BY DEF _add_tools
  <2>10. \A t \in tools' : t.version <= edits'
    BY <1>1, <2>4, <2>8, <2>9
  <2>11. \A q \in Providers : \A r \in providers'[q] : r.version <= edits'
    BY <1>1, <2>4, <2>5, <2>6, <2>7
  <2>12. \A q \in Providers : \A r, s \in providers'[q] : r = s
    BY <2>6 DEF VersionsAgree
  <2> QED BY <2>10, <2>11, <2>12 DEF VersionsAgree
<1>4. ASSUME NEW c \in Catalogers, CommitDelete(c) PROVE VersionsAgree'
  <2>1. /\ \A q \in Providers : providers'[q] \subseteq providers[q]
        /\ tools' \subseteq tools /\ edits' = edits
    BY <1>1, <1>4 DEF CommitDelete
  <2> QED BY <2>1 DEF VersionsAgree
<1>5. CASE UNCHANGED toolVars
  BY <1>2, <1>5 DEF toolVars
<1> QED BY <1>2, <1>3, <1>4, <1>5 DEF ToolsNext, CreateProvider, UpdateProvider, LockAccount, DeleteProvider,
           CheckName, LockProvider, ClearTools, RollbackEdit

\* The rows keep their types: a provider has one row, and no row a version that was
\* never given.
THEOREM CatalogueTypeCorrect == ToolsSpec => []ToolsTypeOK
<1>1. ToolsInit => VersionsAgree
  BY DEF ToolsInit, VersionsAgree
<1> QED BY <1>1, ToolsTyped, VersionsStep, ToolsInvariant, PTL DEF ToolsSpec

-----------------------------------------------------------------------------
(***************************************************************************)
(* Datasets.                                                               *)
(***************************************************************************)
Built(s) == building[s] \in {"split", "indexed", "over"}
Indexed(s) == building[s] \in {"indexed", "over"}

\* Only what a worker has got to can be there.
StoreAgrees ==
    \A s \in BaseSegments :
        /\ rows[s] # "absent" => Built(s)
        /\ s \in vectors => Indexed(s)

\* What a deletion found has been written before, and is not written again.
DeleterAgrees(d) ==
    /\ \A s \in deleter[d].rows : Built(s)
    /\ \A s \in deleter[d].vectors : Indexed(s)
    /\ deleter[d].at \in {"unindexed", "emptied", "over"} =>
          \A s \in deleter[d].vectors : s \notin vectors
    /\ deleter[d].at \in {"emptied", "over"} => \A s \in deleter[d].rows : rows[s] = "absent"

SearchAgrees(q) ==
    /\ search[q].at \in {"allowed", "found"} => Visible \subseteq search[q].seen
    /\ search[q].at \in {"answered", "counted", "shown"} => search[q].found \subseteq search[q].seen

GoneIsDeleted == ~base.exists => \E d \in Deleters : deleter[d].at = "over"

\* The inductive invariant.
BaseInv ==
    /\ BaseTypeOK
    /\ StoreAgrees
    /\ \A d \in Deleters : DeleterAgrees(d)
    /\ \A q \in Searches : SearchAgrees(q)
    /\ GoneIsDeleted

Base == [exists : BOOLEAN, joined : BOOLEAN, queries : BOOLEAN]
Building == [BaseSegments -> {"new", "begun", "split", "indexed", "over"}]
Deleter == [at : {"new", "begun", "unindexed", "emptied", "over", "failed"},
            rows : SUBSET BaseSegments, vectors : SUBSET BaseSegments]
Search == [at : {"new", "allowed", "found", "answered", "counted", "shown", "refused"},
           found : SUBSET BaseSegments, seen : SUBSET BaseSegments]

LEMMA BaseTypes ==
    BaseTypeOK <=>
        /\ base \in Base
        /\ rows \in [BaseSegments -> RowStates]
        /\ vectors \subseteq BaseSegments
        /\ building \in Building
        /\ deleter \in [Deleters -> Deleter]
        /\ search \in [Searches -> Search]
BY DEF BaseTypeOK, Base, Building, Deleter, Search

LEMMA DeleterRecord ==
    ASSUME BaseTypeOK, NEW d \in Deleters
    PROVE  deleter[d].rows \subseteq BaseSegments /\ deleter[d].vectors \subseteq BaseSegments
BY DEF BaseTypeOK

LEMMA SearchRecord ==
    ASSUME BaseTypeOK, NEW q \in Searches
    PROVE  search[q].found \subseteq BaseSegments /\ search[q].seen \subseteq BaseSegments
BY DEF BaseTypeOK

-----------------------------------------------------------------------------
LEMMA BaseInitially == BaseInit => BaseInv
<1> SUFFICES ASSUME BaseInit PROVE BaseInv
  OBVIOUS
<1>1. BaseTypeOK
  BY DEF BaseInit, BaseTypeOK, RowStates
<1>2. StoreAgrees
  BY DEF BaseInit, StoreAgrees
<1>3. \A d \in Deleters : deleter[d].at = "new" /\ deleter[d].rows = {} /\ deleter[d].vectors = {}
  BY DEF BaseInit
<1>4. \A d \in Deleters : DeleterAgrees(d)
  BY <1>3 DEF DeleterAgrees
<1>5. \A q \in Searches : search[q].at = "new"
  BY DEF BaseInit
<1>6. \A q \in Searches : SearchAgrees(q)
  BY <1>5 DEF SearchAgrees
<1>7. GoneIsDeleted
  BY DEF BaseInit, GoneIsDeleted
<1> QED BY <1>1, <1>2, <1>4, <1>6, <1>7 DEF BaseInv

\* A deletion that does not go itself relies on this of the others' steps: what has
\* been built and is gone stays gone.
NothingReturns ==
    \A s \in BaseSegments :
        /\ Built(s) => Built(s)'
        /\ Indexed(s) => Indexed(s)'
        /\ Built(s) /\ rows[s] = "absent" => rows'[s] = "absent"
        /\ Indexed(s) /\ s \notin vectors => s \notin vectors'

LEMMA DeleterRelies ==
    ASSUME BaseTypeOK, NEW d \in Deleters, DeleterAgrees(d), NothingReturns, deleter'[d] = deleter[d]
    PROVE  DeleterAgrees(d)'
<1>1. deleter[d].rows \subseteq BaseSegments /\ deleter[d].vectors \subseteq BaseSegments
  BY DeleterRecord
<1> QED BY <1>1 DEF DeleterAgrees, NothingReturns

\* Every search that runs is told of what becomes visible.
LEMMA RowsBecomeStep ==
    ASSUME BaseTypeOK, \A q \in Searches : SearchAgrees(q),
           NEW values \in [BaseSegments -> RowStates], RowsBecome(values)
    PROVE  /\ rows' \in [BaseSegments -> RowStates]
           /\ search' \in [Searches -> Search]
           /\ \A q \in Searches : SearchAgrees(q)'
<1> DEFINE shown == {s \in BaseSegments : values[s] = "visible"}
<1>1. rows' = values /\ Visible' = shown
  BY DEF RowsBecome, Visible
<1>2. search \in [Searches -> Search]
  BY BaseTypes
<1>3. shown \subseteq BaseSegments
  OBVIOUS
<1>4. search' = [q \in Searches |->
          IF search[q].at \in {"allowed", "found"}
          THEN [search[q] EXCEPT !.seen = @ \union shown] ELSE search[q]]
  BY DEF RowsBecome
<1> HIDE DEF shown
<1>5. \A q \in Searches : search'[q] \in Search
  BY <1>2, <1>3, <1>4 DEF Search
<1>6. search' \in [Searches -> Search]
  BY <1>4, <1>5
<1>7. ASSUME NEW q \in Searches PROVE SearchAgrees(q)'
  <2>1. CASE search[q].at \in {"allowed", "found"}
    <3>1. search'[q] = [search[q] EXCEPT !.seen = @ \union shown]
      BY <1>4, <2>1
    <3>2. search'[q].at = search[q].at /\ search'[q].seen = search[q].seen \union shown
      BY <1>2, <3>1 DEF Search
    <3> QED BY <1>1, <2>1, <3>2 DEF SearchAgrees
  <2>2. CASE search[q].at \notin {"allowed", "found"}
    <3>1. search'[q] = search[q]
      BY <1>4, <2>2
    <3> QED BY <2>2, <3>1 DEF SearchAgrees
  <2> QED BY <2>1, <2>2
<1> QED BY <1>1, <1>6, <1>7

\* A step of a worker or of a user.
LEMMA WorkStep ==
    ASSUME BaseInv, NEW values \in [BaseSegments -> RowStates],
           RowsBecome(values) \/ (values = rows /\ UNCHANGED <<rows, search>>),
           UNCHANGED <<base, deleter>>,
           vectors' \subseteq BaseSegments, building' \in Building,
           StoreAgrees', NothingReturns
    PROVE  BaseInv'
<1>1. /\ rows' \in [BaseSegments -> RowStates]
      /\ search' \in [Searches -> Search]
      /\ \A q \in Searches : SearchAgrees(q)'
  <2>1. CASE RowsBecome(values)
    BY <2>1, RowsBecomeStep DEF BaseInv
  <2>2. CASE values = rows /\ UNCHANGED <<rows, search>>
    BY <2>2, BaseTypes DEF BaseInv, SearchAgrees, Visible
  <2> QED BY <2>1, <2>2
<1>2. base' \in Base /\ deleter' \in [Deleters -> Deleter]
  BY BaseTypes DEF BaseInv
<1>3. BaseTypeOK'
  BY <1>1, <1>2 DEF BaseTypeOK, Base, Building, Deleter, Search
<1>4. \A d \in Deleters : DeleterAgrees(d)'
  BY DeleterRelies DEF BaseInv
<1>5. GoneIsDeleted'
  BY DEF BaseInv, GoneIsDeleted
<1> QED BY <1>1, <1>3, <1>4, <1>5 DEF BaseInv

LEMMA SegmentStep ==
    ASSUME BaseInv, NEW s \in BaseSegments,
           \/ BeginSegment(s) \/ SplitSegment(s) \/ IndexSegment(s) \/ CompleteSegment(s)
           \/ HideSegment(s)
    PROVE  BaseInv'
<1>1. /\ rows \in [BaseSegments -> RowStates]
      /\ vectors \subseteq BaseSegments
      /\ building \in Building
  BY BaseTypes DEF BaseInv
<1>2. StoreAgrees
  BY DEF BaseInv
<1> USE DEF Building, RowStates, Built, Indexed
<1>3. CASE BeginSegment(s)
  <2>1. building' \in Building /\ StoreAgrees' /\ NothingReturns
    BY <1>1, <1>2, <1>3 DEF BeginSegment, BuildGoes, StoreAgrees, NothingReturns
  <2> QED BY <1>1, <1>3, <2>1, WorkStep DEF BeginSegment, BuildGoes
<1>4. CASE SplitSegment(s)
  <2> DEFINE values == [rows EXCEPT ![s] = "hidden"]
  <2>1. values \in [BaseSegments -> RowStates]
    BY <1>1
  <2>2. RowsBecome(values) /\ rows' = values
    BY <1>4 DEF SplitSegment, RowsBecome
  <2>3. building' \in Building /\ StoreAgrees' /\ NothingReturns
    BY <1>1, <1>2, <1>4, <2>2 DEF SplitSegment, BuildGoes, StoreAgrees, NothingReturns
  <2> HIDE DEF values
  <2> QED BY <1>1, <1>4, <2>1, <2>2, <2>3, WorkStep DEF SplitSegment, BuildGoes
<1>5. CASE IndexSegment(s)
  <2>1. building' \in Building /\ StoreAgrees' /\ NothingReturns
    BY <1>1, <1>2, <1>5 DEF IndexSegment, BuildGoes, StoreAgrees, NothingReturns
  <2>2. vectors' \subseteq BaseSegments
    BY <1>1, <1>5 DEF IndexSegment
  <2> QED BY <1>1, <1>5, <2>1, <2>2, WorkStep DEF IndexSegment, BuildGoes
<1>6. CASE CompleteSegment(s)
  <2> DEFINE values == [rows EXCEPT ![s] = IF @ = "absent" THEN @ ELSE "visible"]
  <2>1. values \in [BaseSegments -> RowStates]
    BY <1>1
  <2>2. RowsBecome(values) /\ rows' = values
    BY <1>6 DEF CompleteSegment, RowsBecome
  <2>3. building' \in Building /\ StoreAgrees' /\ NothingReturns
    BY <1>1, <1>2, <1>6, <2>2 DEF CompleteSegment, BuildGoes, StoreAgrees, NothingReturns
  <2> HIDE DEF values
  <2> QED BY <1>1, <1>6, <2>1, <2>2, <2>3, WorkStep DEF CompleteSegment, BuildGoes
<1>7. CASE HideSegment(s)
  <2> DEFINE values == [rows EXCEPT ![s] = "hidden"]
  <2>1. values \in [BaseSegments -> RowStates]
    BY <1>1
  <2>2. RowsBecome(values) /\ rows' = values
    BY <1>7 DEF HideSegment, RowsBecome
  <2>3. StoreAgrees' /\ NothingReturns
    BY <1>1, <1>2, <1>7, <2>2 DEF HideSegment, StoreAgrees, NothingReturns
  <2> HIDE DEF values
  <2> QED BY <1>1, <1>7, <2>1, <2>2, <2>3, WorkStep DEF HideSegment
<1> QED BY <1>3, <1>4, <1>5, <1>6, <1>7

-----------------------------------------------------------------------------
LEMMA NothingBuilt ==
    ASSUME UNCHANGED building,
           \A s \in BaseSegments : rows[s] = "absent" => rows'[s] = "absent",
           vectors' \subseteq vectors
    PROVE  NothingReturns
BY DEF NothingReturns, Built, Indexed

\* A step of a deletion: what it keeps of the others, and what it owes itself.
LEMMA DeletionStep ==
    ASSUME BaseInv, NEW d \in Deleters, NEW values \in Deleter,
           deleter' = [deleter EXCEPT ![d] = values],
           UNCHANGED building, base' \in Base,
           rows' \in [BaseSegments -> RowStates], vectors' \subseteq vectors,
           \A s \in BaseSegments : rows[s] = "absent" => rows'[s] = "absent",
           search' \in [Searches -> Search], \A q \in Searches : SearchAgrees(q)',
           deleter[d].at # "over",
           ~base'.exists => ~base.exists \/ values.at = "over",
           DeleterAgrees(d)'
    PROVE  BaseInv'
<1>1. deleter \in [Deleters -> Deleter] /\ building \in Building /\ vectors \subseteq BaseSegments
  BY BaseTypes DEF BaseInv
<1>2. /\ deleter' \in [Deleters -> Deleter]
      /\ deleter'[d] = values
      /\ \A e \in Deleters \ {d} : deleter'[e] = deleter[e]
  BY <1>1
<1>3. BaseTypeOK'
  BY <1>1, <1>2 DEF BaseTypeOK, Base, Building, Deleter, Search
<1>4. StoreAgrees'
  BY DEF BaseInv, StoreAgrees, Built, Indexed
<1>5. \A e \in Deleters : DeleterAgrees(e)'
  BY <1>2, NothingBuilt, DeleterRelies DEF BaseInv
<1>6. GoneIsDeleted'
  BY <1>2 DEF BaseInv, GoneIsDeleted
<1> QED BY <1>3, <1>4, <1>5, <1>6 DEF BaseInv

\* The deletion goes from one stage to another and keeps what it found.
LEMMA DeletesShape ==
    ASSUME BaseInv, NEW d \in Deleters, NEW from,
           NEW to \in {"new", "begun", "unindexed", "emptied", "over", "failed"}, Deletes(d, from, to)
    PROVE  \E values \in Deleter :
              /\ deleter' = [deleter EXCEPT ![d] = values]
              /\ deleter'[d] = values
              /\ values.at = to /\ values.rows = deleter[d].rows
              /\ values.vectors = deleter[d].vectors
              /\ deleter[d].at = from
              /\ UNCHANGED building
<1>1. deleter \in [Deleters -> Deleter]
  BY BaseTypes DEF BaseInv
<1> DEFINE values == [deleter[d] EXCEPT !.at = to]
<1>2. values \in Deleter
  BY <1>1 DEF Deleter
<1>3. values.at = to /\ values.rows = deleter[d].rows /\ values.vectors = deleter[d].vectors
  BY <1>1 DEF Deleter
<1>4. deleter' = [deleter EXCEPT ![d] = values] /\ deleter'[d] = values
  BY <1>1 DEF Deletes
<1> QED BY <1>2, <1>3, <1>4 DEF Deletes

LEMMA BeginStep ==
    ASSUME BaseInv, NEW d \in Deleters, BeginDataset(d)
    PROVE  BaseInv'
<1> DEFINE values == [at |-> "begun", vectors |-> vectors, rows |-> {s \in BaseSegments : rows[s] # "absent"}]
<1>1. /\ base \in Base /\ rows \in [BaseSegments -> RowStates] /\ vectors \subseteq BaseSegments
      /\ deleter \in [Deleters -> Deleter] /\ search \in [Searches -> Search]
  BY BaseTypes DEF BaseInv
<1>2. values \in Deleter
  BY <1>1 DEF Deleter
<1>3. deleter' = [deleter EXCEPT ![d] = values]
  BY DEF BeginDataset
<1>4. deleter'[d] = values
  BY <1>1, <1>3
<1>5. UNCHANGED <<base, rows, vectors, building, search>>
  BY DEF BeginDataset
<1>6. DeleterAgrees(d)'
  BY <1>1, <1>4, <1>5 DEF DeleterAgrees, BaseInv, StoreAgrees, Built, Indexed
<1>7. \A q \in Searches : SearchAgrees(q)'
  BY <1>5 DEF BaseInv, SearchAgrees, Visible
<1>8. deleter[d].at # "over"
  BY DEF BeginDataset
<1> HIDE DEF values
<1> QED BY <1>1, <1>2, <1>3, <1>5, <1>6, <1>7, <1>8, DeletionStep

LEMMA DeleteStep ==
    ASSUME BaseInv, NEW d \in Deleters, delete_dataset(d)
    PROVE  BaseInv'
<1>1. /\ base \in Base /\ rows \in [BaseSegments -> RowStates] /\ vectors \subseteq BaseSegments
      /\ search \in [Searches -> Search]
  BY BaseTypes DEF BaseInv
<1>2. DeleterAgrees(d) /\ \A q \in Searches : SearchAgrees(q)
  BY DEF BaseInv
<1>3. deleter[d].rows \subseteq BaseSegments /\ deleter[d].vectors \subseteq BaseSegments
  BY DeleterRecord DEF BaseInv
<1>4. CASE ClearVectors(d)
  <2>1. PICK values \in Deleter :
              /\ deleter' = [deleter EXCEPT ![d] = values]
              /\ deleter'[d] = values
              /\ values.at = "unindexed" /\ values.rows = deleter[d].rows
              /\ values.vectors = deleter[d].vectors
              /\ deleter[d].at = "begun"
              /\ UNCHANGED building
    BY <1>4, DeletesShape DEF ClearVectors
  <2>2. vectors' = {} /\ UNCHANGED <<base, rows, search>>
    BY <1>4 DEF ClearVectors
  <2>3. DeleterAgrees(d)'
    BY <1>2, <2>1, <2>2 DEF DeleterAgrees, Built, Indexed
  <2>4. \A q \in Searches : SearchAgrees(q)'
    BY <1>2, <2>2 DEF SearchAgrees, Visible
  <2> QED BY <1>1, <2>1, <2>2, <2>3, <2>4, DeletionStep
<1>5. CASE ClearRows(d)
  <2>1. PICK values \in Deleter :
              /\ deleter' = [deleter EXCEPT ![d] = values]
              /\ deleter'[d] = values
              /\ values.at = "emptied" /\ values.rows = deleter[d].rows
              /\ values.vectors = deleter[d].vectors
              /\ deleter[d].at = "unindexed"
              /\ UNCHANGED building
    BY <1>5, DeletesShape DEF ClearRows
  <2> DEFINE empty == [s \in BaseSegments |-> "absent"]
  <2>2. empty \in [BaseSegments -> RowStates]
    BY DEF RowStates
  <2>3. RowsBecome(empty) /\ rows' = empty /\ UNCHANGED vectors
    BY <1>5 DEF ClearRows, RowsBecome
  <2>4. \A s \in BaseSegments : rows'[s] = "absent"
    BY <2>3
  <2> HIDE DEF empty
  <2>5. /\ rows' \in [BaseSegments -> RowStates]
        /\ search' \in [Searches -> Search]
        /\ \A q \in Searches : SearchAgrees(q)'
    BY <2>2, <2>3, RowsBecomeStep DEF BaseInv
  <2>6. DeleterAgrees(d)'
    BY <1>2, <1>3, <2>1, <2>3, <2>4 DEF DeleterAgrees, Built, Indexed
  <2>7. base' \in Base /\ base'.exists = base.exists
    BY <1>1, <1>5 DEF ClearRows, Base
  <2> QED BY <2>1, <2>3, <2>4, <2>5, <2>6, <2>7, DeletionStep
<1>6. CASE DropRow(d)
  <2>1. PICK values \in Deleter :
              /\ deleter' = [deleter EXCEPT ![d] = values]
              /\ deleter'[d] = values
              /\ values.at = "over" /\ values.rows = deleter[d].rows
              /\ values.vectors = deleter[d].vectors
              /\ deleter[d].at = "emptied"
              /\ UNCHANGED building
    BY <1>6, DeletesShape DEF DropRow
  <2>2. UNCHANGED <<rows, vectors, search>>
    BY <1>6 DEF DropRow
  <2>3. base' \in Base
    BY <1>1, <1>6 DEF DropRow, Base
  <2>4. DeleterAgrees(d)'
    BY <1>2, <2>1, <2>2 DEF DeleterAgrees, Built, Indexed
  <2>5. \A q \in Searches : SearchAgrees(q)'
    BY <1>2, <2>2 DEF SearchAgrees, Visible
  <2> QED BY <1>1, <2>1, <2>2, <2>3, <2>4, <2>5, DeletionStep
<1>7. CASE DeleteFails(d)
  <2>1. PICK from \in {"begun", "unindexed", "emptied"} : Deletes(d, from, "failed")
    BY <1>7 DEF DeleteFails
  <2>2. PICK values \in Deleter :
              /\ deleter' = [deleter EXCEPT ![d] = values]
              /\ deleter'[d] = values
              /\ values.at = "failed" /\ values.rows = deleter[d].rows
              /\ values.vectors = deleter[d].vectors
              /\ deleter[d].at = from
              /\ UNCHANGED building
    BY <2>1, DeletesShape
  <2>3. UNCHANGED <<base, rows, vectors, search>>
    BY <1>7 DEF DeleteFails
  <2>4. DeleterAgrees(d)'
    BY <1>2, <2>2, <2>3 DEF DeleterAgrees, Built, Indexed
  <2>5. \A q \in Searches : SearchAgrees(q)'
    BY <1>2, <2>3 DEF SearchAgrees, Visible
  <2> QED BY <1>1, <2>1, <2>2, <2>3, <2>4, <2>5, DeletionStep
<1> QED BY <1>4, <1>5, <1>6, <1>7, BeginStep DEF delete_dataset

-----------------------------------------------------------------------------
\* A step of a search.
LEMMA SearchStep ==
    ASSUME BaseInv, NEW q \in Searches, NEW values \in Search,
           search' = [search EXCEPT ![q] = values],
           UNCHANGED <<rows, vectors, building, deleter>>,
           base' \in Base, base'.exists = base.exists,
           values.at \in {"allowed", "found"} => Visible \subseteq values.seen,
           values.at \in {"answered", "counted", "shown"} => values.found \subseteq values.seen
    PROVE  BaseInv'
<1>1. search \in [Searches -> Search]
  BY BaseTypes DEF BaseInv
<1>2. /\ search' \in [Searches -> Search]
      /\ search'[q] = values
      /\ \A p \in Searches \ {q} : search'[p] = search[p]
  BY <1>1
<1>3. BaseTypeOK'
  BY <1>2 DEF BaseInv, BaseTypeOK, Base, Search
<1>4. Visible' = Visible
  BY DEF Visible
<1>5. \A p \in Searches : SearchAgrees(p)'
  BY <1>2, <1>4 DEF BaseInv, SearchAgrees
<1>6. StoreAgrees' /\ \A d \in Deleters : DeleterAgrees(d)'
  BY DEF BaseInv, StoreAgrees, DeleterAgrees, Built, Indexed
<1>7. GoneIsDeleted'
  BY DEF BaseInv, GoneIsDeleted
<1> QED BY <1>3, <1>5, <1>6, <1>7 DEF BaseInv

LEMMA SearchSteps ==
    ASSUME BaseInv, NEW q \in Searches, hit(q) \/ dataset_retrieval(q)
    PROVE  BaseInv'
<1>1. base \in Base /\ vectors \subseteq BaseSegments /\ search[q] \in Search
  BY BaseTypes DEF BaseInv
<1>2. /\ search[q].found \subseteq BaseSegments /\ search[q].seen \subseteq BaseSegments
      /\ Visible \subseteq BaseSegments
  BY SearchRecord DEF BaseInv, Visible
<1>3. SearchAgrees(q)
  BY DEF BaseInv
<1>4. CASE AskSearch(q)
  <2> DEFINE values == [search[q] EXCEPT !.at = IF base.exists THEN "allowed" ELSE "refused", !.seen = Visible]
  <2>1. values \in Search /\ values.at \in {"allowed", "refused"} /\ values.seen = Visible
    BY <1>1, <1>2 DEF Search
  <2>2. /\ search' = [search EXCEPT ![q] = values]
        /\ UNCHANGED <<base, rows, vectors, building, deleter>>
    BY <1>4 DEF AskSearch, SearchGoes
  <2> HIDE DEF values
  <2> QED BY <1>1, <2>1, <2>2, SearchStep
<1>5. CASE Retrieve(q)
  <2>1. PICK found \in SUBSET vectors :
            SearchGoes(q, "allowed", [search[q] EXCEPT !.at = "found", !.found = found])
    BY <1>5 DEF Retrieve
  <2> DEFINE values == [search[q] EXCEPT !.at = "found", !.found = found]
  <2>2. found \subseteq BaseSegments
    BY <1>1
  <2>3. values \in Search /\ values.at = "found" /\ values.seen = search[q].seen
    BY <1>1, <2>2 DEF Search
  <2>4. Visible \subseteq search[q].seen
    BY <1>3, <2>1 DEF SearchAgrees, SearchGoes
  <2>5. /\ search' = [search EXCEPT ![q] = values]
        /\ UNCHANGED <<base, rows, vectors, building, deleter>>
    BY <1>5, <2>1 DEF Retrieve, SearchGoes
  <2> HIDE DEF values
  <2> QED BY <1>1, <2>3, <2>4, <2>5, SearchStep
<1>6. CASE AnswerSearch(q)
  <2> DEFINE found == search[q].found \intersect Visible
             values == [search[q] EXCEPT !.at = "answered", !.found = found]
  <2>1. found \subseteq BaseSegments /\ found \subseteq Visible
    BY <1>2
  <2>2. /\ SearchGoes(q, "found", values)
        /\ base' = [base EXCEPT !.queries = @ \/ found # {}]
    BY <1>6 DEF AnswerSearch, _get_visible_segments
  <2> HIDE DEF found
  <2>3. values \in Search /\ values.at = "answered" /\ values.seen = search[q].seen
        /\ values.found = found
    BY <1>1, <2>1 DEF Search
  <2>4. Visible \subseteq search[q].seen
    BY <1>3, <2>2 DEF SearchAgrees, SearchGoes
  <2>5. base' \in Base /\ base'.exists = base.exists
    BY <1>1, <2>2 DEF Base
  <2>6. /\ search' = [search EXCEPT ![q] = values]
        /\ UNCHANGED <<rows, vectors, building, deleter>>
    BY <2>2 DEF SearchGoes
  <2>7. values.found \subseteq values.seen
    BY <2>1, <2>3, <2>4
  <2> HIDE DEF values
  <2> QED BY <2>3, <2>5, <2>6, <2>7, SearchStep
<1>7. CASE CountHits(q)
  <2> DEFINE values == [search[q] EXCEPT !.at = "counted"]
  <2>1. /\ values \in Search /\ values.at = "counted"
        /\ values.found = search[q].found /\ values.seen = search[q].seen
    BY <1>1 DEF Search
  <2>2. search[q].found \subseteq search[q].seen
    BY <1>3, <1>7 DEF CountHits, SearchGoes, SearchAgrees
  <2>3. /\ search' = [search EXCEPT ![q] = values]
        /\ UNCHANGED <<base, rows, vectors, building, deleter>>
    BY <1>7 DEF CountHits, SearchGoes
  <2> HIDE DEF values
  <2> QED BY <1>1, <2>1, <2>2, <2>3, SearchStep
<1>8. CASE ShowHits(q)
  <2> DEFINE there == {s \in search[q].found : rows[s] # "absent"}
             values == [search[q] EXCEPT !.at = "shown", !.found = there]
  <2>1. there \subseteq search[q].found /\ there \subseteq BaseSegments
    BY <1>2
  <2>2. SearchGoes(q, "counted", values) /\ UNCHANGED base
    BY <1>8 DEF ShowHits
  <2> HIDE DEF there
  <2>3. values \in Search /\ values.at = "shown" /\ values.found = there
        /\ values.seen = search[q].seen
    BY <1>1, <2>1 DEF Search
  <2>4. search[q].found \subseteq search[q].seen
    BY <1>3, <2>2 DEF SearchGoes, SearchAgrees
  <2>5. /\ search' = [search EXCEPT ![q] = values]
        /\ UNCHANGED <<base, rows, vectors, building, deleter>>
    BY <2>2 DEF SearchGoes
  <2> HIDE DEF values
  <2> QED BY <1>1, <2>1, <2>3, <2>4, <2>5, SearchStep
<1>9. CASE combine_documents(q)
  <2> DEFINE values == [search[q] EXCEPT !.at = "shown"]
  <2>1. /\ values \in Search /\ values.at = "shown"
        /\ values.found = search[q].found /\ values.seen = search[q].seen
    BY <1>1 DEF Search
  <2>2. search[q].found \subseteq search[q].seen
    BY <1>3, <1>9 DEF combine_documents, SearchGoes, SearchAgrees
  <2>3. /\ search' = [search EXCEPT ![q] = values]
        /\ UNCHANGED <<base, rows, vectors, building, deleter>>
    BY <1>9 DEF combine_documents, SearchGoes
  <2> HIDE DEF values
  <2> QED BY <1>1, <2>1, <2>2, <2>3, SearchStep
<1> QED
  BY <1>4, <1>5, <1>6, <1>7, <1>8, <1>9 DEF hit, dataset_retrieval, search_in_datasets

-----------------------------------------------------------------------------
LEMMA BaseStep == BaseInv /\ [BaseNext]_baseVars => BaseInv'
<1> SUFFICES ASSUME BaseInv, [BaseNext]_baseVars PROVE BaseInv'
  OBVIOUS
<1>1. CASE BaseNext
  BY <1>1, SegmentStep, DeleteStep, SearchSteps DEF BaseNext
<1>2. CASE UNCHANGED baseVars
  BY <1>2 DEF baseVars, BaseInv, BaseTypeOK, StoreAgrees, DeleterAgrees, SearchAgrees, GoneIsDeleted,
              Visible, Built, Indexed
<1> QED BY <1>1, <1>2

\* A knowledge base that is gone was deleted by a request (DatasetService.delete_dataset)
\* that had removed every row and vector it found, whatever workers were writing
\* meanwhile and however often a deletion failed and was asked for again: only what was
\* still being written can be left.
THEOREM DeletionIsComplete == BaseSpec => []DeleteLeavesOnlyLateWrites
<1>1. BaseInv => DeleteLeavesOnlyLateWrites
  <2> SUFFICES ASSUME BaseInv, ~base.exists PROVE DeleteLeavesOnlyLateWrites
    BY DEF DeleteLeavesOnlyLateWrites
  <2>1. PICK d \in Deleters : deleter[d].at = "over"
    BY DEF BaseInv, GoneIsDeleted
  <2>2. /\ \A s \in deleter[d].rows : rows[s] = "absent"
        /\ deleter[d].vectors \intersect vectors = {}
    BY <2>1 DEF BaseInv, DeleterAgrees
  <2> QED BY <2>1, <2>2 DEF DeleteLeavesOnlyLateWrites
<1> QED BY <1>1, BaseInitially, BaseStep, PTL DEF BaseSpec

\* What RetrievalService answers with, counts and shows was visible in the database at
\* some moment of that search, whatever stale vectors the store holds and however the
\* rows change between its steps.
THEOREM SearchesAreHonest == BaseSpec => []ResultsWereVisible
<1>1. BaseInv => ResultsWereVisible
  BY DEF BaseInv, SearchAgrees, ResultsWereVisible
<1> QED BY <1>1, BaseInitially, BaseStep, PTL DEF BaseSpec
===============================================================================
