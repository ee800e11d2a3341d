------------------------------- MODULE ApiTools -------------------------------
(***************************************************************************)
(* The API tools of one account: providers, each with the tools its        *)
(* OpenAPI schema describes, created and updated under the lock of the     *)
(* account and deleted under that of the provider alone.                   *)
(***************************************************************************)
EXTENDS Naturals, Sequences, FiniteSets

CONSTANTS Providers,       \* ids
          ProviderNames,
          Schemas,         \* OpenAPI schemas: a server and a set of operations
          Catalogers,      \* requests that change the catalogue
          MaxEdits         \* bound on the edits of a run

ASSUME NamesAssumption == ProviderNames # {}

\* A replacement field of an address.  Formatter().parse names it by all that is
\* before a conversion or a specification, str.format looks up its key alone among
\* the path parameters ("" if it is a position, as in {0}, or a brace that is not
\* closed): {a.b} has the name "a.b" and the key "a".  It fits if whatever follows
\* the key applies to any string, and it is bare without conversion and specification.
UrlFields == {f \in [name : STRING, key : STRING, bare : BOOLEAN, fits : BOOLEAN] :
              f.bare /\ f.name = f.key => f.fits}

ASSUME SchemasAssumption ==
    \A schema \in Schemas :
        /\ schema.server \subseteq UrlFields
        /\ \A op \in schema.operations :
              /\ op.path \subseteq UrlFields
              /\ op.method \in {"get", "post", "put"}
              /\ op.parameters \subseteq
                    [name : STRING, location : {"path", "query", "header", "cookie", "request_body"},
                     required : BOOLEAN]

VARIABLES providers,       \* provider rows, by id: none or one record
          tools,           \* tool rows
          edit,            \* the open requests
          edits            \* versions given to schemas so far

toolVars == <<providers, tools, edit, edits>>

NoEdit == [at |-> "idle"]
NoSchema == [server |-> {}, operations |-> {}]     \* of a deletion

ToolsTypeOK ==
    /\ \A p \in Providers : providers[p] # {} =>
          \E r \in providers[p] : providers[p] = {r} /\ r.name \in ProviderNames /\ r.version <= edits
    /\ \A t \in tools : t.provider \in Providers /\ t.version <= edits
    /\ \A c \in Catalogers : edit[c].at \in {"idle", "account", "checked", "provider", "cleared"}

ToolsInit ==
    /\ providers = [p \in Providers |-> {}]
    /\ tools = {}
    /\ edit = [c \in Catalogers |-> NoEdit]
    /\ edits = 0

-----------------------------------------------------------------------------
(***************************************************************************)
(* parse_openapi_schema: what OpenAPISchema keeps and what it refuses.     *)
(***************************************************************************)
Kept(schema) == {op \in schema.operations : op.method \in {"get", "post"}}

PathNames(op) == {p.name : p \in {q \in op.parameters : q.location = "path"}}

ParametersAreNamed(op) ==
    /\ "" \notin {p.name : p \in op.parameters}
    /\ Cardinality({p.name : p \in op.parameters}) = Cardinality(op.parameters)

\* Only the path is compared with the parameters, by the names of its fields.
PathIsDeclared(op) ==
    /\ {f.name : f \in op.path} = PathNames(op)
    /\ \A f \in op.path : f.bare

\* Mutant: a path parameter may be optional.
ValidOperation_Optional(op) == ParametersAreNamed(op) /\ PathIsDeclared(op)

ValidOperation(op) ==
    /\ ParametersAreNamed(op)
    /\ PathIsDeclared(op)
    /\ \A p \in op.parameters : p.location = "path" => p.required

\* validate_server wants an address of HTTP and lets any field in it through.
ValidSchema(schema) ==
    /\ Kept(schema) # {}
    /\ \A op \in Kept(schema) : ValidOperation(op)
    /\ Cardinality({op.operationId : op \in Kept(schema)}) = Cardinality(Kept(schema))

\* What a call brings: pydantic wants every required parameter, any other may be
\* missing or None, and None is left out of the request.
_create_model_from_parameters(op) ==
    {given \in SUBSET {p.name : p \in op.parameters} :
        {p.name : p \in {q \in op.parameters : q.required}} \subseteq given}

\* The call gets as far as the request: url.format raises for a field whose key is no
\* path parameter that was given, and for one that does not fit.
tool_func(tool, given) ==
    \A f \in tool.url :
        f.fits /\ f.key \in {p.name : p \in {q \in tool.operation.parameters :
                                               q.location = "path" /\ q.name \in given}}

-----------------------------------------------------------------------------
(***************************************************************************)
(* Requests that change the catalogue; each is one transaction and gives   *)
(* its locks back when it ends.                                            *)
(***************************************************************************)
EditGoes(c, from, values) ==
    /\ edit[c].at = from
    /\ edit' = [edit EXCEPT ![c] = values]

HoldsAccount(c) == edit[c].at # "idle" /\ edit[c].operation # "delete"
HoldsProvider(c, p) == edit[c].at \in {"provider", "cleared"} /\ edit[c].provider = p

\* Mutant: no lock of the account.
_lock_account_NoLock == TRUE

\* The row of the account is locked: nobody else creates or updates.
_lock_account == \A c \in Catalogers : ~HoldsAccount(c)

LockAccount(c, operation, p, name, schema) ==
    /\ ValidSchema(schema)
    /\ _lock_account
    /\ EditGoes(c, "idle", [at |-> "account", operation |-> operation, provider |-> p,
                            name |-> name, schema |-> schema])
    /\ UNCHANGED <<providers, tools, edits>>

CreateProvider(c) ==
    \E p \in Providers, name \in ProviderNames, schema \in Schemas :
        /\ providers[p] = {}
        /\ \A d \in Catalogers : edit[d].at # "idle" => edit[d].provider # p
        /\ LockAccount(c, "create", p, name, schema)

UpdateProvider(c) ==
    \E p \in Providers, name \in ProviderNames, schema \in Schemas : LockAccount(c, "update", p, name, schema)

NameIsTaken(c) ==
    \E p \in Providers \ {edit[c].provider} : \E r \in providers[p] : r.name = edit[c].name

\* A name in use, or a provider that is gone, is refused by rolling back.
CheckName(c) ==
    /\ edit[c].at = "account"
    /\ ~NameIsTaken(c)
    /\ edit[c].operation = "update" => providers[edit[c].provider] # {}
    /\ EditGoes(c, "account", [edit[c] EXCEPT !.at = IF edit[c].operation = "create"
                                                     THEN "provider" ELSE "checked"])
    /\ UNCHANGED <<providers, tools, edits>>

\* Mutant: the row of the provider is not locked.
ProviderIsFree_NoLock(p) == providers[p] # {}

ProviderIsFree(p) ==
    /\ providers[p] # {}
    /\ \A c \in Catalogers : ~HoldsProvider(c, p)

LockProvider(c) ==
    /\ edit[c].at = "checked"
    /\ ProviderIsFree(edit[c].provider)
    /\ EditGoes(c, "checked", [edit[c] EXCEPT !.at = "provider"])
    /\ UNCHANGED <<providers, tools, edits>>

\* delete_api_tool_provider locks nothing but the provider.
DeleteProvider(c) ==
    \E p \in Providers :
        /\ ProviderIsFree(p)
        /\ EditGoes(c, "idle", [at |-> "provider", operation |-> "delete", provider |-> p,
                                name |-> CHOOSE n \in ProviderNames : TRUE, schema |-> NoSchema])
        /\ UNCHANGED <<providers, tools, edits>>

\* DELETE FROM api_tool removes the rows that are there when it runs.
ClearTools(c) ==
    /\ EditGoes(c, "provider", [at |-> "cleared", operation |-> edit[c].operation,
                    provider |-> edit[c].provider, name |-> edit[c].name, schema |-> edit[c].schema,
                    cleared |-> {t \in tools : t.provider = edit[c].provider}])
    /\ UNCHANGED <<providers, tools, edits>>

\* The address of a tool is the server with the path behind it.
_add_tools(p, schema, version) ==
    {[provider |-> p, version |-> version, operation |-> op, url |-> schema.server \union op.path] :
        op \in Kept(schema)}

\* create_api_tool_provider, update_api_tool_provider
CommitProvider(c) ==
    LET p == edit[c].provider
    IN /\ edit[c].at = "cleared"
       /\ edit[c].operation # "delete"
       /\ edits < MaxEdits
       /\ edits' = edits + 1
       /\ providers' = [providers EXCEPT ![p] =
              {[name |-> edit[c].name, schema |-> edit[c].schema, version |-> edits + 1]}]
       /\ tools' = (tools \ edit[c].cleared) \union _add_tools(p, edit[c].schema, edits + 1)
       /\ edit' = [edit EXCEPT ![c] = NoEdit]

CommitDelete(c) ==
    /\ edit[c].at = "cleared"
    /\ edit[c].operation = "delete"
    /\ providers' = [providers EXCEPT ![edit[c].provider] = {}]
    /\ tools' = tools \ edit[c].cleared
    /\ edit' = [edit EXCEPT ![c] = NoEdit]
    /\ UNCHANGED edits

RollbackEdit(c) ==
    /\ edit[c].at # "idle"
    /\ edit' = [edit EXCEPT ![c] = NoEdit]
    /\ UNCHANGED <<providers, tools, edits>>

ToolsNext ==
    \E c \in Catalogers :
       \/ CreateProvider(c) \/ UpdateProvider(c) \/ DeleteProvider(c) \/ CheckName(c) \/ LockProvider(c)
       \/ ClearTools(c) \/ CommitProvider(c) \/ CommitDelete(c) \/ RollbackEdit(c)

ToolsSpec == ToolsInit /\ [][ToolsNext]_toolVars

-----------------------------------------------------------------------------
\* Two providers never have one name: a create or an update that was checked
\* against the names of before would raise in every later one_or_none.
ProviderNamesUnique ==
    \A p, q \in Providers : \A r \in providers[p], s \in providers[q] : r.name = s.name => p = q

\* The tools of a provider are those of its schema, all of them and of one version;
\* without a provider there are none: an update and a delete never leave a mixture.
ToolsMatchProvider ==
    tools = UNION {UNION {_add_tools(p, r.schema, r.version) : r \in providers[p]} : p \in Providers}

\* The fields that the comparison of path and parameters is good for: not those of
\* the server, nor one that goes by another name when it is looked up.
Checked(op) == {f \in op.path : f.name = f.key}

\* A call that the argument schema of a tool lets through, whatever it brings, fills
\* the address of the tool, except for a field that validate_paths did not or could not
\* check: one of the server, or {0} and {a.b} in a path, finds no parameter or does
\* not fit.  No other field is without a value, though address and arguments are
\* declared apart and stored apart.
ToolsCanBeCalled ==
    \A t \in tools : \A given \in _create_model_from_parameters(t.operation) :
        tool_func(t, given) <=>
            \A f \in t.url \ Checked(t.operation) : f.key \in PathNames(t.operation) /\ f.fits
=============================================================================
