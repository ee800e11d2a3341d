----------------------------- MODULE MCServices -----------------------------
(***************************************************************************)
(* The components that share no state with each other, for TLC: a run      *)
(* exercises one of them, chosen at its beginning, and leaves the others   *)
(* as they were initially.                                                 *)
(***************************************************************************)
EXTENDS AppLifecycle, AppConfigRules, Conversations, WorkflowGraph, Accounts, ApiTools,
        Datasets, UploadedFiles, Analysis, SharedModels, CallBilling, MessagePages,
        WorkflowLifecycle, TLC

VARIABLE service

serviceVars == <<service, appVars, ruleVars, convVars, graphVars, accountVars, toolVars,
                 baseVars, fileVars, analysisVars, sharedVars, billVars, pageVars, vars>>

ServicesInit ==
    /\ service \in {"app", "rules", "conversations", "graph", "accounts", "tools",
                    "datasets", "files", "analysis", "models", "billing", "pages", "workflow"}
    /\ AppInit
    /\ RuleInit
    /\ ConvInit
    /\ GraphInit
    /\ AccountsInit
    /\ ToolsInit
    /\ BaseInit
    /\ FilesInit
    /\ AnalysisInit
    /\ SharedInit
    /\ BillInit
    /\ PagesInit
    /\ Init
    /\ service # "conversations" => conversations = << >>
    /\ service # "pages" => posts = << >> /\ view.client = "keeps" /\ view.kind = "web_app"

ServicesNext ==
    \/ /\ service = "app"
       /\ AppNext
       /\ UNCHANGED <<service, ruleVars, convVars, graphVars, accountVars, toolVars, baseVars, fileVars,
                       analysisVars, sharedVars, billVars, pageVars, vars>>
    \/ /\ service = "rules"
       /\ RuleNext
       /\ UNCHANGED <<service, appVars, convVars, graphVars, accountVars, toolVars, baseVars, fileVars,
                       analysisVars, sharedVars, billVars, pageVars, vars>>
    \/ /\ service = "conversations"
       /\ ConvNext
       /\ UNCHANGED <<service, appVars, ruleVars, graphVars, accountVars, toolVars, baseVars, fileVars,
                       analysisVars, sharedVars, billVars, pageVars, vars>>
    \/ /\ service = "graph"
       /\ GraphNext
       /\ UNCHANGED <<service, appVars, ruleVars, convVars, accountVars, toolVars, baseVars, fileVars,
                       analysisVars, sharedVars, billVars, pageVars, vars>>
    \/ /\ service = "accounts"
       /\ AccountsNext
       /\ UNCHANGED <<service, appVars, ruleVars, convVars, graphVars, toolVars, baseVars, fileVars,
                       analysisVars, sharedVars, billVars, pageVars, vars>>
    \/ /\ service = "tools"
       /\ ToolsNext
       /\ UNCHANGED <<service, appVars, ruleVars, convVars, graphVars, accountVars, baseVars, fileVars,
                       analysisVars, sharedVars, billVars, pageVars, vars>>
    \/ /\ service = "datasets"
       /\ BaseNext
       /\ UNCHANGED <<service, appVars, ruleVars, convVars, graphVars, accountVars, toolVars, fileVars,
                       analysisVars, sharedVars, billVars, pageVars, vars>>
    \/ /\ service = "files"
       /\ FilesNext
       /\ UNCHANGED <<service, appVars, ruleVars, convVars, graphVars, accountVars, toolVars, baseVars,
                       analysisVars, sharedVars, billVars, pageVars, vars>>
    \/ /\ service = "analysis"
       /\ AnalysisNext
       /\ UNCHANGED <<service, appVars, ruleVars, convVars, graphVars, accountVars, toolVars, baseVars,
                       fileVars, sharedVars, billVars, pageVars, vars>>
    \/ /\ service = "models"
       /\ SharedNext
       /\ UNCHANGED <<service, appVars, ruleVars, convVars, graphVars, accountVars, toolVars, baseVars,
                       fileVars, analysisVars, billVars, pageVars, vars>>
    \/ /\ service = "billing"
       /\ BillNext
       /\ UNCHANGED <<service, appVars, ruleVars, convVars, graphVars, accountVars, toolVars, baseVars,
                       fileVars, analysisVars, sharedVars, pageVars, vars>>
    \/ /\ service = "pages"
       /\ PagesNext
       /\ UNCHANGED <<service, appVars, ruleVars, convVars, graphVars, accountVars, toolVars, baseVars,
                       fileVars, analysisVars, sharedVars, billVars, vars>>
    \/ /\ service = "workflow"
       /\ Next
       /\ UNCHANGED <<service, appVars, ruleVars, convVars, graphVars, accountVars, toolVars, baseVars,
                       fileVars, analysisVars, sharedVars, billVars, pageVars>>

ServicesSpec == ServicesInit /\ [][ServicesNext]_serviceVars

\* Every variable of the component that a run exercises has its type.
ServicesTypeOK ==
    /\ service = "app" => AppTypeOK
    /\ service = "conversations" => ConvTypeOK
    /\ service = "graph" => GraphTypeOK
    /\ service = "accounts" => AccountsTypeOK
    /\ service = "tools" => ToolsTypeOK
    /\ service = "datasets" => BaseTypeOK
    /\ service = "files" => FilesTypeOK
    /\ service = "analysis" => AnalysisTypeOK
    /\ service = "models" => SharedTypeOK
    /\ service = "pages" => PagesTypeOK
    /\ service = "workflow" => TypeOK

\* Whoever acts in the component of a run goes by the same two names, so that one
\* permutation serves them all.
Interchangeable == Permutations(Writers)

-----------------------------------------------------------------------------
(***************************************************************************)
(* The small instances.                                                    *)
(***************************************************************************)
\* A user of the web app, an end user of the API, the owner on the debug page, and an
\* account that asks the assistant.
Talker(invoke_from, user) == [invoke_from |-> invoke_from, app |-> "app", user |-> user]
TheCallers == {Talker("web_app", "u1"), Talker("service_api", "e1"), Talker("debugger", "u1"),
               Talker("assistant_agent", "u1")}

\* Two exchanges, the newer of which does not fit into a history.
ThePasts == {[caller |-> Talker("web_app", "u1"), sizes |-> <<1, 2>>]}

\* A turn that times out after its answer, which a history takes like one that ended
\* well, and one that fails before.
TheOutcomes == {[answered |-> TRUE, status |-> "timeout"], [answered |-> FALSE, status |-> "error"]}

\* Four nodes; three of them without an end or a start; a title or an id twice; a
\* second start or end; start and end alone.
Node(id, title, type) == [id |-> id, title |-> title, node_type |-> type]
Drawn == <<Node("s", "1", "start"), Node("a", "2", "other"), Node("b", "3", "other"), Node("e", "4", "end")>>
TheNodeLists ==
    {Drawn, SubSeq(Drawn, 1, 3), SubSeq(Drawn, 2, 4), <<Drawn[1], Drawn[4]>>}
    \union {[Drawn EXCEPT ![2] = n] : n \in {Node("a", "3", "other"), Node("b", "2", "other"),
                                            Node("a", "2", "start"), Node("a", "2", "end")}}
TheEdges == (({"s", "a", "b"} \X {"a", "b", "e"}) \union {<<"a", "s">>, <<"e", "a">>})

\* Hashes may be equal: with the third address all numbers differ, with the others
\* that of one identity is that of the address of the other.
TheKeys == ("i1" :> 1) @@ ("i2" :> 2) @@ ("e1" :> 2) @@ ("e2" :> 1) @@ ("e3" :> 3)

\* Schemas of one or two operations, the last three of which are refused.  Of the
\* first, one path asks for a position; the server of the second has the parameter of
\* one of its two operations in it.
Parameter(name, location, required) == [name |-> name, location |-> location, required |-> required]
Plain(name) == [name |-> name, key |-> name, bare |-> TRUE, fits |-> TRUE]
Position(name) == [name |-> name, key |-> "", bare |-> TRUE, fits |-> TRUE]
Operation(id, method, path, parameters) ==
    [operationId |-> id, method |-> method, path |-> path, parameters |-> parameters]
Schema(server, operations) == [server |-> server, operations |-> operations]
TheSchemas ==
    {Schema({}, {Operation("o1", "get", {}, {Parameter("q", "query", FALSE)}),
                 Operation("o2", "get", {Position("0")}, {Parameter("0", "path", TRUE)}),
                 Operation("o9", "put", {Plain("x")}, {})}),
     Schema({Plain("x")}, {Operation("o1", "get", {Plain("x")}, {Parameter("x", "path", TRUE)}),
                           Operation("o2", "post", {}, {})}),
     Schema({}, {Operation("o1", "get", {Plain("x")}, {Parameter("x", "path", FALSE)})}),
     Schema({}, {Operation("o1", "get", {}, {}), Operation("o1", "post", {}, {})}),
     Schema({}, {Operation("o1", "put", {}, {})})}

\* Messages of one user in one conversation.
TheKinds == {[user |-> 1, conversation |-> 1, tokens |-> 3, latency |-> 2, price |-> 2]}

\* Two tiers of which one has a price for what was cached; one tier that not every
\* prompt fits in, with hours; no price.
Priced(limit, input, output, cached) ==
    [limit |-> limit, input |-> input, output |-> output, cache |-> cached]
ThePricings ==
    {[currency |-> "CNY", scheduled |-> FALSE, tiers |-> <<Priced(1, 2, 4, Unknown), Priced(Unknown, 4, 6, 2)>>],
     [currency |-> "USD", scheduled |-> TRUE, tiers |-> <<Priced(1, 6, 8, 2)>>],
     [currency |-> "CNY", scheduled |-> FALSE, tiers |-> << >>]}
=============================================================================
