--------------------------- MODULE MCServices_proofs ---------------------------
(***************************************************************************)
(* The services beside each other: whatever one of them does leaves the    *)
(* others as they were, so that each does by itself what its own           *)
(* specification allows, and all their theorems hold of them together.     *)
(***************************************************************************)
EXTENDS MCServices, Services_proofs, AppLifecycle_proofs, Accounts_proofs, Resources_proofs,
        WorkflowLifecycle_proofs, TLAPS

LEMMA EachStartsByItself ==
    ServicesInit => /\ AppInit /\ RuleInit /\ ConvInit /\ GraphInit /\ AccountsInit /\ ToolsInit
                    /\ BaseInit /\ FilesInit /\ AnalysisInit /\ SharedInit /\ BillInit /\ PagesInit /\ Init
BY DEF ServicesInit

LEMMA EachGoesByItself ==
    [ServicesNext]_serviceVars =>
        /\ [AppNext]_appVars /\ [RuleNext]_ruleVars /\ [ConvNext]_convVars /\ [GraphNext]_graphVars
        /\ [AccountsNext]_accountVars /\ [ToolsNext]_toolVars /\ [BaseNext]_baseVars
        /\ [FilesNext]_fileVars /\ [AnalysisNext]_analysisVars /\ [SharedNext]_sharedVars
        /\ [BillNext]_billVars /\ [PagesNext]_pageVars /\ [Next]_vars
<1> SUFFICES ASSUME [ServicesNext]_serviceVars
             PROVE  /\ [AppNext]_appVars /\ [RuleNext]_ruleVars /\ [ConvNext]_convVars /\ [GraphNext]_graphVars
                    /\ [AccountsNext]_accountVars /\ [ToolsNext]_toolVars /\ [BaseNext]_baseVars
                    /\ [FilesNext]_fileVars /\ [AnalysisNext]_analysisVars /\ [SharedNext]_sharedVars
                    /\ [BillNext]_billVars /\ [PagesNext]_pageVars /\ [Next]_vars
  OBVIOUS
<1>1. CASE UNCHANGED serviceVars
  BY <1>1, Zenon DEF serviceVars
<1>2. CASE ServicesNext
  BY <1>2, Zenon DEF ServicesNext
<1> QED BY <1>1, <1>2

LEMMA ServicesImplement ==
    ServicesSpec => /\ AppSpec /\ RuleSpec /\ ConvSpec /\ GraphSpec /\ AccountsSpec /\ ToolsSpec
                    /\ BaseSpec /\ FilesSpec /\ AnalysisSpec /\ SharedSpec /\ BillSpec /\ PagesSpec /\ Spec
BY EachStartsByItself, EachGoesByItself, PTL
   DEF ServicesSpec, AppSpec, RuleSpec, ConvSpec, GraphSpec, AccountsSpec, ToolsSpec, BaseSpec, FilesSpec,
       AnalysisSpec, SharedSpec, BillSpec, PagesSpec, Spec

\* Every variable of every service keeps its type, whichever service goes on.
THEOREM ServicesTypeCorrect == ServicesSpec => []ServicesTypeOK
<1>1. AppSpec => []AppTypeOK
  <2>1. AppInv => AppTypeOK
    BY DEF AppInv
  <2> QED BY <2>1, AppInitially, AppStep, PTL DEF AppSpec
<1>2. BaseSpec => []BaseTypeOK
  <2>1. BaseInv => BaseTypeOK
    BY DEF BaseInv
  <2> QED BY <2>1, BaseInitially, BaseStep, PTL DEF BaseSpec
<1>3. FilesSpec => []FilesTypeOK
  <2>1. FilesInv => FilesTypeOK
    BY DEF FilesInv
  <2> QED BY <2>1, FilesInitially, FilesStep, PTL DEF FilesSpec
<1>4. SharedSpec => []SharedTypeOK
  <2>1. SharedInv => SharedTypeOK
    BY DEF SharedInv
  <2> QED BY <2>1, SharedInitially, SharedStep, PTL DEF SharedSpec
<1>5. PagesSpec => []PagesTypeOK
  <2>1. PagesInv => PagesTypeOK
    BY DEF PagesInv
  <2> QED BY <2>1, PagesInitially, PagesStep, PTL DEF PagesSpec
<1>6. /\ AppTypeOK /\ ConvTypeOK /\ GraphTypeOK /\ AccountsTypeOK /\ ToolsTypeOK /\ BaseTypeOK
      /\ FilesTypeOK /\ AnalysisTypeOK /\ SharedTypeOK /\ PagesTypeOK /\ TypeOK
      => ServicesTypeOK
  BY DEF ServicesTypeOK
<1> QED BY <1>1, <1>2, <1>3, <1>4, <1>5, <1>6, ServicesImplement, ConversationsTypeCorrect, RunsAreShort,
           AccountsTypeCorrect, CatalogueTypeCorrect, AnalysisTypeCorrect, WorkflowTypeCorrect, PTL

\* All that is said of the services holds of them together: each is a part of one
\* program, and no other part writes its rows.
THEOREM ServicesAreCorrect ==
    ASSUME ~EditWhileDebugging
    PROVE  ServicesSpec =>
               /\ []ServicesTypeOK
               /\ [](PublishedIsLatest /\ TurnIsNotOlder)
               /\ [](SavedIsPublishable /\ ResolvedRuns)
               /\ [](SummaryLosesOnlyOverlaps /\ FirstAnswerNames) /\ HistoryIsRecent
               /\ [](AcceptsExactly /\ ReferencesResolve)
               /\ [](LoginsAgree /\ NoCircularWait) /\ LoginsAreAtomic
               /\ [](ProviderNamesUnique /\ ToolsMatchProvider /\ ToolsCanBeCalled)
               /\ [](DeleteLeavesOnlyLateWrites /\ ResultsWereVisible)
               /\ [](FilesAreAccountedFor /\ LoadedOnceForAll)
               /\ [](PriceIsCertain /\ BillIsWholeOrOpen)
               /\ [](PagesShowOnce /\ ServedIsOfToday /\ PublishedWasDebugged)
BY ServicesImplement, ServicesTypeCorrect, PublishedStaysLatest, TurnsAreNotOlder, SavedStaysPublishable,
   ResolvedAlwaysRuns, FoldedStays, FirstAnswerIsNamed, HistoriesAreRecent, CheckedExactly, ReferencesHaveRun,
   LoginsAlwaysAgree, LoginsNeverCircle, LoginsImplementContract, NamesStayUnique, ToolsAlwaysMatch,
   ToolsAreCallable, DeletionIsComplete, SearchesAreHonest, FilesStayAccountedFor, LoadedOnce,
   PricesAreCertain, BillsAreWholeOrOpen, PagesContinueOneOrder, FiguresAreOfToday, PublicationIsEarned, PTL
================================================================================
