----------------------------- MODULE MessagePages -----------------------------
(***************************************************************************)
(* The messages of one conversation as they are listed page by page,       *)
(* newest first, while the conversation goes on: three entry points filter *)
(* by a cursor and cut pages by their number, and the web front end's      *)
(* ChatPanel asks for earlier messages.                                    *)
(***************************************************************************)
EXTENDS Naturals, Sequences, FiniteSets, SequencesExt

CONSTANTS PageSize,
          MaxPosts,        \* bound on the messages of the conversation
          MaxSecond        \* bound on the clock

ASSUME PagesAssumption == PageSize \in Nat \ {0} /\ MaxPosts \in Nat /\ MaxSecond \in Nat

VARIABLES posts,           \* Message rows in the order of their creation
          clock,           \* the second it is
          view             \* somebody who reads the pages

pageVars == <<posts, clock, view>>

\* An answer that was saved is listed until the message is deleted or its turn fails.
Post == [second : Nat, at : {"unanswered", "listed", "gone"}]

\* Who asks: a client that keeps its cursor, or the panel.
View == [at : {"new", "reading", "over"}, client : {"keeps", "panel"},
         kind : {"web_app", "debugger", "assistant_agent"}, page : Nat, cursor : Nat,
         shown : Seq(Nat), base : SUBSET Nat, disturbed : BOOLEAN]

PagesTypeOK ==
    /\ posts \in Seq(Post)
    /\ clock \in Nat
    /\ view \in View

PagesInit ==
    /\ \E n \in 0 .. MaxPosts : \E unanswered \in SUBSET (1 .. n) :
          posts = [m \in 1 .. n |->
                      [second |-> m, at |-> IF m \in unanswered THEN "unanswered" ELSE "listed"]]
    /\ clock = Len(posts)
    /\ view \in [at : {"new"}, client : {"keeps", "panel"},
                 kind : {"web_app", "debugger", "assistant_agent"}, page : {0}, cursor : {0},
                 shown : {<< >>}, base : {{}}, disturbed : {FALSE}]

-----------------------------------------------------------------------------
(***************************************************************************)
(* The conversation goes on.                                               *)
(***************************************************************************)
SecondPasses ==
    /\ clock < MaxSecond
    /\ clock' = clock + 1
    /\ UNCHANGED <<posts, view>>

\* created_at is CURRENT_TIMESTAMP(0).
AddPost ==
    /\ Len(posts) < MaxPosts
    /\ posts' = Append(posts, [second |-> clock, at |-> "unanswered"])
    /\ UNCHANGED <<clock, view>>

PostGoes(m, from, to) ==
    /\ posts[m].at = from
    /\ posts' = [posts EXCEPT ![m].at = to]
    /\ UNCHANGED <<clock, view>>

\* The answer is saved before the status; a turn may have none, or fail after it.
FinishPost(m) ==
    \/ PostGoes(m, "unanswered", "listed")
    \/ PostGoes(m, "unanswered", "gone")
    \/ PostGoes(m, "listed", "gone")

\* The pointer to a conversation that is only kept for the debug page, or for the
\* assistant, is cleared; the next page is one of a new conversation.
ClearConversation ==
    /\ view.kind # "web_app"
    /\ posts' = [m \in DOMAIN posts |-> [posts[m] EXCEPT !.at = "gone"]]
    /\ UNCHANGED <<clock, view>>

-----------------------------------------------------------------------------
(***************************************************************************)
(* A page: the query of the three entry points, and the paginator.         *)
(***************************************************************************)
\* Mutant: the cursor is not looked at.
Filtered_NoCursor(cursor) == {m \in DOMAIN posts : posts[m].at = "listed"}

\* 0 is no cursor.
Filtered(cursor) ==
    {m \in DOMAIN posts : posts[m].at = "listed" /\ (cursor = 0 \/ posts[m].second <= cursor)}

\* ORDER BY created_at DESC: the database is free to order those of one second.
Ordered(cursor) ==
    {order \in SetToSeqs(Filtered(cursor)) :
        \A i, j \in DOMAIN order : i < j => posts[order[j]].second <= posts[order[i]].second}

paginate(order, page) ==
    SubSeq(order, (page - 1) * PageSize + 1,
           IF page * PageSize < Len(order) THEN page * PageSize ELSE Len(order))

\* total_page is greater than the page.
IsMore(order, page) == page * PageSize < Len(order)

Listed(cursor) ==
    {m \in DOMAIN posts : posts[m].at = "listed" /\ (cursor = 0 \/ posts[m].second <= cursor)}

\* What was listed up to the cursor, for the panel everything, has changed since the
\* first page.
Disturbed(cursor) ==
    view.at # "new" /\ view.base # Listed(IF view.client = "panel" THEN 0 ELSE cursor)

ReadPage(kind, cursor, page) ==
    /\ view.kind = kind
    /\ \E order \in Ordered(cursor) :
          view' = [view EXCEPT
              !.at = IF IsMore(order, page) THEN "reading" ELSE "over",
              !.page = page,
              !.cursor = cursor,
              !.shown = @ \o paginate(order, page),
              !.base = IF view.at = "new" THEN Listed(cursor) ELSE @,
              !.disturbed = @ \/ Disturbed(cursor)]
    /\ UNCHANGED <<posts, clock>>

get_conversation_messages_with_page(cursor, page) == ReadPage("web_app", cursor, page)
get_debug_conversation_messages_with_page(cursor, page) == ReadPage("debugger", cursor, page)
get_assistant_agent_messages_with_page(cursor, page) == ReadPage("assistant_agent", cursor, page)

GetMessages(cursor, page) ==
    \/ get_conversation_messages_with_page(cursor, page)
    \/ get_debug_conversation_messages_with_page(cursor, page)
    \/ get_assistant_agent_messages_with_page(cursor, page)

\* A client of the interface asks for one page after the other, with one cursor or none.
KeepCursor ==
    /\ view.client = "keeps"
    /\ \/ view.at = "new" /\ \E cursor \in 0 .. clock : GetMessages(cursor, 1)
       \/ view.at = "reading" /\ GetMessages(view.cursor, view.page + 1)

\* load: the cursor of the next page is the oldest message on the screen, if there is one.
load ==
    /\ view.client = "panel"
    /\ \/ view.at = "new" /\ GetMessages(0, 1)
       \/ /\ view.at = "reading"
          /\ GetMessages(IF view.shown = << >> THEN 0 ELSE posts[Last(view.shown)].second,
                         view.page + 1)

\* A run begins with the first page and ends with the last.
PagesNext ==
    \/ /\ view.at = "reading"
       /\ \/ SecondPasses \/ AddPost \/ ClearConversation
          \/ \E m \in DOMAIN posts : FinishPost(m)
    \/ KeepCursor \/ load

PagesSpec == PagesInit /\ [][PagesNext]_pageVars

-----------------------------------------------------------------------------
\* Nothing is shown twice and nothing newer than what is shown is left out.
ShowsNewest ==
    /\ \A i, j \in DOMAIN view.shown : view.shown[i] = view.shown[j] => i = j
    /\ \A m \in view.base : \A i \in DOMAIN view.shown :
          posts[m].second > posts[view.shown[i]].second =>
              \E j \in DOMAIN view.shown : view.shown[j] = m

OneASecond == \A m, n \in view.base : posts[m].second = posts[n].second => m = n

\* A walk through the pages with one cursor shows every message once, whatever is
\* said after the cursor's second; only a message up to it that is answered late,
\* deleted or fails can shift the pages, and two of one second may change places.
PagesShowOnce ==
    view.client = "keeps" /\ ~view.disturbed /\ OneASecond => ShowsNewest

\* The panel's button says that it loads earlier messages: those before the ones shown.
LoadsEarlierMessages ==
    view.client = "panel" /\ ~view.disturbed /\ OneASecond => ShowsNewest
=============================================================================
