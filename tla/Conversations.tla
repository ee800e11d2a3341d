----------------------------- MODULE Conversations -----------------------------
(***************************************************************************)
(* Conversations and their messages: four entry points find or create the  *)
(* conversation of a turn, TokenBufferMemory reads its history, and        *)
(* save_agent_thoughts writes what became of the turn in several commits,  *)
(* with calls of a model between them.  Turns of one conversation overlap. *)
(***************************************************************************)
EXTENDS Integers, Sequences, SequencesExt

CONSTANTS Callers,         \* who talks: records of an entry point, an app and a user
          Exchanges,       \* turns
          DialogRound,     \* messages a turn's history may have
          TokenLimit,      \* tokens it may have
          Sizes,           \* tokens of an exchange
          Outcomes,        \* how a turn may end: whether it has answered, and its status
          Pasts,           \* what may have been said before: a caller and sizes of answers
          MaxConversations, \* bound on the conversations of a run
          LastSecond,      \* bound on the seconds that a conversation lasts
          MaxActs          \* bound on what users do besides talking

ASSUME CallersAssumption ==
    /\ Callers # {}
    /\ \A c \in Callers : c.invoke_from \in {"web_app", "service_api", "debugger", "assistant_agent"}
    /\ DialogRound \in Nat /\ TokenLimit \in Nat /\ LastSecond \in Nat
    /\ Sizes \subseteq Nat
    /\ Outcomes \subseteq [answered : BOOLEAN, status : {"normal", "stop", "error", "timeout"}]
    /\ \A past \in Pasts : past.caller \in Callers /\ past.sizes \in Seq(Nat)

VARIABLES conversations,   \* Conversation rows in the order of their creation
          messages,        \* Message rows in the order of their creation
          pointer,         \* debug_conversation_id, assistant_agent_conversation_id (0: null)
          exchange,        \* how far each turn is
          folded,          \* history: messages that a commit has put into a summary
          overlapped,      \* history: messages whose summary was not computed alone
          acts             \* what users have done besides talking, counted

convVars == <<conversations, messages, pointer, exchange, folded, overlapped, acts>>

Lazy == {c \in Callers : c.invoke_from \in {"debugger", "assistant_agent"}}

NewConversation(c) == [owner |-> c, deleted |-> FALSE, name |-> "new", summary |-> {}]
NewMessage(c, k, n, second) ==
    [owner |-> c, conversation |-> k, size |-> n, answered |-> FALSE, status |-> "normal",
     deleted |-> FALSE, second |-> second]

NewExchange ==
    [at |-> "new", caller |-> CHOOSE c \in Callers : TRUE, conversation |-> 0, history |-> << >>,
     message |-> 0, read |-> {}, status |-> "normal", since |-> 0]

ConvTypeOK ==
    /\ \A k \in DOMAIN conversations :
          /\ conversations[k].owner \in Callers
          /\ conversations[k].name \in {"new", "generated", "user"}
          /\ conversations[k].summary \subseteq DOMAIN messages
    /\ \A m \in DOMAIN messages :
          /\ messages[m].conversation \in DOMAIN conversations
          /\ messages[m].status \in {"normal", "stop", "error", "timeout"}
    /\ pointer \in [Lazy -> 0 .. Len(conversations)]
    /\ \A t \in Exchanges : exchange[t].conversation \in 0 .. Len(conversations)
    /\ folded \subseteq DOMAIN messages
    /\ overlapped \subseteq DOMAIN messages

\* The m-th message of a conversation in which one was sent a second.
Said(c, n, m) == [NewMessage(c, 1, n, m - 1) EXCEPT !.answered = TRUE]

\* Nothing has been said, or one conversation has been going on.
ConvInit ==
    /\ \/ conversations = << >> /\ messages = << >>
       \/ \E past \in Pasts :
             /\ conversations = <<[NewConversation(past.caller) EXCEPT
                                    !.name = "generated", !.summary = DOMAIN past.sizes]>>
             /\ messages = [m \in DOMAIN past.sizes |-> Said(past.caller, past.sizes[m], m)]
    /\ pointer = [c \in Lazy |-> 0]
    /\ exchange = [t \in Exchanges |-> NewExchange]
    /\ folded = {}
    /\ overlapped = {}
    /\ acts = 0

-----------------------------------------------------------------------------
(***************************************************************************)
(* The entry points find the conversation.                                 *)
(***************************************************************************)
Goes(t, from, values) ==
    /\ exchange[t].at = from
    /\ exchange' = [exchange EXCEPT ![t] = values]

\* The transaction that will create the message of the turn begins.
Begins(t, from, c, k, second) ==
    Goes(t, from, [exchange[t] EXCEPT !.at = "opened", !.caller = c, !.conversation = k, !.since = second])

\* Seconds are counted from the first message of a conversation, ...
OpenNew(t, c, k) == Begins(t, "new", c, k, 0)

\* ... and a transaction begins no earlier than those of its other turns did.
Open(t, c, k) ==
    \E second \in 0 .. LastSecond :
        /\ \A m \in DOMAIN messages : messages[m].conversation = k => messages[m].second <= second
        /\ \A u \in Exchanges : exchange[u].conversation = k => exchange[u].since <= second
        /\ Begins(t, "new", c, k, second)

\* Mutant: the row is never added.
CreateConversation_NotAdded(c) == Len(conversations) < MaxConversations /\ UNCHANGED conversations

CreateConversation(c) ==
    /\ Len(conversations) < MaxConversations
    /\ conversations' = Append(conversations, NewConversation(c))

MayUse(c, conversation) ==
    /\ conversation.owner.app = c.app
    /\ conversation.owner.invoke_from = c.invoke_from
    /\ conversation.owner.user = c.user

\* A new conversation (0) is not created yet.
FindWebAppConversation(t, c) ==
    /\ c.invoke_from = "web_app"
    /\ \/ OpenNew(t, c, 0)
       \/ \E k \in DOMAIN conversations :
             /\ MayUse(c, conversations[k])
             /\ ~conversations[k].deleted
             /\ Open(t, c, k)
    /\ UNCHANGED <<conversations, messages, pointer, folded, overlapped>>

FindOpenapiConversation(t, c) ==
    /\ c.invoke_from = "service_api"
    /\ \/ CreateConversation(c) /\ OpenNew(t, c, Len(conversations) + 1)
       \/ /\ \E k \in DOMAIN conversations : MayUse(c, conversations[k]) /\ Open(t, c, k)
          /\ UNCHANGED conversations
    /\ UNCHANGED <<messages, pointer, folded, overlapped>>

\* The debug page and the assistant keep one pointer; a null one is seen here ...
LazyChat(t, c) ==
    /\ c \in Lazy
    /\ IF pointer[c] # 0
       THEN Open(t, c, pointer[c])
       ELSE Goes(t, "new", [exchange[t] EXCEPT !.at = "missing", !.caller = c])
    /\ UNCHANGED <<conversations, messages, pointer, folded, overlapped>>

\* ... and replaced here, whatever it is by now.
LazyCreate(t) ==
    LET c == exchange[t].caller
        k == Len(conversations) + 1
    IN /\ Begins(t, "missing", c, k, 0)
       /\ CreateConversation(c)
       /\ pointer' = [pointer EXCEPT ![c] = k]
       /\ UNCHANGED <<messages, folded, overlapped>>

-----------------------------------------------------------------------------
(***************************************************************************)
(* TokenBufferMemory: the newest answered messages of the conversation,    *)
(* oldest first, cut from the left by trim_messages.  They are ordered by  *)
(* the second of created_at alone, and those of one second come in any     *)
(* order.  An exchange is two prompt messages, and a question that does    *)
(* not fit takes its answer with it, so only whole exchanges stay.         *)
(***************************************************************************)
Rememberable(k) ==
    {m \in DOMAIN messages : /\ messages[m].conversation = k
                             /\ messages[m].answered
                             /\ ~messages[m].deleted
                             /\ messages[m].status \in {"normal", "stop", "timeout"}}

InOrder(history) ==
    \A i, j \in DOMAIN history : i < j => messages[history[i]].second <= messages[history[j]].second

Remembered(k) == {history \in SetToSeqs(Rememberable(k)) : InOrder(history)}

TokensOf(history) == FoldSeq(LAMBDA m, n : messages[m].size + n, 0, history)

\* Mutant: the oldest messages are taken.
Newest_Oldest(history, n) == SubSeq(history, 1, IF n < Len(history) THEN n ELSE Len(history))

Newest(history, n) == SubSeq(history, IF n < Len(history) THEN Len(history) - n + 1 ELSE 1, Len(history))

trim_messages(history) ==
    LET fits == {n \in 0 .. Len(history) : TokensOf(Newest(history, n)) <= TokenLimit}
    IN Newest(history, CHOOSE n \in fits : \A m \in fits : m <= n)

get_history_prompt_messages(k, message_limit) ==
    {trim_messages(Newest(history, message_limit)) : history \in Remembered(k)}

Asks(t, invoke_from) == exchange[t].caller.invoke_from = invoke_from

message_limit(t) == IF Asks(t, "assistant_agent") THEN 3 ELSE DialogRound

LoadHistory(t) ==
    LET k == exchange[t].conversation
    IN /\ \E history \in get_history_prompt_messages(k, message_limit(t)) :
             Goes(t, "opened", [exchange[t] EXCEPT !.at = "ready", !.history = history])
       /\ UNCHANGED <<conversations, messages, pointer, folded, overlapped>>

\* A model, a tool or a parameter is missing: no message is created.
PrepareFails(t) ==
    /\ Goes(t, "opened", [exchange[t] EXCEPT !.at = "over", !.since = 0])
    /\ UNCHANGED <<conversations, messages, pointer, folded, overlapped>>

\* A message has the second its transaction began in, which may be before that of one
\* sent meanwhile.  The summary the agent is given is read once the message is there.
SendMessage(t, k) ==
    /\ Goes(t, "ready", [exchange[t] EXCEPT
             !.at = "running", !.conversation = k, !.message = Len(messages) + 1, !.history = << >>,
             !.read = IF k \in DOMAIN conversations THEN conversations[k].summary ELSE {},
             !.since = 0])
    /\ \E n \in Sizes :
          messages' = Append(messages, NewMessage(exchange[t].caller, k, n, exchange[t].since))
    /\ UNCHANGED <<pointer, folded, overlapped>>

\* The web app creates a new conversation only now.
SendWebAppMessage(t) ==
    IF exchange[t].conversation = 0
    THEN CreateConversation(exchange[t].caller) /\ SendMessage(t, Len(conversations) + 1)
    ELSE UNCHANGED conversations /\ SendMessage(t, exchange[t].conversation)

CreateMessage(t) == SendMessage(t, exchange[t].conversation) /\ UNCHANGED conversations

Prepare(t) == LoadHistory(t) \/ PrepareFails(t)

web_app_chat(t) ==
    \/ \E c \in Callers : FindWebAppConversation(t, c)
    \/ Asks(t, "web_app") /\ (Prepare(t) \/ SendWebAppMessage(t))

openapi_chat(t) ==
    \/ \E c \in Callers : FindOpenapiConversation(t, c)
    \/ Asks(t, "service_api") /\ (Prepare(t) \/ CreateMessage(t))

debug_chat(t) ==
    \/ \E c \in Callers : c.invoke_from = "debugger" /\ LazyChat(t, c)
    \/ Asks(t, "debugger") /\ (LazyCreate(t) \/ Prepare(t) \/ CreateMessage(t))

assistant_agent_chat(t) ==
    \/ \E c \in Callers : c.invoke_from = "assistant_agent" /\ LazyChat(t, c)
    \/ Asks(t, "assistant_agent") /\ (LazyCreate(t) \/ Prepare(t) \/ CreateMessage(t))

-----------------------------------------------------------------------------
(***************************************************************************)
(* save_agent_thoughts, one commit a step.  What the agent answered and    *)
(* how it ended is given; a turn may end badly after it has answered.      *)
(***************************************************************************)
AgentEnds(t) ==
    /\ \E outcome \in Outcomes :
          Goes(t, "running", [exchange[t] EXCEPT !.at = IF outcome.answered THEN "answering" ELSE "closing",
                                                 !.status = outcome.status])
    /\ UNCHANGED <<conversations, messages, pointer, folded, overlapped>>

SaveAnswer(t) ==
    /\ Goes(t, "answering", [exchange[t] EXCEPT !.at = "answered"])
    /\ messages' = [messages EXCEPT ![exchange[t].message].answered = TRUE]
    /\ UNCHANGED <<conversations, pointer, folded, overlapped>>

Summarising(k) == {t \in Exchanges : exchange[t].at = "summarising" /\ exchange[t].conversation = k}

\* Mutant: the summary is the one the agent was given.
SummaryRead_Stale(t) == exchange[t].read

SummaryRead(t) == conversations[exchange[t].conversation].summary

\* Long-term memory is on: the summary is read and sent to the model ...
ReadSummary(t) ==
    LET others == Summarising(exchange[t].conversation)
    IN /\ Goes(t, "answered", [exchange[t] EXCEPT !.at = "summarising", !.read = SummaryRead(t)])
       /\ overlapped' = overlapped \union
             (IF others = {} THEN {}
              ELSE {exchange[t].message} \union {exchange[u].message : u \in others})
       /\ UNCHANGED <<conversations, messages, pointer, folded>>

\* ... and what the model makes of it replaces the summary of then.
WriteSummary(t) ==
    LET m == exchange[t].message
    IN /\ Goes(t, "summarising", [exchange[t] EXCEPT !.at = "naming"])
       /\ conversations' = [conversations EXCEPT
             ![exchange[t].conversation].summary = exchange[t].read \union {m}]
       /\ folded' = folded \union {m}
       /\ UNCHANGED <<messages, pointer, overlapped>>

\* Memory is off, or the model fails, which is only logged.
NoSummary(t) ==
    /\ exchange[t].at \in {"answered", "summarising"}
    /\ Goes(t, exchange[t].at, [exchange[t] EXCEPT !.at = "naming"])
    /\ UNCHANGED <<conversations, messages, pointer, folded, overlapped>>

\* Mutant: the message of the turn itself is not counted on.
is_new_OffByOne(k) == \A m \in DOMAIN messages : messages[m].conversation # k

is_new(k) ==
    \A m, n \in DOMAIN messages : messages[m].conversation = k /\ messages[n].conversation = k => m = n

AskIsNew(t) ==
    /\ Goes(t, "naming", [exchange[t] EXCEPT
                !.at = IF is_new(exchange[t].conversation) THEN "named" ELSE "closing"])
    /\ UNCHANGED <<conversations, messages, pointer, folded, overlapped>>

\* The model's name, or one made of the question.
WriteName(t) ==
    /\ Goes(t, "named", [exchange[t] EXCEPT !.at = "closing"])
    /\ conversations' = [conversations EXCEPT ![exchange[t].conversation].name = "generated"]
    /\ UNCHANGED <<messages, pointer, folded, overlapped>>

SaveStatus(t) ==
    /\ Goes(t, "closing", [exchange[t] EXCEPT !.at = "over", !.read = {}])
    /\ messages' = [messages EXCEPT ![exchange[t].message].status = exchange[t].status]
    /\ UNCHANGED <<conversations, pointer, folded, overlapped>>

\* The database fails: the commits made so far stay, the others never come.
SaveFails(t) ==
    /\ exchange[t].at \in {"answering", "answered", "naming", "named", "closing"}
    /\ Goes(t, exchange[t].at, [exchange[t] EXCEPT !.at = "failed", !.read = {}])
    /\ UNCHANGED <<conversations, messages, pointer, folded, overlapped>>

save_agent_thoughts(t) ==
    \/ SaveAnswer(t) \/ ReadSummary(t) \/ WriteSummary(t) \/ NoSummary(t)
    \/ AskIsNew(t) \/ WriteName(t) \/ SaveStatus(t) \/ SaveFails(t)

-----------------------------------------------------------------------------
(***************************************************************************)
(* What users do to their conversations meanwhile.                         *)
(***************************************************************************)
\* Found by get_conversation: the account's own, of whatever entry point, and not
\* deleted; a conversation of the API belongs to an end user.
Changes(k, values) ==
    /\ ~conversations[k].deleted
    /\ conversations[k].owner.invoke_from # "service_api"
    /\ conversations' = [conversations EXCEPT ![k] = values]
    /\ UNCHANGED <<messages, pointer, exchange, folded, overlapped>>

update_conversation(k) == Changes(k, [conversations[k] EXCEPT !.name = "user"])
delete_conversation(k) == Changes(k, [conversations[k] EXCEPT !.deleted = TRUE])

delete_message(m) ==
    /\ ~messages[m].deleted
    /\ ~conversations[messages[m].conversation].deleted
    /\ messages[m].owner.invoke_from # "service_api"
    /\ messages' = [messages EXCEPT ![m].deleted = TRUE]
    /\ UNCHANGED <<conversations, pointer, exchange, folded, overlapped>>

\* delete_debug_conversation, delete_assistant_agent_conversation
ClearPointer(c) ==
    /\ pointer[c] # 0
    /\ pointer' = [pointer EXCEPT ![c] = 0]
    /\ UNCHANGED <<conversations, messages, exchange, folded, overlapped>>

\* The owner writes the summary of the debug page by hand.
update_debug_conversation_summary(c) ==
    /\ c.invoke_from = "debugger"
    /\ pointer[c] # 0
    /\ conversations' = [conversations EXCEPT ![pointer[c]].summary = {}]
    /\ folded' = {m \in folded : messages[m].conversation # pointer[c]}
    /\ UNCHANGED <<messages, pointer, exchange, overlapped>>

UserActs ==
    /\ acts < MaxActs
    /\ acts' = acts + 1
    /\ \/ \E k \in DOMAIN conversations : update_conversation(k) \/ delete_conversation(k)
       \/ \E m \in DOMAIN messages : delete_message(m)
       \/ \E c \in Lazy : ClearPointer(c) \/ update_debug_conversation_summary(c)

ConvNext ==
    \/ /\ UNCHANGED acts
       /\ \E t \in Exchanges :
             \/ web_app_chat(t) \/ openapi_chat(t) \/ debug_chat(t) \/ assistant_agent_chat(t)
             \/ AgentEnds(t) \/ save_agent_thoughts(t)
    \/ UserActs

ConvSpec == ConvInit /\ [][ConvNext]_convVars

-----------------------------------------------------------------------------
\* A turn that was put into a summary stays in it, unless its summary was
\* computed while another of the same conversation was.
SummaryLosesOnlyOverlaps ==
    \A m \in folded : m \in overlapped \union conversations[messages[m].conversation].summary

\* An answer that was saved to the end names its conversation, unless it is not
\* the only message that was sent in it.
FirstAnswerNames ==
    \A t \in Exchanges :
        LET m == exchange[t].message
            k == exchange[t].conversation
            only == \A n \in DOMAIN messages : messages[n].conversation = k => n = m
        IN exchange[t].at = "over" /\ m # 0 =>
             (messages[m].answered /\ only => conversations[k].name # "new")

\* A history is of this conversation alone, in the order of time and without a message
\* twice; it leaves out none of a later second than one it has, has no more than the
\* configured number, and stays within the limit of tokens.
HistoryIsRecent ==
    [][\A t \in Exchanges : exchange[t].at = "opened" /\ exchange'[t].at = "ready" =>
          LET history == exchange'[t].history
              remembered == Rememberable(exchange[t].conversation)
          IN /\ Range(history) \subseteq remembered
             /\ InOrder(history)
             /\ IsInjective(history)
             /\ \A m \in Range(history), n \in remembered \ Range(history) :
                   messages[n].second <= messages[m].second
             /\ Len(history) <= message_limit(t)
             /\ TokensOf(history) <= TokenLimit]_convVars
=============================================================================
