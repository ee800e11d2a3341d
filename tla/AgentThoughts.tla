---------------------------- MODULE AgentThoughts ----------------------------
(***************************************************************************)
(* The events an agent publishes and what core/agent/usage.py computes     *)
(* from them.  A thought keeps what the merge, the persistence and the     *)
(* settlement tell apart:                                                  *)
(*   id     the uuid of the step; the chunks of one answer share it        *)
(*   event  the QueueEvent                                                 *)
(*   text   how many pieces of answer text are concatenated in it          *)
(*   usage  "none", or the settlement of one model call: "complete",       *)
(*          "partial" (interrupted, or not reported by the provider), or   *)
(*          "not_called" for a reply written without a model               *)
(***************************************************************************)
EXTENDS Naturals, Sequences, SequencesExt

TERMINAL_EVENTS == {"stop", "error", "timeout", "agent_end"}

QueueEvent == TERMINAL_EVENTS \union
    {"long_term_memory_recall", "agent_thought", "agent_message",
     "agent_action", "dataset_retrieval", "ping"}

TokenUsage == {"none", "complete", "partial", "not_called"}

\* An id names the step that drew the uuid: a model call, a tool call, ...
Ids == {"preset", "memory", "limit", "call", "tool", "ping"} \X Nat
          \union TERMINAL_EVENTS \X {0}

AgentThought == [id : Ids, event : QueueEvent, text : Nat, usage : TokenUsage]

IsTerminal(thought) == thought.event \in TERMINAL_EVENTS

Note(step, n, event) ==
    [id |-> <<step, n>>, event |-> event, text |-> 0, usage |-> "none"]

Text(step, n, usage) ==
    [id |-> <<step, n>>, event |-> "agent_message", text |-> 1, usage |-> usage]

\* The snapshot that settles one model call: no text of its own.
Settlement(call, event, usage) ==
    [id |-> <<"call", call>>, event |-> event, text |-> 0, usage |-> usage]

Terminal(event) == Note(event, 0, event)

(***************************************************************************)
(* merge_agent_thought: the dict of thoughts, in insertion order.  Only a  *)
(* message joins an entry that exists; any other event takes its place.    *)
(***************************************************************************)
Joined(previous, incoming) ==
    [previous EXCEPT !.text = @ + incoming.text,
                     !.usage = IF incoming.usage = "none" THEN @ ELSE incoming.usage]

merge_agent_thought(thoughts, incoming) ==
    IF incoming.event = "ping" THEN thoughts
    ELSE IF \A i \in DOMAIN thoughts : thoughts[i].id # incoming.id
         THEN Append(thoughts, incoming)
         ELSE [i \in DOMAIN thoughts |->
                 IF thoughts[i].id # incoming.id THEN thoughts[i]
                 ELSE IF incoming.event # "agent_message" THEN incoming
                 ELSE Joined(thoughts[i], incoming)]

MergeAll(events) == FoldLeft(merge_agent_thought, <<>>, events)

(***************************************************************************)
(* summarize_usage: which entries are model calls, and whether the turn is *)
(* billed as completely settled.                                           *)
(***************************************************************************)
Calls(thoughts) ==
    {i \in DOMAIN thoughts : /\ thoughts[i].event \in {"agent_message", "agent_thought"}
                             /\ thoughts[i].usage # "not_called"}

\* Mutant: a timeout is taken for a normal end.
Interrupted_NotByTimeout(thoughts) ==
    \E i \in DOMAIN thoughts : thoughts[i].event \in {"stop", "error"}

Interrupted(thoughts) ==
    \E i \in DOMAIN thoughts : thoughts[i].event \in {"stop", "timeout", "error"}

UsageComplete(thoughts) ==
    /\ ~Interrupted(thoughts)
    /\ \A i \in Calls(thoughts) : thoughts[i].usage = "complete"
=============================================================================
