-------------------------- MODULE FunctionCallAgent --------------------------
(***************************************************************************)
(* The producer: the thread of BaseAgent.stream that walks the graph of    *)
(* core/agent/agents/function_call_agent.py and publishes its events.  The *)
(* lock is taken per event, so two events of a node are two steps.  The    *)
(* thread is never told that its task was stopped or timed out.            *)
(***************************************************************************)
EXTENDS AgentQueueManager

CONSTANTS MaxIteration,  \* max_iteration_count of the agent's configuration
          MaxChunks,     \* bound: chunks of one streamed model reply
          MaxTools       \* bound: tool calls in one model reply

ASSUME AgentAssumption ==
    /\ MaxIteration \in Nat
    /\ MaxChunks \in Nat
    /\ MaxTools \in Nat \ {0}

VARIABLES node,          \* where the thread stands in the graph
          calls,         \* model calls begun; iteration_count at the llm node
          chunks,        \* chunks of the current reply read so far
          generation,    \* generation_type: "", "thought" or "message"
          toolCalls,     \* the gathered reply holds tool calls
          toolsLeft,     \* tool calls of the reply not yet run
          toolsRun       \* tool calls run in the whole turn

agentVars == <<node, calls, chunks, generation, toolCalls, toolsLeft, toolsRun>>
replyVars == <<chunks, generation, toolCalls>>
toolVars == <<toolsLeft, toolsRun>>

Nodes == {"new", "preset", "memory", "history", "llm", "stream", "llmError",
          "tools", "end", "raised", "finally", "exited"}

AgentTypeOK ==
    /\ node \in Nodes
    /\ calls \in 0..(MaxIteration + 1)
    /\ chunks \in 0..MaxChunks
    /\ generation \in {"", "thought", "message"}
    /\ toolCalls \in BOOLEAN
    /\ toolsLeft \in 0..MaxTools
    /\ toolsRun \in Nat

AgentInit ==
    /\ node = "new"
    /\ calls = 0
    /\ chunks = 0
    /\ generation = ""
    /\ toolCalls = FALSE
    /\ toolsLeft = 0
    /\ toolsRun = 0

GoTo(from, to) == node = from /\ node' = to

-----------------------------------------------------------------------------
\* A reviewed keyword in the question: the preset reply ends the turn.
PresetReply ==
    /\ GoTo("preset", "end")
    /\ publish(Text("preset", 0, "not_called"))
    /\ UNCHANGED <<calls, replyVars, toolVars>>

PresetPass ==
    /\ GoTo("preset", "memory")
    /\ UNCHANGED <<queueVars, calls, replyVars, toolVars>>

\* Long-term memory is published only where the configuration enables it.
MemoryRecall ==
    /\ GoTo("memory", "history")
    /\ \/ publish(Note("memory", 0, "long_term_memory_recall"))
       \/ UNCHANGED queueVars
    /\ UNCHANGED <<calls, replyVars, toolVars>>

History ==
    /\ GoTo("history", "llm")
    /\ UNCHANGED <<queueVars, calls, replyVars, toolVars>>

\* A history of odd length is refused: the error is published, then raised.
HistoryMalformed ==
    /\ GoTo("history", "raised")
    /\ publish_error
    /\ UNCHANGED <<calls, replyVars, toolVars>>

\* iteration_count > max_iteration_count: a canned reply ends the turn.
LimitReply ==
    /\ calls > MaxIteration
    /\ GoTo("llm", "end")
    /\ publish(Text("limit", 0, "not_called"))
    /\ UNCHANGED <<calls, replyVars, toolVars>>

\* Mutant: the limit is not looked at.
CallModel_NoLimit ==
    /\ GoTo("llm", "stream")
    /\ calls' = calls + 1
    /\ chunks' = 0
    /\ generation' = ""
    /\ toolCalls' = FALSE
    /\ UNCHANGED <<queueVars, toolVars>>

CallModel ==
    /\ calls <= MaxIteration
    /\ GoTo("llm", "stream")
    /\ calls' = calls + 1
    /\ chunks' = 0
    /\ generation' = ""
    /\ toolCalls' = FALSE
    /\ UNCHANGED <<queueVars, toolVars>>

ReadChunk ==
    /\ node = "stream"
    /\ chunks < MaxChunks
    /\ chunks' = chunks + 1
    /\ UNCHANGED <<node, calls, toolVars>>

ToolCallChunk ==
    /\ ReadChunk
    /\ generation' = "thought"
    /\ toolCalls' = TRUE
    /\ UNCHANGED queueVars

ContentChunk ==
    /\ ReadChunk
    /\ generation' = "message"
    /\ publish(Text("call", calls, "none"))
    /\ UNCHANGED toolCalls

\* The provider fails mid-stream: the call is settled as incomplete first.
StreamFails ==
    /\ GoTo("stream", "llmError")
    /\ publish(Settlement(calls, IF generation = "message" THEN "agent_message"
                                                          ELSE "agent_thought", "partial"))
    /\ UNCHANGED <<calls, replyVars, toolVars>>

LlmError ==
    /\ GoTo("llmError", "raised")
    /\ publish_error
    /\ UNCHANGED <<calls, replyVars, toolVars>>

\* The reply is gathered; a provider that reports no usage leaves it partial.
ThoughtSettled ==
    /\ toolCalls
    /\ GoTo("stream", "tools")
    /\ \E usage \in {"complete", "partial"} : publish(Settlement(calls, "agent_thought", usage))
    /\ toolsLeft' \in 1..MaxTools
    /\ UNCHANGED <<calls, replyVars, toolsRun>>

AnswerSettled ==
    /\ ~toolCalls
    /\ GoTo("stream", "end")
    /\ \E usage \in {"complete", "partial"} : publish(Settlement(calls, "agent_message", usage))
    /\ UNCHANGED <<calls, replyVars, toolVars>>

\* A tool's own exception becomes its result.
RunTool ==
    /\ node = "tools"
    /\ \E event \in {"agent_action", "dataset_retrieval"} : publish(Note("tool", toolsRun, event))
    /\ toolsRun' = toolsRun + 1
    /\ toolsLeft' = toolsLeft - 1
    /\ node' = IF toolsLeft = 1 THEN "llm" ELSE "tools"
    /\ UNCHANGED <<calls, replyVars>>

PublishEnd ==
    /\ GoTo("end", "finally")
    /\ publish(Terminal("agent_end"))
    /\ UNCHANGED <<calls, replyVars, toolVars>>

-----------------------------------------------------------------------------
\* run_agent: whatever a node raises becomes an error event, then the
\* finally block closes the queue.
NodeRaises ==
    /\ node \in {"preset", "memory", "llm", "stream", "tools"}
    /\ node' = "raised"
    /\ UNCHANGED <<queueVars, calls, replyVars, toolVars>>

CatchError ==
    /\ GoTo("raised", "finally")
    /\ publish_error
    /\ UNCHANGED <<calls, replyVars, toolVars>>

Finally ==
    /\ GoTo("finally", "exited")
    /\ stop_listen
    /\ UNCHANGED <<calls, replyVars, toolVars>>

RunAgent ==
    \/ PresetReply \/ PresetPass \/ MemoryRecall \/ History \/ HistoryMalformed
    \/ LimitReply \/ CallModel \/ ToolCallChunk \/ ContentChunk \/ StreamFails
    \/ LlmError \/ ThoughtSettled \/ AnswerSettled \/ RunTool \/ PublishEnd
    \/ NodeRaises \/ CatchError \/ Finally
=============================================================================
