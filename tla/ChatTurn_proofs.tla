--------------------------- MODULE ChatTurn_proofs ---------------------------
(***************************************************************************)
(* Theorems about ChatTurn, for every set of users, every iteration limit, *)
(* every bound on chunks and tools and every timeout.                      *)
(***************************************************************************)
EXTENDS ChatTurn, TLAPS, WellFoundedInduction

-----------------------------------------------------------------------------
(***************************************************************************)
(* What the constructors of AgentThoughts return.                          *)
(***************************************************************************)

\* Every event the two threads publish is a thought, and no sentinel.
LEMMA ThoughtsAreTyped ==
    /\ \A e \in TERMINAL_EVENTS : Terminal(e) \in AgentThought /\ IsTerminal(Terminal(e))
    /\ \A n \in Nat : /\ Text("call", n, "none") \in AgentThought
                      /\ Note("ping", n, "ping") \in AgentThought
                      /\ ~IsTerminal(Note("ping", n, "ping"))
                      /\ Terminal("error") \in AgentThought
                      /\ \A e \in {"agent_action", "dataset_retrieval"} :
                            Note("tool", n, e) \in AgentThought
                      /\ \A e \in {"agent_message", "agent_thought"}, u \in TokenUsage :
                            Settlement(n, e, u) \in AgentThought
    /\ Text("preset", 0, "not_called") \in AgentThought
    /\ Text("limit", 0, "not_called") \in AgentThought
    /\ Note("memory", 0, "long_term_memory_recall") \in AgentThought
    /\ \A t \in AgentThought : t # Sentinel /\ t.event \in QueueEvent
    /\ \A s, n, e, u : /\ Note(s, n, e).event = e
                        /\ Text(s, n, u).event = "agent_message"
                        /\ Settlement(n, e, u).event = e
                        /\ Terminal(e).event = e
  BY DEF Terminal, AgentThought, Text, Note, Settlement, IsTerminal, TERMINAL_EVENTS,
         QueueEvent, TokenUsage, Ids, Sentinel

\* Merging keeps the list of thoughts a list of thoughts.
LEMMA MergeIsTyped ==
    ASSUME NEW ths \in Seq(AgentThought), NEW t \in AgentThought
    PROVE  merge_agent_thought(ths, t) \in Seq(AgentThought)
<1>1. CASE t.event = "ping"
  BY <1>1 DEF merge_agent_thought
<1>2. CASE t.event # "ping" /\ \A i \in DOMAIN ths : ths[i].id # t.id
  BY <1>2 DEF merge_agent_thought
<1>3. CASE t.event # "ping" /\ ~ \A i \in DOMAIN ths : ths[i].id # t.id
  <2> DEFINE f(i) == IF ths[i].id # t.id THEN ths[i]
                     ELSE IF t.event # "agent_message" THEN t ELSE Joined(ths[i], t)
  <2>1. \A i \in 1..Len(ths) : Joined(ths[i], t) \in AgentThought
    <3> SUFFICES ASSUME NEW p \in AgentThought
                 PROVE  Joined(p, t) \in AgentThought
      OBVIOUS
    <3> DEFINE u == IF t.usage = "none" THEN p.usage ELSE t.usage
    <3>1. Joined(p, t) = [p EXCEPT !.text = p.text + t.text, !.usage = u]
      BY DEF Joined
    <3>2. p.text + t.text \in Nat /\ u \in TokenUsage
      BY DEF AgentThought
    <3> HIDE DEF u
    <3>3. [p EXCEPT !.text = p.text + t.text, !.usage = u] \in AgentThought
      BY <3>2 DEF AgentThought
    <3> QED
      BY <3>1, <3>3
  <2>2. \A i \in 1..Len(ths) : f(i) \in AgentThought
    BY <2>1
  <2>3. [i \in 1..Len(ths) |-> f(i)] \in Seq(AgentThought)
    BY <2>2, Len(ths) \in Nat
  <2>4. merge_agent_thought(ths, t) = [i \in 1..Len(ths) |-> f(i)]
    BY <1>3, DOMAIN ths = 1..Len(ths) DEF merge_agent_thought
  <2> QED
    BY <2>3, <2>4
<1> QED
  BY <1>1, <1>2, <1>3

-----------------------------------------------------------------------------
(***************************************************************************)
(* The queue.  All that the steps of both threads do to it is to publish a *)
(* thought, to take the head, or, in run_agent's finally block, to close.  *)
(***************************************************************************)
\* The agent's thread never publishes a stop of its own accord.
AgentPublishes == \E t \in AgentThought : t.event # "stop" /\ publish(t)

\* run_agent reaches its finally block only once the task is ended.
AgentEnded == node \in {"finally", "exited"} => closed

\* Publishing keeps the queue typed and ended at most once, and never reopens it.
LEMMA PublishKeepsQueue ==
    ASSUME QueueTypeOK, EndsOnce, NEW t \in AgentThought, publish(t)
    PROVE  /\ log' \in Seq(AgentThought \union {Sentinel})
           /\ taken' \in 0..Len(log')
           /\ closed' \in BOOLEAN
           /\ EndsOnce'
           /\ closed => closed'
           /\ IsTerminal(t) => closed'
<1> USE DEF QueueTypeOK
<1>1. t # Sentinel
  BY ThoughtsAreTyped
<1>2. CASE closed
  BY <1>2 DEF publish, EndsOnce, Ongoing
<1>3. CASE ~closed /\ IsTerminal(t)
  <2> DEFINE n == Len(log)
  <2>1. log' = log \o <<t, Sentinel>> /\ closed' = TRUE /\ taken' = taken
    BY <1>3 DEF publish
  <2>2. /\ Len(log') = n + 2
        /\ log'[n + 1] = t
        /\ log'[n + 2] = Sentinel
        /\ \A i \in 1..n : log'[i] = log[i]
        /\ log' \in Seq(AgentThought \union {Sentinel})
    BY <2>1
  <2>3. \A i \in 1..n : Ongoing(log'[i])
    BY <1>3, <2>2 DEF EndsOnce, Ongoing
  <2> QED
    BY <1>3, <2>1, <2>2, <2>3 DEF EndsOnce
<1>4. CASE ~closed /\ ~IsTerminal(t)
  <2> DEFINE n == Len(log)
  <2>1. log' = Append(log, t) /\ closed' = FALSE /\ taken' = taken
    BY <1>4 DEF publish
  <2>2. /\ Len(log') = n + 1
        /\ log'[n + 1] = t
        /\ \A i \in 1..n : log'[i] = log[i]
        /\ log' \in Seq(AgentThought \union {Sentinel})
    BY <2>1
  <2>3. \A i \in 1..(n + 1) : Ongoing(log'[i])
    BY <1>1, <1>4, <2>2 DEF EndsOnce, Ongoing
  <2>4. taken' \in 0..Len(log') /\ closed' \in BOOLEAN
    <3>1. n \in Nat /\ taken \in 0..n
      BY DEF QueueTypeOK
    <3> HIDE DEF n, QueueTypeOK
    <3>2. Len(log') = n + 1 /\ taken' = taken
      BY <2>1, <2>2
    <3>3. taken' \in 0..Len(log')
      BY <3>1, <3>2
    <3>4. closed' \in BOOLEAN
      BY <2>1
    <3> QED
      BY <3>3, <3>4
  <2>5. EndsOnce'
    BY <2>1, <2>2, <2>3 DEF EndsOnce
  <2> QED
    BY <1>4, <2>2, <2>4, <2>5
<1> QED
  BY <1>2, <1>3, <1>4

\* What a step of the agent's thread does to the queue, and where it stands.
LEMMA AgentStep ==
    ASSUME AgentTypeOK, RunAgent
    PROVE  /\ \/ AgentPublishes
              \/ UNCHANGED queueVars
              \/ node = "finally" /\ stop_listen
           /\ node' \in {"finally", "exited"} =>
                 \/ node = "finally"
                 \/ \E t \in AgentThought : IsTerminal(t) /\ publish(t)
<1>0. calls \in Nat /\ toolsRun \in Nat /\ {"complete", "partial"} \subseteq TokenUsage
  <2>1. MaxIteration + 1 \in Nat
    BY AgentAssumption
  <2>2. calls \in 0..(MaxIteration + 1) /\ toolsRun \in Nat
    BY DEF AgentTypeOK
  <2> QED
    BY <2>1, <2>2 DEF TokenUsage
<1> USE <1>0, ThoughtsAreTyped DEF GoTo, AgentPublishes
<1>1. CASE PresetReply
  BY <1>1 DEF PresetReply
<1>2. CASE PresetPass
  BY <1>2 DEF PresetPass
<1>3. CASE MemoryRecall
  BY <1>3 DEF MemoryRecall
<1>4. CASE History
  BY <1>4 DEF History
<1>5. CASE HistoryMalformed
  BY <1>5 DEF HistoryMalformed, publish_error, TERMINAL_EVENTS
<1>6. CASE LimitReply
  BY <1>6 DEF LimitReply
<1>7. CASE CallModel
  BY <1>7 DEF CallModel
<1>8. CASE ToolCallChunk
  BY <1>8 DEF ToolCallChunk, ReadChunk
<1>9. CASE ContentChunk
  <2>1. publish(Text("call", calls, "none")) /\ node' = "stream"
    BY <1>9 DEF ContentChunk, ReadChunk
  <2>2. Text("call", calls, "none") \in AgentThought
    OBVIOUS
  <2> QED
    BY <2>1, <2>2
<1>10. CASE StreamFails
  <2> DEFINE t == Settlement(calls, IF generation = "message" THEN "agent_message"
                                                              ELSE "agent_thought", "partial")
  <2>1. publish(t) /\ node' = "llmError"
    BY <1>10 DEF StreamFails
  <2>2. t \in AgentThought /\ t.event # "stop"
    OBVIOUS
  <2> HIDE DEF t
  <2> QED
    BY <2>1, <2>2
<1>11. CASE LlmError
  BY <1>11 DEF LlmError, publish_error, TERMINAL_EVENTS
<1>12. CASE ThoughtSettled
  <2>1. PICK u \in {"complete", "partial"} : publish(Settlement(calls, "agent_thought", u))
    BY <1>12 DEF ThoughtSettled
  <2>2. Settlement(calls, "agent_thought", u) \in AgentThought
    OBVIOUS
  <2> QED
    BY <1>12, <2>1, <2>2 DEF ThoughtSettled
<1>13. CASE AnswerSettled
  <2>1. PICK u \in {"complete", "partial"} : publish(Settlement(calls, "agent_message", u))
    BY <1>13 DEF AnswerSettled
  <2>2. Settlement(calls, "agent_message", u) \in AgentThought
    OBVIOUS
  <2> QED
    BY <1>13, <2>1, <2>2 DEF AnswerSettled
<1>14. CASE RunTool
  <2>1. PICK e \in {"agent_action", "dataset_retrieval"} : publish(Note("tool", toolsRun, e))
    BY <1>14 DEF RunTool
  <2>2. Note("tool", toolsRun, e) \in AgentThought
    OBVIOUS
  <2> QED
    BY <1>14, <2>1, <2>2 DEF RunTool
<1>15. CASE PublishEnd
  BY <1>15 DEF PublishEnd, TERMINAL_EVENTS
<1>16. CASE NodeRaises
  BY <1>16 DEF NodeRaises
<1>17. CASE CatchError
  BY <1>17 DEF CatchError, publish_error, TERMINAL_EVENTS
<1>18. CASE Finally
  BY <1>18 DEF Finally
<1> QED
  BY <1>1, <1>2, <1>3, <1>4, <1>5, <1>6, <1>7, <1>8, <1>9, <1>10, <1>11, <1>12,
     <1>13, <1>14, <1>15, <1>16, <1>17, <1>18 DEF RunAgent

-----------------------------------------------------------------------------
(***************************************************************************)
(* Type correctness, with the two facts it needs to be inductive.          *)
(***************************************************************************)
ItemAtHand == at = "item" => item # Sentinel

ToolsPending == node = "tools" => toolsLeft # 0

Typed == TypeOK /\ ItemAtHand /\ ToolsPending

LEMMA AgentTyped ==
    ASSUME AgentTypeOK, ToolsPending, RunAgent
    PROVE  AgentTypeOK' /\ ToolsPending'
<1> USE DEF ToolsPending, Nodes, GoTo, replyVars, toolVars
<1>0. /\ MaxIteration \in Nat /\ MaxTools \in Nat /\ MaxChunks \in Nat
      /\ calls \in 0..(MaxIteration + 1)
      /\ chunks \in 0..MaxChunks
      /\ toolsLeft \in 0..MaxTools
      /\ toolsRun \in Nat
  BY AgentAssumption DEF AgentTypeOK
<1>1. CASE \/ PresetReply \/ PresetPass \/ MemoryRecall \/ History \/ HistoryMalformed
           \/ LimitReply \/ StreamFails \/ LlmError \/ AnswerSettled \/ PublishEnd
           \/ NodeRaises \/ CatchError \/ Finally
  BY <1>1 DEF PresetReply, PresetPass, MemoryRecall, History, HistoryMalformed, LimitReply,
     StreamFails, LlmError, AnswerSettled, PublishEnd, NodeRaises, CatchError, Finally, AgentTypeOK
<1>2. CASE CallModel
  <2>1. calls <= MaxIteration /\ calls' = calls + 1 /\ chunks' = 0
    BY <1>2 DEF CallModel
  <2>2. calls' \in 0..(MaxIteration + 1) /\ chunks' \in 0..MaxChunks
    BY <1>0, <2>1
  <2> QED
    BY <1>2, <2>2 DEF CallModel, AgentTypeOK
<1>3. CASE ToolCallChunk \/ ContentChunk
  <2>1. chunks' \in 0..MaxChunks /\ node' = node
    BY <1>0, <1>3 DEF ToolCallChunk, ContentChunk, ReadChunk
  <2> QED
    BY <1>3, <2>1 DEF ToolCallChunk, ContentChunk, ReadChunk, AgentTypeOK
<1>4. CASE ThoughtSettled
  <2>1. toolsLeft' \in 0..MaxTools /\ toolsLeft' # 0
    BY <1>0, <1>4 DEF ThoughtSettled
  <2> QED
    BY <1>4, <2>1 DEF ThoughtSettled, AgentTypeOK
<1>5. CASE RunTool
  <2>1. toolsLeft # 0 /\ toolsLeft' = toolsLeft - 1 /\ toolsRun' = toolsRun + 1
    BY <1>5 DEF RunTool
  <2>2. toolsLeft' \in 0..MaxTools /\ toolsRun' \in Nat
    BY <1>0, <2>1
  <2>3. node' \in {"llm", "tools"} /\ (node' = "tools" => toolsLeft' # 0)
    BY <1>0, <1>5, <2>1 DEF RunTool
  <2> QED
    BY <1>5, <2>2, <2>3 DEF RunTool, AgentTypeOK
<1> QED
  BY <1>1, <1>2, <1>3, <1>4, <1>5 DEF RunAgent

\* The consumer's own variables stay typed through each of its steps.
LEMMA ConsumerTyped ==
    ASSUME Typed, Consume
    PROVE  RuntimeTypeOK' /\ ItemAtHand' /\ AgentTypeOK' /\ ToolsPending'
<1> USE DEF RuntimeTypeOK, ItemAtHand, Places, Move
<1>0. /\ RuntimeTypeOK /\ ItemAtHand /\ AgentTypeOK /\ ToolsPending
      /\ log \in Seq(AgentThought \union {Sentinel})
      /\ at = "item" => item \in AgentThought
      /\ ListenTimeout \in Nat
  BY RuntimeAssumption DEF Typed, TypeOK, QueueTypeOK
<1>1. CASE OpenQueue \/ Fails \/ GetTimesOut \/ CheckClosed \/ ListenerPublishes \/ InvokeFails
  BY <1>0, <1>1 DEF OpenQueue, Fails, GetTimesOut, CheckClosed, ListenerPublishes, InvokeFails,
     agentVars, turnVars, resultVars, clockVars, replyVars, toolVars, AgentTypeOK, ToolsPending
<1>2. CASE StartThread
  <2>1. /\ node' = "preset" /\ at' = "get"
        /\ UNCHANGED <<turnVars, driver, item, resultVars, clockVars>>
        /\ UNCHANGED <<calls, replyVars, toolVars>>
    BY <1>2 DEF StartThread, GoTo
  <2>2. AgentTypeOK' /\ ToolsPending'
    BY <1>0, <2>1 DEF AgentTypeOK, ToolsPending, Nodes, replyVars, toolVars
  <2> QED
    BY <1>0, <2>1, <2>2 DEF turnVars, resultVars, clockVars
<1>3. CASE GetItem
  <2>1. /\ taken < Len(log) /\ item' = log[taken + 1]
        /\ at' \in {"item", "finish", "failed"}
        /\ at' = "item" => item' # Sentinel
        /\ UNCHANGED <<agentVars, turnVars, driver, resultVars, clockVars>>
    BY <1>3 DEF GetItem, get
  <2>2. taken \in Nat /\ Len(log) \in Nat
    BY <1>0 DEF Typed, TypeOK, QueueTypeOK
  <2>3. item' \in AgentThought \union {Sentinel}
    BY <1>0, <2>1, <2>2
  <2> QED
    BY <1>0, <2>1, <2>3 DEF agentVars, turnVars, resultVars, clockVars, replyVars, toolVars,
       AgentTypeOK, ToolsPending
<1>4. CASE Decide
  <2>1. /\ at' \in {"timeout", "stop", "ping", "get"}
        /\ last_ping_time' \in {elapsed, last_ping_time}
        /\ UNCHANGED <<agentVars, turnVars, driver, item, resultVars, elapsed>>
    BY <1>4 DEF Decide
  <2> QED
    BY <1>0, <2>1 DEF agentVars, turnVars, resultVars, replyVars, toolVars, AgentTypeOK, ToolsPending
<1>5. CASE CatchFailure
  <2>1. /\ at' = "item" /\ item' = Terminal("error")
        /\ UNCHANGED <<agentVars, turnVars, driver, resultVars, clockVars>>
    BY <1>5 DEF CatchFailure
  <2>2. item' \in AgentThought /\ item' # Sentinel
    BY <2>1, ThoughtsAreTyped, "error" \in TERMINAL_EVENTS DEF TERMINAL_EVENTS
  <2> QED
    BY <1>0, <2>1, <2>2 DEF agentVars, turnVars, resultVars, clockVars, replyVars, toolVars,
       AgentTypeOK, ToolsPending
<1>6. CASE SendFrame \/ FrameFails \/ MergeQuietly
  <2>1. /\ at = "item"
        /\ heard' = Append(heard, item)
        /\ thoughts' = merge_agent_thought(thoughts, item)
        /\ UNCHANGED <<agentVars, turnVars, item, clockVars>>
    BY <1>6 DEF SendFrame, FrameFails, MergeQuietly, Merge
  <2>2. heard' \in Seq(AgentThought) /\ thoughts' \in Seq(AgentThought)
    BY <1>0, <2>1, MergeIsTyped
  <2>3. /\ at' \in {"yielded", "done", "finish", "check"}
        /\ driver' \in {driver, "drain"}
        /\ frames' = frames \/ frames' = Append(frames, item)
        /\ saves' = saves \/ saves' = Append(saves, thoughts')
    BY <1>6 DEF SendFrame, FrameFails, MergeQuietly, save
  <2>4. frames' \in Seq(AgentThought)
    <3>1. frames \in Seq(AgentThought) /\ item \in AgentThought
      BY <1>0, <2>1
    <3> HIDE DEF RuntimeTypeOK
    <3> QED
      BY <2>3, <3>1
  <2>5. saves' \in Seq(Seq(AgentThought))
    <3> DEFINE List == Seq(AgentThought)
    <3>1. saves \in Seq(List) /\ thoughts' \in List
      BY <1>0, <2>2
    <3> HIDE DEF List
    <3>2. saves' \in Seq(List)
      BY <2>3, <3>1
    <3> QED
      BY <3>2 DEF List
  <2> QED
    BY <1>0, <2>1, <2>2, <2>3, <2>4, <2>5 DEF agentVars, turnVars, clockVars, replyVars, toolVars,
       AgentTypeOK, ToolsPending
<1>7. CASE Finish
  <2>1. /\ at' = "done" /\ thoughts' = thoughts /\ saves' = Append(saves, thoughts')
        /\ UNCHANGED <<agentVars, turnVars, driver, item, heard, frames, clockVars>>
    BY <1>7 DEF Finish, save
  <2>2. saves' \in Seq(Seq(AgentThought))
    BY <1>0, <2>1
  <2> QED
    BY <1>0, <2>1, <2>2 DEF agentVars, turnVars, clockVars, replyVars, toolVars,
       AgentTypeOK, ToolsPending
<1> QED
  BY <1>1, <1>2, <1>3, <1>4, <1>5, <1>6, <1>7 DEF Consume

-----------------------------------------------------------------------------
(***************************************************************************)
(* The inductive invariant of the queue.  EndsOnce alone is not inductive: *)
(* the finally block appends a sentinel to whatever it finds, so one needs *)
(* that it finds the task already ended.                                   *)
(***************************************************************************)
QueueInv == Typed /\ EndsOnce /\ AgentEnded

\* All that a step of any actor does to the queue and to the agent's place.
LEMMA QueueStep ==
    ASSUME Typed, [Next]_vars
    PROVE  /\ \/ \E t \in AgentThought : publish(t)
              \/ UNCHANGED queueVars
              \/ node = "finally" /\ stop_listen
              \/ get
           /\ node' \in {"finally", "exited"} =>
                 \/ node \in {"finally", "exited"}
                 \/ \E t \in AgentThought : IsTerminal(t) /\ publish(t)
<1> USE DEF GoTo, Move
<1>1. CASE Agent
  BY <1>1, AgentStep DEF Agent, Typed, TypeOK, AgentPublishes
<1>2. CASE Consumer
  <2>1. CASE OpenQueue \/ StartThread \/ Fails \/ GetItem \/ GetTimesOut \/ CheckClosed
             \/ Decide \/ CatchFailure \/ InvokeFails \/ SendFrame \/ FrameFails
             \/ MergeQuietly \/ Finish
    BY <2>1 DEF OpenQueue, StartThread, Fails, GetItem, GetTimesOut, CheckClosed, Decide,
       CatchFailure, InvokeFails, SendFrame, FrameFails, MergeQuietly, Merge, Finish,
       queue, agentVars
  <2>2. CASE ListenerPublishes
    <3>1. last_ping_time \in Nat
      BY RuntimeAssumption DEF Typed, TypeOK, RuntimeTypeOK
    <3>2. \E t \in AgentThought : publish(t)
      BY <2>2, <3>1, ThoughtsAreTyped DEF ListenerPublishes, TERMINAL_EVENTS
    <3>3. node' = node
      BY <2>2 DEF ListenerPublishes, agentVars
    <3> QED
      BY <3>2, <3>3
  <2> QED
    BY <1>2, <2>1, <2>2 DEF Consumer, Consume
<1>3. CASE Client \/ RequestStop \/ Tick \/ Over \/ UNCHANGED vars
  BY <1>3 DEF Client, Pull, Disconnect, NeverPulled, RequestStop, Tick, Over, vars, agentVars
<1> QED
  BY <1>1, <1>2, <1>3 DEF Next

\* The inductive step.
LEMMA QueueInvStep ==
    ASSUME QueueInv, [Next]_vars
    PROVE  QueueInv'
<1>1. /\ log' \in Seq(AgentThought \union {Sentinel})
      /\ taken' \in 0..Len(log')
      /\ closed' \in BOOLEAN
      /\ EndsOnce'
      /\ closed => closed'
  <2>0. QueueTypeOK /\ EndsOnce /\ AgentEnded
    BY DEF QueueInv, Typed, TypeOK
  <2>1. CASE \E t \in AgentThought : publish(t)
    BY <2>0, <2>1, PublishKeepsQueue
  <2>2. CASE UNCHANGED queueVars
    BY <2>0, <2>2 DEF queueVars, QueueTypeOK, EndsOnce
  <2>3. CASE node = "finally" /\ stop_listen
    BY <2>0, <2>3 DEF stop_listen, AgentEnded, QueueTypeOK, EndsOnce
  <2>4. CASE get
    <3>1. taken \in Nat /\ Len(log) \in Nat /\ taken < Len(log) /\ taken' = taken + 1
      BY <2>0, <2>4 DEF get, QueueTypeOK
    <3>2. taken' \in 0..Len(log)
      BY <3>1
    <3> QED
      BY <2>0, <2>4, <3>2 DEF get, QueueTypeOK, EndsOnce
  <2> QED
    BY <2>1, <2>2, <2>3, <2>4, QueueStep DEF QueueInv
<1>2. AgentEnded'
  <2>1. CASE node \in {"finally", "exited"}
    BY <1>1, <2>1 DEF AgentEnded, QueueInv
  <2>2. CASE \E t \in AgentThought : IsTerminal(t) /\ publish(t)
    BY <2>2, PublishKeepsQueue DEF QueueInv, Typed, TypeOK, AgentEnded
  <2> QED
    BY <2>1, <2>2, QueueStep DEF QueueInv, AgentEnded
<1>3. belong' \in ({"account", "end-user"} \X Users) \union {None} /\ stopped' \in BOOLEAN
  <2>0. /\ belong \in ({"account", "end-user"} \X Users) \union {None} /\ stopped \in BOOLEAN
        /\ operator \in Users
    BY DEF QueueInv, Typed, TypeOK, QueueTypeOK, RuntimeTypeOK
  <2>1. CASE OpenQueue
    BY <2>0, <2>1 DEF OpenQueue, queue, Principal, user_prefix
  <2>2. CASE RequestStop
    BY <2>0, <2>2 DEF RequestStop, set_stop_flag
  <2>3. CASE UNCHANGED redisVars
    BY <2>0, <2>3 DEF redisVars
  <2> QED
    BY <2>1, <2>2, <2>3 DEF Next, Agent, Consumer, Consume, Client, Tick, Over, vars, StartThread,
       Fails, GetItem, GetTimesOut, CheckClosed, Decide, ListenerPublishes, CatchFailure,
       InvokeFails, SendFrame, FrameFails, MergeQuietly, Merge, Finish, Pull, Disconnect, NeverPulled
<1>4. RuntimeTypeOK' /\ ItemAtHand' /\ AgentTypeOK' /\ ToolsPending' /\ asked' \subseteq Users
  <2>0. /\ RuntimeTypeOK /\ ItemAtHand /\ AgentTypeOK /\ ToolsPending /\ asked \subseteq Users
        /\ Typed
    BY DEF QueueInv, Typed, TypeOK
  <2>1. CASE Agent
    BY <2>0, <2>1, AgentTyped DEF Agent, runtimeVars, turnVars, resultVars, clockVars,
       RuntimeTypeOK, ItemAtHand
  <2>2. CASE Consumer
    BY <2>0, <2>2, ConsumerTyped DEF Consumer
  <2>3. CASE Client
    BY <2>0, <2>3 DEF Client, Pull, Disconnect, NeverPulled, Move, agentVars, turnVars, resultVars,
       clockVars, replyVars, toolVars, RuntimeTypeOK, Places, ItemAtHand, AgentTypeOK, ToolsPending
  <2>4. CASE RequestStop
    BY <2>0, <2>4 DEF RequestStop, agentVars, runtimeVars, turnVars, resultVars, clockVars,
       replyVars, toolVars, RuntimeTypeOK, ItemAtHand, AgentTypeOK, ToolsPending
  <2>5. CASE Tick
    <3>1. elapsed' \in 0..ListenTimeout
      BY <2>0, <2>5, RuntimeAssumption DEF Tick, RuntimeTypeOK
    <3> QED
      BY <2>0, <2>5, <3>1 DEF Tick, agentVars, turnVars, resultVars, replyVars, toolVars,
         RuntimeTypeOK, ItemAtHand, AgentTypeOK, ToolsPending
  <2>6. CASE Over \/ UNCHANGED vars
    BY <2>0, <2>6 DEF Over, vars, agentVars, runtimeVars, turnVars, resultVars, clockVars,
       replyVars, toolVars, RuntimeTypeOK, ItemAtHand, AgentTypeOK, ToolsPending
  <2> QED
    BY <2>1, <2>2, <2>3, <2>4, <2>5, <2>6 DEF Next
<1> QED
  BY <1>1, <1>2, <1>3, <1>4 DEF QueueInv, Typed, TypeOK, QueueTypeOK

LEMMA QueueInvInit ==
    ASSUME Init
    PROVE  QueueInv
<1>1. QueueTypeOK /\ EndsOnce
  <2>1. log = <<>> /\ taken = 0 /\ closed = FALSE /\ belong = None /\ stopped = FALSE
    BY DEF Init, QueueInit
  <2>2. Len(log) = 0 /\ log \in Seq(AgentThought \union {Sentinel}) /\ taken \in 0..Len(log)
    BY <2>1
  <2>3. closed \in BOOLEAN /\ stopped \in BOOLEAN
    BY <2>1
  <2>4. belong \in ({"account", "end-user"} \X Users) \union {None}
    BY <2>1
  <2>5. EndsOnce
    BY <2>1, <2>2 DEF EndsOnce
  <2> QED
    BY <2>2, <2>3, <2>4, <2>5 DEF QueueTypeOK
<1>2. AgentTypeOK /\ ToolsPending /\ AgentEnded
  <2>1. /\ node = "new" /\ calls = 0 /\ chunks = 0 /\ generation = ""
        /\ toolCalls = FALSE /\ toolsLeft = 0 /\ toolsRun = 0
    BY DEF Init, AgentInit
  <2>2. /\ calls \in 0..(MaxIteration + 1) /\ chunks \in 0..MaxChunks
        /\ toolsLeft \in 0..MaxTools /\ toolsRun \in Nat
    <3>1. MaxIteration \in Nat /\ MaxChunks \in Nat /\ MaxTools \in Nat
      BY AgentAssumption
    <3>2. calls = 0 /\ chunks = 0 /\ toolsLeft = 0 /\ toolsRun = 0
      BY <2>1
    <3> QED
      BY <3>1, <3>2
  <2>3. toolCalls \in BOOLEAN
    BY <2>1
  <2>4. node \in Nodes /\ generation \in {"", "thought", "message"}
    BY <2>1 DEF Nodes
  <2>5. AgentTypeOK
    BY <2>2, <2>3, <2>4 DEF AgentTypeOK
  <2> QED
    BY <2>1, <2>5 DEF ToolsPending, AgentEnded
<1>3. RuntimeTypeOK /\ ItemAtHand
  BY RuntimeAssumption DEF Init, RuntimeInit, RuntimeTypeOK, Places, ItemAtHand
<1> QED
  BY <1>1, <1>2, <1>3 DEF Init, QueueInv, Typed, TypeOK

LEMMA QueueInvariant == Spec => []QueueInv
<1>1. Init => QueueInv
  BY QueueInvInit
<1>2. QueueInv /\ [Next]_vars => QueueInv'
  BY QueueInvStep
<1> QED
  BY <1>1, <1>2, PTL DEF Spec

\* The variables keep their types.
THEOREM TypeCorrect == Spec => []TypeOK
<1>1. QueueInv => TypeOK
  BY DEF QueueInv, Typed
<1> QED
  BY <1>1, QueueInvariant, PTL

\* However the agent's thread and the listener interleave, a task's queue
\* holds at most one terminal event, directly before the sentinel that closes
\* it; run_agent's finally block never closes a task that did not end.
THEOREM TaskEndsOnce == Spec => []EndsOnce
<1>1. QueueInv => EndsOnce
  BY DEF QueueInv
<1> QED
  BY <1>1, QueueInvariant, PTL

-----------------------------------------------------------------------------
(***************************************************************************)
(* Who may stop a task.                                                    *)
(***************************************************************************)
StopInLog == \E i \in DOMAIN log : log[i].event = "stop"

\* The key in Redis is the operator's, a stop key that is set was asked for by
\* the operator, and the listener only stops a task whose stop key is set.
StopInv ==
    /\ belong \in {None, Principal(origin, operator)}
    /\ stopped => operator \in asked
    /\ at = "stop" => stopped
    /\ StopInLog => operator \in asked

LEMMA StopInvStep ==
    ASSUME QueueInv, StopInv, [Next]_vars
    PROVE  StopInv'
<1> USE DEF StopInv
<1>0. /\ log \in Seq(AgentThought \union {Sentinel})
      /\ operator \in Users
      /\ Typed
  BY DEF QueueInv, Typed, TypeOK, QueueTypeOK, RuntimeTypeOK
<1>1. ASSUME NEW t \in AgentThought, t.event # "stop", publish(t)
      PROVE  StopInLog' => StopInLog
  <2>1. CASE closed
    BY <1>1, <2>1 DEF publish, StopInLog
  <2>2. CASE ~closed /\ IsTerminal(t)
    <3>1. log' = log \o <<t, Sentinel>>
      BY <1>1, <2>2 DEF publish
    <3>2. \A i \in DOMAIN log' : \/ i \in DOMAIN log /\ log'[i] = log[i]
                                \/ log'[i] = t
                                \/ log'[i] = Sentinel
      BY <1>0, <3>1
    <3> QED
      BY <1>1, <3>2 DEF StopInLog, Sentinel
  <2>3. CASE ~closed /\ ~IsTerminal(t)
    <3>1. log' = Append(log, t)
      BY <1>1, <2>3 DEF publish
    <3>2. \A i \in DOMAIN log' : (i \in DOMAIN log /\ log'[i] = log[i]) \/ log'[i] = t
      BY <1>0, <3>1
    <3> QED
      BY <1>1, <3>2 DEF StopInLog
  <2> QED
    BY <2>1, <2>2, <2>3
<1>2. CASE Agent
  <2>1. StopInLog' => StopInLog
    <3>1. CASE AgentPublishes
      BY <1>1, <3>1 DEF AgentPublishes
    <3>2. CASE UNCHANGED queueVars
      BY <3>2 DEF queueVars, StopInLog
    <3>3. CASE stop_listen
      BY <1>0, <3>3 DEF stop_listen, StopInLog, Sentinel
    <3> QED
      BY <1>0, <1>2, <3>1, <3>2, <3>3, AgentStep DEF Agent, Typed, TypeOK
  <2> QED
    BY <1>2, <2>1 DEF Agent, redisVars, runtimeVars, turnVars
<1>3. CASE Consumer
  <2>1. CASE ListenerPublishes
    <3>1. CASE at = "stop" /\ UNCHANGED <<redisVars, turnVars, asked>> /\ at' = "get"
      BY <3>1 DEF redisVars, turnVars
    <3>2. CASE at # "stop"
      <4>1. last_ping_time \in Nat
        BY <1>0, RuntimeAssumption DEF Typed, TypeOK, RuntimeTypeOK
      <4>2. \E t \in AgentThought : t.event # "stop" /\ publish(t)
        BY <2>1, <3>2, <4>1, ThoughtsAreTyped DEF ListenerPublishes, TERMINAL_EVENTS, Move
      <4>3. StopInLog' => StopInLog
        BY <1>1, <4>2
      <4> QED
        BY <1>3, <2>1, <4>3 DEF ListenerPublishes, Consumer, Move, redisVars, turnVars
    <3> QED
      BY <1>3, <2>1, <3>1, <3>2 DEF ListenerPublishes, Consumer, Move
  <2>2. CASE OpenQueue
    BY <1>3, <2>2 DEF Consumer, OpenQueue, queue, queueVars, turnVars, Move, StopInLog
  <2>3. CASE Decide
    BY <1>3, <2>3 DEF Consumer, Decide, queueVars, redisVars, turnVars, StopInLog
  <2>4. CASE StartThread \/ Fails \/ GetItem \/ GetTimesOut \/ CheckClosed \/ CatchFailure
             \/ InvokeFails \/ SendFrame \/ FrameFails \/ MergeQuietly \/ Finish
    <3>1. log' = log /\ at' # "stop" /\ UNCHANGED <<redisVars, turnVars, asked>>
      BY <1>3, <2>4 DEF Consumer, StartThread, Fails, GetItem, get, GetTimesOut, CheckClosed,
         CatchFailure, InvokeFails, SendFrame, FrameFails, MergeQuietly, Merge, Finish, Move, queueVars
    <3> QED
      BY <3>1 DEF StopInLog, redisVars, turnVars
  <2> QED
    BY <1>3, <2>1, <2>2, <2>3, <2>4 DEF Consumer, Consume
<1>4. CASE RequestStop
  <2>1. PICK f \in Stoppers, u \in Users : set_stop_flag(f, u) /\ asked' = asked \union {u}
    BY <1>4 DEF RequestStop
  <2>2. u = operator
    BY <1>0, <2>1, QueueAssumption DEF set_stop_flag, Principal, user_prefix
  <2>3. UNCHANGED <<log, origin, operator, belong>> /\ stopped' = TRUE
    BY <1>4, <2>1 DEF RequestStop, set_stop_flag, runtimeVars, queueVars, turnVars
  <2>4. operator' \in asked' /\ asked' = asked \union {u}
    BY <2>1, <2>2, <2>3
  <2> QED
    BY <2>3, <2>4
<1>5. CASE Client \/ Tick \/ Over \/ UNCHANGED vars
  <2>1. /\ UNCHANGED <<queueVars, redisVars, turnVars, asked>>
        /\ at' = at \/ at' \in {"check", "done"}
    BY <1>5 DEF Client, Pull, Disconnect, NeverPulled, Move, Tick, Over, vars, runtimeVars
  <2>2. /\ log' = log /\ belong' = belong /\ stopped' = stopped /\ asked' = asked
        /\ origin' = origin /\ operator' = operator
    BY <2>1 DEF queueVars, redisVars, turnVars
  <2>3. at' = "stop" => at = "stop"
    BY <2>1
  <2>4. StopInLog' => StopInLog
    BY <2>2 DEF StopInLog
  <2>5. Principal(origin, operator) = Principal(origin', operator')
    BY <2>2
  <2> HIDE DEF StopInv
  <2>6. /\ belong' \in {None, Principal(origin', operator')}
        /\ stopped' => operator' \in asked'
        /\ at' = "stop" => stopped'
        /\ StopInLog' => operator' \in asked'
    BY <2>2, <2>3, <2>4, <2>5 DEF StopInv
  <2> QED
    BY <2>6 DEF StopInv
<1> QED
  BY <1>2, <1>3, <1>4, <1>5 DEF Next

\* Whoever asks, through whichever endpoint, a task ends with "stop" only if
\* its own operator asked for it.
THEOREM OnlyOperatorStops == Spec => []StoppedByOperator
<1>1. Init => StopInv
  BY DEF Init, QueueInit, RuntimeInit, StopInv, StopInLog
<1>2. QueueInv /\ StopInv /\ [Next]_vars => StopInv'
  BY StopInvStep
<1>3. StopInv => StoppedByOperator
  BY DEF StopInv, StopInLog, StoppedByOperator
<1> QED
  BY <1>1, <1>2, <1>3, QueueInvariant, PTL DEF Spec

-----------------------------------------------------------------------------
(***************************************************************************)
(* Folding the merge over the events, one after the other.                 *)
(***************************************************************************)
\* Induction over the numbers, as the choice of a smallest one.
LEMMA SmallestOf ==
    ASSUME NEW T, T \subseteq Nat, T # {}
    PROVE  \E n \in T : \A m \in T : n <= m
<1>1. PICK n \in T : \A m \in T : <<m, n>> \notin OpToRel(<, Nat)
  BY NatLessThanWellFounded, WFMin
<1>2. \A m \in T : ~(m < n)
  BY <1>1 DEF OpToRel
<1> QED
  BY <1>2

\* What the fold of the merge over the first n events has at a set of their indices.
Folds(f, n, events) ==
    f = [s \in SUBSET (1..n) |->
           IF s = {} THEN <<>> ELSE merge_agent_thought(f[s \ {Max(s)}], events[Max(s)])]

LEMMA MergeAllIsFold ==
    ASSUME NEW S, NEW events \in Seq(S)
    PROVE  MergeAll(events) = (CHOOSE f : Folds(f, Len(events), events))[1..Len(events)]
<1>1. DOMAIN events = 1..Len(events)
  OBVIOUS
<1> QED
  BY <1>1 DEF MergeAll, FoldLeft, MapThenFoldSet, Folds

LEMMA LastIsMax ==
    ASSUME NEW n \in Nat, NEW s, s \subseteq 1..(n + 1), n + 1 \in s
    PROVE  Max(s) = n + 1
<1>1. \A y \in s : n + 1 >= y
  OBVIOUS
<1>2. \A x \in s : (\A y \in s : x >= y) => x = n + 1
  OBVIOUS
<1> QED
  BY <1>1, <1>2 DEF Max

LEMMA FoldAt ==
    ASSUME NEW events, NEW n \in Nat, NEW f, Folds(f, n, events), NEW k \in Nat, k < n
    PROVE  /\ f[{}] = <<>>
           /\ f[1..(k + 1)] = merge_agent_thought(f[1..k], events[k + 1])
<1> DEFINE s == 1..(k + 1)
<1>1. {} \in SUBSET (1..n) /\ s \in SUBSET (1..n)
  OBVIOUS
<1>2. k + 1 \in s /\ s \subseteq 1..(k + 1)
  OBVIOUS
<1>3. s \ {k + 1} = 1..k
  OBVIOUS
<1>4. Max(s) = k + 1
  BY <1>2, LastIsMax
<1> HIDE DEF s
<1>5. f[s] = IF s = {} THEN <<>> ELSE merge_agent_thought(f[s \ {Max(s)}], events[Max(s)])
  BY <1>1 DEF Folds
<1>6. f[s] = merge_agent_thought(f[1..k], events[k + 1])
  BY <1>2, <1>3, <1>4, <1>5
<1>7. f[{}] = <<>>
  BY <1>1 DEF Folds
<1> QED
  BY <1>6, <1>7 DEF s

LEMMA FoldExists ==
    ASSUME NEW events, NEW n \in Nat
    PROVE  \E f : Folds(f, n, events)
<1> DEFINE T == {k \in Nat : ~ \E f : Folds(f, k, events)}
<1> SUFFICES ASSUME T # {} PROVE FALSE
  OBVIOUS
<1>1. PICK k \in T : \A m \in T : k <= m
  BY SmallestOf
<1>2. k # 0
  <2> DEFINE f == [s \in SUBSET (1..0) |-> <<>>]
  <2>1. \A s \in SUBSET (1..0) : s = {}
    OBVIOUS
  <2>2. Folds(f, 0, events)
    BY <2>1 DEF Folds
  <2> QED
    BY <2>2
<1>3. PICK g : Folds(g, k - 1, events)
  <2>1. k - 1 \in Nat /\ ~(k <= k - 1)
    BY <1>2
  <2> QED
    BY <1>1, <2>1
<1> DEFINE m == k - 1
           f == [s \in SUBSET (1..k) |->
                   IF k \in s THEN merge_agent_thought(g[s \ {k}], events[k]) ELSE g[s]]
<1>4. m \in Nat /\ k = m + 1
  BY <1>2
<1>5. ASSUME NEW s \in SUBSET (1..k)
      PROVE  f[s] = IF s = {} THEN <<>> ELSE merge_agent_thought(f[s \ {Max(s)}], events[Max(s)])
  <2>1. CASE k \in s
    <3>1. Max(s) = k
      BY <1>4, <2>1, LastIsMax
    <3>2. f[s \ {k}] = g[s \ {k}]
      OBVIOUS
    <3> QED
      BY <2>1, <3>1, <3>2
  <2>2. CASE k \notin s
    <3>1. s \in SUBSET (1..m) /\ s \ {Max(s)} \in SUBSET (1..m)
      <4>1. \A i \in 1..k : i # k => i \in 1..m
        BY <1>4
      <4> QED
        BY <2>2, <4>1
    <3>2. g[s] = IF s = {} THEN <<>> ELSE merge_agent_thought(g[s \ {Max(s)}], events[Max(s)])
      BY <1>3, <3>1 DEF Folds
    <3>3. f[s] = g[s] /\ f[s \ {Max(s)}] = g[s \ {Max(s)}]
      BY <2>2, <3>1
    <3> QED
      BY <3>2, <3>3
  <2> QED
    BY <2>1, <2>2
<1>6. Folds(f, k, events)
  BY <1>5, Zenon DEF Folds
<1> QED
  BY <1>6

LEMMA FoldIsUnique ==
    ASSUME NEW S, NEW events \in Seq(S), NEW more \in Seq(S), NEW f, NEW g,
           Folds(f, Len(events), events), Folds(g, Len(more), more),
           Len(events) <= Len(more),
           \A i \in 1..Len(events) : more[i] = events[i]
    PROVE  f[1..Len(events)] = g[1..Len(events)]
<1> DEFINE n == Len(events)
           T == {k \in 0..n : f[1..k] # g[1..k]}
<1> SUFFICES ASSUME T # {} PROVE FALSE
  OBVIOUS
<1>1. PICK k \in T : \A m \in T : k <= m
  <2>1. T \subseteq Nat
    OBVIOUS
  <2> HIDE DEF T
  <2> QED
    BY <2>1, SmallestOf
<1>2. k # 0
  <2>1. 1..0 = {} /\ f[{}] = <<>> /\ g[{}] = <<>>
    <3>1. {} \in SUBSET (1..Len(events)) /\ {} \in SUBSET (1..Len(more)) /\ 1..0 = {}
      OBVIOUS
    <3> QED
      BY <3>1 DEF Folds
  <2> QED
    BY <2>1
<1> DEFINE m == k - 1
<1>3. m \in Nat /\ k = m + 1 /\ m < Len(events) /\ m < Len(more) /\ m \notin T /\ m \in 0..n
  BY <1>1, <1>2
<1>4. f[1..m] = g[1..m] /\ events[m + 1] = more[m + 1]
  BY <1>3
<1> HIDE DEF T, n, m
<1>5. f[1..(m + 1)] = merge_agent_thought(f[1..m], events[m + 1])
  BY <1>3, FoldAt, Len(events) \in Nat
<1>6. g[1..(m + 1)] = merge_agent_thought(g[1..m], more[m + 1])
  BY <1>3, FoldAt, Len(more) \in Nat
<1> QED
  BY <1>3, <1>4, <1>5, <1>6 DEF T

\* The merge of all events so far is kept by merging each as it comes.
LEMMA MergeAllOfNone == MergeAll(<<>>) = <<>>
<1>1. PICK f : Folds(f, 0, <<>>)
  BY FoldExists
<1>2. Folds(CHOOSE g : Folds(g, 0, <<>>), 0, <<>>)
  BY <1>1
<1>3. 1..0 = {} /\ Len(<<>>) = 0 /\ <<>> \in Seq({})
  OBVIOUS
<1> HIDE DEF Folds
<1>4. MergeAll(<<>>) = (CHOOSE g : Folds(g, 0, <<>>))[{}]
  BY <1>3, MergeAllIsFold
<1>5. ASSUME NEW g, Folds(g, 0, <<>>)
      PROVE  g[{}] = <<>>
  BY <1>5 DEF Folds
<1> QED
  BY <1>2, <1>4, <1>5

LEMMA MergeAllOfMore ==
    ASSUME NEW S, NEW events \in Seq(S), NEW e \in S
    PROVE  MergeAll(Append(events, e)) = merge_agent_thought(MergeAll(events), e)
<1> DEFINE n == Len(events)
           more == Append(events, e)
           f == CHOOSE h : Folds(h, n, events)
           g == CHOOSE h : Folds(h, n + 1, more)
<1>1. n \in Nat /\ more \in Seq(S) /\ Len(more) = n + 1
      /\ (\A i \in 1..n : more[i] = events[i]) /\ more[n + 1] = e
  OBVIOUS
<1>2. Folds(f, n, events) /\ Folds(g, n + 1, more)
  <2>1. \E h : Folds(h, n, events)
    BY <1>1, FoldExists
  <2>2. \E h : Folds(h, n + 1, more)
    BY <1>1, FoldExists
  <2> HIDE DEF more
  <2> QED
    BY <2>1, <2>2, Zenon
<1>3. MergeAll(events) = f[1..n] /\ MergeAll(more) = g[1..(n + 1)]
  BY <1>1, MergeAllIsFold
<1> HIDE DEF f, g, more
<1>4. f[1..n] = g[1..n]
  BY <1>1, <1>2, FoldIsUnique
<1>6. g[1..(n + 1)] = merge_agent_thought(g[1..n], e)
  BY <1>1, <1>2, FoldAt
<1> QED
  BY <1>3, <1>4, <1>6 DEF more

-----------------------------------------------------------------------------
(***************************************************************************)
(* What the listener has heard.                                            *)
(***************************************************************************)
\* The log is only ever appended to.
LogGrows ==
    /\ Len(log) <= Len(log')
    /\ \A i \in 1..Len(log) : log'[i] = log[i]

\* What was heard are the first n items of the log.
Copied(n) ==
    /\ Len(heard) = n
    /\ n <= Len(log)
    /\ \A i \in 1..n : heard[i] = log[i]

\* No event heard so far ends the turn; exactly the last one does.
HeardOn == \A i \in 1..Len(heard) : ~IsTerminal(heard[i])

HeardToEnd ==
    /\ heard # <<>>
    /\ IsTerminal(heard[Len(heard)])
    /\ \A i \in 1..(Len(heard) - 1) : ~IsTerminal(heard[i])

\* Nothing is lost between the log and the listener, and it never takes more than
\* the event that ends the task: the sentinel stays where it is.
Reading ==
    {"idle", "open", "get", "yielded", "check", "decide", "timeout", "stop", "ping", "failed"}

ListenerInv ==
    /\ at \in Reading => HeardOn /\ Copied(taken)
    /\ at \in {"idle", "open"} => heard = <<>>
    /\ at = "item" =>
          /\ HeardOn
          /\ \/ taken > 0 /\ Copied(taken - 1) /\ item = log[taken]
             \/ Copied(taken) /\ item = Terminal("error")
    /\ at = "finish" => HeardToEnd /\ driver # "client"
    /\ at # "done" => saves = <<>>
    /\ at = "done" /\ saves = <<>> => driver = "invoke" \/ heard = <<>>
    /\ saves # <<>> => saves = <<thoughts>> /\ HeardToEnd /\ at = "done"

\* An event that was not made up by the consumer is in the log, and all before it.
HeardFromLog ==
    heard # <<>> /\ heard[Len(heard)].event # "error" => Copied(Len(heard))

MergedInv == thoughts = MergeAll(heard)

FramesInv ==
    /\ Len(frames) <= Len(heard)
    /\ \A i \in 1..Len(frames) : frames[i] = heard[i]
    /\ driver = "client" => frames = heard
    /\ \A i \in 1..Len(frames) : IsTerminal(frames[i]) => driver = "client" /\ at = "done"

HeardInv == ListenerInv /\ HeardFromLog /\ MergedInv /\ FramesInv

\* Each step leaves the log as it is or adds to it.
LEMMA LogOnlyGrows ==
    ASSUME QueueInv, [Next]_vars
    PROVE  LogGrows
<1>0. log \in Seq(AgentThought \union {Sentinel})
  BY DEF QueueInv, Typed, TypeOK, QueueTypeOK
<1>1. ASSUME NEW t \in AgentThought, publish(t)
      PROVE  LogGrows
  <2>1. log' = log \/ log' = log \o <<t, Sentinel>> \/ log' = Append(log, t)
    BY <1>1 DEF publish
  <2> QED
    BY <1>0, <2>1 DEF LogGrows
<1>2. CASE UNCHANGED queueVars \/ get
  BY <1>0, <1>2 DEF queueVars, get, LogGrows
<1>3. CASE stop_listen
  BY <1>0, <1>3 DEF stop_listen, LogGrows
<1> QED
  BY <1>1, <1>2, <1>3, QueueStep DEF QueueInv

\* What was copied stays copied.
LEMMA CopiesStay ==
    ASSUME LogGrows, NEW n, Copied(n), log \in Seq(AgentThought \union {Sentinel}),
           log' \in Seq(AgentThought \union {Sentinel}), heard' = heard,
           heard \in Seq(AgentThought)
    PROVE  Copied(n)'
BY DEF LogGrows, Copied

\* A task whose listener is still reading has not had its sentinel taken.
LEMMA NoSentinelTaken ==
    ASSUME QueueInv, HeardInv, at = "get", taken < Len(log)
    PROVE  log[taken + 1] \in AgentThought
<1>0. /\ log \in Seq(AgentThought \union {Sentinel}) /\ taken \in 0..Len(log)
      /\ EndsOnce
  BY DEF QueueInv, Typed, TypeOK, QueueTypeOK
<1>1. HeardOn /\ Copied(taken)
  BY DEF HeardInv, ListenerInv, Reading
<1> SUFFICES ASSUME log[taken + 1] = Sentinel
             PROVE  FALSE
  BY <1>0
<1>2. closed /\ taken + 1 = Len(log)
  <2>1. ~IsTerminal(Sentinel)
    BY DEF IsTerminal, Sentinel, TERMINAL_EVENTS
  <2> HIDE DEF IsTerminal, Sentinel
  <2> QED
    BY <1>0, <2>1 DEF EndsOnce, Ongoing
<1>3. taken >= 1 /\ IsTerminal(log[taken])
  BY <1>0, <1>2 DEF EndsOnce
<1> QED
  BY <1>0, <1>1, <1>3 DEF HeardOn, Copied

\* The listener's steps, each from the place it begins at.
LEMMA HeardStays ==
    ASSUME QueueInv, HeardInv, LogGrows,
           UNCHANGED <<heard, thoughts, frames, saves>>, at # "item", at # "finish",
           at' \in Reading => at \in Reading /\ taken' = taken,
           at' \in {"idle", "open"} => at \in {"idle", "open"},
           at' \notin {"item", "finish"},
           at = "done" => at' = "done",
           at' = "done" => driver' = "invoke" \/ heard = <<>> \/ at = "done",
           driver' = driver \/ (driver' = "drain" /\ at = "yielded"),
           log' \in Seq(AgentThought \union {Sentinel})
    PROVE  HeardInv'
<1>0. /\ log \in Seq(AgentThought \union {Sentinel})
      /\ heard \in Seq(AgentThought)
      /\ frames \in Seq(AgentThought)
  BY DEF QueueInv, Typed, TypeOK, QueueTypeOK, RuntimeTypeOK
<1> USE DEF HeardInv
<1>1. \A n : Copied(n) => Copied(n)'
  BY <1>0, CopiesStay
<1>2. HeardFromLog'
  BY <1>1 DEF HeardFromLog
<1>3. MergedInv'
  BY DEF MergedInv
<1>4. FramesInv'
  BY DEF FramesInv
<1>5. ListenerInv'
  BY <1>1 DEF ListenerInv, HeardOn, HeardToEnd, Reading
<1> QED
  BY <1>2, <1>3, <1>4, <1>5

LEMMA NobodyListens ==
    ASSUME QueueInv, HeardInv, LogGrows, UNCHANGED <<driver, at, item, resultVars, taken>>,
           log' \in Seq(AgentThought \union {Sentinel})
    PROVE  HeardInv'
<1>0. /\ log \in Seq(AgentThought \union {Sentinel}) /\ taken \in 0..Len(log)
      /\ heard \in Seq(AgentThought)
  BY DEF QueueInv, Typed, TypeOK, QueueTypeOK, RuntimeTypeOK
<1> USE DEF HeardInv, resultVars
<1>1. \A n : Copied(n) => Copied(n)'
  BY <1>0, CopiesStay
<1>2. HeardFromLog' /\ MergedInv' /\ FramesInv'
  BY <1>1 DEF HeardFromLog, MergedInv, FramesInv
<1>3. taken > 0 => log'[taken] = log[taken]
  BY <1>0 DEF LogGrows
<1>4. ListenerInv'
  BY <1>1, <1>3 DEF ListenerInv, HeardOn, HeardToEnd, Reading
<1> QED
  BY <1>2, <1>4

\* The item at hand is heard, and merged into the thoughts.
LEMMA HearsItem ==
    ASSUME QueueInv, HeardInv, Merge
    PROVE  /\ heard' \in Seq(AgentThought)
           /\ Len(heard') = Len(heard) + 1
           /\ heard'[Len(heard) + 1] = item
           /\ \A i \in 1..Len(heard) : heard'[i] = heard[i]
           /\ IF IsTerminal(item) THEN HeardToEnd' ELSE HeardOn' /\ Copied(taken)'
           /\ HeardFromLog'
           /\ MergedInv'
<1>0. /\ log \in Seq(AgentThought \union {Sentinel}) /\ taken \in 0..Len(log)
      /\ heard \in Seq(AgentThought) /\ item \in AgentThought
      /\ at = "item" /\ ListenerInv /\ MergedInv
      /\ heard' = Append(heard, item) /\ log' = log /\ taken' = taken
      /\ thoughts' = merge_agent_thought(thoughts, item)
  BY DEF QueueInv, Typed, TypeOK, QueueTypeOK, RuntimeTypeOK, ItemAtHand, HeardInv, Merge, queueVars
<1>1. /\ heard' \in Seq(AgentThought) /\ Len(heard') = Len(heard) + 1
      /\ heard'[Len(heard) + 1] = item /\ heard' # <<>>
      /\ \A i \in 1..Len(heard) : heard'[i] = heard[i]
  BY <1>0
<1>2. HeardOn
  BY <1>0 DEF ListenerInv
<1>3. IsTerminal(item) => HeardToEnd'
  BY <1>1, <1>2 DEF HeardToEnd, HeardOn
<1>4. ~IsTerminal(item) => HeardOn'
  BY <1>1, <1>2 DEF HeardOn
<1>5. IsTerminal(Terminal("error")) /\ Terminal("error").event = "error"
  BY ThoughtsAreTyped DEF TERMINAL_EVENTS
<1>6. item # Terminal("error") => Copied(taken)' /\ Len(heard') = taken
  <2> SUFFICES ASSUME item # Terminal("error")
               PROVE  Copied(taken)' /\ Len(heard') = taken
    OBVIOUS
  <2>1. taken > 0 /\ Copied(taken - 1) /\ item = log[taken]
    BY <1>0 DEF ListenerInv
  <2> QED
    BY <1>0, <1>1, <2>1 DEF Copied
<1>7. ~IsTerminal(item) => Copied(taken)'
  BY <1>5, <1>6
<1>8. HeardFromLog'
  <2>1. heard'[Len(heard')] = item
    BY <1>1
  <2>2. item.event # "error" => Copied(Len(heard))'
    BY <1>0, <1>5, <1>6 DEF Copied
  <2> QED
    BY <2>1, <2>2 DEF HeardFromLog
<1>9. MergedInv'
  BY <1>0, MergeAllOfMore DEF MergedInv
<1> QED
  BY <1>1, <1>3, <1>4, <1>7, <1>8, <1>9

LEMMA HeardInvStep ==
    ASSUME QueueInv, HeardInv, [Next]_vars
    PROVE  HeardInv'
<1>0. /\ log \in Seq(AgentThought \union {Sentinel}) /\ taken \in 0..Len(log)
      /\ log' \in Seq(AgentThought \union {Sentinel})
      /\ heard \in Seq(AgentThought) /\ frames \in Seq(AgentThought)
      /\ at = "item" => item \in AgentThought
      /\ at \in Places
      /\ LogGrows
  BY LogOnlyGrows, QueueInvStep DEF QueueInv, Typed, TypeOK, QueueTypeOK, RuntimeTypeOK, ItemAtHand
<1>1. CASE Agent \/ RequestStop \/ Tick \/ Over \/ UNCHANGED vars
  <2>1. UNCHANGED <<driver, at, item, resultVars, taken>>
    <3>1. CASE Agent
      <4>1. taken' = taken
        BY <3>1, AgentStep DEF Agent, AgentPublishes, publish, stop_listen, queueVars, QueueInv,
           Typed, TypeOK
      <4> QED
        BY <3>1, <4>1 DEF Agent, runtimeVars
    <3>2. CASE RequestStop \/ Tick \/ Over \/ UNCHANGED vars
      BY <3>2 DEF RequestStop, Tick, Over, vars, runtimeVars, queueVars
    <3> QED
      BY <1>1, <3>1, <3>2
  <2> QED
    BY <1>0, <2>1, NobodyListens
<1>2. CASE OpenQueue \/ StartThread \/ Fails \/ GetTimesOut \/ CheckClosed \/ Decide
           \/ ListenerPublishes \/ InvokeFails \/ Pull \/ Disconnect \/ NeverPulled
  <2>1. /\ UNCHANGED <<heard, thoughts, frames, saves>> /\ taken' = taken
        /\ at \in Reading
        /\ at' \notin {"item", "finish"}
        /\ at' \in {"idle", "open"} => at \in {"idle", "open"}
        /\ at' = "done" => driver' = "invoke" \/ at = "idle"
        /\ driver' = driver \/ (driver' = "drain" /\ at = "yielded")
    <3> USE DEF Move, resultVars, queueVars, Reading
    <3>1. CASE OpenQueue \/ StartThread \/ Fails
      BY <3>1 DEF OpenQueue, StartThread, Fails, queue
    <3>2. CASE GetTimesOut \/ CheckClosed \/ Decide
      BY <3>2 DEF GetTimesOut, CheckClosed, Decide
    <3>3. CASE ListenerPublishes
      BY <3>3 DEF ListenerPublishes, publish
    <3>4. CASE InvokeFails \/ Pull \/ Disconnect \/ NeverPulled
      BY <3>4 DEF InvokeFails, Pull, Disconnect, NeverPulled
    <3> QED
      BY <1>2, <3>1, <3>2, <3>3, <3>4
  <2>2. at' = "done" => driver' = "invoke" \/ heard = <<>>
    BY <2>1 DEF HeardInv, ListenerInv
  <2>3. at # "item" /\ at # "finish" /\ at # "done"
    BY <2>1 DEF Reading
  <2> QED
    BY <1>0, <2>1, <2>2, <2>3, HeardStays
<1>3. CASE GetItem
  <2>1. /\ at = "get" /\ taken < Len(log) /\ taken' = taken + 1 /\ log' = log
        /\ item' = log[taken + 1]
        /\ at' = IF item' # Sentinel THEN "item"
                 ELSE IF driver = "invoke" THEN "finish" ELSE "failed"
        /\ UNCHANGED <<driver, heard, thoughts, frames, saves>>
    BY <1>3 DEF GetItem, get, resultVars
  <2>2. item' \in AgentThought /\ at' = "item"
    BY <2>1, NoSentinelTaken, ThoughtsAreTyped
  <2>3. HeardOn /\ Copied(taken) /\ saves = <<>>
    BY <2>1 DEF HeardInv, ListenerInv, Reading
  <2>4. taken' > 0 /\ taken' - 1 = taken /\ item' = log'[taken']
    BY <1>0, <2>1
  <2>5. /\ HeardOn' /\ Len(heard') = taken /\ taken <= Len(log')
        /\ \A i \in 1..taken : heard'[i] = log'[i]
    BY <1>0, <2>1, <2>3 DEF HeardOn, Copied
  <2>6. ListenerInv'
    BY <2>1, <2>2, <2>3, <2>4, <2>5 DEF ListenerInv, Reading, Copied
  <2>7. HeardFromLog' /\ MergedInv' /\ FramesInv'
    BY <2>1, <2>2 DEF HeardInv, HeardFromLog, Copied, MergedInv, FramesInv
  <2> QED
    BY <2>6, <2>7 DEF HeardInv
<1>4. CASE CatchFailure
  <2>1. /\ at = "failed" /\ at' = "item" /\ item' = Terminal("error")
        /\ UNCHANGED <<log, taken, driver, heard, thoughts, frames, saves>>
    BY <1>4 DEF CatchFailure, Move, resultVars, queueVars
  <2>2. ListenerInv'
    BY <2>1 DEF HeardInv, ListenerInv, Reading, HeardOn, Copied
  <2>3. HeardFromLog' /\ MergedInv' /\ FramesInv'
    BY <2>1 DEF HeardInv, HeardFromLog, Copied, MergedInv, FramesInv
  <2> QED
    BY <2>2, <2>3 DEF HeardInv
<1>5. CASE SendFrame \/ FrameFails \/ MergeQuietly
  <2>0. Merge /\ at = "item" /\ saves = <<>>
    BY <1>5 DEF SendFrame, FrameFails, MergeQuietly, Merge, HeardInv, ListenerInv
  <2>1. /\ heard' \in Seq(AgentThought)
        /\ Len(heard') = Len(heard) + 1
        /\ heard'[Len(heard) + 1] = item
        /\ \A i \in 1..Len(heard) : heard'[i] = heard[i]
        /\ IF IsTerminal(item) THEN HeardToEnd' ELSE HeardOn' /\ Copied(taken)'
        /\ HeardFromLog' /\ MergedInv'
    BY <2>0, HearsItem
  <2>2. taken' = taken /\ heard' = Append(heard, item)
    BY <2>0 DEF Merge, queueVars
  <2>3. FramesInv /\ \A i \in 1..Len(frames) : ~IsTerminal(frames[i])
    BY <2>0 DEF HeardInv, FramesInv
  <2>4. CASE SendFrame
    <3>1. /\ driver = "client" /\ driver' = driver
          /\ frames' = Append(frames, item)
          /\ IF IsTerminal(item) THEN saves' = <<thoughts'>> /\ at' = "done"
                                 ELSE at' = "yielded" /\ saves' = <<>>
      BY <2>0, <2>4 DEF SendFrame, save
    <3>2. frames' = heard' /\ frames = heard
      BY <2>2, <2>3, <3>1 DEF FramesInv
    <3>3. FramesInv'
      <4>1. \A i \in 1..Len(heard) : ~IsTerminal(heard'[i])
        BY <2>1, <2>3, <3>2
      <4>2. at' # "done" => ~IsTerminal(heard'[Len(heard) + 1])
        BY <2>1, <3>1
      <4> QED
        BY <2>1, <3>1, <3>2, <4>1, <4>2 DEF FramesInv
    <3>4. saves' # <<>> => IsTerminal(item)
      BY <3>1
    <3>5. ListenerInv'
      <4>1. CASE IsTerminal(item)
        <5>1. saves' = <<thoughts'>> /\ at' = "done" /\ HeardToEnd'
          BY <2>1, <3>1, <4>1
        <5>2. saves' # <<>>
          BY <5>1
        <5> QED
          BY <5>1, <5>2 DEF ListenerInv, Reading
      <4>2. CASE ~IsTerminal(item)
        <5>1. saves' = <<>> /\ at' = "yielded" /\ HeardOn' /\ Copied(taken)'
          BY <2>1, <3>1, <4>2
        <5> QED
          BY <5>1 DEF ListenerInv
      <4> QED
        BY <4>1, <4>2
    <3> QED
      BY <2>1, <3>3, <3>5 DEF HeardInv
  <2>5. CASE FrameFails \/ MergeQuietly
    <3>1. /\ driver' # "client" /\ frames' = frames /\ saves' = <<>>
          /\ at' = IF IsTerminal(item) THEN "finish" ELSE "check"
      BY <2>0, <2>5 DEF FrameFails, MergeQuietly
    <3>2. FramesInv'
      BY <1>0, <2>1, <2>3, <3>1 DEF FramesInv
    <3>3. ListenerInv'
      BY <2>1, <2>2, <3>1 DEF ListenerInv, Reading, Copied
    <3> QED
      BY <2>1, <3>2, <3>3 DEF HeardInv
  <2> QED
    BY <1>5, <2>4, <2>5
<1>6. CASE Finish
  <2>1. /\ at = "finish" /\ at' = "done" /\ thoughts' = thoughts /\ saves' = Append(saves, thoughts)
        /\ UNCHANGED <<log, taken, driver, heard, frames>>
    BY <1>6 DEF Finish, Move, save, queueVars
  <2>2. saves' = <<thoughts>> /\ HeardToEnd /\ driver # "client"
    BY <2>1 DEF HeardInv, ListenerInv
  <2>3. ListenerInv'
    BY <2>1, <2>2 DEF ListenerInv, Reading, HeardToEnd
  <2>4. HeardFromLog' /\ MergedInv' /\ FramesInv'
    BY <2>1 DEF HeardInv, HeardFromLog, Copied, MergedInv, FramesInv
  <2> QED
    BY <2>3, <2>4 DEF HeardInv
<1> QED
  BY <1>1, <1>2, <1>3, <1>4, <1>5, <1>6 DEF Next, Consumer, Consume, Client

LEMMA HeardInvInit ==
    ASSUME Init
    PROVE  HeardInv
<1>1. /\ log = <<>> /\ taken = 0 /\ at = "idle" /\ heard = <<>> /\ thoughts = <<>>
      /\ frames = <<>> /\ saves = <<>>
  BY DEF Init, QueueInit, RuntimeInit
<1>2. Len(heard) = 0 /\ Len(frames) = 0 /\ Len(log) = 0
  BY <1>1
<1> QED
  BY <1>1, <1>2, MergeAllOfNone DEF HeardInv, ListenerInv, HeardFromLog, MergedInv, FramesInv, HeardOn,
     Copied, Reading

LEMMA HeardInvariant == Spec => []HeardInv
<1>1. Init => HeardInv
  BY HeardInvInit
<1>2. QueueInv /\ HeardInv /\ [Next]_vars => HeardInv'
  BY HeardInvStep
<1> QED
  BY <1>1, <1>2, QueueInvariant, PTL DEF Spec

\* The client is sent what the runtime hears, in order and without a gap, for
\* as long as it is there, and a terminal frame only as the last one and after
\* the turn was saved.
THEOREM FramesAreHeard == Spec => []FramesContract
<1>1. QueueInv /\ HeardInv => FramesContract
  <2> SUFFICES ASSUME QueueInv, HeardInv
               PROVE  FramesContract
    OBVIOUS
  <2>0. heard \in Seq(AgentThought) /\ frames \in Seq(AgentThought)
    BY DEF QueueInv, Typed, TypeOK, RuntimeTypeOK
  <2>1. /\ Len(frames) <= Len(heard)
        /\ \A i \in 1..Len(frames) : frames[i] = heard[i]
        /\ driver = "client" => frames = heard
    BY DEF HeardInv, FramesInv
  <2>2. SubSeq(frames, 1, Len(frames)) = SubSeq(heard, 1, Len(frames))
    BY <2>0, <2>1
  <2>3. ASSUME NEW i \in DOMAIN frames, IsTerminal(frames[i])
        PROVE  i = Len(frames) /\ saves # <<>>
    <3>1. frames = heard /\ at = "done" /\ driver = "client" /\ i \in 1..Len(heard)
      BY <2>0, <2>1, <2>3 DEF HeardInv, FramesInv
    <3>2. saves # <<>>
      BY <2>0, <3>1 DEF HeardInv, ListenerInv
    <3>3. HeardToEnd
      BY <3>2 DEF HeardInv, ListenerInv
    <3> QED
      BY <2>0, <2>3, <3>1, <3>2, <3>3 DEF HeardToEnd
  <2> QED
    BY <2>1, <2>2, <2>3 DEF FramesContract, IsPrefix
<1> QED
  BY <1>1, QueueInvariant, HeardInvariant, PTL

\* A turn is saved at most once, whole, whoever pulled its events and wherever
\* the client left; only a response that was never pulled or a blocking reply
\* whose request failed ends unsaved.
THEOREM SavedOnceAndWhole == Spec => []SavedOnceWhole
<1>1. QueueInv /\ HeardInv => SavedOnceWhole
  <2> SUFFICES ASSUME QueueInv, HeardInv
               PROVE  SavedOnceWhole
    OBVIOUS
  <2>0. heard \in Seq(AgentThought) /\ ListenerInv /\ MergedInv
    BY DEF QueueInv, Typed, TypeOK, RuntimeTypeOK, HeardInv
  <2>1. ASSUME NEW i \in DOMAIN saves
        PROVE  /\ i = 1
               /\ saves[i] = MergeAll(heard)
               /\ {j \in DOMAIN heard : IsTerminal(heard[j])} = {Len(heard)}
    <3>1. saves = <<thoughts>> /\ HeardToEnd
      <4>1. saves # <<>>
        BY <2>1
      <4> QED
        BY <2>0, <4>1 DEF ListenerInv
    <3>2. \A j \in 1..Len(heard) : IsTerminal(heard[j]) <=> j = Len(heard)
      BY <2>0, <3>1 DEF HeardToEnd
    <3>3. DOMAIN heard = 1..Len(heard) /\ Len(heard) \in DOMAIN heard
      BY <2>0, <3>1 DEF HeardToEnd
    <3>4. {j \in DOMAIN heard : IsTerminal(heard[j])} = {Len(heard)}
      BY <3>2, <3>3
    <3>5. i = 1 /\ saves[i] = thoughts
      BY <2>1, <3>1
    <3> QED
      BY <2>0, <3>4, <3>5 DEF MergedInv
  <2> QED
    BY <2>0, <2>1 DEF SavedOnceWhole, ListenerInv
<1> QED
  BY <1>1, QueueInvariant, HeardInvariant, PTL

-----------------------------------------------------------------------------
(***************************************************************************)
(* What a turn is billed.                                                  *)
(***************************************************************************)
\* What the id of a thought says of it once k model calls were begun: an end is named
\* for itself, and what a call has said, and only that, is billed as a call.
Shaped(t, k) ==
    /\ t.id[1] \in TERMINAL_EVENTS => t.event = t.id[1]
    /\ t.event \in TERMINAL_EVENTS => t.id = <<t.event, 0>>
    /\ t.id[1] = "call" =>
          /\ t.id[2] \in 1..k
          /\ t.event \in {"agent_message", "agent_thought"}
          /\ t.usage # "not_called"
    /\ t.id[1] # "call" /\ t.event \in {"agent_message", "agent_thought"} => t.usage = "not_called"

\* The first k calls have said something.
Spoke(k) == \A n \in 1..k : \E i \in 1..Len(log) : log[i].id = <<"call", n>>

CutShort == \E i \in 1..Len(log) : log[i].event \in {"stop", "timeout", "error"}

AgentEnds == \E i \in 1..Len(log) : log[i].event = "agent_end"

\* Unless the task was cut short, every call that was begun is in the log by the time
\* the agent goes on; the agent's own end is only there behind all of them.
CallsInv ==
    /\ \A i \in 1..Len(log) : log[i] # Sentinel => Shaped(log[i], calls)
    /\ node \notin {"stream", "llmError", "raised", "finally", "exited"} => CutShort \/ Spoke(calls)
    /\ AgentEnds => Spoke(calls) /\ node \in {"finally", "exited"}
    /\ node \in {"stream", "llmError"} => calls > 0 /\ (CutShort \/ Spoke(calls - 1))

\* Every event but a ping is an entry of the thoughts, and every entry is one.
ThoughtsInv ==
    /\ \A i \in 1..Len(heard) : heard[i].event # "ping" =>
          \E j \in 1..Len(thoughts) : thoughts[j].id = heard[i].id
    /\ \A i \in 1..Len(heard) : Shaped(heard[i], calls)
    /\ \A j \in 1..Len(thoughts) : Shaped(thoughts[j], calls)

LEMMA ThoughtsAreShaped ==
    ASSUME NEW k \in Nat
    PROVE  /\ \A e \in TERMINAL_EVENTS : Shaped(Terminal(e), k)
           /\ Shaped(Text("preset", 0, "not_called"), k)
           /\ Shaped(Text("limit", 0, "not_called"), k)
           /\ Shaped(Note("memory", 0, "long_term_memory_recall"), k)
           /\ \A n \in Nat : /\ Shaped(Note("ping", n, "ping"), k)
                             /\ Shaped(Note("tool", n, "agent_action"), k)
                             /\ Shaped(Note("tool", n, "dataset_retrieval"), k)
           /\ \A n \in 1..k : /\ Shaped(Text("call", n, "none"), k)
                              /\ \A e \in {"agent_message", "agent_thought"}, u \in {"complete", "partial"} :
                                    Shaped(Settlement(n, e, u), k)
BY DEF Shaped, Terminal, Note, Text, Settlement, TERMINAL_EVENTS

LEMMA ShapesStay ==
    ASSUME NEW k \in Nat, NEW n \in Nat, k <= n, NEW t \in AgentThought, Shaped(t, k)
    PROVE  Shaped(t, n)
BY DEF Shaped, AgentThought, Ids

\* A list of thoughts that goes on as another one, in which the event has its entry.
TakesIn(ths, t, new, k) ==
    /\ \A j \in 1..Len(new) : Shaped(new[j], k)
    /\ Len(ths) <= Len(new)
    /\ \A j \in 1..Len(ths) : new[j].id = ths[j].id
    /\ t.event # "ping" => \E j \in 1..Len(new) : new[j].id = t.id

LEMMA MergeKeepsShapes ==
    ASSUME NEW k \in Nat, NEW ths \in Seq(AgentThought), NEW t \in AgentThought, Shaped(t, k),
           \A j \in 1..Len(ths) : Shaped(ths[j], k)
    PROVE  TakesIn(ths, t, merge_agent_thought(ths, t), k)
<1> DEFINE new == merge_agent_thought(ths, t)
<1> USE DEF TakesIn
<1>1. CASE t.event = "ping"
  BY <1>1 DEF merge_agent_thought
<1>2. CASE t.event # "ping" /\ \A i \in DOMAIN ths : ths[i].id # t.id
  <2>1. new = Append(ths, t)
    BY <1>2 DEF merge_agent_thought
  <2>2. /\ Len(new) = Len(ths) + 1 /\ new[Len(ths) + 1] = t
        /\ \A j \in 1..Len(ths) : new[j] = ths[j]
    BY <2>1
  <2> HIDE DEF new
  <2> QED
    BY <2>2 DEF new
<1>3. CASE t.event # "ping" /\ ~ \A i \in DOMAIN ths : ths[i].id # t.id
  <2> DEFINE f(i) == IF ths[i].id # t.id THEN ths[i]
                     ELSE IF t.event # "agent_message" THEN t ELSE Joined(ths[i], t)
  <2>1. new = [i \in 1..Len(ths) |-> f(i)]
    BY <1>3, DOMAIN ths = 1..Len(ths) DEF merge_agent_thought
  <2>2. ASSUME NEW p \in AgentThought, Shaped(p, k), p.id = t.id, t.event = "agent_message"
        PROVE  Joined(p, t).id = p.id /\ Shaped(Joined(p, t), k)
    <3> DEFINE u == IF t.usage = "none" THEN p.usage ELSE t.usage
               q == Joined(p, t)
    <3>1. q.id = p.id /\ q.event = p.event /\ q.usage = u
      BY DEF Joined, AgentThought
    <3> HIDE DEF q
    <3>2. Shaped(q, k)
      BY <2>2, <3>1 DEF Shaped, TERMINAL_EVENTS
    <3> QED
      BY <3>1, <3>2 DEF q
  <2>3. \A i \in 1..Len(ths) : f(i).id = ths[i].id /\ Shaped(f(i), k)
    <3> TAKE i \in 1..Len(ths)
    <3>1. ths[i] \in AgentThought /\ Shaped(ths[i], k)
      OBVIOUS
    <3> QED
      BY <2>2, <3>1
  <2>4. Len(new) = Len(ths) /\ \A i \in 1..Len(ths) : new[i] = f(i)
    BY <2>1
  <2>5. \E i \in 1..Len(ths) : ths[i].id = t.id
    BY <1>3
  <2> HIDE DEF f, new
  <2> QED
    BY <2>3, <2>4, <2>5 DEF new
<1> QED
  BY <1>1, <1>2, <1>3

-----------------------------------------------------------------------------
\* What a step publishes: nothing of the shape of a call that was not begun, and the
\* agent's own end only from the end of its graph.
Publishes(t) ==
    /\ t \in AgentThought
    /\ Shaped(t, calls)
    /\ t.event = "agent_end" => node = "end" /\ node' = "finally"
    /\ publish(t)

\* A task that is closed while the agent is at work was cut short.
LEMMA ClosedEarly ==
    ASSUME QueueInv, CallsInv, closed, node \notin {"finally", "exited"}
    PROVE  CutShort
<1>1. log \in Seq(AgentThought \union {Sentinel}) /\ EndsOnce
  BY DEF QueueInv, Typed, TypeOK, QueueTypeOK
<1>2. Len(log) - 1 \in 1..Len(log) /\ IsTerminal(log[Len(log) - 1])
  BY <1>1 DEF EndsOnce
<1>3. ~AgentEnds
  BY DEF CallsInv
<1> QED
  BY <1>2, <1>3 DEF CutShort, AgentEnds, IsTerminal, TERMINAL_EVENTS

\* What publishing does to what the log says.
LEMMA PublishKeepsCalls ==
    ASSUME QueueInv, CallsInv, NEW t, Publishes(t)
    PROVE  /\ CutShort => CutShort'
           /\ \A k : Spoke(k) => Spoke(k)'
           /\ \A i \in 1..Len(log') : log'[i] # Sentinel => Shaped(log'[i], calls)
           /\ AgentEnds' => AgentEnds \/ (t.event = "agent_end" /\ ~closed)
           /\ ~closed => \E i \in 1..Len(log') : log'[i] = t
<1>0. log \in Seq(AgentThought \union {Sentinel}) /\ log' \in Seq(AgentThought \union {Sentinel})
  BY PublishKeepsQueue DEF QueueInv, Typed, TypeOK, QueueTypeOK, Publishes
<1>1. CASE closed
  BY <1>1 DEF Publishes, publish, CallsInv, CutShort, Spoke, AgentEnds
<1>2. CASE ~closed
  <2>1. log' = log \o <<t, Sentinel>> \/ log' = Append(log, t)
    BY <1>2 DEF Publishes, publish
  <2>2. /\ \A i \in 1..Len(log) : i \in 1..Len(log') /\ log'[i] = log[i]
        /\ \A i \in 1..Len(log') : \/ i \in 1..Len(log) /\ log'[i] = log[i]
                                   \/ log'[i] = t
                                   \/ log'[i] = Sentinel
        /\ \E i \in 1..Len(log') : log'[i] = t
    BY <1>0, <2>1
  <2>3. Sentinel.event # "agent_end"
    BY DEF Sentinel
  <2>4. (CutShort => CutShort') /\ \A k : Spoke(k) => Spoke(k)'
    BY <2>2 DEF CutShort, Spoke
  <2>5. \A i \in 1..Len(log') : log'[i] # Sentinel => Shaped(log'[i], calls)
    BY <2>2 DEF CallsInv, Publishes
  <2>6. AgentEnds' => AgentEnds \/ (t.event = "agent_end" /\ ~closed)
    BY <1>2, <2>2, <2>3 DEF AgentEnds
  <2> QED
    BY <2>2, <2>4, <2>5, <2>6
<1> QED
  BY <1>1, <1>2

LEMMA AfterPublishing ==
    ASSUME QueueInv, CallsInv, NEW t, Publishes(t), t.event # "agent_end", calls' = calls,
           node \notin {"finally", "exited"}
    PROVE  /\ ~AgentEnds'
           /\ \A i \in 1..Len(log') : log'[i] # Sentinel => Shaped(log'[i], calls')
           /\ CutShort => CutShort'
           /\ \A k : Spoke(k) => Spoke(k)'
           /\ CutShort' \/ \E i \in 1..Len(log') : log'[i] = t
BY PublishKeepsCalls, ClosedEarly DEF CallsInv

\* The agent's steps that publish nothing and begin no call.
LEMMA QuietStepKeepsCalls ==
    ASSUME CallsInv, log' = log, calls' = calls,
           node' # node => /\ node' \notin {"stream", "llmError", "finally"}
                           /\ node \in {"stream", "llmError", "raised"} => node' = "raised"
                           /\ node \in {"finally", "exited"} => node' = "exited"
    PROVE  CallsInv'
BY DEF CallsInv, AgentEnds, CutShort, Spoke

LEMMA AgentKeepsCalls ==
    ASSUME QueueInv, CallsInv, RunAgent
    PROVE  CallsInv'
<1>0. /\ AgentTypeOK /\ calls \in Nat /\ toolsRun \in Nat
      /\ \A e \in {"stop", "error", "timeout"} : Terminal(e) \in AgentThought
  <2>1. MaxIteration + 1 \in Nat
    BY AgentAssumption
  <2>2. AgentTypeOK
    BY DEF QueueInv, Typed, TypeOK
  <2>3. calls \in 0..(MaxIteration + 1) /\ toolsRun \in Nat
    BY <2>2 DEF AgentTypeOK
  <2> QED
    BY <2>1, <2>2, <2>3, ThoughtsAreTyped DEF TERMINAL_EVENTS
<1> USE <1>0 DEF GoTo, replyVars, toolVars
<1> DEFINE Published(t) == calls' = calls /\ t.event # "agent_end" /\ Publishes(t)
<1>1. CASE PresetPass \/ (MemoryRecall /\ UNCHANGED queueVars) \/ History \/ ToolCallChunk
           \/ NodeRaises \/ Finally
  <2>1. CASE PresetPass \/ (MemoryRecall /\ UNCHANGED queueVars) \/ History \/ ToolCallChunk
             \/ NodeRaises
    <3>1. /\ log' = log /\ calls' = calls
          /\ node' # node => /\ node' \notin {"stream", "llmError", "finally"}
                             /\ node \in {"stream", "llmError", "raised"} => node' = "raised"
                             /\ node \in {"finally", "exited"} => node' = "exited"
      BY <2>1 DEF PresetPass, MemoryRecall, History, ToolCallChunk, ReadChunk, NodeRaises, queueVars
    <3> QED
      BY <3>1, QuietStepKeepsCalls
  <2>2. CASE Finally
    <3>1. closed
      BY <2>2 DEF Finally, QueueInv, AgentEnded
    <3>2. log' = log /\ calls' = calls /\ node' = "exited" /\ node = "finally"
      BY <2>2, <3>1 DEF Finally, stop_listen
    <3> QED
      BY <3>2, QuietStepKeepsCalls
  <2> QED
    BY <1>1, <2>1, <2>2
<1>2. CASE CallModel
  <2>1. log' = log /\ calls' = calls + 1 /\ node = "llm" /\ node' = "stream"
    BY <1>2 DEF CallModel, queueVars
  <2>2. log \in Seq(AgentThought \union {Sentinel})
    BY DEF QueueInv, Typed, TypeOK, QueueTypeOK
  <2>3. \A i \in 1..Len(log) : log[i] # Sentinel => Shaped(log[i], calls + 1)
    <3> SUFFICES ASSUME NEW i \in 1..Len(log), log[i] # Sentinel
                 PROVE  Shaped(log[i], calls + 1)
      OBVIOUS
    <3>1. log[i] \in AgentThought /\ Shaped(log[i], calls)
      BY <2>2 DEF CallsInv
    <3> QED
      BY <3>1, ShapesStay
  <2>4. CutShort \/ Spoke(calls)
    BY <2>1 DEF CallsInv
  <2>5. ~AgentEnds
    BY <2>1 DEF CallsInv
  <2>6. calls' - 1 = calls /\ calls' > 0
    BY <2>1
  <2> QED
    BY <2>1, <2>3, <2>4, <2>5, <2>6 DEF CallsInv, CutShort, Spoke, AgentEnds
<1>3. CASE \/ PresetReply \/ (MemoryRecall /\ ~UNCHANGED queueVars) \/ LimitReply
  <2>1. PICK t : Published(t)
    BY <1>3, ThoughtsAreTyped, ThoughtsAreShaped DEF PresetReply, MemoryRecall, LimitReply, Publishes
  <2>2. /\ node \notin {"stream", "llmError", "raised", "finally", "exited"}
        /\ node' \notin {"stream", "llmError", "raised", "finally", "exited"}
    BY <1>3 DEF PresetReply, MemoryRecall, LimitReply
  <2> QED
    BY <2>1, <2>2, AfterPublishing DEF CallsInv
<1>4. CASE HistoryMalformed \/ LlmError \/ CatchError
  <2>1. PICK t : Published(t)
    BY <1>4, ThoughtsAreTyped, ThoughtsAreShaped DEF HistoryMalformed, LlmError, CatchError,
       publish_error, Publishes, TERMINAL_EVENTS
  <2>2. node \notin {"finally", "exited"} /\ node' \in {"raised", "finally"}
    BY <1>4 DEF HistoryMalformed, LlmError, CatchError
  <2> QED
    BY <2>1, <2>2, AfterPublishing DEF CallsInv
<1>5. CASE ContentChunk \/ StreamFails
  <2>0. node = "stream" /\ node' \in {"stream", "llmError"} /\ calls > 0 /\ calls \in 1..calls
    BY <1>5 DEF ContentChunk, ReadChunk, StreamFails, CallsInv
  <2>1. PICK t : Published(t)
    <3>1. CASE ContentChunk
      BY <2>0, <3>1, ThoughtsAreTyped, ThoughtsAreShaped DEF ContentChunk, ReadChunk, Publishes
    <3>2. CASE StreamFails
      <4> DEFINE e == IF generation = "message" THEN "agent_message" ELSE "agent_thought"
                 t == Settlement(calls, e, "partial")
      <4>1. publish(t) /\ calls' = calls /\ node' = "llmError"
        BY <3>2 DEF StreamFails
      <4>2. Shaped(t, calls)
        BY <2>0, ThoughtsAreShaped
      <4>3. t \in AgentThought /\ t.event # "agent_end"
        BY ThoughtsAreTyped DEF TokenUsage
      <4> HIDE DEF t
      <4> QED
        BY <4>1, <4>2, <4>3 DEF Publishes
    <3> QED
      BY <1>5, <3>1, <3>2
  <2> HIDE DEF Published
  <2>2. calls' = calls /\ Publishes(t) /\ t.event # "agent_end"
    BY <2>1 DEF Published
  <2> QED
    BY <2>0, <2>2, AfterPublishing DEF CallsInv
<1>6. CASE ThoughtSettled \/ AnswerSettled
  <2>0. node = "stream" /\ node' \in {"tools", "end"} /\ calls > 0 /\ calls \in 1..calls
    BY <1>6 DEF ThoughtSettled, AnswerSettled, CallsInv
  <2>1. PICK e \in {"agent_message", "agent_thought"}, u \in {"complete", "partial"} :
           publish(Settlement(calls, e, u)) /\ calls' = calls
    BY <1>6 DEF ThoughtSettled, AnswerSettled
  <2> DEFINE t == Settlement(calls, e, u)
  <2>2. t \in AgentThought /\ t.event # "agent_end" /\ Shaped(t, calls) /\ t.id = <<"call", calls>>
    BY <2>0, ThoughtsAreTyped, ThoughtsAreShaped DEF TokenUsage, Settlement
  <2>3. publish(t) /\ calls' = calls
    BY <2>1
  <2> HIDE DEF t
  <2>4. Publishes(t)
    BY <2>2, <2>3 DEF Publishes
  <2>5. /\ ~AgentEnds'
        /\ \A i \in 1..Len(log') : log'[i] # Sentinel => Shaped(log'[i], calls')
        /\ CutShort => CutShort'
        /\ \A k : Spoke(k) => Spoke(k)'
        /\ CutShort' \/ \E i \in 1..Len(log') : log'[i] = t
    BY <2>0, <2>2, <2>3, <2>4, AfterPublishing
  <2>6. CutShort \/ Spoke(calls - 1)
    BY <2>0 DEF CallsInv
  <2>7. CutShort' \/ Spoke(calls)'
    <3> SUFFICES ASSUME ~CutShort'
                 PROVE  Spoke(calls)'
      OBVIOUS
    <3>1. \A n \in 1..(calls - 1) : \E i \in 1..Len(log') : log'[i].id = <<"call", n>>
      <4>1. Spoke(calls - 1)
        BY <2>5, <2>6
      <4>2. \A k : Spoke(k) => \A n \in 1..k : \E i \in 1..Len(log') : log'[i].id = <<"call", n>>
        BY <2>5 DEF Spoke
      <4> QED
        BY <4>1, <4>2
    <3>2. \E i \in 1..Len(log') : log'[i].id = <<"call", calls>>
      BY <2>2, <2>5
    <3>3. \A n \in 1..calls : n = calls \/ n \in 1..(calls - 1)
      BY <2>0
    <3> QED
      BY <2>3, <3>1, <3>2, <3>3 DEF Spoke
  <2> QED
    BY <2>0, <2>3, <2>5, <2>7 DEF CallsInv
<1>7. CASE RunTool
  <2>1. PICK e \in {"agent_action", "dataset_retrieval"} : publish(Note("tool", toolsRun, e))
    BY <1>7 DEF RunTool
  <2>2. Published(Note("tool", toolsRun, e))
    BY <1>7, <2>1, ThoughtsAreTyped, ThoughtsAreShaped DEF RunTool, Publishes
  <2>3. /\ node \notin {"stream", "llmError", "raised", "finally", "exited"}
        /\ node' \notin {"stream", "llmError", "raised", "finally", "exited"}
    BY <1>7 DEF RunTool
  <2> QED
    BY <2>2, <2>3, AfterPublishing DEF CallsInv
<1>8. CASE PublishEnd
  <2> DEFINE t == Terminal("agent_end")
  <2>1. node = "end" /\ node' = "finally" /\ calls' = calls /\ publish(t)
    BY <1>8 DEF PublishEnd
  <2>2. Publishes(t)
    BY <2>1, ThoughtsAreTyped, ThoughtsAreShaped DEF Publishes, TERMINAL_EVENTS
  <2> HIDE DEF t
  <2>3. /\ \A k : Spoke(k) => Spoke(k)'
        /\ \A i \in 1..Len(log') : log'[i] # Sentinel => Shaped(log'[i], calls)
        /\ AgentEnds' => AgentEnds \/ ~closed
    BY <2>2, PublishKeepsCalls
  <2>4. (CutShort \/ Spoke(calls)) /\ ~AgentEnds
    BY <2>1 DEF CallsInv
  <2>5. ~closed => ~CutShort
    <3>1. EndsOnce
      BY DEF QueueInv
    <3> QED
      BY <3>1 DEF EndsOnce, Ongoing, CutShort, IsTerminal, TERMINAL_EVENTS
  <2>6. AgentEnds' => Spoke(calls)'
    BY <2>1, <2>3, <2>4, <2>5 DEF Spoke
  <2> QED
    BY <2>1, <2>3, <2>6 DEF CallsInv
<1> QED
  BY <1>1, <1>2, <1>3, <1>4, <1>5, <1>6, <1>7, <1>8 DEF RunAgent

LEMMA CallsInvStep ==
    ASSUME QueueInv, CallsInv, [Next]_vars
    PROVE  CallsInv'
<1>1. CASE Agent
  BY <1>1, AgentKeepsCalls DEF Agent
<1>2. CASE ListenerPublishes
  <2>1. /\ node' = node /\ calls' = calls
        /\ \E t \in AgentThought : t.event # "agent_end" /\ Shaped(t, calls) /\ publish(t)
    <3>1. calls \in Nat /\ last_ping_time \in Nat
      <4>1. calls \in 0..(MaxIteration + 1) /\ last_ping_time \in 0..ListenTimeout
        BY DEF QueueInv, Typed, TypeOK, AgentTypeOK, RuntimeTypeOK
      <4>2. MaxIteration + 1 \in Nat /\ ListenTimeout \in Nat
        BY AgentAssumption, RuntimeAssumption
      <4> QED
        BY <4>1, <4>2
    <3> QED
      BY <1>2, <3>1, ThoughtsAreTyped, ThoughtsAreShaped DEF ListenerPublishes, agentVars, TERMINAL_EVENTS
  <2>2. PICK t \in AgentThought : t.event # "agent_end" /\ Shaped(t, calls) /\ publish(t)
    BY <2>1
  <2>3. Publishes(t)
    BY <2>2 DEF Publishes
  <2>4. /\ CutShort => CutShort'
        /\ \A k : Spoke(k) => Spoke(k)'
        /\ \A i \in 1..Len(log') : log'[i] # Sentinel => Shaped(log'[i], calls)
        /\ AgentEnds' => AgentEnds
    BY <2>2, <2>3, PublishKeepsCalls
  <2>5. Spoke(calls) => Spoke(calls)'
    BY <2>1, <2>4 DEF Spoke
  <2>6. Spoke(calls - 1) => Spoke(calls - 1)'
    BY <2>1, <2>4 DEF Spoke
  <2> QED
    BY <2>1, <2>4, <2>5, <2>6 DEF CallsInv
<1>3. CASE (Consumer /\ ~ListenerPublishes) \/ Client \/ RequestStop \/ Tick \/ Over \/ UNCHANGED vars
  <2>1. log' = log /\ calls' = calls /\ (node' = node \/ (node = "new" /\ node' = "preset"))
    <3> USE DEF agentVars, queueVars
    <3>1. CASE Consumer /\ ~ListenerPublishes
      BY <3>1 DEF Consumer, Consume, OpenQueue, queue, StartThread, Fails, GetItem, get, GetTimesOut,
         CheckClosed, Decide, CatchFailure, InvokeFails, SendFrame, FrameFails, MergeQuietly, Merge,
         Finish, GoTo
    <3>2. CASE Client \/ RequestStop \/ Tick \/ Over \/ UNCHANGED vars
      BY <3>2 DEF Client, Pull, Disconnect, NeverPulled, RequestStop, Tick, Over, vars
    <3> QED
      BY <1>3, <3>1, <3>2
  <2> QED
    BY <2>1, QuietStepKeepsCalls
<1> QED
  BY <1>1, <1>2, <1>3 DEF Next

\* The merged thoughts keep what was heard.
LEMMA ThoughtsInvStep ==
    ASSUME QueueInv, HeardInv, CallsInv, ThoughtsInv, [Next]_vars
    PROVE  ThoughtsInv'
<1>0. /\ heard \in Seq(AgentThought) /\ thoughts \in Seq(AgentThought)
      /\ at = "item" => item \in AgentThought
      /\ calls \in Nat /\ calls' \in Nat /\ calls <= calls'
      /\ log \in Seq(AgentThought \union {Sentinel}) /\ taken \in 0..Len(log)
  <2>1. MaxIteration + 1 \in Nat
    BY AgentAssumption
  <2>2. /\ heard \in Seq(AgentThought) /\ thoughts \in Seq(AgentThought)
        /\ at = "item" => item \in AgentThought
        /\ log \in Seq(AgentThought \union {Sentinel}) /\ taken \in 0..Len(log)
        /\ calls \in 0..(MaxIteration + 1)
    BY DEF QueueInv, Typed, TypeOK, QueueTypeOK, RuntimeTypeOK, AgentTypeOK, ItemAtHand
  <2>3. calls' = calls \/ calls' = calls + 1
    <3>1. CASE Agent
      BY <3>1 DEF Agent, RunAgent, PresetReply, PresetPass, MemoryRecall, History, HistoryMalformed,
         LimitReply, CallModel, ToolCallChunk, ContentChunk, ReadChunk, StreamFails, LlmError,
         ThoughtSettled, AnswerSettled, RunTool, PublishEnd, NodeRaises, CatchError, Finally
    <3>2. CASE Consumer
      BY <3>2 DEF Consumer, Consume, OpenQueue, StartThread, Fails, GetItem, GetTimesOut,
         CheckClosed, Decide, ListenerPublishes, CatchFailure, InvokeFails, SendFrame, FrameFails,
         MergeQuietly, Merge, Finish, agentVars
    <3>3. CASE Client \/ RequestStop \/ Tick \/ Over \/ UNCHANGED vars
      BY <3>3 DEF Client, Pull, Disconnect, NeverPulled, RequestStop, Tick, Over, vars, agentVars
    <3> QED
      BY <3>1, <3>2, <3>3 DEF Next
  <2> QED
    BY <2>1, <2>2, <2>3
<1>1. /\ \A i \in 1..Len(heard) : Shaped(heard[i], calls')
      /\ \A j \in 1..Len(thoughts) : Shaped(thoughts[j], calls')
  <2>1. \A i \in 1..Len(heard) : heard[i] \in AgentThought /\ Shaped(heard[i], calls)
    BY <1>0 DEF ThoughtsInv
  <2>2. \A j \in 1..Len(thoughts) : thoughts[j] \in AgentThought /\ Shaped(thoughts[j], calls)
    BY <1>0 DEF ThoughtsInv
  <2> QED
    BY <1>0, <2>1, <2>2, ShapesStay
<1>2. CASE SendFrame \/ FrameFails \/ MergeQuietly
  <2>1. Merge /\ at = "item"
    BY <1>2 DEF SendFrame, FrameFails, MergeQuietly, Merge
  <2>2. /\ item \in AgentThought /\ heard' = Append(heard, item)
        /\ thoughts' = merge_agent_thought(thoughts, item) /\ calls' = calls
    BY <1>0, <2>1 DEF Merge, agentVars
  <2>3. Shaped(item, calls)
    <3>1. CASE item = Terminal("error")
      BY <1>0, <3>1, ThoughtsAreShaped DEF TERMINAL_EVENTS
    <3>2. CASE item # Terminal("error")
      <4>1. taken > 0 /\ item = log[taken]
        BY <2>1, <3>2 DEF HeardInv, ListenerInv
      <4> QED
        BY <1>0, <2>2, <4>1, ThoughtsAreTyped DEF CallsInv
    <3> QED
      BY <3>1, <3>2
  <2>4. /\ \A j \in 1..Len(thoughts') : Shaped(thoughts'[j], calls)
        /\ Len(thoughts) <= Len(thoughts')
        /\ \A j \in 1..Len(thoughts) : thoughts'[j].id = thoughts[j].id
        /\ item.event # "ping" => \E j \in 1..Len(thoughts') : thoughts'[j].id = item.id
    <3>1. calls \in Nat /\ thoughts \in Seq(AgentThought) /\ item \in AgentThought
          /\ thoughts' = merge_agent_thought(thoughts, item)
      BY <1>0, <2>2
    <3>2. \A j \in 1..Len(thoughts) : Shaped(thoughts[j], calls)
      BY <1>1, <2>2
    <3>3. TakesIn(thoughts, item, thoughts', calls)
      BY <2>3, <3>1, <3>2, MergeKeepsShapes
    <3> QED
      BY <3>3 DEF TakesIn
  <2>5. /\ Len(heard') = Len(heard) + 1 /\ heard'[Len(heard) + 1] = item
        /\ \A i \in 1..Len(heard) : heard'[i] = heard[i]
    BY <1>0, <2>2
  <2>6. /\ thoughts' \in Seq(AgentThought) /\ heard' \in Seq(AgentThought)
    BY <1>0, <2>2, MergeIsTyped
  <2>7. ASSUME NEW i \in 1..Len(heard'), heard'[i].event # "ping"
        PROVE  \E j \in 1..Len(thoughts') : thoughts'[j].id = heard'[i].id
    <3>1. CASE i \in 1..Len(heard)
      <4>1. PICK j \in 1..Len(thoughts) : thoughts[j].id = heard[i].id
        BY <2>5, <2>7, <3>1 DEF ThoughtsInv
      <4>2. j \in 1..Len(thoughts')
        BY <1>0, <2>4, <2>6
      <4> QED
        BY <2>4, <2>5, <3>1, <4>1, <4>2
    <3>2. CASE i = Len(heard) + 1
      BY <2>4, <2>5, <2>7, <3>2
    <3> QED
      BY <1>0, <2>5, <3>1, <3>2
  <2>8. \A i \in 1..Len(heard') : Shaped(heard'[i], calls)
    BY <1>0, <1>1, <2>2, <2>3, <2>5
  <2> QED
    BY <2>2, <2>4, <2>7, <2>8 DEF ThoughtsInv
<1>3. CASE UNCHANGED <<heard, thoughts>>
  BY <1>1, <1>3 DEF ThoughtsInv
<1>4. (SendFrame \/ FrameFails \/ MergeQuietly) \/ UNCHANGED <<heard, thoughts>>
  <2> USE DEF runtimeVars, resultVars
  <2>1. CASE Consumer
    BY <2>1 DEF Consumer, Consume, OpenQueue, StartThread, Fails, GetItem, GetTimesOut,
       CheckClosed, Decide, ListenerPublishes, CatchFailure, InvokeFails, Finish
  <2>2. CASE Agent \/ Client \/ RequestStop \/ Tick \/ Over \/ UNCHANGED vars
    BY <2>2 DEF Agent, Client, Pull, Disconnect, NeverPulled, RequestStop, Tick, Over, vars
  <2> QED
    BY <2>1, <2>2 DEF Next
<1> QED
  BY <1>2, <1>3, <1>4

BillInv == CallsInv /\ ThoughtsInv

LEMMA BillInvariant == Spec => []BillInv
<1>1. Init => BillInv
  <2> SUFFICES ASSUME Init
               PROVE  BillInv
    OBVIOUS
  <2>1. log = <<>> /\ heard = <<>> /\ thoughts = <<>> /\ calls = 0 /\ node = "new"
    BY DEF Init, QueueInit, AgentInit, RuntimeInit
  <2>2. Len(log) = 0 /\ Len(heard) = 0 /\ Len(thoughts) = 0
    BY <2>1
  <2> QED
    BY <2>1, <2>2 DEF BillInv, CallsInv, ThoughtsInv, Spoke, AgentEnds
<1>2. QueueInv /\ HeardInv /\ BillInv /\ [Next]_vars => BillInv'
  BY CallsInvStep, ThoughtsInvStep DEF BillInv
<1> QED
  BY <1>1, <1>2, QueueInvariant, HeardInvariant, PTL DEF Spec

\* A bill that is saved as complete has an entry for every model call that was begun
\* and no other: only a turn that the agent itself ended is complete, and by then each
\* of its calls is in the log, was heard and is merged into one thought of its own.
LEMMA BillHolds ==
    ASSUME QueueInv, HeardInv, BillInv
    PROVE  CompleteBillIsWhole
<1> SUFFICES ASSUME NEW i \in DOMAIN saves, UsageComplete(saves[i])
             PROVE  {saves[i][c].id : c \in Calls(saves[i])} = {<<"call", n>> : n \in 1..calls}
  BY DEF CompleteBillIsWhole
<1>0. /\ heard \in Seq(AgentThought) /\ thoughts \in Seq(AgentThought)
      /\ log \in Seq(AgentThought \union {Sentinel})
      /\ EndsOnce /\ ListenerInv /\ HeardFromLog /\ CallsInv /\ ThoughtsInv
  BY DEF QueueInv, Typed, TypeOK, QueueTypeOK, RuntimeTypeOK, HeardInv, BillInv
<1>1. saves[i] = thoughts /\ HeardToEnd
  <2>1. saves # <<>>
    OBVIOUS
  <2> QED
    BY <1>0, <2>1 DEF ListenerInv
<1> DEFINE m == Len(heard)
           e == heard[m]
<1>2. m \in 1..Len(heard) /\ e \in AgentThought /\ IsTerminal(e)
  BY <1>0, <1>1 DEF HeardToEnd
<1>3. e.event = "agent_end"
  <2>1. PICK j \in 1..Len(thoughts) : thoughts[j].id = e.id
    BY <1>0, <1>2 DEF ThoughtsInv, IsTerminal, TERMINAL_EVENTS
  <2>2. e.id = <<e.event, 0>> /\ e.event \in TERMINAL_EVENTS
    BY <1>0, <1>2 DEF ThoughtsInv, Shaped, IsTerminal
  <2>3. thoughts[j].event = e.event
    BY <1>0, <2>1, <2>2 DEF ThoughtsInv, Shaped
  <2>4. j \in DOMAIN thoughts
    BY <1>0
  <2> QED
    BY <1>1, <2>2, <2>3, <2>4 DEF UsageComplete, Interrupted, TERMINAL_EVENTS
<1>4. Copied(m) /\ log[m] = e /\ m <= Len(log)
  BY <1>0, <1>1, <1>2, <1>3 DEF HeardFromLog, Copied, HeardToEnd
<1>5. Spoke(calls)
  BY <1>0, <1>2, <1>3, <1>4 DEF CallsInv, AgentEnds
<1>6. \A k \in 1..Len(log) : k > m => log[k] = Sentinel
  <2>1. ~Ongoing(log[m]) /\ log[m] # Sentinel
    BY <1>2, <1>4, ThoughtsAreTyped DEF Ongoing
  <2>2. closed /\ m = Len(log) - 1 /\ log[Len(log)] = Sentinel
    BY <1>0, <1>2, <1>4, <2>1 DEF EndsOnce
  <2> QED
    BY <1>0, <2>2
<1>7. ASSUME NEW n \in 1..calls
      PROVE  \E c \in Calls(thoughts) : thoughts[c].id = <<"call", n>>
  <2>1. PICK k \in 1..Len(log) : log[k].id = <<"call", n>>
    BY <1>5 DEF Spoke
  <2>2. k <= m
    BY <1>2, <1>6, <2>1 DEF Sentinel
  <2>3. k \in 1..Len(heard) /\ heard[k].id = <<"call", n>>
    BY <1>0, <1>4, <2>1, <2>2 DEF Copied
  <2>4. heard[k].event # "ping"
    BY <1>0, <2>3 DEF ThoughtsInv, Shaped
  <2>5. PICK c \in 1..Len(thoughts) : thoughts[c].id = <<"call", n>>
    BY <1>0, <2>3, <2>4 DEF ThoughtsInv
  <2>6. c \in DOMAIN thoughts /\ Shaped(thoughts[c], calls)
    BY <1>0 DEF ThoughtsInv
  <2>7. c \in Calls(thoughts)
    BY <2>5, <2>6 DEF Calls, Shaped
  <2> QED
    BY <2>5, <2>7
<1>8. ASSUME NEW c \in Calls(thoughts)
      PROVE  \E n \in 1..calls : thoughts[c].id = <<"call", n>>
  <2>1. c \in 1..Len(thoughts) /\ thoughts[c] \in AgentThought /\ Shaped(thoughts[c], calls)
        /\ thoughts[c].event \in {"agent_message", "agent_thought"}
        /\ thoughts[c].usage # "not_called"
    BY <1>0 DEF Calls, ThoughtsInv
  <2>2. thoughts[c].id[1] = "call" /\ thoughts[c].id[2] \in 1..calls
    BY <2>1 DEF Shaped
  <2>3. thoughts[c].id = <<thoughts[c].id[1], thoughts[c].id[2]>>
    BY <2>1 DEF AgentThought, Ids
  <2> QED
    BY <2>2, <2>3
<1>9. {thoughts[c].id : c \in Calls(thoughts)} = {<<"call", n>> : n \in 1..calls}
  BY <1>7, <1>8
<1> QED
  BY <1>1, <1>9

\* A bill saved as complete has exactly one settlement for every model call that was
\* begun, however the agent, the listener's clock and the users who stop it race.
THEOREM CompleteBillsAreWhole == Spec => []CompleteBillIsWhole
BY QueueInvariant, HeardInvariant, BillInvariant, BillHolds, PTL

-----------------------------------------------------------------------------
(***************************************************************************)
(* The contract of the stream.                                             *)
(***************************************************************************)
Stored == IF saves = <<>> THEN <<>> ELSE <<heard>>

\* The contract's end of a list of events is that of the turn.
LEMMA EndsAgree ==
    ASSUME NEW events \in Seq(AgentThought)
    PROVE  Contract!Ended(events) <=> (events # <<>> /\ IsTerminal(events[Len(events)]))
BY DEF Contract!Ended, Contract!TERMINAL, IsTerminal, TERMINAL_EVENTS

\* An event is heard, and shown or not; what is heard last is stored before it is shown.
LEMMA HearingImplements ==
    ASSUME QueueInv, HeardInv, SendFrame \/ FrameFails \/ MergeQuietly
    PROVE  Contract!Show \/ Contract!Hide
<1>0. /\ Merge /\ at = "item" /\ HeardOn /\ saves = <<>> /\ heard \in Seq(AgentThought)
      /\ FramesInv
  BY DEF SendFrame, FrameFails, MergeQuietly, Merge, HeardInv, ListenerInv, QueueInv, Typed, TypeOK,
     RuntimeTypeOK
<1>1. /\ heard' \in Seq(AgentThought)
      /\ Len(heard') = Len(heard) + 1
      /\ heard'[Len(heard')] = item
      /\ heard' = Append(heard, item)
  BY <1>0, HearsItem DEF Merge
<1>2. Contract!Ended(heard') <=> IsTerminal(item)
  <2>1. heard' # <<>>
    BY <1>1
  <2> QED
    BY <1>1, <2>1, EndsAgree
<1>3. Contract!HearOne
  <2>1. ~Contract!Ended(heard)
    BY <1>0, EndsAgree DEF HeardOn
  <2> QED
    BY <1>1, <2>1 DEF Contract!HearOne
<1>4. CASE SendFrame
  <2>1. frames = heard /\ frames' = heard'
    BY <1>0, <1>1, <1>4 DEF SendFrame, FramesInv
  <2>2. saves' = IF IsTerminal(item) THEN <<thoughts'>> ELSE <<>>
    BY <1>0, <1>4 DEF SendFrame, save
  <2>3. Stored' = IF Contract!Ended(heard') THEN <<heard'>> ELSE <<>>
    <3>1. CASE IsTerminal(item)
      <4>1. saves' # <<>>
        BY <2>2, <3>1
      <4> QED
        BY <1>2, <3>1, <4>1 DEF Stored
    <3>2. CASE ~IsTerminal(item)
      BY <1>2, <2>2, <3>2 DEF Stored
    <3> QED
      BY <3>1, <3>2
  <2> QED
    BY <1>3, <2>1, <2>3 DEF Contract!Show, Stored
<1>5. CASE FrameFails \/ MergeQuietly
  <2>1. frames' = frames /\ saves' = <<>>
    BY <1>0, <1>5 DEF FrameFails, MergeQuietly
  <2> QED
    BY <1>0, <1>3, <2>1 DEF Contract!Hide
<1> QED
  BY <1>4, <1>5

LEMMA StepImplements ==
    ASSUME QueueInv, HeardInv, [Next]_vars
    PROVE  [Contract!Next]_<<heard, frames, Stored>>
<1>1. CASE SendFrame \/ FrameFails \/ MergeQuietly
  BY <1>1, HearingImplements DEF Contract!Next
<1>2. CASE Finish
  <2>1. /\ HeardToEnd /\ saves = <<>> /\ heard \in Seq(AgentThought)
    BY <1>2 DEF Finish, Move, HeardInv, ListenerInv, QueueInv, Typed, TypeOK, RuntimeTypeOK
  <2>2. saves' = <<thoughts>> /\ heard' = heard /\ frames' = frames
    BY <1>2, <2>1 DEF Finish, save
  <2>3. saves' # <<>>
    BY <2>2
  <2>4. Contract!Ended(heard)
    BY <2>1, EndsAgree DEF HeardToEnd
  <2> QED
    BY <2>1, <2>2, <2>3, <2>4 DEF Contract!Next, Contract!Store
<1>3. CASE UNCHANGED resultVars
  BY <1>3 DEF resultVars, Stored
<1>4. SendFrame \/ FrameFails \/ MergeQuietly \/ Finish \/ UNCHANGED resultVars
  <2> USE DEF runtimeVars
  <2>1. CASE Consumer
    BY <2>1 DEF Consumer, Consume, OpenQueue, StartThread, Fails, GetItem, GetTimesOut,
       CheckClosed, Decide, ListenerPublishes, CatchFailure, InvokeFails
  <2>2. CASE Agent \/ Client \/ RequestStop \/ Tick \/ Over \/ UNCHANGED vars
    BY <2>2 DEF Agent, Client, Pull, Disconnect, NeverPulled, RequestStop, Tick, Over, vars
  <2> QED
    BY <2>1, <2>2 DEF Next
<1> QED
  BY <1>1, <1>2, <1>3, <1>4

\* The runtime, the queue and the agent's thread implement what the contract of the
\* stream promises: every step is one of the contract's, or changes nothing in it.
THEOREM RuntimeImplementsContract == Spec => ImplementsContract
<1>1. Init => Contract!Init
  BY DEF Init, RuntimeInit, Contract!Init
<1>2. QueueInv /\ HeardInv /\ [Next]_vars => [Contract!Next]_<<heard, frames, Stored>>
  BY StepImplements
<1> QED
  BY <1>1, <1>2, QueueInvariant, HeardInvariant, PTL
     DEF Spec, ImplementsContract, Contract!Spec, Stored
=============================================================================
