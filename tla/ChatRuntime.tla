----------------------------- MODULE ChatRuntime -----------------------------
(***************************************************************************)
(* The consumer of one chat turn: the thread that runs the nested          *)
(* generators ChatRuntime.stream > consume > BaseAgent.stream > listen     *)
(* (or, for a reply in one block, BaseAgent.invoke > listen).  When the    *)
(* client goes away the same iterator is drained by a background thread,   *)
(* so there is one position `at' in the code whoever drives it.            *)
(***************************************************************************)
EXTENDS FunctionCallAgent

CONSTANTS Origins,       \* the entry points that may start the turn
          ListenTimeout  \* listen_timeout, in ping intervals of ten seconds

ASSUME RuntimeAssumption ==
    /\ Origins \subseteq InvokeFrom
    /\ ListenTimeout \in Nat \ {0}

VARIABLES origin,        \* invoke_from of the turn
          operator,      \* user_id of the turn
          driver,        \* who pulls: "client", "drain" (background) or "invoke"
          at,            \* where the consumer stands
          item,          \* the event at hand
          heard,         \* history: every event consumed, in order
          thoughts,      \* the merged thoughts, `thoughts' of generate()
          frames,        \* history: the events sent to the client
          saves,         \* history: the argument of each save
          elapsed,       \* time since listen began, up to ListenTimeout
          last_ping_time

turnVars == <<origin, operator>>
clockVars == <<elapsed, last_ping_time>>
resultVars == <<heard, thoughts, frames, saves>>
runtimeVars == <<turnVars, driver, at, item, resultVars, clockVars>>

Places == {"idle", "open", "get", "item", "yielded", "check", "decide",
           "timeout", "stop", "ping", "failed", "finish", "done"}

RuntimeTypeOK ==
    /\ origin \in InvokeFrom
    /\ operator \in Users
    /\ driver \in {"client", "drain", "invoke"}
    /\ at \in Places
    /\ item \in AgentThought \union {Sentinel}
    /\ heard \in Seq(AgentThought)
    /\ thoughts \in Seq(AgentThought)
    /\ frames \in Seq(AgentThought)
    /\ saves \in Seq(Seq(AgentThought))
    /\ elapsed \in 0..ListenTimeout
    /\ last_ping_time \in 0..ListenTimeout

\* Only the open API answers in one block.
RuntimeInit ==
    /\ origin \in Origins
    /\ operator \in Users
    /\ driver \in IF origin = "service_api" THEN {"client", "invoke"} ELSE {"client"}
    /\ at = "idle"
    /\ item = Sentinel
    /\ heard = <<>>
    /\ thoughts = <<>>
    /\ frames = <<>>
    /\ saves = <<>>
    /\ elapsed = 0
    /\ last_ping_time = 0

Move(from, to) == at = from /\ at' = to

\* Called with thoughts already merged: schedules save_agent_thoughts.
save == saves' = Append(saves, thoughts')

-----------------------------------------------------------------------------
(***************************************************************************)
(* Opening: the generator starts when the response is first pulled.        *)
(***************************************************************************)
\* The response is dropped before its first pull: nothing ever runs.
NeverPulled ==
    /\ driver = "client"
    /\ Move("idle", "done")
    /\ UNCHANGED <<queueVars, redisVars, agentVars, turnVars, driver, item, resultVars, clockVars>>

\* BaseAgent.stream creates the queue (and its Redis key) before the thread.
OpenQueue ==
    /\ Move("idle", "open")
    /\ queue(origin, operator)
    /\ UNCHANGED <<agentVars, turnVars, driver, item, resultVars, clockVars>>

StartThread ==
    /\ Move("open", "get")
    /\ GoTo("new", "preset")
    /\ UNCHANGED <<queueVars, redisVars, calls, replyVars, toolVars,
                   turnVars, driver, item, resultVars, clockVars>>

\* setex, the start of the thread, or the stop check raises.
Fails ==
    /\ \/ Move("idle", "failed")
       \/ Move("open", "failed")
       \/ Move("decide", "failed") /\ elapsed < ListenTimeout
    /\ UNCHANGED <<queueVars, redisVars, agentVars, turnVars, driver, item, resultVars, clockVars>>

-----------------------------------------------------------------------------
(***************************************************************************)
(* listen                                                                  *)
(***************************************************************************)
\* A sentinel ends listen; consume() makes that an error, invoke() does not.
GetItem ==
    /\ at = "get"
    /\ get
    /\ item' = log[taken + 1]
    /\ at' = IF item' # Sentinel THEN "item"
             ELSE IF driver = "invoke" THEN "finish" ELSE "failed"
    /\ UNCHANGED <<redisVars, agentVars, turnVars, driver, resultVars, clockVars>>

GetTimesOut ==
    /\ taken = Len(log)
    /\ Move("get", "check")
    /\ UNCHANGED <<queueVars, redisVars, agentVars, turnVars, driver, item, resultVars, clockVars>>

\* Under the lock; the decision that follows is outside it.
CheckClosed ==
    /\ at = "check"
    /\ at' = IF closed THEN "get" ELSE "decide"
    /\ UNCHANGED <<queueVars, redisVars, agentVars, turnVars, driver, item, resultVars, clockVars>>

\* Mutant: the time limit is lost.
Decide_NoTimeout ==
    /\ at = "decide"
    /\ at' = IF stopped THEN "stop" ELSE IF elapsed > last_ping_time THEN "ping" ELSE "get"
    /\ last_ping_time' = IF at' = "ping" THEN elapsed ELSE last_ping_time
    /\ UNCHANGED <<queueVars, redisVars, agentVars, turnVars, driver, item, resultVars, elapsed>>

\* Mutant: the stop key is looked up in the wrong order and never wins.
Decide_NoStop ==
    /\ at = "decide"
    /\ at' = IF elapsed >= ListenTimeout THEN "timeout"
             ELSE IF elapsed > last_ping_time THEN "ping" ELSE "get"
    /\ last_ping_time' = IF at' = "ping" THEN elapsed ELSE last_ping_time
    /\ UNCHANGED <<queueVars, redisVars, agentVars, turnVars, driver, item, resultVars, elapsed>>

Decide ==
    /\ at = "decide"
    /\ at' = IF elapsed >= ListenTimeout THEN "timeout"
             ELSE IF stopped THEN "stop"
             ELSE IF elapsed > last_ping_time THEN "ping" ELSE "get"
    /\ last_ping_time' = IF at' = "ping" THEN elapsed ELSE last_ping_time
    /\ UNCHANGED <<queueVars, redisVars, agentVars, turnVars, driver, item, resultVars, elapsed>>

ListenerPublishes ==
    /\ \/ Move("timeout", "get") /\ publish(Terminal("timeout"))
       \/ Move("stop", "get") /\ publish(Terminal("stop"))
       \/ Move("ping", "get") /\ publish(Note("ping", last_ping_time, "ping"))
    /\ UNCHANGED <<redisVars, agentVars, turnVars, driver, item, resultVars, clockVars>>

-----------------------------------------------------------------------------
(***************************************************************************)
(* generate, drain and invoke                                              *)
(***************************************************************************)
\* Anything raised below consume() becomes its generic error event.
CatchFailure ==
    /\ driver # "invoke"
    /\ Move("failed", "item")
    /\ item' = Terminal("error")
    /\ UNCHANGED <<queueVars, redisVars, agentVars, turnVars, driver, resultVars, clockVars>>

\* invoke() lets it escape: the request fails and nothing is saved.
InvokeFails ==
    /\ driver = "invoke"
    /\ Move("failed", "done")
    /\ UNCHANGED <<queueVars, redisVars, agentVars, turnVars, driver, item, resultVars, clockVars>>

Merge ==
    /\ at = "item"
    /\ heard' = Append(heard, item)
    /\ thoughts' = merge_agent_thought(thoughts, item)
    /\ UNCHANGED <<queueVars, redisVars, agentVars, turnVars, item, clockVars>>

\* Mutant: the terminal frame is sent first, finish() comes after.
SendFrame_SavesAfter ==
    /\ driver = "client"
    /\ Merge
    /\ frames' = Append(frames, item)
    /\ at' = IF IsTerminal(item) THEN "finish" ELSE "yielded"
    /\ UNCHANGED <<driver, saves>>

\* Mutant: generate() does not return after the terminal frame.
SendFrame_ReadsOn ==
    /\ driver = "client"
    /\ Merge
    /\ frames' = Append(frames, item)
    /\ IF IsTerminal(item) THEN save ELSE UNCHANGED saves
    /\ at' = "yielded"
    /\ UNCHANGED driver

\* A terminal event is finished (closed and saved) before its frame is sent.
SendFrame ==
    /\ driver = "client"
    /\ Merge
    /\ frames' = Append(frames, item)
    /\ IF IsTerminal(item) THEN save /\ at' = "done"
                           ELSE at' = "yielded" /\ UNCHANGED saves
    /\ UNCHANGED driver

\* The frame cannot be built: the finally block drains what is left.
FrameFails ==
    /\ driver = "client"
    /\ Merge
    /\ driver' = "drain"
    /\ at' = IF IsTerminal(item) THEN "finish" ELSE "check"
    /\ UNCHANGED <<frames, saves>>

MergeQuietly ==
    /\ driver \in {"drain", "invoke"}
    /\ Merge
    /\ at' = IF IsTerminal(item) THEN "finish" ELSE "check"
    /\ UNCHANGED <<driver, frames, saves>>

Pull ==
    /\ Move("yielded", "check")
    /\ UNCHANGED <<queueVars, redisVars, agentVars, turnVars, driver, item, resultVars, clockVars>>

\* Mutant: what was heard so far is saved, nothing is drained.
Disconnect_SavesEarly ==
    /\ Move("yielded", "finish")
    /\ driver' = "drain"
    /\ UNCHANGED <<queueVars, redisVars, agentVars, turnVars, item, resultVars, clockVars>>

\* GeneratorExit at the yield; drain runs inline if no thread can start.
Disconnect ==
    /\ Move("yielded", "check")
    /\ driver' = "drain"
    /\ UNCHANGED <<queueVars, redisVars, agentVars, turnVars, item, resultVars, clockVars>>

Finish ==
    /\ Move("finish", "done")
    /\ UNCHANGED thoughts
    /\ save
    /\ UNCHANGED <<queueVars, redisVars, agentVars, turnVars, driver, item, heard, frames, clockVars>>

Consume ==
    \/ OpenQueue \/ StartThread \/ Fails
    \/ GetItem \/ GetTimesOut \/ CheckClosed \/ Decide \/ ListenerPublishes
    \/ CatchFailure \/ InvokeFails \/ SendFrame \/ FrameFails \/ MergeQuietly \/ Finish
=============================================================================
