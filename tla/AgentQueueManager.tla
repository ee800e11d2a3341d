-------------------------- MODULE AgentQueueManager --------------------------
(***************************************************************************)
(* One task's share of core/agent/agents/agent_queue_manager.py: the FIFO  *)
(* queue between the agent's thread and its listener, the set of closed    *)
(* tasks, and the two Redis keys through which another request stops it.   *)
(* The queue is kept as the log of all that was ever put into it and the   *)
(* number of items taken out; log[taken + 1] is its head.                  *)
(***************************************************************************)
EXTENDS AgentThoughts

CONSTANTS Users,         \* the accounts that may operate or stop a task
          None           \* the absent value of a Redis key

ASSUME QueueAssumption == None \notin {"account", "end-user"} \X Users

VARIABLES log,           \* every item put into the queue
          taken,         \* how many of them were taken out
          closed,        \* the task is in _closed_tasks
          belong,        \* generate_task_belong:<task>
          stopped        \* generate_task_stopped:<task> is set

queueVars == <<log, taken, closed>>
redisVars == <<belong, stopped>>

InvokeFrom == {"service_api", "web_app", "debugger", "assistant_agent"}

\* The entry points with an endpoint that stops a task; the open API has none.
Stoppers == {"web_app", "debugger", "assistant_agent"}

user_prefix(invoke_from) ==
    IF invoke_from \in {"web_app", "debugger"} THEN "account" ELSE "end-user"

Principal(invoke_from, user) == <<user_prefix(invoke_from), user>>

\* The None that wakes a listener of a closed task.
Sentinel == [id |-> <<"sentinel", 0>>, event |-> "sentinel", text |-> 0, usage |-> "none"]

QueueTypeOK ==
    /\ log \in Seq(AgentThought \union {Sentinel})
    /\ taken \in 0..Len(log)
    /\ closed \in BOOLEAN
    /\ belong \in ({"account", "end-user"} \X Users) \union {None}
    /\ stopped \in BOOLEAN

QueueInit ==
    /\ log = <<>>
    /\ taken = 0
    /\ closed = FALSE
    /\ belong = None
    /\ stopped = FALSE

(***************************************************************************)
(* Called with the lock held, so each is one step.                         *)
(***************************************************************************)
\* Mutant: the check for a closed task is lost.
publish_AlsoWhenClosed(thought) ==
    /\ log' = IF IsTerminal(thought) THEN log \o <<thought, Sentinel>> ELSE Append(log, thought)
    /\ closed' = (closed \/ IsTerminal(thought))
    /\ UNCHANGED taken

publish(thought) ==
    /\ IF closed
       THEN UNCHANGED <<log, closed>>
       ELSE /\ log' = IF IsTerminal(thought) THEN log \o <<thought, Sentinel>>
                                             ELSE Append(log, thought)
            /\ closed' = IsTerminal(thought)
    /\ UNCHANGED taken

publish_error == publish(Terminal("error"))

stop_listen ==
    /\ log' = IF closed THEN log ELSE Append(log, Sentinel)
    /\ closed' = TRUE
    /\ UNCHANGED taken

\* queue(): the first use registers who the task belongs to.
queue(invoke_from, user) ==
    /\ belong' = Principal(invoke_from, user)
    /\ UNCHANGED <<queueVars, stopped>>

\* Queue.get() of a nonempty queue.
get ==
    /\ taken < Len(log)
    /\ taken' = taken + 1
    /\ UNCHANGED <<log, closed>>

\* Mutant: any running task is stopped.
set_stop_flag_OfAnyTask(invoke_from, user) ==
    /\ belong # None
    /\ stopped' = TRUE
    /\ UNCHANGED belong

\* set_stop_flag: silently ignored unless the caller's key is the task's.
set_stop_flag(invoke_from, user) ==
    /\ belong = Principal(invoke_from, user)
    /\ stopped' = TRUE
    /\ UNCHANGED belong
=============================================================================
