------------------------------ MODULE ChatTurn ------------------------------
(***************************************************************************)
(* One chat turn: the agent's thread, the consumer, the client, the clock  *)
(* and the users who may ask for the turn to stop.                         *)
(***************************************************************************)
EXTENDS ChatRuntime

VARIABLE asked           \* history: the users who asked for a stop

vars == <<queueVars, redisVars, agentVars, runtimeVars, asked>>

TypeOK ==
    /\ QueueTypeOK
    /\ AgentTypeOK
    /\ RuntimeTypeOK
    /\ asked \subseteq Users

Init ==
    /\ QueueInit
    /\ AgentInit
    /\ RuntimeInit
    /\ asked = {}

Agent == RunAgent /\ UNCHANGED <<redisVars, runtimeVars, asked>>

Consumer == Consume /\ UNCHANGED asked

Client == (Pull \/ Disconnect \/ NeverPulled) /\ UNCHANGED asked

\* A stop request of any user through any endpoint that has one.
RequestStop ==
    /\ \E invoke_from \in Stoppers, user \in Users :
          /\ set_stop_flag(invoke_from, user)
          /\ asked' = asked \union {user}
    /\ UNCHANGED <<queueVars, agentVars, runtimeVars>>

\* Ten seconds of the monotonic clock; past the limit time makes no difference.
Tick ==
    /\ at \notin {"idle", "open", "done"}
    /\ elapsed < ListenTimeout
    /\ elapsed' = elapsed + 1
    /\ UNCHANGED <<queueVars, redisVars, agentVars, turnVars, driver, at, item,
                   resultVars, last_ping_time, asked>>

\* The turn is over: nothing is left to run.
Over ==
    /\ at = "done"
    /\ node \in {"new", "exited"}
    /\ UNCHANGED vars

Next == Agent \/ Consumer \/ Client \/ RequestStop \/ Tick \/ Over

(***************************************************************************)
(* The consumer never stops, and a client either reads on or is found      *)
(* gone.  Nothing is assumed of the agent: a model or a tool may hang for  *)
(* ever; nor of the clock, unless a property says that time passes.        *)
(***************************************************************************)
Fairness ==
    /\ WF_vars(Consumer)
    /\ WF_vars(Client)

Spec == Init /\ [][Next]_vars /\ Fairness

TimePasses == WF_vars(Tick)

-----------------------------------------------------------------------------
Ongoing(entry) == entry # Sentinel /\ ~IsTerminal(entry)

\* One terminal event per task and nothing after it but the sentinel: every
\* racing publisher (the agent's thread, the listener's timeout, stop and
\* ping) is refused once one of them has ended the task, and the agent's
\* thread never closes the queue without having ended the task.
EndsOnce ==
    LET n == Len(log)
    IN IF closed
       THEN /\ n >= 2
            /\ log[n] = Sentinel
            /\ IsTerminal(log[n - 1])
            /\ \A i \in 1..(n - 2) : Ongoing(log[i])
       ELSE \A i \in 1..n : Ongoing(log[i])

\* The client is sent what the runtime hears, in order and without a gap, for
\* as long as it is there; a terminal frame is the last one it can be sent,
\* and the turn is saved by the time it is.
FramesContract ==
    /\ IsPrefix(frames, heard)
    /\ driver = "client" => frames = heard
    /\ \A i \in DOMAIN frames : IsTerminal(frames[i]) => i = Len(frames) /\ saves # <<>>

\* A turn is saved at most once, with every event up to exactly one terminal
\* event merged into it, whoever pulled them and wherever the client left;
\* only a response that was never pulled, or a blocking reply whose request
\* failed, ends unsaved.
SavedOnceWhole ==
    /\ \A i \in DOMAIN saves : /\ i = 1
                               /\ saves[i] = MergeAll(heard)
                               /\ {j \in DOMAIN heard : IsTerminal(heard[j])} = {Len(heard)}
    /\ at = "done" /\ saves = <<>> => driver = "invoke" \/ heard = <<>>

\* A turn whose bill is saved as complete has exactly one complete settlement
\* for every model call that was begun: none is missing, none counted twice.
CompleteBillIsWhole ==
    \A i \in DOMAIN saves :
        UsageComplete(saves[i]) =>
            {saves[i][c].id : c \in Calls(saves[i])} = {<<"call", n>> : n \in 1..calls}

\* A task ends with "stop" only if the user who operates it asked for that.
StoppedByOperator ==
    (\E i \in DOMAIN log : log[i].event = "stop") => operator \in asked

\* As time passes, a stream that has been opened is saved, although the client
\* may leave at any frame, Redis may fail and the model may never answer.
StreamIsSaved ==
    TimePasses => ((at \notin {"idle", "done"} /\ driver # "invoke") ~> (saves # <<>>))

\* A stop that was accepted ends the turn, whether or not the agent is still
\* at work and however slowly time passes.
StopEndsTurn == stopped ~> (at = "done")

\* The turn as its client and the message store know it.
Contract == INSTANCE TurnContract
    WITH shown <- frames,
         stored <- IF saves = <<>> THEN <<>> ELSE <<heard>>

\* The runtime, the queue and the agent's thread implement the contract.
ImplementsContract == Contract!Spec
=============================================================================
