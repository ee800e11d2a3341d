---------------------------- MODULE TurnContract ----------------------------
(***************************************************************************)
(* What docs/contracts/agent-stream-events.md promises of a chat turn: a   *)
(* stream of events that ends at most once, shown to the client without a  *)
(* gap until it leaves, and stored exactly as heard, once, after its end.  *)
(***************************************************************************)
EXTENDS Naturals, Sequences

VARIABLES heard,     \* the events of the turn so far
          shown,     \* those the client was sent
          stored     \* <<>>, or the one list of events that was stored

TERMINAL == {"stop", "error", "timeout", "agent_end"}

Ended(events) == events # <<>> /\ events[Len(events)].event \in TERMINAL

Init ==
    /\ heard = <<>>
    /\ shown = <<>>
    /\ stored = <<>>

HearOne ==
    /\ ~Ended(heard)
    /\ Len(heard') = Len(heard) + 1
    /\ heard' = Append(heard, heard'[Len(heard')])

\* The client is shown it; the event that ends the turn is stored first.
Show ==
    /\ HearOne
    /\ shown = heard
    /\ shown' = heard'
    /\ stored' = IF Ended(heard') THEN <<heard'>> ELSE <<>>

\* The client cannot be shown it any more, or never is.
Hide ==
    /\ HearOne
    /\ UNCHANGED <<shown, stored>>

Store ==
    /\ Ended(heard)
    /\ stored = <<>>
    /\ stored' = <<heard>>
    /\ UNCHANGED <<heard, shown>>

Next == Show \/ Hide \/ Store

Spec == Init /\ [][Next]_<<heard, shown, stored>>
=============================================================================
