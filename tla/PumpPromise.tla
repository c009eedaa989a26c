---------------------------- MODULE PumpPromise ----------------------------
(***************************************************************************)
(* What the pump promises to whoever waters plants with it: requests are   *)
(* served in the order they come, each with the seconds it asks for.  One  *)
(* of n seconds runs the pump for at least n ticks of the clock and at     *)
(* most n + 1 + Slack, unless a later one replaces it; only a power cycle  *)
(* loses a request or cuts a run short.                                    *)
(***************************************************************************)
EXTENDS Integers, Sequences

CONSTANTS Seconds,  \* the durations that may be requested
          Nothing,  \* what a message asks for that is no request
          Slack     \* ticks the pump may be late in stopping

VARIABLES inbox,  \* the messages that wait: durations, or Nothing
          now, on, due

Init == inbox = <<>> /\ now = 0 /\ on = FALSE /\ due = 0

\* Time passes, but not far beyond the end of a run.
Tick ==
  /\ on => now < due + Slack
  /\ now' = now + 1
  /\ UNCHANGED <<inbox, on, due>>

Arrive ==
  /\ \E m \in Seconds \cup {Nothing} : inbox' = Append(inbox, m)
  /\ UNCHANGED <<now, on, due>>

Ignore ==
  /\ inbox # <<>> /\ Head(inbox) = Nothing
  /\ inbox' = Tail(inbox)
  /\ UNCHANGED <<now, on, due>>

\* The first request is read: it falls within a tick, so n seconds end n + 1 ticks later.
Read ==
  /\ inbox # <<>> /\ Head(inbox) \in Seconds
  /\ due' = now + Head(inbox) + 1
  /\ UNCHANGED <<inbox, now, on>>

\* Its run begins, with the deadline that was read: no more than a tick has passed.
Run ==
  /\ inbox # <<>> /\ Head(inbox) \in Seconds
  /\ due - Head(inbox) \in {now, now + 1}
  /\ on' = TRUE
  /\ inbox' = Tail(inbox)
  /\ UNCHANGED <<now, due>>

Stop ==
  /\ on
  /\ now >= due
  /\ on' = FALSE /\ due' = 0
  /\ UNCHANGED <<inbox, now>>

PowerCycle == inbox' = <<>> /\ now' = 0 /\ on' = FALSE /\ due' = 0

Next == Tick \/ Arrive \/ Ignore \/ Read \/ Run \/ Stop \/ PowerCycle

Spec == Init /\ [][Next]_<<inbox, now, on, due>>
=============================================================================
