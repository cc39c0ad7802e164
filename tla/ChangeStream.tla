---------------------------- MODULE ChangeStream ----------------------------
(***************************************************************************)
(* What GET /stream/changes promises a client, without the channels, the   *)
(* lock and the fan-out that provide it (EventHub).  The stream is         *)
(* live-only: it starts at the event after the subscription, and until it  *)
(* ends it carries every event, in the one order all streams share.  A     *)
(* stream may end at any time, and its end is the only sign of a loss.     *)
(***************************************************************************)
EXTENDS Naturals, Sequences

CONSTANTS
  Streams,   \* requests for GET /stream/changes
  Events,    \* event ids
  MaxEvents  \* bound: events that DeliveredOrEnded looks at

VARIABLES
  log,      \* every event published, in order of publication
  open,     \* streams that are being served
  since,    \* stream -> number of events published before it was opened
  written   \* stream -> events written to its response

streamVars == <<log, open, since, written>>

Position(s) == since[s] + Len(written[s])

Publish(e) ==
  /\ log' = Append(log, e)
  /\ UNCHANGED <<open, since, written>>

Open(s) ==
  /\ s \notin open
  /\ open' = open \cup {s}
  /\ since' = [since EXCEPT ![s] = Len(log)]
  /\ written' = [written EXCEPT ![s] = <<>>]
  /\ UNCHANGED log

Write(s) ==
  /\ s \in open
  /\ Position(s) < Len(log)
  /\ written' = [written EXCEPT ![s] = Append(@, log[Position(s) + 1])]
  /\ UNCHANGED <<log, open, since>>

End(s) ==
  /\ s \in open
  /\ open' = open \ {s}
  /\ UNCHANGED <<log, since, written>>

Init ==
  /\ log = <<>>
  /\ open = {}
  /\ since = [s \in Streams |-> 0]
  /\ written = [s \in Streams |-> <<>>]

Next ==
  \/ \E e \in Events : Publish(e)
  \/ \E s \in Streams : Open(s) \/ Write(s) \/ End(s)

Spec == Init /\ [][Next]_streamVars

\* Every stream that is open when an event is published carries it, or ends.
DeliveredOrEnded ==
  \A s \in Streams, n \in 1..MaxEvents :
    (s \in open /\ n <= Len(log)) ~> (s \notin open \/ n <= Position(s))
=============================================================================
