------------------------------ MODULE EventHub ------------------------------
(***************************************************************************)
(* The event hub (internal/events/publisher.go), the publishing half of    *)
(* the services (publish in internal/service/service.go), and the handler  *)
(* of GET /stream/changes (handleStream in internal/httpapi/router.go).    *)
(*                                                                         *)
(* Publishers are handler goroutines that have committed a change.         *)
(* Publish holds the mutex for the whole fan-out, but the receiving ends   *)
(* of the channels need no mutex: a stream takes events from its channel   *)
(* between any two sends, and drains what a closed channel still holds.    *)
(* The model therefore has one action per send, per close and per turn of  *)
(* the handler's select loop.                                              *)
(***************************************************************************)
EXTENDS Naturals, Sequences, FiniteSets

CONSTANTS
  Publishers,  \* goroutines that publish
  Streams,     \* goroutines that serve GET /stream/changes
  Buffer,      \* capacity of a subscriber's channel, 32 in the code
  MaxEvents,   \* bound: events published
  Free         \* the mutex is not held

ASSUME BufferAssumption == Buffer \in Nat \ {0}
ASSUME MaxEventsAssumption == MaxEvents \in Nat
ASSUME FreeAssumption == Free \notin Publishers

VARIABLES
  counter,     \* Hub.counter
  pending,     \* publisher -> id of the event it publishes, 0 when none
  mu,          \* publisher that holds Hub.mu, or Free
  todo,        \* subscribers the fan-out has not come to yet
  slow,        \* subscribers it found full
  registered,  \* Hub.subscribers
  buffer,      \* stream -> what its channel holds
  openChans,   \* streams whose channel is not closed
  panicked,    \* a closed channel was sent to or closed
  handler,     \* stream -> where its handler is
  held,        \* stream -> event it has received and not yet written
  gone,        \* streams whose request context is done
  log,         \* history: events in the order their publishers got the mutex
  since,       \* history: length of log when the stream subscribed
  written      \* events written to the response

hubVars == <<counter, pending, mu, todo, slow, registered, panicked, log>>
streamVars == <<handler, held, gone, since, written>>
chanVars == <<buffer, openChans>>
vars == <<hubVars, streamVars, chanVars>>

EventIDs == 1..MaxEvents

Steps == {"idle", "select", "comment", "event", "return"}

-----------------------------------------------------------------------------
(* Publish. *)

\* Hub.NextID, called before the mutex is taken.
NextID(p) ==
  /\ pending[p] = 0
  /\ counter < MaxEvents
  /\ counter' = counter + 1
  /\ pending' = [pending EXCEPT ![p] = counter + 1]
  /\ UNCHANGED <<mu, todo, slow, registered, panicked, log, streamVars, chanVars>>

Lock(p) ==
  /\ pending[p] # 0
  /\ mu = Free
  /\ mu' = p
  /\ todo' = registered
  /\ log' = Append(log, pending[p])
  /\ UNCHANGED <<counter, pending, slow, registered, panicked, streamVars, chanVars>>

\* Mutant: the send waits for room.
BugBlockingSend(p, s) ==
  /\ mu = p
  /\ s \in todo
  /\ Len(buffer[s]) < Buffer
  /\ todo' = todo \ {s}
  /\ buffer' = [buffer EXCEPT ![s] = Append(@, pending[p])]
  /\ UNCHANGED <<counter, pending, mu, slow, registered, panicked, log, streamVars, openChans>>

\* Mutant: a full channel is skipped and stays registered.
BugDropSilently(p, s) ==
  /\ mu = p
  /\ s \in todo
  /\ todo' = todo \ {s}
  /\ buffer' = IF Len(buffer[s]) < Buffer
               THEN [buffer EXCEPT ![s] = Append(@, pending[p])]
               ELSE buffer
  /\ UNCHANGED <<counter, pending, mu, slow, registered, panicked, log, streamVars, openChans>>

\* The select of Publish: send if there is room, otherwise remember s as slow.
\* The order is that of a range over a map: any.
Send(p, s) ==
  /\ mu = p
  /\ s \in todo
  /\ todo' = todo \ {s}
  /\ IF Len(buffer[s]) < Buffer
       THEN /\ buffer' = [buffer EXCEPT ![s] = Append(@, pending[p])]
            /\ panicked' = (panicked \/ s \notin openChans)
            /\ UNCHANGED slow
       ELSE /\ slow' = slow \cup {s}
            /\ UNCHANGED <<buffer, panicked>>
  /\ UNCHANGED <<counter, pending, mu, registered, log, streamVars, openChans>>

\* delete(h.subscribers, ch); close(ch)
Close(s) ==
  /\ registered' = registered \ {s}
  /\ openChans' = openChans \ {s}
  /\ panicked' = (panicked \/ s \notin openChans)

\* Mutant: the hub forgets a slow subscriber but leaves its channel open.
BugEvictWithoutClose(p, s) ==
  /\ mu = p
  /\ todo = {}
  /\ s \in slow
  /\ slow' = slow \ {s}
  /\ registered' = registered \ {s}
  /\ UNCHANGED <<counter, pending, mu, todo, panicked, log, streamVars, chanVars>>

Evict(p, s) ==
  /\ mu = p
  /\ todo = {}
  /\ s \in slow
  /\ slow' = slow \ {s}
  /\ Close(s)
  /\ UNCHANGED <<counter, pending, mu, todo, log, streamVars, buffer>>

Unlock(p) ==
  /\ mu = p
  /\ todo = {} /\ slow = {}
  /\ mu' = Free
  /\ pending' = [pending EXCEPT ![p] = 0]
  /\ UNCHANGED <<counter, todo, slow, registered, panicked, log, streamVars, chanVars>>

-----------------------------------------------------------------------------
(* GET /stream/changes. *)

\* Subscribe makes the channel and registers it; the handler goes on to write
\* the comment ": connected".
Subscribe(s) ==
  /\ handler[s] = "idle"
  /\ mu = Free
  /\ buffer' = [buffer EXCEPT ![s] = <<>>]
  /\ openChans' = openChans \cup {s}
  /\ registered' = registered \cup {s}
  /\ handler' = [handler EXCEPT ![s] = "comment"]
  /\ gone' = gone \ {s}
  /\ since' = [since EXCEPT ![s] = Len(log)]
  /\ written' = [written EXCEPT ![s] = <<>>]
  /\ UNCHANGED <<counter, pending, mu, todo, slow, panicked, log, held>>

\* The write and the flush of a comment return.
WriteComment(s) ==
  /\ handler[s] = "comment"
  /\ handler' = [handler EXCEPT ![s] = "select"]
  /\ UNCHANGED <<hubVars, held, gone, since, written, chanVars>>

\* The keepalive ticker fires.
KeepAlive(s) ==
  /\ handler[s] = "select"
  /\ handler' = [handler EXCEPT ![s] = "comment"]
  /\ UNCHANGED <<hubVars, held, gone, since, written, chanVars>>

\* event, ok := <-ch with ok true, which a closed channel still gives while
\* its buffer is not empty.
Receive(s) ==
  /\ handler[s] = "select"
  /\ buffer[s] # <<>>
  /\ held' = [held EXCEPT ![s] = Head(buffer[s])]
  /\ buffer' = [buffer EXCEPT ![s] = Tail(@)]
  /\ handler' = [handler EXCEPT ![s] = "event"]
  /\ UNCHANGED <<hubVars, gone, since, written, openChans>>

\* The write and the flush of an event return.
WriteEvent(s) ==
  /\ handler[s] = "event"
  /\ written' = [written EXCEPT ![s] = Append(@, held[s])]
  /\ handler' = [handler EXCEPT ![s] = "select"]
  /\ UNCHANGED <<hubVars, held, gone, since, chanVars>>

\* event, ok := <-ch with ok false: the hub has evicted this stream.
ReceiveClosed(s) ==
  /\ handler[s] = "select"
  /\ buffer[s] = <<>> /\ s \notin openChans
  /\ handler' = [handler EXCEPT ![s] = "return"]
  /\ UNCHANGED <<hubVars, held, gone, since, written, chanVars>>

\* The client goes away, and net/http cancels the context of the request.
Disconnect(s) ==
  /\ handler[s] # "idle"
  /\ gone' = gone \cup {s}
  /\ UNCHANGED <<hubVars, handler, held, since, written, chanVars>>

\* <-req.Context().Done()
ContextDone(s) ==
  /\ handler[s] = "select"
  /\ s \in gone
  /\ handler' = [handler EXCEPT ![s] = "return"]
  /\ UNCHANGED <<hubVars, held, gone, since, written, chanVars>>

\* Mutant: cancel does not look whether the hub has evicted the channel.
BugCancelAlways(s) ==
  /\ handler[s] = "return"
  /\ mu = Free
  /\ Close(s)
  /\ handler' = [handler EXCEPT ![s] = "idle"]
  /\ UNCHANGED <<counter, pending, mu, todo, slow, log, held, gone, since, written, buffer>>

\* The deferred cancel, after which the response ends.
Cancel(s) ==
  /\ handler[s] = "return"
  /\ mu = Free
  /\ IF s \in registered THEN Close(s) ELSE UNCHANGED <<registered, openChans, panicked>>
  /\ handler' = [handler EXCEPT ![s] = "idle"]
  /\ UNCHANGED <<counter, pending, mu, todo, slow, log, held, gone, since, written, buffer>>

-----------------------------------------------------------------------------
(* The specification. *)

Init ==
  /\ counter = 0
  /\ pending = [p \in Publishers |-> 0]
  /\ mu = Free
  /\ todo = {}
  /\ slow = {}
  /\ registered = {}
  /\ buffer = [s \in Streams |-> <<>>]
  /\ openChans = {}
  /\ panicked = FALSE
  /\ handler = [s \in Streams |-> "idle"]
  /\ held = [s \in Streams |-> 0]
  /\ gone = {}
  /\ log = <<>>
  /\ since = [s \in Streams |-> 0]
  /\ written = [s \in Streams |-> <<>>]

FanOut(p) == Unlock(p) \/ \E s \in Streams : Send(p, s) \/ Evict(p, s)

Handle(s) ==
  \/ Subscribe(s)
  \/ WriteComment(s)
  \/ KeepAlive(s)
  \/ Receive(s)
  \/ WriteEvent(s)
  \/ ReceiveClosed(s)
  \/ Disconnect(s)
  \/ ContextDone(s)
  \/ Cancel(s)

Next ==
  \/ \E p \in Publishers : NextID(p) \/ Lock(p) \/ FanOut(p)
  \/ \E s \in Streams : Handle(s)

\* The fan-out is code without a wait in it, and sync.RWMutex starves no writer.
PublisherFairness ==
  \A p \in Publishers : WF_vars(FanOut(p)) /\ SF_vars(Lock(p))

\* select chooses at random among the cases that are ready, so a case that is
\* ready again and again is taken.  A write returns because the client reads or
\* because its connection breaks: the server sets no WriteTimeout, so this is an
\* assumption about clients.  Nothing makes a client subscribe or leave.
HandlerFairness ==
  \A s \in Streams :
    /\ WF_vars(WriteComment(s)) /\ WF_vars(WriteEvent(s))
    /\ SF_vars(Receive(s)) /\ SF_vars(ReceiveClosed(s))
    /\ SF_vars(ContextDone(s)) /\ SF_vars(Cancel(s))

SafetySpec == Init /\ [][Next]_vars

Spec == SafetySpec /\ PublisherFairness

-----------------------------------------------------------------------------
(* Properties. *)

TypeOK ==
  /\ counter \in 0..MaxEvents
  /\ pending \in [Publishers -> 0..MaxEvents]
  /\ mu \in Publishers \cup {Free}
  /\ todo \subseteq Streams
  /\ slow \subseteq Streams
  /\ registered \subseteq Streams
  /\ buffer \in [Streams -> Seq(EventIDs)]
  /\ openChans \subseteq Streams
  /\ panicked \in BOOLEAN
  /\ handler \in [Streams -> Steps]
  /\ held \in [Streams -> 0..MaxEvents]
  /\ gone \subseteq Streams
  /\ log \in Seq(EventIDs)
  /\ since \in [Streams -> Nat]
  /\ written \in [Streams -> Seq(EventIDs)]

\* No interleaving of a fan-out with subscriptions, cancellations and evictions
\* sends to a closed channel or closes one twice, either of which panics.
NoPanic == ~panicked

\* A stream is registered exactly as long as its channel is open, only while its
\* handler runs: neither an eviction nor a cancel leaves anything behind in the
\* hub, and the fan-out works only on channels that are registered.
RegisteredOpen ==
  /\ registered = openChans
  /\ \A s \in Streams : s \in registered => handler[s] # "idle"
  /\ todo \cup slow \subseteq registered
  /\ todo \cap slow = {}
  /\ mu = Free => todo = {} /\ slow = {}

\* Events are identified: no two publishers ever get the same id.
UniqueIDs ==
  /\ \A i, j \in 1..Len(log) : log[i] = log[j] => i = j
  /\ \A i \in 1..Len(log) : log[i] <= counter
  /\ \A p, q \in Publishers : pending[p] # 0 /\ pending[p] = pending[q] => p = q
  /\ \A p \in Publishers : pending[p] <= counter
  /\ \A p \in Publishers : mu # p =>
       \A i \in 1..Len(log) : pending[p] # log[i]
  /\ mu # Free => log # <<>> /\ log[Len(log)] = pending[mu]

\* Events of the log that have left the channel of s.
Taken(s) == since[s] + Len(written[s]) + (IF handler[s] = "event" THEN 1 ELSE 0)

\* What was written, what is in hand and what is buffered follow each other in
\* the log without a gap; and while the stream is registered they reach its end,
\* except for the event the fan-out has still to send to it.
ContiguousAt(s) ==
  /\ \A i \in 1..Len(written[s]) : written[s][i] = log[since[s] + i]
  /\ Taken(s) + Len(buffer[s]) <= Len(log)
  /\ handler[s] # "idle" =>
       \A i \in 1..Len(buffer[s]) : buffer[s][i] = log[Taken(s) + i]
  /\ handler[s] = "event" => held[s] = log[Taken(s)]
  /\ s \in registered =>
       Taken(s) + Len(buffer[s]) = Len(log) - (IF s \in todo \cup slow THEN 1 ELSE 0)

Contiguous == \A s \in Streams : ContiguousAt(s)

\* The inductive invariant.
IInv == TypeOK /\ NoPanic /\ RegisteredOpen /\ UniqueIDs /\ Contiguous

\* The hub and its handlers provide the change stream.
Stream == INSTANCE ChangeStream WITH
  Events <- EventIDs,
  open   <- {s \in Streams : handler[s] # "idle"}

\* A response carries an interval of the published events: no gap, no repetition,
\* no reordering, whatever is buffered or evicted.
ImplementsChangeStream == Stream!Spec

\* When handlers run and clients read, a subscriber that is open when an event is
\* published gets it, or its response ends: an eviction never goes unnoticed.
DeliveredOrEnded == HandlerFairness => Stream!DeliveredOrEnded

\* Publish returns, even when no client reads and no handler makes a step.
PublishReturns == \A p \in Publishers : pending[p] # 0 ~> pending[p] = 0
=============================================================================
