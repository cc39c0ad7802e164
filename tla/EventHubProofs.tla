--------------------------- MODULE EventHubProofs ---------------------------
(***************************************************************************)
(* Theorems about EventHub, for any number of publishers and streams, any  *)
(* buffer capacity and any number of events.                               *)
(***************************************************************************)
EXTENDS EventHub, SequenceTheorems, TLAPS

\* The empty sequence is a sequence of events.
LEMMA NoEvents == <<>> \in Seq(EventIDs) /\ Len(<<>>) = 0
BY EmptySeq

\* The invariant holds initially.
LEMMA IInvInit == Init => IInv
<1> SUFFICES ASSUME Init PROVE IInv
  OBVIOUS
<1> USE MaxEventsAssumption, FreeAssumption, NoEvents
<1>1. TypeOK
  <2>1. /\ buffer \in [Streams -> Seq(EventIDs)]
        /\ written \in [Streams -> Seq(EventIDs)]
        /\ log \in Seq(EventIDs)
    BY DEF Init
  <2>2. /\ counter \in 0..MaxEvents
        /\ pending \in [Publishers -> 0..MaxEvents]
        /\ held \in [Streams -> 0..MaxEvents]
        /\ since \in [Streams -> Nat]
    BY DEF Init
  <2>3. handler \in [Streams -> Steps]
    BY DEF Init, Steps
  <2>4. QED
    BY <2>1, <2>2, <2>3 DEF Init, TypeOK
<1>2. NoPanic /\ RegisteredOpen
  BY DEF Init, NoPanic, RegisteredOpen
<1>3. UniqueIDs
  BY DEF Init, UniqueIDs
<1>4. Contiguous
  BY DEF Init, Contiguous, ContiguousAt, Taken
<1>5. QED
  BY <1>1, <1>2, <1>3, <1>4 DEF IInv

\* Every step keeps the variables in their sorts.
LEMMA TypeStep == TypeOK /\ UniqueIDs /\ Contiguous /\ [Next]_vars => TypeOK'
<1> SUFFICES ASSUME TypeOK, UniqueIDs, Contiguous, [Next]_vars PROVE TypeOK'
  OBVIOUS
<1> USE BufferAssumption, MaxEventsAssumption, FreeAssumption
<1> USE DEF TypeOK, Steps, vars, hubVars, streamVars, chanVars
<1>1. ASSUME NEW p \in Publishers, NextID(p) PROVE TypeOK'
  BY <1>1 DEF NextID, EventIDs
<1>2. ASSUME NEW p \in Publishers, Lock(p) PROVE TypeOK'
  <2>1. pending[p] \in EventIDs
    BY <1>2 DEF Lock, EventIDs
  <2>2. Append(log, pending[p]) \in Seq(EventIDs)
    BY <2>1, AppendProperties
  <2>3. QED
    BY <1>2, <2>2 DEF Lock
<1>3. ASSUME NEW p \in Publishers, Unlock(p) PROVE TypeOK'
  BY <1>3 DEF Unlock
<1>4. ASSUME NEW p \in Publishers, NEW s \in Streams, Send(p, s) PROVE TypeOK'
  <2>1. pending[p] \in EventIDs
    BY <1>4, EmptySeq, LenProperties, ElementOfSeq DEF Send, UniqueIDs
  <2>2. Append(buffer[s], pending[p]) \in Seq(EventIDs)
    BY <2>1, AppendProperties
  <2>3. buffer' \in [Streams -> Seq(EventIDs)]
    BY <1>4, <2>2 DEF Send
  <2>4. /\ counter' \in 0..MaxEvents /\ pending' \in [Publishers -> 0..MaxEvents]
        /\ held' \in [Streams -> 0..MaxEvents]
    BY <1>4 DEF Send
  <2>5. slow' \subseteq Streams /\ panicked' \in BOOLEAN
    BY <1>4 DEF Send
  <2>6. QED
    BY <1>4, <2>3, <2>4, <2>5 DEF Send
<1>5. ASSUME NEW p \in Publishers, NEW s \in Streams, Evict(p, s) PROVE TypeOK'
  BY <1>5 DEF Evict, Close
<1>6. ASSUME NEW s \in Streams, Subscribe(s) PROVE TypeOK'
  BY <1>6, NoEvents, LenProperties DEF Subscribe
<1>7. ASSUME NEW s \in Streams, WriteComment(s) PROVE TypeOK'
  BY <1>7 DEF WriteComment
<1>8. ASSUME NEW s \in Streams, KeepAlive(s) PROVE TypeOK'
  BY <1>8 DEF KeepAlive
<1>9. ASSUME NEW s \in Streams, Receive(s) PROVE TypeOK'
  <2>1. Head(buffer[s]) \in EventIDs /\ Tail(buffer[s]) \in Seq(EventIDs)
    BY <1>9, HeadTailProperties DEF Receive
  <2>2. Head(buffer[s]) \in 0..MaxEvents
    BY <2>1 DEF EventIDs
  <2>3. QED
    BY <1>9, <2>1, <2>2 DEF Receive
<1>10. ASSUME NEW s \in Streams, WriteEvent(s) PROVE TypeOK'
  <2>1. held[s] \in EventIDs
    <3>1. /\ Len(written[s]) \in Nat /\ Len(buffer[s]) \in Nat /\ Len(log) \in Nat
          /\ since[s] \in Nat
      BY LenProperties
    <3>2. ContiguousAt(s) /\ handler[s] = "event"
      BY <1>10 DEF WriteEvent, Contiguous
    <3>3. Taken(s) \in 1..Len(log) /\ held[s] = log[Taken(s)]
      BY <3>1, <3>2 DEF ContiguousAt, Taken
    <3>4. QED
      BY <3>3, ElementOfSeq
  <2>2. Append(written[s], held[s]) \in Seq(EventIDs)
    BY <2>1, AppendProperties
  <2>3. QED
    BY <1>10, <2>2 DEF WriteEvent
<1>11. ASSUME NEW s \in Streams, ReceiveClosed(s) PROVE TypeOK'
  BY <1>11 DEF ReceiveClosed
<1>12. ASSUME NEW s \in Streams, Disconnect(s) PROVE TypeOK'
  BY <1>12 DEF Disconnect
<1>13. ASSUME NEW s \in Streams, ContextDone(s) PROVE TypeOK'
  BY <1>13 DEF ContextDone
<1>14. ASSUME NEW s \in Streams, Cancel(s) PROVE TypeOK'
  BY <1>14 DEF Cancel, Close
<1>15. CASE UNCHANGED vars
  BY <1>15
<1>16. QED
  BY <1>1, <1>2, <1>3, <1>4, <1>5, <1>6, <1>7, <1>8, <1>9, <1>10, <1>11, <1>12, <1>13, <1>14, <1>15 DEF Next, FanOut, Handle

\* No step sends to or closes a closed channel, and none leaves a closed or
\* abandoned channel registered.
LEMMA RegisteredStep == TypeOK /\ NoPanic /\ RegisteredOpen /\ [Next]_vars => (NoPanic /\ RegisteredOpen)'
<1> SUFFICES ASSUME TypeOK /\ NoPanic /\ RegisteredOpen, [Next]_vars PROVE (NoPanic /\ RegisteredOpen)'
  OBVIOUS
<1> USE BufferAssumption, MaxEventsAssumption, FreeAssumption
<1> USE DEF TypeOK, NoPanic, RegisteredOpen, Steps, vars, hubVars, streamVars, chanVars
<1>1. ASSUME NEW p \in Publishers, NextID(p) PROVE (NoPanic /\ RegisteredOpen)'
  BY <1>1 DEF NextID
<1>2. ASSUME NEW p \in Publishers, Lock(p) PROVE (NoPanic /\ RegisteredOpen)'
  BY <1>2 DEF Lock
<1>3. ASSUME NEW p \in Publishers, Unlock(p) PROVE (NoPanic /\ RegisteredOpen)'
  BY <1>3 DEF Unlock
<1>4. ASSUME NEW p \in Publishers, NEW s \in Streams, Send(p, s) PROVE (NoPanic /\ RegisteredOpen)'
  BY <1>4 DEF Send
<1>5. ASSUME NEW p \in Publishers, NEW s \in Streams, Evict(p, s) PROVE (NoPanic /\ RegisteredOpen)'
  BY <1>5 DEF Evict, Close
<1>6. ASSUME NEW s \in Streams, Subscribe(s) PROVE (NoPanic /\ RegisteredOpen)'
  BY <1>6 DEF Subscribe
<1>7. ASSUME NEW s \in Streams, WriteComment(s) PROVE (NoPanic /\ RegisteredOpen)'
  BY <1>7 DEF WriteComment
<1>8. ASSUME NEW s \in Streams, KeepAlive(s) PROVE (NoPanic /\ RegisteredOpen)'
  BY <1>8 DEF KeepAlive
<1>9. ASSUME NEW s \in Streams, Receive(s) PROVE (NoPanic /\ RegisteredOpen)'
  BY <1>9 DEF Receive
<1>10. ASSUME NEW s \in Streams, WriteEvent(s) PROVE (NoPanic /\ RegisteredOpen)'
  BY <1>10 DEF WriteEvent
<1>11. ASSUME NEW s \in Streams, ReceiveClosed(s) PROVE (NoPanic /\ RegisteredOpen)'
  BY <1>11 DEF ReceiveClosed
<1>12. ASSUME NEW s \in Streams, Disconnect(s) PROVE (NoPanic /\ RegisteredOpen)'
  BY <1>12 DEF Disconnect
<1>13. ASSUME NEW s \in Streams, ContextDone(s) PROVE (NoPanic /\ RegisteredOpen)'
  BY <1>13 DEF ContextDone
<1>14. ASSUME NEW s \in Streams, Cancel(s) PROVE (NoPanic /\ RegisteredOpen)'
  BY <1>14 DEF Cancel, Close
<1>15. CASE UNCHANGED vars
  BY <1>15
<1>16. QED
  BY <1>1, <1>2, <1>3, <1>4, <1>5, <1>6, <1>7, <1>8, <1>9, <1>10, <1>11, <1>12, <1>13, <1>14, <1>15 DEF Next, FanOut, Handle

\* Ids stay unique.
LEMMA UniqueStep == TypeOK /\ UniqueIDs /\ [Next]_vars => UniqueIDs'
<1> SUFFICES ASSUME TypeOK /\ UniqueIDs, [Next]_vars PROVE UniqueIDs'
  OBVIOUS
<1> USE BufferAssumption, MaxEventsAssumption, FreeAssumption
<1> USE DEF TypeOK, UniqueIDs, EventIDs, vars, hubVars, streamVars, chanVars
<1>1. ASSUME NEW p \in Publishers, NextID(p) PROVE UniqueIDs'
  BY <1>1 DEF NextID
<1>2. ASSUME NEW p \in Publishers, Lock(p) PROVE UniqueIDs'
  <2>1. /\ log \in Seq(EventIDs) /\ pending[p] \in EventIDs /\ Len(log) \in Nat
        /\ log' = Append(log, pending[p]) /\ mu = Free /\ mu' = p
        /\ pending' = pending /\ counter' = counter
    BY <1>2, LenProperties DEF Lock
  <2>2. /\ Len(log') = Len(log) + 1
        /\ \A i \in 1..Len(log) : log'[i] = log[i]
        /\ log'[Len(log) + 1] = pending[p]
    BY <2>1, AppendProperties
  <2>3. \A i \in 1..Len(log) : log[i] # pending[p]
    BY <1>2, <2>1, FreeAssumption
  <2>4. ASSUME NEW i \in 1..Len(log'), NEW j \in 1..Len(log'), log'[i] = log'[j]
        PROVE  i = j
    BY <2>1, <2>2, <2>3, <2>4
  <2>5. \A i \in 1..Len(log') : log'[i] <= counter'
    BY <2>1, <2>2
  <2>6. ASSUME NEW q \in Publishers, q # p, NEW i \in 1..Len(log')
        PROVE  pending[q] # log'[i]
    <3>1. mu # q
      BY <2>1, FreeAssumption
    <3>2. pending[q] # pending[p]
      BY <2>1, <2>6
    <3>3. QED
      BY <2>1, <2>2, <3>1, <3>2
  <2>7. QED
    BY <2>1, <2>2, <2>4, <2>5, <2>6, EmptySeq
<1>3. ASSUME NEW p \in Publishers, Unlock(p) PROVE UniqueIDs'
  BY <1>3 DEF Unlock
<1>4. ASSUME NEW p \in Publishers, NEW s \in Streams, Send(p, s) PROVE UniqueIDs'
  BY <1>4 DEF Send
<1>5. ASSUME NEW p \in Publishers, NEW s \in Streams, Evict(p, s) PROVE UniqueIDs'
  BY <1>5 DEF Evict, Close
<1>6. ASSUME NEW s \in Streams, Subscribe(s) PROVE UniqueIDs'
  BY <1>6 DEF Subscribe
<1>7. ASSUME NEW s \in Streams, WriteComment(s) PROVE UniqueIDs'
  BY <1>7 DEF WriteComment
<1>8. ASSUME NEW s \in Streams, KeepAlive(s) PROVE UniqueIDs'
  BY <1>8 DEF KeepAlive
<1>9. ASSUME NEW s \in Streams, Receive(s) PROVE UniqueIDs'
  BY <1>9 DEF Receive
<1>10. ASSUME NEW s \in Streams, WriteEvent(s) PROVE UniqueIDs'
  BY <1>10 DEF WriteEvent
<1>11. ASSUME NEW s \in Streams, ReceiveClosed(s) PROVE UniqueIDs'
  BY <1>11 DEF ReceiveClosed
<1>12. ASSUME NEW s \in Streams, Disconnect(s) PROVE UniqueIDs'
  BY <1>12 DEF Disconnect
<1>13. ASSUME NEW s \in Streams, ContextDone(s) PROVE UniqueIDs'
  BY <1>13 DEF ContextDone
<1>14. ASSUME NEW s \in Streams, Cancel(s) PROVE UniqueIDs'
  BY <1>14 DEF Cancel, Close
<1>15. CASE UNCHANGED vars
  BY <1>15
<1>16. QED
  BY <1>1, <1>2, <1>3, <1>4, <1>5, <1>6, <1>7, <1>8, <1>9, <1>10, <1>11, <1>12, <1>13, <1>14, <1>15 DEF Next, FanOut, Handle

\* A step that leaves the log and everything about stream t alone, except for
\* where its handler waits, leaves it contiguous.
LEMMA Untouched ==
  ASSUME NEW t \in Streams, ContiguousAt(t), log' = log,
         since'[t] = since[t], written'[t] = written[t],
         buffer'[t] = buffer[t], held'[t] = held[t],
         handler'[t] = "event" <=> handler[t] = "event",
         handler'[t] # "idle" => handler[t] # "idle",
         t \in registered' =>
           /\ t \in registered
           /\ t \in todo' \cup slow' <=> t \in todo \cup slow
  PROVE  ContiguousAt(t)'
BY DEF ContiguousAt, Taken

\* Streams stay contiguous.
LEMMA ContiguousStep ==
  TypeOK /\ RegisteredOpen /\ UniqueIDs /\ Contiguous /\ [Next]_vars => Contiguous'
<1> SUFFICES ASSUME TypeOK, RegisteredOpen, UniqueIDs, Contiguous, [Next]_vars,
                    NEW t \in Streams
             PROVE  ContiguousAt(t)'
  BY DEF Contiguous
<1>a. ContiguousAt(t)
  BY DEF Contiguous
<1> USE DEF TypeOK, RegisteredOpen, vars, hubVars, streamVars, chanVars
<1>1. ASSUME NEW p \in Publishers, NextID(p) PROVE ContiguousAt(t)'
  BY <1>a, <1>1, Untouched DEF NextID
<1>2. ASSUME NEW p \in Publishers, Lock(p) PROVE ContiguousAt(t)'
  <2> USE <1>2 DEF Lock
  <2>1. /\ log \in Seq(EventIDs) /\ pending[p] \in EventIDs
        /\ Len(log') = Len(log) + 1
        /\ \A i \in 1..Len(log) : log'[i] = log[i]
    BY AppendProperties DEF EventIDs
  <2>2. /\ Len(written[t]) \in Nat /\ Len(buffer[t]) \in Nat /\ Len(log) \in Nat
        /\ since[t] \in Nat
    BY LenProperties
  <2>3. Taken(t) \in Nat /\ Taken(t)' = Taken(t) /\ Taken(t) >= since[t] + Len(written[t])
    BY <2>2 DEF Taken
  <2>4. \A i \in 1..Len(written[t]) : since[t] + i \in 1..Len(log)
    BY <1>a, <2>2, <2>3 DEF ContiguousAt
  <2>5. \A i \in 1..Len(buffer[t]) : Taken(t) + i \in 1..Len(log)
    BY <1>a, <2>2, <2>3 DEF ContiguousAt
  <2>6. handler[t] = "event" => Taken(t) \in 1..Len(log)
    BY <1>a, <2>2, <2>3 DEF ContiguousAt, Taken
  <2>7. QED
    BY <1>a, <2>1, <2>2, <2>3, <2>4, <2>5, <2>6 DEF ContiguousAt
<1>3. ASSUME NEW p \in Publishers, Unlock(p) PROVE ContiguousAt(t)'
  BY <1>a, <1>3, Untouched DEF Unlock
<1>4. ASSUME NEW p \in Publishers, NEW s \in Streams, Send(p, s) PROVE ContiguousAt(t)'
  <2>1. CASE t = s /\ Len(buffer[s]) < Buffer
    <3>1. /\ log # <<>> /\ pending[p] = log[Len(log)] /\ pending[p] \in EventIDs
          /\ s \in registered
          /\ todo' = todo \ {s} /\ slow' = slow /\ s \notin slow /\ s \in todo
      BY <1>4, <2>1, FreeAssumption, EmptySeq, ElementOfSeq, LenProperties DEF Send, UniqueIDs
    <3>2. /\ buffer[s] \in Seq(EventIDs)
          /\ buffer'[s] = Append(buffer[s], pending[p])
      BY <1>4, <2>1 DEF Send
    <3>3. /\ Len(buffer'[s]) = Len(buffer[s]) + 1
          /\ \A i \in 1..Len(buffer[s]) : buffer'[s][i] = buffer[s][i]
          /\ buffer'[s][Len(buffer[s]) + 1] = pending[p]
      BY <3>1, <3>2, AppendProperties
    <3>4. /\ Len(written[s]) \in Nat /\ Len(buffer[s]) \in Nat /\ Len(log) \in Nat
          /\ since[s] \in Nat
      BY LenProperties
    <3>5. Taken(s) \in Nat /\ Taken(s)' = Taken(s)
      BY <1>4, <3>4 DEF Send, Taken
    <3>6. Taken(s) + Len(buffer[s]) = Len(log) - 1
      BY <1>a, <2>1, <3>1 DEF ContiguousAt
    <3>a. Taken(s) + (Len(buffer[s]) + 1) = Len(log)
      BY <3>4, <3>5, <3>6
    <3>7. ASSUME NEW i \in 1..Len(buffer'[s]), handler[s] # "idle"
          PROVE  buffer'[s][i] = log[Taken(s) + i]
      <4>1. CASE i \in 1..Len(buffer[s])
        BY <1>a, <2>1, <3>3, <3>7, <4>1 DEF ContiguousAt
      <4>2. CASE i = Len(buffer[s]) + 1
        BY <3>1, <3>3, <3>a, <4>2
      <4>3. QED
        BY <3>3, <3>4, <4>1, <4>2
    <3>8. Taken(s) + Len(buffer'[s]) = Len(log)
      BY <3>3, <3>a
    <3>9. QED
      BY <1>a, <1>4, <2>1, <3>1, <3>4, <3>5, <3>7, <3>8 DEF ContiguousAt, Send
  <2>2. CASE t = s /\ ~(Len(buffer[s]) < Buffer)
    BY <1>a, <1>4, <2>2, Untouched DEF Send
  <2>3. CASE t # s
    BY <1>a, <1>4, <2>3, Untouched DEF Send
  <2>4. QED
    BY <2>1, <2>2, <2>3
<1>5. ASSUME NEW p \in Publishers, NEW s \in Streams, Evict(p, s) PROVE ContiguousAt(t)'
  BY <1>a, <1>5, Untouched DEF Evict, Close
<1>6. ASSUME NEW s \in Streams, Subscribe(s) PROVE ContiguousAt(t)'
  <2>1. CASE t = s
    <3>1. /\ log' = log /\ since'[s] = Len(log) /\ written'[s] = <<>> /\ buffer'[s] = <<>>
          /\ handler'[s] = "comment" /\ s \notin todo' \cup slow'
      BY <1>6 DEF Subscribe
    <3>2. Len(log) \in Nat /\ Len(<<>>) = 0
      BY LenProperties, EmptySeq
    <3>3. Taken(s)' = Len(log)
      BY <3>1, <3>2 DEF Taken
    <3>4. QED
      BY <2>1, <3>1, <3>2, <3>3 DEF ContiguousAt
  <2>2. CASE t # s
    BY <1>a, <1>6, <2>2, Untouched DEF Subscribe
  <2>3. QED
    BY <2>1, <2>2
<1>7. ASSUME NEW s \in Streams, WriteComment(s) PROVE ContiguousAt(t)'
  BY <1>a, <1>7, Untouched DEF WriteComment
<1>8. ASSUME NEW s \in Streams, KeepAlive(s) PROVE ContiguousAt(t)'
  BY <1>a, <1>8, Untouched DEF KeepAlive
<1>9. ASSUME NEW s \in Streams, Receive(s) PROVE ContiguousAt(t)'
  <2>1. CASE t = s
    <3>1. /\ log' = log /\ since' = since /\ written' = written
          /\ held'[s] = Head(buffer[s]) /\ buffer'[s] = Tail(buffer[s])
          /\ handler[s] = "select" /\ handler'[s] = "event"
          /\ todo' = todo /\ slow' = slow /\ registered' = registered
          /\ buffer[s] \in Seq(EventIDs) /\ buffer[s] # <<>>
      BY <1>9 DEF Receive, Steps
    <3>2. /\ Len(buffer[s]) \in Nat /\ Len(buffer[s]) # 0
          /\ Len(buffer'[s]) = Len(buffer[s]) - 1
          /\ \A i \in 1..Len(buffer'[s]) : buffer'[s][i] = buffer[s][i + 1]
          /\ held'[s] = buffer[s][1]
      BY <3>1, HeadTailProperties, EmptySeq, LenProperties
    <3>3. /\ Len(written[s]) \in Nat /\ Len(log) \in Nat /\ since[s] \in Nat
      BY LenProperties
    <3>4. Taken(s) \in Nat /\ Taken(s)' = Taken(s) + 1
      BY <3>1, <3>3 DEF Taken
    <3>5. \A i \in 1..Len(buffer'[s]) : buffer'[s][i] = log[Taken(s) + 1 + i]
      <4>1. TAKE i \in 1..Len(buffer'[s])
      <4>2. i + 1 \in 1..Len(buffer[s]) /\ Taken(s) + (i + 1) = Taken(s) + 1 + i
        BY <3>2, <3>4
      <4>3. buffer[s][i + 1] = log[Taken(s) + (i + 1)]
        BY <1>a, <2>1, <3>1, <4>2 DEF ContiguousAt
      <4>4. QED
        BY <3>2, <4>2, <4>3
    <3>6. held'[s] = log[Taken(s) + 1]
      BY <1>a, <2>1, <3>1, <3>2 DEF ContiguousAt
    <3>7. Taken(s)' + Len(buffer'[s]) = Taken(s) + Len(buffer[s])
      BY <3>2, <3>4
    <3>8. QED
      BY <1>a, <2>1, <3>1, <3>4, <3>5, <3>6, <3>7 DEF ContiguousAt
  <2>2. CASE t # s
    BY <1>a, <1>9, <2>2, Untouched DEF Receive
  <2>3. QED
    BY <2>1, <2>2
<1>10. ASSUME NEW s \in Streams, WriteEvent(s) PROVE ContiguousAt(t)'
  <2>1. CASE t = s
    <3>1. /\ log' = log /\ since' = since /\ buffer' = buffer /\ held' = held
          /\ written'[s] = Append(written[s], held[s])
          /\ handler[s] = "event" /\ handler'[s] = "select"
          /\ todo' = todo /\ slow' = slow /\ registered' = registered
          /\ written[s] \in Seq(EventIDs)
      BY <1>10 DEF WriteEvent, Steps
    <3>2. /\ Len(written[s]) \in Nat /\ Len(buffer[s]) \in Nat /\ Len(log) \in Nat
          /\ since[s] \in Nat
      BY LenProperties
    <3>3. Taken(s) = since[s] + Len(written[s]) + 1 /\ held[s] = log[Taken(s)]
      BY <1>a, <2>1, <3>1, <3>2 DEF ContiguousAt, Taken
    <3>4. held[s] \in EventIDs
      <4>1. Taken(s) \in 1..Len(log)
        BY <1>a, <2>1, <3>2, <3>3 DEF ContiguousAt
      <4>2. QED
        BY <3>3, <4>1, ElementOfSeq
    <3>5. /\ Len(written'[s]) = Len(written[s]) + 1
          /\ \A i \in 1..Len(written[s]) : written'[s][i] = written[s][i]
          /\ written'[s][Len(written[s]) + 1] = held[s]
      BY <3>1, <3>4, AppendProperties
    <3>6. Taken(s)' = Taken(s)
      BY <3>1, <3>2, <3>3, <3>5 DEF Taken
    <3>7. ASSUME NEW i \in 1..Len(written'[s])
          PROVE  written'[s][i] = log[since[s] + i]
      <4>1. CASE i \in 1..Len(written[s])
        BY <1>a, <2>1, <3>5, <4>1 DEF ContiguousAt
      <4>2. CASE i = Len(written[s]) + 1
        <5>1. since[s] + i = Taken(s)
          BY <3>2, <3>3, <4>2
        <5>2. QED
          BY <3>3, <3>5, <4>2, <5>1
      <4>3. QED
        BY <3>2, <3>5, <4>1, <4>2
    <3>8. QED
      BY <1>a, <2>1, <3>1, <3>6, <3>7 DEF ContiguousAt
  <2>2. CASE t # s
    BY <1>a, <1>10, <2>2, Untouched DEF WriteEvent
  <2>3. QED
    BY <2>1, <2>2
<1>11. ASSUME NEW s \in Streams, ReceiveClosed(s) PROVE ContiguousAt(t)'
  BY <1>a, <1>11, Untouched DEF ReceiveClosed
<1>12. ASSUME NEW s \in Streams, Disconnect(s) PROVE ContiguousAt(t)'
  BY <1>a, <1>12, Untouched DEF Disconnect
<1>13. ASSUME NEW s \in Streams, ContextDone(s) PROVE ContiguousAt(t)'
  BY <1>a, <1>13, Untouched DEF ContextDone
<1>14. ASSUME NEW s \in Streams, Cancel(s) PROVE ContiguousAt(t)'
  BY <1>a, <1>14, Untouched DEF Cancel, Close
<1>15. CASE UNCHANGED vars
  BY <1>a, <1>15, Untouched
<1>16. QED
  BY <1>1, <1>2, <1>3, <1>4, <1>5, <1>6, <1>7, <1>8, <1>9, <1>10, <1>11, <1>12, <1>13, <1>14, <1>15 DEF Next, FanOut, Handle

-----------------------------------------------------------------------------
(* The invariant and the refinement. *)

\* Every step keeps the invariant.
LEMMA IInvStep == IInv /\ [Next]_vars => IInv'
BY TypeStep, RegisteredStep, UniqueStep, ContiguousStep DEF IInv

\* In every reachable state, for any number of publishers and streams: the
\* channels are registered exactly while they are open, ids are unique, and what
\* a stream has written, holds and buffers is an interval of the event log.
THEOREM Invariant == SafetySpec => []IInv
<1>1. Init => IInv
  BY IInvInit
<1>2. IInv /\ [Next]_vars => IInv'
  BY IInvStep
<1>3. QED
  BY <1>1, <1>2, PTL DEF SafetySpec

\* The hub never panics: no send to a closed channel and no second close, in any
\* interleaving of fan-outs, evictions, subscriptions and cancellations.
THEOREM HubNeverPanics == SafetySpec => []NoPanic
<1>1. IInv => NoPanic
  BY DEF IInv
<1>2. QED
  BY <1>1, Invariant, PTL

\* The initial state of the hub is the initial state of the change stream.
LEMMA StreamInit == Init => Stream!Init
BY DEF Init, Stream!Init

\* Every step of the hub is a step of the change stream or leaves it alone.
LEMMA StreamStep == IInv /\ IInv' /\ [Next]_vars => [Stream!Next]_(Stream!streamVars)
<1> SUFFICES ASSUME IInv, IInv', [Next]_vars
             PROVE  Stream!Next \/ UNCHANGED Stream!streamVars
  OBVIOUS
<1> USE DEF vars, hubVars, streamVars, chanVars, Stream!streamVars
<1> TypeOK
  BY DEF IInv
<1> USE DEF TypeOK
<1>1. ASSUME NEW p \in Publishers, NextID(p) PROVE Stream!Next \/ UNCHANGED Stream!streamVars
  BY <1>1 DEF NextID
<1>2. ASSUME NEW p \in Publishers, Lock(p) PROVE Stream!Next \/ UNCHANGED Stream!streamVars
  <2>1. pending[p] \in EventIDs /\ log' = Append(log, pending[p])
    BY <1>2 DEF Lock, EventIDs
  <2>2. Stream!Publish(pending[p])
    BY <1>2, <2>1 DEF Lock, Stream!Publish
  <2>3. QED
    BY <2>1, <2>2 DEF Stream!Next
<1>3. ASSUME NEW p \in Publishers, Unlock(p) PROVE Stream!Next \/ UNCHANGED Stream!streamVars
  BY <1>3 DEF Unlock
<1>4. ASSUME NEW p \in Publishers, NEW s \in Streams, Send(p, s) PROVE Stream!Next \/ UNCHANGED Stream!streamVars
  BY <1>4 DEF Send
<1>5. ASSUME NEW p \in Publishers, NEW s \in Streams, Evict(p, s) PROVE Stream!Next \/ UNCHANGED Stream!streamVars
  BY <1>5 DEF Evict, Close
<1>6. ASSUME NEW s \in Streams, Subscribe(s) PROVE Stream!Next \/ UNCHANGED Stream!streamVars
  <2>1. Stream!Open(s)
    BY <1>6 DEF Subscribe, Stream!Open
  <2>2. QED
    BY <2>1 DEF Stream!Next
<1>7. ASSUME NEW s \in Streams, WriteComment(s) PROVE Stream!Next \/ UNCHANGED Stream!streamVars
  <2>1. \A r \in Streams : handler'[r] # "idle" <=> handler[r] # "idle"
    BY <1>7 DEF WriteComment
  <2>2. QED
    BY <1>7, <2>1 DEF WriteComment
<1>8. ASSUME NEW s \in Streams, KeepAlive(s) PROVE Stream!Next \/ UNCHANGED Stream!streamVars
  <2>1. \A r \in Streams : handler'[r] # "idle" <=> handler[r] # "idle"
    BY <1>8 DEF KeepAlive
  <2>2. QED
    BY <1>8, <2>1 DEF KeepAlive
<1>9. ASSUME NEW s \in Streams, Receive(s) PROVE Stream!Next \/ UNCHANGED Stream!streamVars
  <2>1. \A r \in Streams : handler'[r] # "idle" <=> handler[r] # "idle"
    BY <1>9 DEF Receive
  <2>2. QED
    BY <1>9, <2>1 DEF Receive
<1>10. ASSUME NEW s \in Streams, WriteEvent(s) PROVE Stream!Next \/ UNCHANGED Stream!streamVars
  <2>1. /\ Len(written[s]) \in Nat /\ Len(buffer[s]) \in Nat /\ Len(log) \in Nat
        /\ since[s] \in Nat
    BY LenProperties
  <2>2. ContiguousAt(s) /\ handler[s] = "event"
    BY <1>10 DEF WriteEvent, IInv, Contiguous
  <2>3. /\ Stream!Position(s) < Len(log)
        /\ held[s] = log[Stream!Position(s) + 1]
    BY <2>1, <2>2 DEF ContiguousAt, Taken, Stream!Position
  <2>4. Stream!Write(s)
    BY <1>10, <2>2, <2>3 DEF WriteEvent, Stream!Write
  <2>5. QED
    BY <2>4 DEF Stream!Next
<1>11. ASSUME NEW s \in Streams, ReceiveClosed(s) PROVE Stream!Next \/ UNCHANGED Stream!streamVars
  <2>1. \A r \in Streams : handler'[r] # "idle" <=> handler[r] # "idle"
    BY <1>11 DEF ReceiveClosed
  <2>2. QED
    BY <1>11, <2>1 DEF ReceiveClosed
<1>12. ASSUME NEW s \in Streams, Disconnect(s) PROVE Stream!Next \/ UNCHANGED Stream!streamVars
  BY <1>12 DEF Disconnect
<1>13. ASSUME NEW s \in Streams, ContextDone(s) PROVE Stream!Next \/ UNCHANGED Stream!streamVars
  <2>1. \A r \in Streams : handler'[r] # "idle" <=> handler[r] # "idle"
    BY <1>13 DEF ContextDone
  <2>2. QED
    BY <1>13, <2>1 DEF ContextDone
<1>14. ASSUME NEW s \in Streams, Cancel(s) PROVE Stream!Next \/ UNCHANGED Stream!streamVars
  <2>1. Stream!End(s)
    BY <1>14 DEF Cancel, Stream!End
  <2>2. QED
    BY <2>1 DEF Stream!Next
<1>15. CASE UNCHANGED vars
  BY <1>15
<1>16. QED
  BY <1>1, <1>2, <1>3, <1>4, <1>5, <1>6, <1>7, <1>8, <1>9, <1>10, <1>11, <1>12, <1>13, <1>14, <1>15 DEF Next, FanOut, Handle

\* The event hub with its handlers implements the change stream: for any number
\* of publishers and streams and any buffer, every response carries an interval
\* of the event log, in order and without a gap.
THEOREM HubImplementsStream == SafetySpec => ImplementsChangeStream
<1>1. Init => Stream!Init
  BY StreamInit
<1>2. IInv /\ IInv' /\ [Next]_vars => [Stream!Next]_(Stream!streamVars)
  BY StreamStep
<1>3. QED
  BY <1>1, <1>2, Invariant, PTL DEF SafetySpec, Stream!Spec, ImplementsChangeStream
=============================================================================
