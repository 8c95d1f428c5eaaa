---------------------------- MODULE SSEHubProofs ----------------------------
(***************************************************************************)
(* Proofs about SSEHub, for any number of streams, any capacities and any  *)
(* traffic.                                                                *)
(*                                                                         *)
(* RegistryExact is inductive once no channel is closed before its stream  *)
(* is registered.  InOrder is not: what a client was given behind its      *)
(* greeting must also be older than what the hub still has to hand out,    *)
(* and all of it older than the next broadcast.  OrderInv says so.  NoGap  *)
(* is shown stream by stream (Gapless), for a stream stays or leaves       *)
(* without the others.                                                     *)
(***************************************************************************)
EXTENDS SSEHub, SequenceTheorems, TLAPS

\* Only a snapshot that was pushed is ever broadcast, or dropped.
TypeInv == TypeOK /\ (sampler = "broadcast" => pushed # 0)

-----------------------------------------------------------------------------
\* What the two ends of a channel do to it, element by element.
LEMMA AppendElements ==
    ASSUME NEW S, NEW s \in Seq(S), NEW m \in S
    PROVE  /\ Append(s, m) \in Seq(S)
           /\ Len(Append(s, m)) = Len(s) + 1
           /\ \A i \in 1..Len(s) : Append(s, m)[i] = s[i]
           /\ Append(s, m)[Len(s) + 1] = m
OBVIOUS

LEMMA TailElements ==
    ASSUME NEW S, NEW s \in Seq(S), s # <<>>
    PROVE  /\ Head(s) \in S /\ Head(s) = s[1]
           /\ Tail(s) \in Seq(S)
           /\ Len(s) \in Nat \ {0}
           /\ Len(Tail(s)) = Len(s) - 1
           /\ \A i \in 1..Len(Tail(s)) : Tail(s)[i] = s[i + 1]
BY HeadTailProperties

LEMMA TailOfAppend ==
    ASSUME NEW S, NEW s \in Seq(S), NEW m \in S, s # <<>>
    PROVE  /\ Append(s, m) # <<>>
           /\ Head(Append(s, m)) = Head(s)
           /\ Tail(Append(s, m)) = Append(Tail(s), m)
OBVIOUS

LEMMA EmptyElements == \A S : <<>> \in Seq(S) /\ Len(<<>>) = 0
OBVIOUS

-----------------------------------------------------------------------------
\* What a step of the hub puts into the client channels (sse.go:59-65, 68-77).
LEMMA OfferTypes ==
    ASSUME HubAssumption, TypeOK, NEW m \in Message, Offer(m)
    PROVE  /\ buffer' \in [Conns -> Seq(Message)]
           /\ \A c \in Conns : Len(buffer'[c]) <= ClientBuffer
<1> DEFINE Next1(c) == IF c \in clients /\ HasRoom(c) THEN Append(buffer[c], m) ELSE buffer[c]
<1>1. ASSUME NEW c \in Conns
      PROVE  Next1(c) \in Seq(Message) /\ Len(Next1(c)) <= ClientBuffer
  <2>1. buffer[c] \in Seq(Message) /\ Len(buffer[c]) \in Nat /\ Len(buffer[c]) <= ClientBuffer
    BY DEF TypeOK
  <2>2. CASE c \in clients /\ HasRoom(c)
    <3>1. Append(buffer[c], m) \in Seq(Message) /\ Len(Append(buffer[c], m)) = Len(buffer[c]) + 1
      BY <2>1, AppendElements
    <3> QED
      BY <2>1, <2>2, <3>1 DEF HasRoom, HubAssumption
  <2>3. CASE ~(c \in clients /\ HasRoom(c))
    BY <2>1, <2>3
  <2> QED
    BY <2>2, <2>3
<1> QED
  BY <1>1 DEF Offer

\* The two kinds of channel stay within their capacities and every variable
\* keeps its type, whatever the streams, the producers and Close do.
LEMMA TypeStep == ASSUME HubAssumption, TypeInv, [Next]_vars PROVE TypeOK'
<1> USE DEF TypeInv, feedVars, hubVars, streamVars, lossVars
<1>0. /\ queue \in Seq(Message) /\ Len(queue) \in Nat
      /\ \A n \in 1..MaxSnapshots : Metrics(n) \in Message
      /\ \A n \in 1..MaxLogs : Log(n) \in Message
      /\ KeepAlive \in Message
      /\ \A s \in Seq(Message), m \in Message :
            Append(s, m) \in Seq(Message) /\ Len(Append(s, m)) = Len(s) + 1
      /\ <<>> \in Seq(Message) /\ Len(<<>>) = 0
      /\ \A s \in Seq(Message) : s # <<>> =>
            /\ Head(s) \in Message /\ Tail(s) \in Seq(Message)
            /\ Len(s) \in Nat /\ Len(Tail(s)) = Len(s) - 1
  <2>1. queue \in Seq(Message) /\ Len(queue) \in Nat
    BY DEF TypeOK
  <2>2. /\ \A n \in 1..MaxSnapshots : Metrics(n) \in Message
        /\ \A n \in 1..MaxLogs : Log(n) \in Message
        /\ KeepAlive \in Message
    BY DEF Message
  <2>3. \A s \in Seq(Message), m \in Message :
            Append(s, m) \in Seq(Message) /\ Len(Append(s, m)) = Len(s) + 1
    BY AppendElements
  <2>4. \A s \in Seq(Message) : s # <<>> =>
            /\ Head(s) \in Message /\ Tail(s) \in Seq(Message)
            /\ Len(s) \in Nat /\ Len(Tail(s)) = Len(s) - 1
    BY TailElements
  <2> QED
    BY <2>1, <2>2, <2>3, <2>4, EmptyElements
<1>1. CASE Push
  BY <1>1 DEF Push, TypeOK, HubAssumption
<1>2. CASE BroadcastSnapshot
  <2>1. pushed \in 1..MaxSnapshots
    BY <1>2 DEF BroadcastSnapshot, TypeOK
  <2>2. queue' \in Seq(Message) /\ Len(queue') <= QueueSize
    <3>1. CASE Len(queue) < QueueSize /\ queue' = Append(queue, Metrics(pushed))
      <4>1. Metrics(pushed) \in Message
        BY <1>0, <2>1
      <4>2. queue' \in Seq(Message) /\ Len(queue') = Len(queue) + 1
        BY <1>0, <3>1, <4>1
      <4> QED
        BY <1>0, <3>1, <4>2 DEF HubAssumption
    <3>2. CASE UNCHANGED queue
      BY <3>2 DEF TypeOK
    <3> QED
      BY <1>2, <3>1, <3>2 DEF BroadcastSnapshot
  <2>3. overflow' \subseteq 1..MaxSnapshots
    BY <1>2, <2>1 DEF BroadcastSnapshot, TypeOK
  <2> QED
    BY <1>2, <2>2, <2>3 DEF BroadcastSnapshot, TypeOK
<1>3. CASE BroadcastLog
  <2>1. logs + 1 \in 1..MaxLogs
    BY <1>3 DEF BroadcastLog, TypeOK, HubAssumption
  <2>2. queue' \in Seq(Message) /\ Len(queue') <= QueueSize
    BY <1>0, <1>3, <2>1 DEF BroadcastLog, TypeOK, HubAssumption
  <2> QED
    BY <1>3, <2>1, <2>2 DEF BroadcastLog, TypeOK
<1>4. CASE Close
  BY <1>4 DEF Close, TypeOK
<1>5. CASE FanOut
  <2>1. Head(queue) \in Message /\ Tail(queue) \in Seq(Message) /\ Len(Tail(queue)) <= QueueSize
    BY <1>0, <1>5 DEF FanOut, TypeOK, HubAssumption
  <2>2. SnapshotOf(Head(queue)) \subseteq 1..MaxSnapshots
    BY <2>1 DEF SnapshotOf, Message, Metrics, Log, KeepAlive
  <2>3. missed' \in [Conns -> SUBSET (1..MaxSnapshots)]
    BY <1>5, <2>2 DEF FanOut, TypeOK
  <2> QED
    BY <1>5, <2>1, <2>3, OfferTypes DEF FanOut, TypeOK
<1>6. CASE Heartbeat
  <2>1. beats' \in 0..MaxBeats
    BY <1>6 DEF Heartbeat, TypeOK, HubAssumption
  <2> QED
    BY <1>0, <1>6, <2>1, OfferTypes DEF Heartbeat, TypeOK
<1>7. CASE Stop
  BY <1>7 DEF Stop, TypeOK
<1>8. ASSUME NEW c \in Conns, Register(c) PROVE TypeOK'
  BY <1>8 DEF Register, TypeOK
<1>9. ASSUME NEW c \in Conns, Unregister(c) PROVE TypeOK'
  <2>1. /\ buffer' \in [Conns -> Seq(Message)] /\ got' \in [Conns -> Seq(Message)]
        /\ \A d \in Conns : Len(buffer'[d]) <= ClientBuffer
    BY <1>0, <1>9 DEF Unregister, Forget, TypeOK, HubAssumption
  <2>2. greeting' \in [Conns -> 0..MaxSnapshots] /\ missed' \in [Conns -> SUBSET (1..MaxSnapshots)]
    BY <1>9 DEF Unregister, Forget, TypeOK, HubAssumption
  <2> QED
    BY <1>9, <2>1, <2>2 DEF Unregister, Forget, TypeOK
<1>10. ASSUME NEW c \in Conns, Connect(c) PROVE TypeOK'
  BY <1>10 DEF Connect, Move, TypeOK
<1>11. ASSUME NEW c \in Conns, Greet(c) PROVE TypeOK'
  <2>1. greeting' \in [Conns -> 0..MaxSnapshots] /\ got' \in [Conns -> Seq(Message)]
    <3>1. pushed # 0 => Metrics(pushed) \in Message
      BY <1>0 DEF TypeOK, HubAssumption
    <3>2. pushed # 0 => \A d \in Conns : Append(got[d], Metrics(pushed)) \in Seq(Message)
      BY <1>0, <3>1 DEF TypeOK
    <3> QED
      BY <1>11, <3>2 DEF Greet, Greets, TypeOK
  <2> QED
    BY <1>11, <2>1 DEF Greet, Move, TypeOK
<1>12. ASSUME NEW c \in Conns, Deliver(c) PROVE TypeOK'
  <2>1. /\ buffer' \in [Conns -> Seq(Message)] /\ got' \in [Conns -> Seq(Message)]
        /\ \A d \in Conns : Len(buffer'[d]) <= ClientBuffer
    BY <1>0, <1>12 DEF Deliver, TypeOK, HubAssumption
  <2> QED
    BY <1>12, <2>1 DEF Deliver, TypeOK
<1>13. ASSUME NEW c \in Conns, WriteError(c) PROVE TypeOK'
  <2>1. /\ buffer' \in [Conns -> Seq(Message)]
        /\ \A d \in Conns : Len(buffer'[d]) <= ClientBuffer
    BY <1>0, <1>13 DEF WriteError, TypeOK, HubAssumption
  <2> QED
    BY <1>13, <2>1 DEF WriteError, Move, TypeOK
<1>14. ASSUME NEW c \in Conns, ChannelClosed(c) PROVE TypeOK'
  BY <1>14 DEF ChannelClosed, Move, TypeOK
<1>15. ASSUME NEW c \in Conns, ContextDone(c) PROVE TypeOK'
  BY <1>15 DEF ContextDone, Move, TypeOK
<1>16. ASSUME NEW c \in Conns, Disconnect(c) PROVE TypeOK'
  BY <1>16 DEF Disconnect, TypeOK
<1>17. CASE UNCHANGED vars
  BY <1>17 DEF vars, TypeOK
<1> QED
  BY <1>1, <1>2, <1>3, <1>4, <1>5, <1>6, <1>7, <1>8, <1>9, <1>10, <1>11, <1>12, <1>13,
     <1>14, <1>15, <1>16, <1>17 DEF Next, HubStep, HandlerStep

LEMMA SamplerStep ==
    ASSUME HubAssumption, TypeInv, [Next]_vars
    PROVE  sampler' = "broadcast" => pushed' # 0
<1> USE DEF TypeInv, TypeOK, feedVars
<1>1. CASE Push
  BY <1>1 DEF Push
<1>2. CASE BroadcastSnapshot
  BY <1>2 DEF BroadcastSnapshot
<1>3. CASE UNCHANGED <<pushed, sampler>>
  BY <1>3
<1> QED
  BY <1>1, <1>2, <1>3 DEF Next, HubStep, HandlerStep, vars, BroadcastLog, Close, FanOut, Heartbeat,
     Stop, Register, Unregister, Connect, Greet, Deliver, WriteError, ChannelClosed, ContextDone, Disconnect

LEMMA TypeInit == ASSUME HubAssumption, Init PROVE TypeInv
<1>1. queue \in Seq(Message) /\ Len(queue) <= QueueSize
  BY DEF Init, HubAssumption
<1>2. buffer \in [Conns -> Seq(Message)] /\ \A c \in Conns : Len(buffer[c]) <= ClientBuffer
  <2>1. \A c \in Conns : buffer[c] = <<>>
    BY DEF Init
  <2>2. \A c \in Conns : Len(buffer[c]) = 0
    BY <2>1, EmptyElements
  <2>3. buffer \in [Conns -> Seq(Message)]
    BY EmptyElements DEF Init
  <2> QED
    BY <2>2, <2>3 DEF HubAssumption
<1>3. got \in [Conns -> Seq(Message)]
  BY DEF Init
<1>4. /\ stream \in [Conns -> {"none", "register", "greet", "loop", "unregister", "ended"}]
      /\ greeting \in [Conns -> 0..MaxSnapshots]
      /\ missed \in [Conns -> SUBSET (1..MaxSnapshots)]
  BY DEF Init, HubAssumption
<1>5. /\ pushed \in 0..MaxSnapshots /\ logs \in 0..MaxLogs /\ beats \in 0..MaxBeats
      /\ sampler = "tick" /\ hub = "running" /\ stopped = FALSE
      /\ clients = {} /\ shut = {} /\ gone = {} /\ overflow = {}
  BY DEF Init, HubAssumption
<1>6. TypeOK
  BY <1>1, <1>2, <1>3, <1>4, <1>5 DEF TypeOK
<1> QED
  BY <1>5, <1>6 DEF TypeInv

LEMMA TypeInvHolds == ASSUME HubAssumption PROVE Spec => []TypeInv
<1>1. Init => TypeInv
  BY TypeInit
<1>2. TypeInv /\ [Next]_vars => TypeInv'
  BY TypeStep, SamplerStep DEF TypeInv
<1> QED
  BY <1>1, <1>2, PTL DEF Spec

\* Neither the hub's queue nor a client's channel ever holds more than its
\* capacity (sse.go:28, sse.go:148), and every variable keeps its type.
THEOREM TypeCorrect == ASSUME HubAssumption PROVE Spec => []TypeOK
<1>1. TypeInv => TypeOK
  BY DEF TypeInv
<1> QED
  BY <1>1, TypeInvHolds, PTL

-----------------------------------------------------------------------------
(* The registry *)

\* A channel is closed at the earliest when its stream was registered.
NotYetShut == \A c \in Conns : stream[c] \in {"none", "register"} => c \notin shut

RegistryInv == RegistryExact /\ NotYetShut

LEMMA RegistryStep ==
    ASSUME HubAssumption, TypeInv, TypeInv', RegistryInv, [Next]_vars
    PROVE  RegistryInv'
<1> USE DEF RegistryInv, RegistryExact, NotYetShut, Open, TypeInv, TypeOK, hubVars, streamVars
<1>1. ASSUME NEW c \in Conns, Register(c) PROVE RegistryInv'
  BY <1>1 DEF Register
<1>2. ASSUME NEW c \in Conns, Unregister(c) PROVE RegistryInv'
  BY <1>2 DEF Unregister, Forget
<1>3. CASE Stop
  BY <1>3 DEF Stop
<1>4. ASSUME NEW c \in Conns, Connect(c) PROVE RegistryInv'
  BY <1>4 DEF Connect, Move
<1>5. ASSUME NEW c \in Conns, HandlerStep(c) PROVE RegistryInv'
  <2>1. /\ UNCHANGED <<clients, shut>>
        /\ stream[c] \in {"greet", "loop"}
        /\ \/ stream' = stream
           \/ \E pc \in {"loop", "unregister"} : stream' = [stream EXCEPT ![c] = pc]
    BY <1>5 DEF HandlerStep, Greet, Deliver, WriteError, ChannelClosed, ContextDone, Move
  <2>2. CASE stream' = stream
    BY <2>1, <2>2
  <2>3. ASSUME NEW pc \in {"loop", "unregister"}, stream' = [stream EXCEPT ![c] = pc]
        PROVE  RegistryInv'
    <3>1. \A d \in Conns : Open(d)' <=> Open(d)
      BY <2>1, <2>3
    <3> QED
      BY <2>1, <2>3, <3>1
  <2> QED
    BY <2>1, <2>2, <2>3
<1>6. CASE UNCHANGED <<clients, shut, stream>>
  BY <1>6
<1> QED
  BY <1>1, <1>2, <1>3, <1>4, <1>5, <1>6 DEF Next, HubStep, Push, BroadcastSnapshot, BroadcastLog,
     Close, FanOut, Heartbeat, Disconnect, vars

LEMMA RegistryInvHolds == ASSUME HubAssumption PROVE Spec => []RegistryInv
<1>1. Init => RegistryInv
  BY DEF Init, RegistryInv, RegistryExact, NotYetShut, Open
<1>2. TypeInv /\ TypeInv' /\ RegistryInv /\ [Next]_vars => RegistryInv'
  BY RegistryStep
<1> QED
  BY <1>1, <1>2, TypeInvHolds, PTL DEF Spec

\* The hub's map holds exactly the streams whose channel is open, so the hub
\* never sends on a closed channel, never closes one twice and leaks none
\* (sse.go:44-55, 79-85).
THEOREM RegistryExactHolds == ASSUME HubAssumption PROVE Spec => []RegistryExact
<1>1. RegistryInv => RegistryExact
  BY DEF RegistryInv
<1> QED
  BY <1>1, RegistryInvHolds, PTL

-----------------------------------------------------------------------------
(* The greeting *)

\* A stream that is greeted with a snapshot gets it before anything else.
GreetedFirst(c) ==
    /\ stream[c] \in {"none", "register", "greet"} => got[c] = <<>> /\ greeting[c] = 0
    /\ greeting[c] # 0 => got[c] # <<>> /\ Head(got[c]) = Metrics(greeting[c])

GreetingInv == \A c \in Conns : GreetedFirst(c)

LEMMA GreetingStep ==
    ASSUME HubAssumption, TypeInv, GreetingInv, [Next]_vars
    PROVE  GreetingInv'
<1> USE DEF hubVars, streamVars
<1>1. ASSUME NEW c \in Conns, NEW d \in Conns, HandlerStep(c) \/ Unregister(c) \/ Connect(c) \/ Register(c), d # c
      PROVE  GreetedFirst(d)'
  <2>1. stream'[d] = stream[d] /\ greeting'[d] = greeting[d] /\ got'[d] = got[d]
    BY <1>1 DEF HandlerStep, Greet, Greets, Deliver, WriteError, ChannelClosed, ContextDone,
                Unregister, Forget, Connect, Register, Move, TypeInv, TypeOK
  <2> QED
    BY <2>1 DEF GreetingInv, GreetedFirst
<1>2. ASSUME NEW c \in Conns, Greet(c) PROVE GreetedFirst(c)'
  <2>1. got[c] = <<>> /\ stream'[c] = "loop"
    BY <1>2 DEF Greet, Move, GreetingInv, GreetedFirst, TypeInv, TypeOK
  <2>2. greeting'[c] = pushed /\ (pushed # 0 => got'[c] = <<Metrics(pushed)>>)
    BY <1>2, <2>1 DEF Greet, Greets, TypeInv, TypeOK
  <2>3. <<Metrics(pushed)>> # <<>> /\ Head(<<Metrics(pushed)>>) = Metrics(pushed)
    OBVIOUS
  <2> QED
    BY <2>1, <2>2, <2>3 DEF GreetedFirst, Metrics
<1>3. ASSUME NEW c \in Conns, Deliver(c) PROVE GreetedFirst(c)'
  <2>1. stream'[c] = "loop" /\ greeting' = greeting /\ buffer[c] # <<>>
    BY <1>3 DEF Deliver
  <2>2. Head(buffer[c]) \in Message
    BY <2>1, TailElements DEF TypeInv, TypeOK
  <2>3. got[c] \in Seq(Message) /\ got'[c] = Append(got[c], Head(buffer[c]))
    BY <1>3 DEF Deliver, TypeInv, TypeOK
  <2>4. got[c] # <<>> => got'[c] # <<>> /\ Head(got'[c]) = Head(got[c])
    BY <2>2, <2>3, TailOfAppend
  <2> QED
    BY <2>1, <2>4 DEF GreetingInv, GreetedFirst
<1>4. ASSUME NEW c \in Conns, Unregister(c) PROVE GreetedFirst(c)'
  BY <1>4 DEF Unregister, Forget, GreetedFirst, TypeInv, TypeOK
<1>5. ASSUME NEW c \in Conns, Connect(c) \/ Register(c) \/ WriteError(c) \/ ChannelClosed(c) \/ ContextDone(c)
      PROVE  GreetedFirst(c)'
  <2>1. UNCHANGED <<greeting, got>>
    BY <1>5 DEF Connect, Register, WriteError, ChannelClosed, ContextDone
  <2>2. stream'[c] \in {"none", "register", "greet"} => stream[c] \in {"none", "register", "greet"}
    BY <1>5 DEF Connect, Register, WriteError, ChannelClosed, ContextDone, Move, TypeInv, TypeOK
  <2> QED
    BY <2>1, <2>2 DEF GreetingInv, GreetedFirst
<1>6. CASE UNCHANGED <<stream, greeting, got>>
  BY <1>6 DEF GreetingInv, GreetedFirst
<1>7. ASSUME NEW c \in Conns, HandlerStep(c) \/ Unregister(c) \/ Connect(c) \/ Register(c)
      PROVE  GreetingInv'
  <2>1. GreetedFirst(c)'
    BY <1>2, <1>3, <1>4, <1>5, <1>7 DEF HandlerStep
  <2> QED
    BY <1>1, <1>7, <2>1 DEF GreetingInv
<1> QED
  BY <1>6, <1>7 DEF Next, HubStep, Push, BroadcastSnapshot, BroadcastLog, Close, FanOut, Heartbeat,
     Stop, Disconnect, vars

LEMMA GreetingInvHolds == ASSUME HubAssumption PROVE Spec => []GreetingInv
<1>1. Init => GreetingInv
  BY DEF Init, GreetingInv, GreetedFirst
<1>2. TypeInv /\ GreetingInv /\ [Next]_vars => GreetingInv'
  BY GreetingStep
<1> QED
  BY <1>1, <1>2, TypeInvHolds, PTL DEF Spec

-----------------------------------------------------------------------------
(* Order *)

\* m may be seen before n.
Earlier(m, n) == m.event = n.event /\ m.event # "keep-alive" => m.n < n.n

Sorted(s) == \A i, j \in 1..Len(s) : i < j => Earlier(s[i], s[j])

Precedes(s, t) == \A i \in 1..Len(s), j \in 1..Len(t) : Earlier(s[i], t[j])

\* m has been handed to the hub; the snapshot being handed over has not.
Sent(m) ==
    /\ m.event = "metrics" => m.n <= pushed /\ (sampler = "broadcast" => m.n < pushed)
    /\ m.event = "log" => m.n <= logs

AllSent(s) == \A i \in 1..Len(s) : Sent(s[i])

QueueOrder == Sorted(queue) /\ AllSent(queue)

\* What was written to c from its channel.
Streamed(c) == IF greeting[c] = 0 THEN got[c] ELSE Tail(got[c])

\* What a client was given through its channel is in order and older than what
\* the hub has yet to hand out; a stream that is not registered was given
\* nothing.
ClientOrder(c) ==
    /\ Sorted(Streamed(c)) /\ Sorted(buffer[c]) /\ Precedes(Streamed(c), buffer[c])
    /\ AllSent(Streamed(c)) /\ AllSent(buffer[c])
    /\ c \in clients => Precedes(Streamed(c), queue) /\ Precedes(buffer[c], queue)
    /\ stream[c] \in {"none", "register"} => Streamed(c) = <<>> /\ buffer[c] = <<>>

OrderInv == QueueOrder /\ \A c \in Conns : ClientOrder(c)

LEMMA StreamedType ==
    ASSUME TypeInv, GreetingInv
    PROVE  \A c \in Conns : Streamed(c) \in Seq(Message)
BY TailElements DEF TypeInv, TypeOK, GreetingInv, GreetedFirst, Streamed

LEMMA SortedAppend ==
    ASSUME NEW s \in Seq(Message), NEW m \in Message, Sorted(s),
           \A i \in 1..Len(s) : Earlier(s[i], m)
    PROVE  Sorted(Append(s, m))
<1>1. Len(s) \in Nat
  OBVIOUS
<1> QED
  BY <1>1, AppendElements DEF Sorted

LEMMA SortedTail ==
    ASSUME NEW s \in Seq(Message), s # <<>>, Sorted(s)
    PROVE  Sorted(Tail(s)) /\ \A j \in 1..Len(Tail(s)) : Earlier(Head(s), Tail(s)[j])
BY TailElements DEF Sorted

LEMMA PrecedesAppend ==
    ASSUME NEW s \in Seq(Message), NEW t \in Seq(Message), NEW m \in Message, Precedes(s, t)
    PROVE  /\ (\A j \in 1..Len(t) : Earlier(m, t[j])) => Precedes(Append(s, m), t)
           /\ (\A i \in 1..Len(s) : Earlier(s[i], m)) => Precedes(s, Append(t, m))
<1>1. Len(s) \in Nat /\ Len(t) \in Nat
  OBVIOUS
<1>2. ASSUME \A j \in 1..Len(t) : Earlier(m, t[j]) PROVE Precedes(Append(s, m), t)
  <2>1. /\ Len(Append(s, m)) = Len(s) + 1
        /\ \A i \in 1..Len(s) : Append(s, m)[i] = s[i]
        /\ Append(s, m)[Len(s) + 1] = m
    BY AppendElements
  <2> QED
    BY <1>1, <1>2, <2>1 DEF Precedes
<1>3. ASSUME \A i \in 1..Len(s) : Earlier(s[i], m) PROVE Precedes(s, Append(t, m))
  <2>1. /\ Len(Append(t, m)) = Len(t) + 1
        /\ \A i \in 1..Len(t) : Append(t, m)[i] = t[i]
        /\ Append(t, m)[Len(t) + 1] = m
    BY AppendElements
  <2> QED
    BY <1>1, <1>3, <2>1 DEF Precedes
<1> QED
  BY <1>2, <1>3

LEMMA PrecedesTail ==
    ASSUME NEW s \in Seq(Message), NEW t \in Seq(Message), Precedes(s, t)
    PROVE  /\ s # <<>> => Precedes(Tail(s), t) /\ \A j \in 1..Len(t) : Earlier(Head(s), t[j])
           /\ t # <<>> => Precedes(s, Tail(t)) /\ \A i \in 1..Len(s) : Earlier(s[i], Head(t))
<1>1. CASE s # <<>>
  BY <1>1, TailElements DEF Precedes
<1>2. CASE t # <<>>
  BY <1>2, TailElements DEF Precedes
<1> QED
  BY <1>1, <1>2, TailElements DEF Precedes

LEMMA SentAppendTail ==
    ASSUME NEW s \in Seq(Message), AllSent(s)
    PROVE  /\ \A m \in Message : Sent(m) => AllSent(Append(s, m))
           /\ s # <<>> => AllSent(Tail(s)) /\ Sent(Head(s))
<1>1. Len(s) \in Nat
  OBVIOUS
<1>2. ASSUME NEW m \in Message, Sent(m) PROVE AllSent(Append(s, m))
  BY <1>1, <1>2, AppendElements DEF AllSent
<1>3. CASE s # <<>>
  <2>1. /\ Head(s) = s[1] /\ Len(s) \in Nat \ {0} /\ Len(Tail(s)) = Len(s) - 1
        /\ \A i \in 1..Len(Tail(s)) : Tail(s)[i] = s[i + 1]
    BY <1>3, TailElements
  <2> QED
    BY <2>1 DEF AllSent
<1> QED
  BY <1>2, <1>3

LEMMA NothingOrdered ==
    ASSUME NEW t
    PROVE  Sorted(<<>>) /\ AllSent(<<>>) /\ Precedes(<<>>, t) /\ Precedes(t, <<>>)
BY EmptyElements DEF Sorted, AllSent, Precedes

\* A new message of a producer goes behind everything that was sent.
LEMMA SentBeforeNew ==
    ASSUME NEW s \in Seq(Message), NEW m \in Message, AllSent(s),
           \/ m.event = "metrics" /\ m.n = pushed /\ sampler = "broadcast"
           \/ m.event = "log" /\ m.n = logs + 1
           \/ m.event = "keep-alive",
           logs \in Nat
    PROVE  \A i \in 1..Len(s) : Earlier(s[i], m)
<1>1. \A x \in Message : x.event # "keep-alive" => x.n \in Nat
  BY DEF Message, Metrics, Log, KeepAlive
<1> QED
  BY <1>1 DEF AllSent, Sent, Earlier

\* A heartbeat may be seen at any time.
LEMMA HeartbeatFree ==
    \A m : Earlier(m, KeepAlive) /\ Earlier(KeepAlive, m)
BY DEF Earlier, KeepAlive

\* What was sent stays sent.
LEMMA SentGrows ==
    ASSUME HubAssumption, TypeInv, [Next]_vars
    PROVE  \A m \in Message : Sent(m) => Sent(m)'
<1> USE DEF Sent, feedVars
<1>0. /\ pushed \in Nat /\ logs \in Nat
      /\ \A m \in Message : m.n \in Nat
  BY DEF TypeInv, TypeOK, HubAssumption, Message, Metrics, Log, KeepAlive
<1>1. CASE Push
  BY <1>0, <1>1 DEF Push
<1>2. CASE BroadcastSnapshot
  BY <1>0, <1>2 DEF BroadcastSnapshot
<1>3. CASE BroadcastLog
  BY <1>0, <1>3 DEF BroadcastLog
<1>4. CASE UNCHANGED feedVars
  BY <1>4
<1> QED
  BY <1>1, <1>2, <1>3, <1>4 DEF Next, HubStep, HandlerStep, vars, Close, FanOut, Heartbeat, Stop,
     Register, Unregister, Connect, Greet, Deliver, WriteError, ChannelClosed, ContextDone, Disconnect

\* Steps that move no message.
LEMMA QuietStep ==
    ASSUME TypeInv, GreetingInv, OrderInv, \A m \in Message : Sent(m) => Sent(m)',
           \A c \in Conns : Streamed(c)' = Streamed(c),
           UNCHANGED <<queue, buffer>>, clients' \subseteq clients,
           \A c \in Conns : stream'[c] \in {"none", "register"} => stream[c] \in {"none", "register"}
    PROVE  OrderInv'
<1>1. \A s \in Seq(Message) : AllSent(s) => \A i \in 1..Len(s) : Sent(s[i])'
  BY DEF AllSent
<1>2. QueueOrder'
  BY <1>1 DEF TypeInv, TypeOK, OrderInv, QueueOrder, Sorted, AllSent
<1>3. ASSUME NEW c \in Conns PROVE ClientOrder(c)'
  <2>1. ClientOrder(c) /\ Streamed(c) \in Seq(Message) /\ buffer[c] \in Seq(Message)
    BY StreamedType DEF OrderInv, TypeInv, TypeOK
  <2>2. AllSent(Streamed(c))' /\ AllSent(buffer[c])'
    BY <1>1, <2>1 DEF ClientOrder, AllSent
  <2> QED
    BY <2>1, <2>2 DEF ClientOrder, Sorted, Precedes
<1> QED
  BY <1>2, <1>3 DEF OrderInv

\* A producer hands over a message that is newer than all before it.
LEMMA ProduceStep ==
    ASSUME TypeInv, GreetingInv, OrderInv, \A m \in Message : Sent(m) => Sent(m)',
           NEW m \in Message, queue' = Append(queue, m), Sent(m)',
           \/ m.event = "metrics" /\ m.n = pushed /\ sampler = "broadcast"
           \/ m.event = "log" /\ m.n = logs + 1,
           \A c \in Conns : Streamed(c)' = Streamed(c),
           UNCHANGED <<buffer, clients, stream>>
    PROVE  OrderInv'
<1>0. queue \in Seq(Message) /\ Len(queue) \in Nat /\ logs \in Nat
  BY DEF TypeInv, TypeOK
<1>1. \A s \in Seq(Message) : AllSent(s) => \A i \in 1..Len(s) : Sent(s[i])'
  BY DEF AllSent
<1>2. QueueOrder'
  <2>1. Sorted(Append(queue, m))
    BY <1>0, SentBeforeNew, SortedAppend DEF OrderInv, QueueOrder
  <2>2. \A i \in 1..Len(Append(queue, m)) : Sent(Append(queue, m)[i])'
    BY <1>0, <1>1, AppendElements DEF OrderInv, QueueOrder
  <2> QED
    BY <2>1, <2>2 DEF QueueOrder, Sorted, AllSent
<1>3. ASSUME NEW c \in Conns PROVE ClientOrder(c)'
  <2>1. ClientOrder(c) /\ Streamed(c) \in Seq(Message) /\ buffer[c] \in Seq(Message)
    BY StreamedType DEF OrderInv, TypeInv, TypeOK
  <2>2. AllSent(Streamed(c))' /\ AllSent(buffer[c])'
    BY <1>1, <2>1 DEF ClientOrder, AllSent
  <2>3. c \in clients => Precedes(Streamed(c), Append(queue, m)) /\ Precedes(buffer[c], Append(queue, m))
    BY <1>0, <2>1, SentBeforeNew, PrecedesAppend DEF ClientOrder
  <2> QED
    BY <2>1, <2>2, <2>3 DEF ClientOrder, Sorted, Precedes
<1> QED
  BY <1>2, <1>3 DEF OrderInv

\* The hub hands a message to the clients with room: the head of its queue, or
\* a heartbeat.
LEMMA OfferStep ==
    ASSUME TypeInv, GreetingInv, RegistryInv, OrderInv, NEW m \in Message, Offer(m),
           \/ queue # <<>> /\ m = Head(queue) /\ queue' = Tail(queue)
           \/ m = KeepAlive /\ queue' = queue,
           \A c \in Conns : Streamed(c)' = Streamed(c),
           UNCHANGED <<feedVars, clients, stream>>
    PROVE  OrderInv'
<1>0. queue \in Seq(Message)
  BY DEF TypeInv, TypeOK
<1>1. /\ queue' \in Seq(Message) /\ Sorted(queue') /\ AllSent(queue') /\ Sent(m)
      /\ \A j \in 1..Len(queue') : Earlier(m, queue'[j])
      /\ \A s \in Seq(Message) : Precedes(s, queue) => Precedes(s, queue')
  <2>1. CASE queue # <<>> /\ m = Head(queue) /\ queue' = Tail(queue)
    <3>1. Tail(queue) \in Seq(Message)
      BY <1>0, <2>1, TailElements
    <3> QED
      BY <1>0, <2>1, <3>1, SortedTail, PrecedesTail, SentAppendTail DEF OrderInv, QueueOrder
  <2>2. CASE m = KeepAlive /\ queue' = queue
    BY <1>0, <2>2, HeartbeatFree DEF OrderInv, QueueOrder, Sent, KeepAlive
  <2> QED
    BY <2>1, <2>2
<1>2. \A s \in Seq(Message) : Precedes(s, queue) => \A i \in 1..Len(s) : Earlier(s[i], m)
  <2>1. CASE queue # <<>> /\ m = Head(queue)
    BY <1>0, <2>1, PrecedesTail
  <2>2. CASE m = KeepAlive
    BY <2>2, HeartbeatFree
  <2> QED
    BY <2>1, <2>2
<1>3. QueueOrder'
  BY <1>1 DEF QueueOrder, Sorted, AllSent, Sent, feedVars
<1>4. ASSUME NEW c \in Conns PROVE ClientOrder(c)'
  <2>1. ClientOrder(c) /\ Streamed(c) \in Seq(Message) /\ buffer[c] \in Seq(Message)
    BY StreamedType DEF OrderInv, TypeInv, TypeOK
  <2>2. CASE c \in clients /\ HasRoom(c)
    <3>1. buffer'[c] = Append(buffer[c], m)
      BY <2>2 DEF Offer
    <3>2. /\ Sorted(Append(buffer[c], m)) /\ AllSent(Append(buffer[c], m))
          /\ Precedes(Streamed(c), Append(buffer[c], m))
      BY <1>1, <1>2, <2>1, <2>2, SortedAppend, SentAppendTail, PrecedesAppend DEF ClientOrder
    <3>3. Precedes(Streamed(c), queue') /\ Precedes(Append(buffer[c], m), queue')
      BY <1>1, <2>1, <2>2, PrecedesAppend DEF ClientOrder
    <3>4. stream[c] \notin {"none", "register"}
      BY <2>2 DEF RegistryInv, RegistryExact, Open
    <3> QED
      BY <2>1, <3>1, <3>2, <3>3, <3>4 DEF ClientOrder, Sorted, Precedes, AllSent, Sent, feedVars
  <2>3. CASE ~(c \in clients /\ HasRoom(c))
    <3>1. buffer'[c] = buffer[c]
      BY <2>3 DEF Offer
    <3>2. c \in clients => Precedes(Streamed(c), queue') /\ Precedes(buffer[c], queue')
      BY <1>1, <2>1 DEF ClientOrder
    <3> QED
      BY <2>1, <3>1, <3>2 DEF ClientOrder, Sorted, Precedes, AllSent, Sent, feedVars
  <2> QED
    BY <2>2, <2>3
<1> QED
  BY <1>3, <1>4 DEF OrderInv

\* A handler takes the head of its channel, and writes it or fails to.
LEMMA TakeStep ==
    ASSUME TypeInv, GreetingInv, OrderInv, NEW c \in Conns, buffer[c] # <<>>,
           buffer' = [buffer EXCEPT ![c] = Tail(@)],
           Streamed(c)' \in {Streamed(c), Append(Streamed(c), Head(buffer[c]))},
           \A d \in Conns \ {c} : Streamed(d)' = Streamed(d),
           UNCHANGED <<feedVars, queue, clients>>,
           \A d \in Conns : stream'[d] \in {"none", "register"} => stream[d] \in {"none", "register"},
           stream'[c] \notin {"none", "register"}
    PROVE  OrderInv'
<1> DEFINE b == buffer[c]
           g == Streamed(c)
<1>1. ClientOrder(c) /\ g \in Seq(Message) /\ b \in Seq(Message) /\ queue \in Seq(Message)
  BY StreamedType DEF OrderInv, TypeInv, TypeOK
<1>2. b # <<>> /\ Tail(b) \in Seq(Message) /\ Head(b) \in Message
  BY <1>1, TailElements
<1>3. Sorted(Tail(b)) /\ AllSent(Tail(b)) /\ Sent(Head(b)) /\ Precedes(g, Tail(b))
  BY <1>1, <1>2, SortedTail, SentAppendTail, PrecedesTail DEF ClientOrder
<1>4. /\ Sorted(Append(g, Head(b))) /\ AllSent(Append(g, Head(b)))
      /\ Precedes(Append(g, Head(b)), Tail(b))
  <2>1. \A i \in 1..Len(g) : Earlier(g[i], Head(b))
    BY <1>1, <1>2, PrecedesTail DEF ClientOrder
  <2>2. \A j \in 1..Len(Tail(b)) : Earlier(Head(b), Tail(b)[j])
    BY <1>1, <1>2, SortedTail DEF ClientOrder
  <2> QED
    BY <1>1, <1>2, <1>3, <2>1, <2>2, SortedAppend, SentAppendTail, PrecedesAppend DEF ClientOrder
<1>5. c \in clients => Precedes(Tail(b), queue) /\ Precedes(Append(g, Head(b)), queue)
  BY <1>1, <1>2, PrecedesTail, PrecedesAppend DEF ClientOrder
<1>6. QueueOrder'
  BY DEF OrderInv, QueueOrder, Sorted, AllSent, Sent, feedVars
<1>7. ClientOrder(c)'
  <2>1. buffer'[c] = Tail(b) /\ Streamed(c)' \in {g, Append(g, Head(b))}
    BY DEF TypeInv, TypeOK
  <2>2. CASE Streamed(c)' = g
    BY <1>1, <1>3, <1>5, <2>1, <2>2 DEF ClientOrder, Sorted, Precedes, AllSent, Sent, feedVars
  <2>3. CASE Streamed(c)' = Append(g, Head(b))
    BY <1>1, <1>3, <1>4, <1>5, <2>1, <2>3 DEF ClientOrder, Sorted, Precedes, AllSent, Sent, feedVars
  <2> QED
    BY <2>1, <2>2, <2>3
<1>8. ASSUME NEW d \in Conns, d # c PROVE ClientOrder(d)'
  <2>1. buffer'[d] = buffer[d] /\ Streamed(d)' = Streamed(d) /\ ClientOrder(d)
    BY <1>8 DEF OrderInv, TypeInv, TypeOK
  <2> QED
    BY <2>1 DEF ClientOrder, Sorted, Precedes, AllSent, Sent, feedVars
<1> QED
  BY <1>6, <1>7, <1>8 DEF OrderInv

LEMMA OrderStep ==
    ASSUME HubAssumption, TypeInv, TypeInv', GreetingInv, RegistryInv, OrderInv, [Next]_vars
    PROVE  OrderInv'
<1> USE DEF feedVars, hubVars, streamVars
<1>0. \A m \in Message : Sent(m) => Sent(m)'
  BY SentGrows
<1>01. UNCHANGED <<greeting, got>> => \A c \in Conns : Streamed(c)' = Streamed(c)
  BY DEF Streamed
<1>1. CASE BroadcastSnapshot
  <2>1. PICK n \in 1..MaxSnapshots : n = pushed
    BY <1>1 DEF BroadcastSnapshot, TypeInv, TypeOK
  <2>2. Metrics(n) \in Message /\ Metrics(n).event = "metrics" /\ Metrics(n).n = n
    BY DEF Message, Metrics
  <2>3. CASE queue' = Append(queue, Metrics(n))
    <3>1. Sent(Metrics(n))'
      BY <1>1, <2>1, <2>2 DEF BroadcastSnapshot, Sent
    <3> QED
      BY <1>0, <1>01, <1>1, <2>1, <2>2, <2>3, <3>1, ProduceStep DEF BroadcastSnapshot
  <2>4. CASE queue' = queue
    BY <1>0, <1>01, <1>1, <2>4, QuietStep DEF BroadcastSnapshot
  <2> QED
    BY <1>1, <2>1, <2>3, <2>4 DEF BroadcastSnapshot
<1>2. CASE BroadcastLog
  <2>1. PICK n \in 1..MaxLogs : n = logs + 1
    BY <1>2 DEF BroadcastLog, TypeInv, TypeOK, HubAssumption
  <2>2. Log(n) \in Message /\ Log(n).event = "log" /\ Log(n).n = n
    BY DEF Message, Log
  <2>3. CASE queue' = Append(queue, Log(n))
    <3>1. Sent(Log(n))'
      BY <1>2, <2>1, <2>2 DEF BroadcastLog, Sent
    <3> QED
      BY <1>0, <1>01, <1>2, <2>1, <2>2, <2>3, <3>1, ProduceStep DEF BroadcastLog
  <2>4. CASE queue' = queue
    BY <1>0, <1>01, <1>2, <2>4, QuietStep DEF BroadcastLog
  <2> QED
    BY <1>2, <2>1, <2>3, <2>4 DEF BroadcastLog
<1>3. CASE FanOut
  <2>1. Head(queue) \in Message
    BY <1>3, TailElements DEF FanOut, TypeInv, TypeOK
  <2> QED
    BY <1>01, <1>3, <2>1, OfferStep DEF FanOut
<1>4. CASE Heartbeat
  <2>1. KeepAlive \in Message
    BY DEF Message
  <2> QED
    BY <1>01, <1>4, <2>1, OfferStep DEF Heartbeat
<1>5. ASSUME NEW c \in Conns, Register(c) PROVE OrderInv'
  <2>1. QueueOrder'
    BY <1>5 DEF Register, OrderInv, QueueOrder, Sorted, AllSent, Sent
  <2>2. ASSUME NEW d \in Conns PROVE ClientOrder(d)'
    <3>1. /\ ClientOrder(d) /\ Streamed(d)' = Streamed(d)
          /\ buffer' = buffer /\ queue' = queue /\ UNCHANGED feedVars
      BY <1>01, <1>5 DEF OrderInv, Register
    <3>2. stream'[d] \in {"none", "register"} => stream[d] \in {"none", "register"}
      BY <1>5 DEF Register, TypeInv, TypeOK
    <3>3. CASE d = c
      <4>1. Streamed(d) = <<>> /\ buffer[d] = <<>>
        BY <1>5, <3>1, <3>3 DEF Register, ClientOrder
      <4> QED
        BY <3>1, <3>2, <4>1, NothingOrdered DEF ClientOrder, Sorted, Precedes, AllSent, Sent
    <3>4. CASE d # c
      BY <1>5, <3>1, <3>2, <3>4 DEF Register, ClientOrder, Sorted, Precedes, AllSent, Sent
    <3> QED
      BY <3>3, <3>4
  <2> QED
    BY <2>1, <2>2 DEF OrderInv
<1>6. ASSUME NEW c \in Conns, Unregister(c) PROVE OrderInv'
  <2>1. QueueOrder'
    BY <1>6 DEF Unregister, OrderInv, QueueOrder, Sorted, AllSent, Sent
  <2>2. ASSUME NEW d \in Conns PROVE ClientOrder(d)'
    <3>1. ClientOrder(d) /\ queue' = queue /\ UNCHANGED feedVars /\ clients' = clients \ {c}
      BY <1>6 DEF OrderInv, Unregister
    <3>2. CASE d = c
      <4>1. Streamed(d)' = <<>> /\ buffer'[d] = <<>> /\ d \notin clients'
        BY <1>6, <3>1, <3>2 DEF Unregister, Forget, Streamed, TypeInv, TypeOK
      <4>2. Sorted(<<>>) /\ Precedes(<<>>, <<>>)
        BY NothingOrdered
      <4>3. AllSent(Streamed(d))' /\ AllSent(buffer[d])'
        BY <4>1, EmptyElements DEF AllSent
      <4> QED
        BY <4>1, <4>2, <4>3 DEF ClientOrder, Sorted, Precedes
    <3>3. CASE d # c
      <4>1. Streamed(d)' = Streamed(d) /\ buffer'[d] = buffer[d] /\ stream'[d] = stream[d]
        BY <1>6, <3>3 DEF Unregister, Forget, Streamed, TypeInv, TypeOK
      <4> QED
        BY <3>1, <4>1 DEF ClientOrder, Sorted, Precedes, AllSent, Sent
    <3> QED
      BY <3>2, <3>3
  <2> QED
    BY <2>1, <2>2 DEF OrderInv
<1>7. ASSUME NEW c \in Conns, Deliver(c) PROVE OrderInv'
  <2>1. UNCHANGED <<feedVars, queue, clients, stream, greeting>> /\ stream[c] = "loop"
    BY <1>7 DEF Deliver
  <2>2. buffer[c] # <<>> /\ buffer' = [buffer EXCEPT ![c] = Tail(@)]
    BY <1>7 DEF Deliver
  <2>3. Streamed(c)' = Append(Streamed(c), Head(buffer[c]))
    <3>1. Head(buffer[c]) \in Message
      BY <2>2, TailElements DEF TypeInv, TypeOK
    <3>2. got[c] \in Seq(Message) /\ got'[c] = Append(got[c], Head(buffer[c]))
      BY <1>7 DEF Deliver, TypeInv, TypeOK
    <3>3. got[c] # <<>> => Tail(got'[c]) = Append(Tail(got[c]), Head(buffer[c]))
      BY <3>1, <3>2, TailOfAppend
    <3> QED
      BY <2>1, <3>2, <3>3 DEF GreetingInv, GreetedFirst, Streamed
  <2>4. \A d \in Conns \ {c} : Streamed(d)' = Streamed(d)
    BY <1>7, <2>1 DEF Deliver, Streamed, TypeInv, TypeOK
  <2> QED
    BY <2>1, <2>2, <2>3, <2>4, TakeStep
<1>8. ASSUME NEW c \in Conns, WriteError(c) PROVE OrderInv'
  <2>1. /\ stream'[c] = "unregister"
        /\ \A d \in Conns : stream'[d] \in {"none", "register"} => stream[d] \in {"none", "register"}
    BY <1>8 DEF WriteError, Move, TypeInv, TypeOK
  <2> QED
    BY <1>01, <1>8, <2>1, TakeStep DEF WriteError
<1>9. CASE Push \/ Close \/ Stop \/ UNCHANGED vars
  <2>1. UNCHANGED <<queue, buffer, greeting, got, stream>> /\ clients' \subseteq clients
    BY <1>9 DEF Push, Close, Stop, vars
  <2> QED
    BY <1>0, <1>01, <2>1, QuietStep
<1>10. ASSUME NEW c \in Conns,
              Connect(c) \/ ChannelClosed(c) \/ ContextDone(c) \/ Disconnect(c)
       PROVE  OrderInv'
  <2>1. UNCHANGED <<queue, buffer, greeting, got, clients>>
    BY <1>10 DEF Connect, ChannelClosed, ContextDone, Disconnect
  <2>2. \A d \in Conns : stream'[d] \in {"none", "register"} => stream[d] \in {"none", "register"}
    BY <1>10 DEF Connect, ChannelClosed, ContextDone, Disconnect, Move, TypeInv, TypeOK
  <2> QED
    BY <1>0, <1>01, <2>1, <2>2, QuietStep
<1>11. ASSUME NEW c \in Conns, Greet(c) PROVE OrderInv'
  <2>1. UNCHANGED <<queue, buffer, clients>>
    BY <1>11 DEF Greet
  <2>2. \A d \in Conns : stream'[d] \in {"none", "register"} => stream[d] \in {"none", "register"}
    BY <1>11 DEF Greet, Move, TypeInv, TypeOK
  <2>3. Streamed(c)' = Streamed(c)
    <3>1. stream[c] = "greet" /\ got[c] = <<>> /\ greeting[c] = 0 /\ Streamed(c) = <<>>
      BY <1>11 DEF Greet, GreetingInv, GreetedFirst, Streamed
    <3>2. greeting'[c] = pushed /\ got'[c] = IF pushed = 0 THEN <<>> ELSE <<Metrics(pushed)>>
      BY <1>11, <3>1 DEF Greet, Greets, TypeInv, TypeOK
    <3>3. Tail(<<Metrics(pushed)>>) = <<>>
      OBVIOUS
    <3> QED
      BY <3>1, <3>2, <3>3 DEF Streamed
  <2>4. ASSUME NEW d \in Conns, d # c PROVE Streamed(d)' = Streamed(d)
    BY <1>11, <2>4 DEF Greet, Greets, Streamed, TypeInv, TypeOK
  <2> QED
    BY <1>0, <2>1, <2>2, <2>3, <2>4, QuietStep
<1> QED
  BY <1>1, <1>2, <1>3, <1>4, <1>5, <1>6, <1>7, <1>8, <1>9, <1>10, <1>11
     DEF Next, HubStep, HandlerStep

LEMMA OrderInit == ASSUME Init PROVE OrderInv
<1>1. queue = <<>> /\ \A c \in Conns : Streamed(c) = <<>> /\ buffer[c] = <<>>
  BY DEF Init, Streamed
<1> QED
  BY <1>1, NothingOrdered DEF OrderInv, QueueOrder, ClientOrder

\* The tail of s and t after it are what comes behind the head of s.
LEMMA JoinBehindHead ==
    ASSUME NEW s \in Seq(Message), NEW t \in Seq(Message), s # <<>>
    PROVE  /\ Len(Tail(s) \o t) \in Nat /\ Len(s \o t) = Len(Tail(s) \o t) + 1
           /\ (s \o t)[1] = s[1]
           /\ \A k \in 1..Len(Tail(s) \o t) : (s \o t)[k + 1] = (Tail(s) \o t)[k]
OBVIOUS

LEMMA SortedJoin ==
    ASSUME NEW s \in Seq(Message), NEW t \in Seq(Message), Sorted(s), Sorted(t), Precedes(s, t)
    PROVE  Sorted(s \o t)
<1>1. PICK m \in Nat, n \in Nat : m = Len(s) /\ n = Len(t)
  OBVIOUS
<1>2. /\ Len(s \o t) = m + n
      /\ \A k \in 1..m + n : (s \o t)[k] = IF k <= m THEN s[k] ELSE t[k - m]
  BY <1>1, ConcatProperties, Zenon
<1>3. SUFFICES ASSUME NEW i \in 1..m + n, NEW j \in 1..m + n, i < j
               PROVE  Earlier((s \o t)[i], (s \o t)[j])
  BY <1>2, Zenon DEF Sorted
<1>4. CASE j <= m
  <2>1. i \in 1..m /\ j \in 1..m
    BY <1>3, <1>4
  <2>2. i <= m /\ (s \o t)[i] = s[i] /\ (s \o t)[j] = s[j]
    BY <1>2, <1>3, <1>4
  <2> QED
    BY <1>1, <1>3, <2>1, <2>2 DEF Sorted
<1>5. CASE i <= m /\ j > m
  <2>1. i \in 1..m /\ j - m \in 1..n /\ ~(j <= m)
    BY <1>5
  <2>2. (s \o t)[i] = s[i] /\ (s \o t)[j] = t[j - m]
    BY <1>2, <1>5, <2>1
  <2> QED
    BY <1>1, <2>1, <2>2 DEF Precedes
<1>6. CASE i > m
  <2>1. /\ i - m \in 1..n /\ j - m \in 1..n /\ i - m < j - m
        /\ ~(i <= m) /\ ~(j <= m)
    BY <1>3, <1>6
  <2>2. (s \o t)[i] = t[i - m] /\ (s \o t)[j] = t[j - m]
    BY <1>2, <2>1
  <2> QED
    BY <1>1, <2>1, <2>2 DEF Sorted
<1>7. j <= m \/ (i <= m /\ j > m) \/ i > m
  OBVIOUS
<1> QED
  BY <1>4, <1>5, <1>6, <1>7, Zenon

\* What was written behind the greeting and what is in the channel are in order
\* as one sequence; the greeting is in front of it.
LEMMA OrderedTogether ==
    ASSUME TypeInv, GreetingInv, OrderInv
    PROVE  InOrder
<1> SUFFICES ASSUME NEW c \in Conns
             PROVE  LET s == got[c] \o buffer[c] IN
                    \A i, j \in 1..Len(s) :
                        i < j /\ s[i].event = s[j].event /\ s[i].event # "keep-alive" =>
                            \/ s[i].n < s[j].n
                            \/ i = 1 /\ s[i] = Metrics(greeting[c])
  BY DEF InOrder
<1>1. /\ ClientOrder(c) /\ GreetedFirst(c) /\ Streamed(c) \in Seq(Message)
      /\ got[c] \in Seq(Message) /\ buffer[c] \in Seq(Message)
  BY StreamedType DEF OrderInv, GreetingInv, TypeInv, TypeOK
<1>2. Sorted(Streamed(c) \o buffer[c])
  BY <1>1, SortedJoin DEF ClientOrder
<1>3. CASE greeting[c] = 0
  <2>1. Streamed(c) = got[c]
    BY <1>3 DEF Streamed
  <2> QED
    BY <1>2, <2>1, Zenon DEF Sorted, Earlier
<1>4. CASE greeting[c] # 0
  <2> DEFINE s == got[c] \o buffer[c]
             t == Streamed(c) \o buffer[c]
  <2>1. /\ Streamed(c) = Tail(got[c]) /\ got[c] # <<>> /\ got[c][1] = Metrics(greeting[c])
    BY <1>1, <1>4, TailElements DEF Streamed, GreetedFirst
  <2>2. /\ Len(t) \in Nat /\ Len(s) = Len(t) + 1
        /\ s[1] = Metrics(greeting[c])
        /\ \A k \in 1..Len(t) : s[k + 1] = t[k]
    <3>1. \A u \in Seq(Message) : u # <<>> =>
              /\ Len(Tail(u) \o buffer[c]) \in Nat
              /\ Len(u \o buffer[c]) = Len(Tail(u) \o buffer[c]) + 1
              /\ (u \o buffer[c])[1] = u[1]
              /\ \A k \in 1..Len(Tail(u) \o buffer[c]) :
                    (u \o buffer[c])[k + 1] = (Tail(u) \o buffer[c])[k]
      BY <1>1, JoinBehindHead
    <3> QED
      BY <1>1, <2>1, <3>1, Zenon
  <2> HIDE DEF s, t
  <2>3. ASSUME NEW i \in 1..Len(s), NEW j \in 1..Len(s), i < j, i # 1
        PROVE  Earlier(s[i], s[j])
    <3>1. i - 1 \in 1..Len(t) /\ j - 1 \in 1..Len(t) /\ i - 1 < j - 1
      BY <2>2, <2>3
    <3>2. s[i] = t[i - 1] /\ s[j] = t[j - 1]
      BY <2>2, <2>3, <3>1
    <3>3. Sorted(t)
      BY <1>2 DEF t
    <3> QED
      BY <3>1, <3>2, <3>3 DEF Sorted
  <2>4. \A i, j \in 1..Len(s) :
            i < j /\ s[i].event = s[j].event /\ s[i].event # "keep-alive" =>
                \/ s[i].n < s[j].n
                \/ i = 1 /\ s[i] = Metrics(greeting[c])
    BY <2>2, <2>3, Zenon DEF Earlier
  <2> QED
    BY <2>4 DEF s
<1> QED
  BY <1>3, <1>4

\* Whatever the hub drops, every viewer gets logs in the order in which they
\* were broadcast, and so the snapshots that follow the one it is greeted with;
\* only that first one may be newer than what follows it (sse.go:59-65,
\* 157-183).
THEOREM InOrderHolds == ASSUME HubAssumption PROVE Spec => []InOrder
<1>1. Init => OrderInv
  BY OrderInit
<1>2. TypeInv /\ TypeInv' /\ GreetingInv /\ RegistryInv /\ OrderInv /\ [Next]_vars => OrderInv'
  BY OrderStep
<1>3. TypeInv /\ GreetingInv /\ OrderInv => InOrder
  BY OrderedTogether
<1> QED
  BY <1>1, <1>2, <1>3, TypeInvHolds, GreetingInvHolds, RegistryInvHolds, PTL DEF Spec

-----------------------------------------------------------------------------
(* No gap *)

\* The two ends of a channel, as sets.
LEMMA ItemsOfChannel ==
    ASSUME NEW s \in Seq(Message)
    PROVE  /\ \A m \in Message : Items(Append(s, m)) = Items(s) \cup {m}
           /\ s # <<>> => Items(s) = {Head(s)} \cup Items(Tail(s))
<1>0. PICK n \in Nat : n = Len(s)
  OBVIOUS
<1>1. ASSUME NEW m \in Message PROVE Items(Append(s, m)) = Items(s) \cup {m}
  <2>1. PICK t : t = Append(s, m)
    OBVIOUS
  <2>2. Len(t) = n + 1 /\ (\A i \in 1..n : t[i] = s[i]) /\ t[n + 1] = m
    BY <1>0, <2>1, AppendElements
  <2>3. n + 1 \in 1..(n + 1) /\ \A i \in 1..(n + 1) : i \in 1..n \/ i = n + 1
    BY <1>0
  <2>4. \A i \in 1..n : i \in 1..(n + 1)
    BY <1>0
  <2> QED
    BY <1>0, <2>1, <2>2, <2>3, <2>4 DEF Items
<1>2. ASSUME s # <<>> PROVE Items(s) = {Head(s)} \cup Items(Tail(s))
  <2>1. PICK t : t = Tail(s)
    OBVIOUS
  <2>2. Len(t) = n - 1 /\ (\A i \in 1..(n - 1) : t[i] = s[i + 1]) /\ Head(s) = s[1] /\ n # 0
    BY <1>0, <1>2, <2>1, TailElements
  <2>3. 1 \in 1..n /\ \A i \in 1..(n - 1) : i + 1 \in 1..n
    BY <1>0, <2>2
  <2>4. \A i \in 1..n : i = 1 \/ (i - 1 \in 1..(n - 1) /\ (i - 1) + 1 = i)
    BY <1>0
  <2>5. Items(s) \subseteq {Head(s)} \cup Items(t)
    <3>1. ASSUME NEW i \in 1..n PROVE s[i] \in {Head(s)} \cup Items(t)
      <4>1. CASE i = 1
        BY <2>2, <4>1
      <4>2. CASE i - 1 \in 1..(n - 1) /\ (i - 1) + 1 = i
        <5>1. t[i - 1] = s[i] /\ i - 1 \in 1..Len(t)
          BY <2>2, <4>2
        <5> QED
          BY <5>1 DEF Items
      <4> QED
        BY <2>4, <4>1, <4>2
    <3> QED
      BY <1>0, <3>1 DEF Items
  <2>6. {Head(s)} \cup Items(t) \subseteq Items(s)
    BY <1>0, <2>2, <2>3 DEF Items
  <2> QED
    BY <2>1, <2>5, <2>6
<1> QED
  BY <1>1, <1>2

\* What viewer c was given or may still be given, and what it was not.
OnItsWay(c) == Items(got[c]) \cup Items(buffer[c]) \cup Items(queue)
Lost(c)     == missed[c] \cup overflow

\* Snapshot n is not lost between the greeting of c and its stream.
Accounted(c, n) ==
    Metrics(n) \in OnItsWay(c) \/ n \in Lost(c) \/ (n = pushed /\ sampler = "broadcast")

Gapless(c) ==
    c \in clients /\ stream[c] = "loop" => \A n \in (greeting[c] + 1)..pushed : Accounted(c, n)

LEMMA GaplessIsNoGap == NoGap <=> \A c \in clients : Gapless(c)
BY DEF NoGap, Gapless, Accounted, OnItsWay, Lost

\* Steps that take nothing away from a viewer.
LEMMA KeepStep ==
    ASSUME NEW c, Gapless(c), OnItsWay(c) \subseteq OnItsWay(c)', Lost(c) \subseteq Lost(c)',
           UNCHANGED <<pushed, sampler>>, c \in clients' => c \in clients,
           stream'[c] = "loop" => stream[c] = "loop" /\ greeting'[c] = greeting[c]
    PROVE  Gapless(c)'
BY DEF Gapless, Accounted

LEMMA GaplessStep ==
    ASSUME HubAssumption, TypeInv, NEW c \in Conns, Gapless(c), [Next]_vars
    PROVE  Gapless(c)'
<1> USE DEF feedVars, hubVars, streamVars, lossVars
<1>0. /\ queue \in Seq(Message) /\ buffer[c] \in Seq(Message) /\ got[c] \in Seq(Message)
      /\ pushed \in Nat /\ greeting[c] \in Nat
  BY DEF TypeInv, TypeOK, HubAssumption
<1>1. ASSUME UNCHANGED <<queue, missed, overflow, pushed, sampler>>,
             c \in clients' => c \in clients,
             stream'[c] = "loop" => /\ stream[c] = "loop" /\ greeting'[c] = greeting[c]
                                    /\ buffer'[c] = buffer[c] /\ got'[c] = got[c]
      PROVE  Gapless(c)'
  BY <1>1 DEF Gapless, Accounted, OnItsWay, Lost
<1>2. CASE Push
  <2>1. /\ UNCHANGED <<clients, stream, greeting, got, buffer, queue, missed, overflow>>
        /\ pushed' = pushed + 1 /\ sampler = "tick" /\ sampler' = "broadcast"
    BY <1>2 DEF Push
  <2>2. \A n \in (greeting[c] + 1)..(pushed + 1) : n \in (greeting[c] + 1)..pushed \/ n = pushed + 1
    BY <1>0
  <2>3. OnItsWay(c)' = OnItsWay(c) /\ Lost(c)' = Lost(c)
    BY <2>1 DEF OnItsWay, Lost
  <2> QED
    BY <2>1, <2>2, <2>3 DEF Gapless, Accounted
<1>3. CASE BroadcastSnapshot
  <2>1. /\ UNCHANGED <<clients, stream, greeting, got, buffer, missed, pushed>>
        /\ sampler = "broadcast"
    BY <1>3 DEF BroadcastSnapshot
  <2>2. PICK k \in 1..MaxSnapshots : k = pushed
    BY <2>1 DEF TypeInv, TypeOK
  <2>3. Metrics(k) \in Message
    BY DEF Message
  <2>4. /\ OnItsWay(c) \subseteq OnItsWay(c)' /\ Lost(c) \subseteq Lost(c)'
        /\ Metrics(k) \in OnItsWay(c)' \/ k \in Lost(c)'
    <3>1. CASE queue' = Append(queue, Metrics(k)) /\ UNCHANGED overflow
      <4>1. Items(queue') = Items(queue) \cup {Metrics(k)}
        BY <1>0, <2>3, <3>1, ItemsOfChannel
      <4>2. OnItsWay(c)' = OnItsWay(c) \cup {Metrics(k)}
        BY <2>1, <4>1 DEF OnItsWay, Items
      <4> QED
        BY <2>1, <3>1, <4>2 DEF Lost
    <3>2. CASE overflow' = overflow \cup {k} /\ UNCHANGED queue
      BY <2>1, <3>2 DEF OnItsWay, Lost
    <3> QED
      BY <1>3, <2>2, <3>1, <3>2 DEF BroadcastSnapshot
  <2>5. ASSUME c \in clients, stream[c] = "loop", NEW n \in (greeting[c] + 1)..pushed
        PROVE  Metrics(n) \in OnItsWay(c)' \/ n \in Lost(c)'
    <3>1. CASE n = k
      BY <2>4, <3>1
    <3>2. CASE n # k
      BY <2>2, <2>4, <2>5, <3>2 DEF Gapless, Accounted
    <3> QED
      BY <3>1, <3>2
  <2> QED
    BY <2>1, <2>5 DEF Gapless, Accounted, Metrics
<1>4. CASE BroadcastLog
  <2>1. Log(logs + 1) \in Message
    BY <1>4 DEF BroadcastLog, Message, TypeInv, TypeOK, HubAssumption
  <2>2. Items(queue) \subseteq Items(queue')
    BY <1>0, <1>4, <2>1, ItemsOfChannel DEF BroadcastLog
  <2>3. OnItsWay(c) \subseteq OnItsWay(c)' /\ Lost(c)' = Lost(c)
    BY <1>4, <2>2 DEF BroadcastLog, OnItsWay, Lost, Items
  <2> QED
    BY <1>4, <2>3, KeepStep DEF BroadcastLog
<1>5. CASE FanOut
  <2>1. /\ Head(queue) \in Message /\ Items(queue) = {Head(queue)} \cup Items(queue')
        /\ UNCHANGED <<pushed, sampler, clients, stream, greeting, got, overflow>>
    BY <1>0, <1>5, TailElements, ItemsOfChannel DEF FanOut
  <2>2. SUFFICES ASSUME c \in clients, stream[c] = "loop", NEW n \in (greeting[c] + 1)..pushed
                 PROVE  \/ Metrics(n) \in Items(got[c]) \cup Items(buffer'[c]) \cup Items(queue')
                        \/ n \in missed'[c] \cup overflow
                        \/ n = pushed /\ sampler = "broadcast"
    BY <2>1 DEF Gapless, Accounted, OnItsWay, Lost, Items, Metrics
  <2>3. Accounted(c, n)
    BY <2>2 DEF Gapless
  <2>4. CASE HasRoom(c)
    <3>1. buffer'[c] = Append(buffer[c], Head(queue)) /\ missed'[c] = missed[c]
      BY <1>5, <2>2, <2>4 DEF FanOut, Offer
    <3>2. Items(buffer'[c]) = Items(buffer[c]) \cup {Head(queue)}
      BY <1>0, <2>1, <3>1, ItemsOfChannel
    <3> QED
      BY <2>1, <2>3, <3>1, <3>2 DEF Accounted, OnItsWay, Lost
  <2>5. CASE ~HasRoom(c)
    <3>1. buffer'[c] = buffer[c] /\ missed'[c] = missed[c] \cup SnapshotOf(Head(queue))
      BY <1>5, <2>2, <2>5 DEF FanOut, Offer
    <3>2. Metrics(n) = Head(queue) => n \in SnapshotOf(Head(queue))
      BY DEF SnapshotOf, Metrics
    <3> QED
      BY <2>1, <2>3, <3>1, <3>2 DEF Accounted, OnItsWay, Lost
  <2> QED
    BY <2>4, <2>5
<1>6. CASE Heartbeat
  <2>1. KeepAlive \in Message
    BY DEF Message
  <2>2. buffer'[c] \in {buffer[c], Append(buffer[c], KeepAlive)}
    BY <1>6 DEF Heartbeat, Offer
  <2>3. Items(buffer[c]) \subseteq Items(buffer'[c])
    <3>1. Items(Append(buffer[c], KeepAlive)) = Items(buffer[c]) \cup {KeepAlive}
      BY <1>0, <2>1, ItemsOfChannel
    <3> QED
      BY <2>2, <3>1
  <2>4. OnItsWay(c) \subseteq OnItsWay(c)' /\ Lost(c)' = Lost(c)
    BY <1>6, <2>3 DEF Heartbeat, OnItsWay, Lost, Items
  <2> QED
    BY <1>6, <2>4, KeepStep DEF Heartbeat
<1>7. CASE Stop
  BY <1>7 DEF Stop, Gapless
<1>8. ASSUME NEW d \in Conns, Register(d) PROVE Gapless(c)'
  <2>1. /\ UNCHANGED <<queue, missed, overflow, pushed, sampler, buffer, got, greeting>>
        /\ stream' = [stream EXCEPT ![d] = "greet"] /\ clients' = clients \cup {d}
    BY <1>8 DEF Register
  <2>2. CASE c = d
    BY <2>1, <2>2 DEF Gapless, TypeInv, TypeOK
  <2>3. CASE c # d
    BY <1>1, <2>1, <2>3 DEF TypeInv, TypeOK
  <2> QED
    BY <2>2, <2>3
<1>9. ASSUME NEW d \in Conns, Unregister(d) PROVE Gapless(c)'
  <2>1. CASE c = d
    BY <1>9, <2>1 DEF Unregister, Gapless
  <2>2. CASE c # d
    <3>1. /\ UNCHANGED <<queue, overflow, pushed, sampler>> /\ clients' \subseteq clients
          /\ stream'[c] = stream[c] /\ buffer'[c] = buffer[c] /\ got'[c] = got[c]
          /\ greeting'[c] = greeting[c] /\ missed'[c] = missed[c]
      BY <1>9, <2>2 DEF Unregister, Forget, TypeInv, TypeOK
    <3>2. OnItsWay(c)' = OnItsWay(c) /\ Lost(c)' = Lost(c)
      BY <3>1 DEF OnItsWay, Lost, Items
    <3> QED
      BY <3>1, <3>2, KeepStep
  <2> QED
    BY <2>1, <2>2
<1>10. ASSUME NEW d \in Conns, Greet(d) PROVE Gapless(c)'
  <2>1. /\ UNCHANGED <<queue, missed, overflow, pushed, sampler, buffer, clients>>
        /\ greeting' = [greeting EXCEPT ![d] = pushed] /\ stream' = [stream EXCEPT ![d] = "loop"]
        /\ c # d => got'[c] = got[c]
    BY <1>10 DEF Greet, Greets, Move, TypeInv, TypeOK
  <2>2. CASE c = d
    <3>1. greeting'[c] = pushed /\ pushed' = pushed /\ \A n \in (pushed + 1)..pushed : FALSE
      BY <1>0, <2>1, <2>2 DEF TypeInv, TypeOK
    <3> QED
      BY <3>1 DEF Gapless
  <2>3. CASE c # d
    BY <1>1, <2>1, <2>3 DEF TypeInv, TypeOK
  <2> QED
    BY <2>2, <2>3
<1>11. ASSUME NEW d \in Conns, Deliver(d) PROVE Gapless(c)'
  <2>1. /\ UNCHANGED <<queue, missed, overflow, pushed, sampler, clients, stream, greeting>>
        /\ buffer[d] # <<>> /\ buffer' = [buffer EXCEPT ![d] = Tail(@)]
        /\ got' = [got EXCEPT ![d] = Append(@, Head(buffer[d]))]
    BY <1>11 DEF Deliver
  <2>2. CASE c = d
    <3>1. buffer'[c] = Tail(buffer[c]) /\ got'[c] = Append(got[c], Head(buffer[c])) /\ buffer[c] # <<>>
      BY <2>1, <2>2 DEF TypeInv, TypeOK
    <3>2. Head(buffer[c]) \in Message /\ Items(buffer[c]) = {Head(buffer[c])} \cup Items(buffer'[c])
      BY <1>0, <3>1, TailElements, ItemsOfChannel
    <3>3. Items(got'[c]) = Items(got[c]) \cup {Head(buffer[c])}
      BY <1>0, <3>1, <3>2, ItemsOfChannel
    <3>4. OnItsWay(c)' = OnItsWay(c) /\ Lost(c)' = Lost(c)
      BY <2>1, <3>2, <3>3 DEF OnItsWay, Lost, Items
    <3> QED
      BY <2>1, <3>4, KeepStep
  <2>3. CASE c # d
    BY <1>1, <2>1, <2>3 DEF TypeInv, TypeOK
  <2> QED
    BY <2>2, <2>3
<1>12. ASSUME NEW d \in Conns, WriteError(d) PROVE Gapless(c)'
  <2>1. /\ UNCHANGED <<queue, missed, overflow, pushed, sampler, clients, got, greeting>>
        /\ buffer' = [buffer EXCEPT ![d] = Tail(@)] /\ stream' = [stream EXCEPT ![d] = "unregister"]
    BY <1>12 DEF WriteError, Move
  <2> QED
    BY <1>1, <2>1 DEF TypeInv, TypeOK
<1>13. ASSUME NEW d \in Conns, NEW pc \in {"register", "unregister"},
              stream' = [stream EXCEPT ![d] = pc],
              UNCHANGED <<feedVars, queue, clients, greeting, got, buffer, lossVars>>
       PROVE  Gapless(c)'
  BY <1>1, <1>13 DEF TypeInv, TypeOK
<1>14. ASSUME NEW d \in Conns, Connect(d) \/ ChannelClosed(d) \/ ContextDone(d) PROVE Gapless(c)'
  BY <1>13, <1>14 DEF Connect, ChannelClosed, ContextDone, Move
<1>15. ASSUME NEW d \in Conns, Disconnect(d) PROVE Gapless(c)'
  BY <1>1, <1>15 DEF Disconnect
<1>16. CASE Close \/ UNCHANGED vars
  BY <1>1, <1>16 DEF Close, vars
<1> QED
  BY <1>2, <1>3, <1>4, <1>5, <1>6, <1>7, <1>8, <1>9, <1>10, <1>11, <1>12, <1>14, <1>15, <1>16
     DEF Next, HubStep, HandlerStep

\* Each snapshot newer than the one a viewer was greeted with is written to it,
\* is on its way, or was dropped at a full queue or a full client buffer
\* (sse.go:57-66, 149-167; server.go:261-262).
THEOREM NoGapHolds == ASSUME HubAssumption PROVE Spec => []NoGap
<1> DEFINE AllGapless == \A c \in Conns : Gapless(c)
<1>1. Init => AllGapless
  BY DEF Init, Gapless
<1>2. TypeInv /\ AllGapless /\ [Next]_vars => AllGapless'
  BY GaplessStep
<1>3. TypeInv /\ AllGapless => NoGap
  BY GaplessIsNoGap DEF TypeInv, TypeOK
<1> QED
  BY <1>1, <1>2, <1>3, TypeInvHolds, PTL DEF Spec
=============================================================================
