------------------------------- MODULE SSEHub -------------------------------
(***************************************************************************)
(* SSEHub and HandleSSEStream (internal/api/sse.go) with the part of the   *)
(* server that feeds them: the sampling loop, which pushes a snapshot into *)
(* the ring buffer and then broadcasts it (internal/server/server.go), and *)
(* the broadcasts of ingested logs.                                        *)
(*                                                                         *)
(* The hub is one goroutine; its unbuffered register and unregister        *)
(* channels make a step of the hub and a step of a stream handler one      *)
(* joint step.  A broadcast never waits: it is dropped when the hub's      *)
(* queue is full, and skipped for a client whose buffer is full.           *)
(***************************************************************************)
EXTENDS Integers, Sequences

CONSTANTS
    Conns,         \* connections to /api/v1/stream, each served once
    QueueSize,     \* capacity of the hub's broadcast channel
    ClientBuffer,  \* capacity of a client's channel
    MaxSnapshots,  \* bound: snapshots taken
    MaxLogs,       \* bound: logs broadcast
    MaxBeats       \* bound: heartbeats sent

ASSUME HubAssumption ==
    /\ QueueSize \in Nat \ {0}
    /\ ClientBuffer \in Nat \ {0}
    /\ MaxSnapshots \in Nat
    /\ MaxLogs \in Nat
    /\ MaxBeats \in Nat

VARIABLES
    pushed,      \* snapshots pushed into the ring buffer; the latest is the
                 \* one with this number, and 0 means there is none
    sampler,     \* the sampling loop is between Push and BroadcastSnapshot
    logs,        \* logs broadcast so far
    beats,       \* heartbeats so far
    queue,       \* the broadcast channel
    clients,     \* the hub's map of registered clients
    hub,         \* whether the hub's goroutine is running
    stopped,     \* stopChan is closed
    stream,      \* stream[c]: where the handler of connection c is
    buffer,      \* buffer[c]: the client channel of c
    shut,        \* connections whose client channel the hub has closed
    gone,        \* connections whose request context is cancelled
    greeting,    \* greeting[c]: the snapshot sent when the stream opened
    got,         \* history: what handler c has written to its connection, the
                 \* greeting included
    missed,      \* history: missed[c]: snapshots skipped because c was slow
                 \* (both are forgotten when the handler returns)
    overflow     \* history: snapshots dropped because the queue was full

feedVars   == <<pushed, sampler, logs>>
hubVars    == <<clients, hub, stopped, shut, beats>>
streamVars == <<stream, greeting, got, gone>>
lossVars   == <<missed, overflow>>

vars == <<feedVars, queue, hubVars, streamVars, buffer, lossVars>>

Metrics(n) == [event |-> "metrics", n |-> n]
Log(n)     == [event |-> "log", n |-> n]
KeepAlive  == [event |-> "keep-alive", n |-> 0]

Message == {Metrics(n) : n \in 1..MaxSnapshots} \cup {Log(n) : n \in 1..MaxLogs} \cup {KeepAlive}

Items(s) == {s[i] : i \in 1..Len(s)}

-----------------------------------------------------------------------------
(* metricSamplingLoop and the broadcasts *)

Push ==
    /\ sampler = "tick"
    /\ pushed < MaxSnapshots
    /\ pushed' = pushed + 1
    /\ sampler' = "broadcast"
    /\ UNCHANGED <<logs, queue, hubVars, streamVars, buffer, lossVars>>

BroadcastSnapshot ==
    /\ sampler = "broadcast"
    /\ sampler' = "tick"
    /\ \/ /\ Len(queue) < QueueSize
          /\ queue' = Append(queue, Metrics(pushed))
          /\ UNCHANGED overflow
       \/ /\ Len(queue) >= QueueSize
          /\ overflow' = overflow \cup {pushed}
          /\ UNCHANGED queue
    /\ UNCHANGED <<pushed, logs, hubVars, streamVars, buffer, missed>>

\* Variant of BroadcastLog: the queue has no capacity.
BroadcastLogUnbounded ==
    /\ logs < MaxLogs
    /\ logs' = logs + 1
    /\ queue' = Append(queue, Log(logs'))
    /\ UNCHANGED <<pushed, sampler, hubVars, streamVars, buffer, lossVars>>

BroadcastLog ==
    /\ logs < MaxLogs
    /\ logs' = logs + 1
    /\ queue' = IF Len(queue) < QueueSize THEN Append(queue, Log(logs')) ELSE queue
    /\ UNCHANGED <<pushed, sampler, hubVars, streamVars, buffer, lossVars>>

-----------------------------------------------------------------------------
(* run: the cases of the hub's select *)

Register(c) ==
    /\ hub = "running"
    /\ stream[c] = "register"
    /\ clients' = clients \cup {c}
    /\ stream' = [stream EXCEPT ![c] = "greet"]
    /\ UNCHANGED <<feedVars, queue, hub, stopped, shut, beats, greeting, got, gone, buffer, lossVars>>

\* The handler returns; nothing of it is left.
Forget(c) ==
    /\ stream' = [stream EXCEPT ![c] = "ended"]
    /\ buffer' = [buffer EXCEPT ![c] = <<>>]
    /\ greeting' = [greeting EXCEPT ![c] = 0]
    /\ got' = [got EXCEPT ![c] = <<>>]
    /\ missed' = [missed EXCEPT ![c] = {}]

\* Variant of Unregister: the channel is closed but stays in the map.
UnregisterKeepingEntry(c) ==
    /\ hub = "running"
    /\ stream[c] = "unregister"
    /\ shut' = shut \cup {c}
    /\ Forget(c)
    /\ UNCHANGED <<feedVars, queue, clients, hub, stopped, beats, gone, overflow>>

\* The deferred send on unregister, after which the handler has returned.
Unregister(c) ==
    /\ hub = "running"
    /\ stream[c] = "unregister"
    /\ clients' = clients \ {c}
    /\ shut' = shut \cup (clients \cap {c})
    /\ Forget(c)
    /\ UNCHANGED <<feedVars, queue, hub, stopped, beats, gone, overflow>>

HasRoom(c) == Len(buffer[c]) < ClientBuffer

\* Every client with room gets the message; the hub waits for none of them.
Offer(m) ==
    buffer' = [c \in Conns |-> IF c \in clients /\ HasRoom(c)
                               THEN Append(buffer[c], m) ELSE buffer[c]]

\* The snapshot in m, if it is one.
SnapshotOf(m) == IF m.event = "metrics" THEN {m.n} ELSE {}

\* Variant of FanOut: the hub sends with a plain, blocking send.
FanOutBlocking ==
    /\ hub = "running"
    /\ queue # <<>>
    /\ \A c \in clients : HasRoom(c)
    /\ queue' = Tail(queue)
    /\ Offer(Head(queue))
    /\ UNCHANGED <<feedVars, hubVars, streamVars, lossVars>>

\* Variant of FanOut: one goroutine per message, which run in any order.
FanOutUnordered ==
    /\ hub = "running"
    /\ \E i \in 1..Len(queue) :
          /\ queue' = SubSeq(queue, 1, i - 1) \o SubSeq(queue, i + 1, Len(queue))
          /\ Offer(queue[i])
    /\ UNCHANGED <<feedVars, hubVars, streamVars, lossVars>>

FanOut ==
    /\ hub = "running"
    /\ queue # <<>>
    /\ queue' = Tail(queue)
    /\ Offer(Head(queue))
    /\ missed' = [c \in Conns |-> IF c \in clients /\ ~HasRoom(c)
                                  THEN missed[c] \cup SnapshotOf(Head(queue)) ELSE missed[c]]
    /\ UNCHANGED <<feedVars, hubVars, streamVars, overflow>>

Heartbeat ==
    /\ hub = "running"
    /\ beats < MaxBeats
    /\ beats' = beats + 1
    /\ Offer(KeepAlive)
    /\ UNCHANGED <<feedVars, queue, clients, hub, stopped, shut, streamVars, lossVars>>

\* Close(): close(stopChan)
Close ==
    /\ ~stopped
    /\ stopped' = TRUE
    /\ UNCHANGED <<feedVars, queue, clients, hub, shut, beats, streamVars, buffer, lossVars>>

\* The hub sees stopChan, closes every client channel and returns.
Stop ==
    /\ hub = "running"
    /\ stopped
    /\ hub' = "returned"
    /\ clients' = {}
    /\ shut' = shut \cup clients
    /\ UNCHANGED <<feedVars, queue, stopped, beats, streamVars, buffer, lossVars>>

-----------------------------------------------------------------------------
(* HandleSSEStream *)

Move(c, pc) == stream' = [stream EXCEPT ![c] = pc]

Connect(c) ==
    /\ stream[c] = "none"
    /\ Move(c, "register")
    /\ UNCHANGED <<feedVars, queue, hubVars, greeting, got, gone, buffer, lossVars>>

\* Snapshot n is written, unless there is none.
Greets(c, n) ==
    /\ greeting' = [greeting EXCEPT ![c] = n]
    /\ got' = IF n = 0 THEN got ELSE [got EXCEPT ![c] = Append(@, Metrics(n))]

\* Variant of Greet: the latest snapshot was read before the client was
\* registered, at a time when n was the latest.
GreetReadingEarly(c) ==
    /\ stream[c] = "greet"
    /\ \E n \in 0..pushed : Greets(c, n)
    /\ Move(c, "loop")
    /\ UNCHANGED <<feedVars, queue, hubVars, gone, buffer, lossVars>>

\* The greeting and the latest snapshot; errors of these writes are ignored.
Greet(c) ==
    /\ stream[c] = "greet"
    /\ Greets(c, pushed)
    /\ Move(c, "loop")
    /\ UNCHANGED <<feedVars, queue, hubVars, gone, buffer, lossVars>>

\* A message received from the client channel and written.
Deliver(c) ==
    /\ stream[c] = "loop"
    /\ buffer[c] # <<>>
    /\ got' = [got EXCEPT ![c] = Append(@, Head(buffer[c]))]
    /\ buffer' = [buffer EXCEPT ![c] = Tail(@)]
    /\ UNCHANGED <<feedVars, queue, hubVars, stream, greeting, gone, lossVars>>

\* The write fails: the peer is gone, or the server's WriteTimeout has passed.
WriteError(c) ==
    /\ stream[c] = "loop"
    /\ buffer[c] # <<>>
    /\ buffer' = [buffer EXCEPT ![c] = Tail(@)]
    /\ Move(c, "unregister")
    /\ UNCHANGED <<feedVars, queue, hubVars, greeting, got, gone, lossVars>>

\* The client channel is closed, and what was buffered in it is written.
ChannelClosed(c) ==
    /\ stream[c] = "loop"
    /\ buffer[c] = <<>>
    /\ c \in shut
    /\ Move(c, "unregister")
    /\ UNCHANGED <<feedVars, queue, hubVars, greeting, got, gone, buffer, lossVars>>

\* Variant of ContextDone: the context is looked at when a message arrives.
ContextDoneOnMessage(c) ==
    /\ stream[c] = "loop"
    /\ buffer[c] # <<>>
    /\ c \in gone
    /\ Move(c, "unregister")
    /\ UNCHANGED <<feedVars, queue, hubVars, greeting, got, gone, buffer, lossVars>>

\* The request's context is cancelled.
ContextDone(c) ==
    /\ stream[c] = "loop"
    /\ c \in gone
    /\ Move(c, "unregister")
    /\ UNCHANGED <<feedVars, queue, hubVars, greeting, got, gone, buffer, lossVars>>

\* The peer hangs up (net/http cancels the request's context).
Disconnect(c) ==
    /\ stream[c] \notin {"none", "ended"}
    /\ c \notin gone
    /\ gone' = gone \cup {c}
    /\ UNCHANGED <<feedVars, queue, hubVars, stream, greeting, got, buffer, lossVars>>

-----------------------------------------------------------------------------
Init ==
    /\ pushed = 0
    /\ sampler = "tick"
    /\ logs = 0
    /\ beats = 0
    /\ queue = <<>>
    /\ clients = {}
    /\ hub = "running"
    /\ stopped = FALSE
    /\ stream = [c \in Conns |-> "none"]
    /\ buffer = [c \in Conns |-> <<>>]
    /\ shut = {}
    /\ gone = {}
    /\ greeting = [c \in Conns |-> 0]
    /\ got = [c \in Conns |-> <<>>]
    /\ missed = [c \in Conns |-> {}]
    /\ overflow = {}

HubStep == \/ FanOut
           \/ Heartbeat
           \/ Stop
           \/ \E c \in Conns : Register(c) \/ Unregister(c)

HandlerStep(c) == Greet(c) \/ Deliver(c) \/ WriteError(c) \/ ChannelClosed(c) \/ ContextDone(c)

Next ==
    \/ Push \/ BroadcastSnapshot \/ BroadcastLog
    \/ Close
    \/ HubStep
    \/ \E c \in Conns : Connect(c) \/ HandlerStep(c) \/ Disconnect(c)

Spec == Init /\ [][Next]_vars

(* The hub's goroutine runs.  A case of its select stays ready until it is  *)
(* taken, and select picks among the ready ones at random: none is passed  *)
(* over for ever.                                                          *)
HubFairness ==
    /\ WF_vars(FanOut)
    /\ WF_vars(Stop)
    /\ \A c \in Conns : WF_vars(Register(c)) /\ WF_vars(Unregister(c))

(* A handler runs too: a write ends within the server's WriteTimeout, and  *)
(* its select takes a cancelled context in the end.  Neither formula       *)
(* obliges a peer to do anything.                                          *)
HandlerFairness ==
    \A c \in Conns : WF_vars(HandlerStep(c)) /\ WF_vars(ContextDone(c))

HubFairSpec == Spec /\ HubFairness

FairSpec == Spec /\ HubFairness /\ HandlerFairness

-----------------------------------------------------------------------------
(* Properties *)

\* Type invariant, with the capacities of the two kinds of channel.
TypeOK ==
    /\ pushed \in 0..MaxSnapshots
    /\ sampler \in {"tick", "broadcast"}
    /\ logs \in 0..MaxLogs
    /\ beats \in 0..MaxBeats
    /\ queue \in Seq(Message) /\ Len(queue) <= QueueSize
    /\ clients \subseteq Conns
    /\ hub \in {"running", "returned"}
    /\ stopped \in BOOLEAN
    /\ stream \in [Conns -> {"none", "register", "greet", "loop", "unregister", "ended"}]
    /\ buffer \in [Conns -> Seq(Message)]
    /\ \A c \in Conns : Len(buffer[c]) <= ClientBuffer
    /\ shut \subseteq Conns
    /\ gone \subseteq Conns
    /\ greeting \in [Conns -> 0..MaxSnapshots]
    /\ got \in [Conns -> Seq(Message)]
    /\ missed \in [Conns -> SUBSET (1..MaxSnapshots)]
    /\ overflow \subseteq 1..MaxSnapshots

Open(c) == stream[c] \in {"greet", "loop", "unregister"}

\* The hub's map holds exactly the open streams whose channel is not closed.
\* So the hub never sends on a closed channel or closes one twice, which
\* would panic and take the process down, and never leaks a finished stream.
RegistryExact == clients = {c \in Conns : Open(c)} \ shut

\* A viewer sees logs in the order of their broadcast, and snapshots too but
\* for one step back: behind the snapshot it is greeted with may come older
\* ones that were still queued, and that one again.  What follows the greeting
\* is in order and repeats nothing.
InOrder ==
    \A c \in Conns :
        LET s == got[c] \o buffer[c] IN
        \A i, j \in 1..Len(s) :
            i < j /\ s[i].event = s[j].event /\ s[i].event # "keep-alive" =>
                \/ s[i].n < s[j].n
                \/ i = 1 /\ s[i] = Metrics(greeting[c])

\* No snapshot falls between the greeting and the stream: each one newer than
\* the greeting was written, or is on its way, or was dropped at a full queue
\* or a full client buffer.
NoGap ==
    \A c \in clients : stream[c] = "loop" =>
        \A n \in (greeting[c] + 1)..pushed :
            \/ Metrics(n) \in Items(got[c]) \cup Items(buffer[c]) \cup Items(queue)
            \/ n \in missed[c] \cup overflow
            \/ n = pushed /\ sampler = "broadcast"

\* The hub waits for no client: every queued message is taken in the end, with
\* no fairness assumed of the handlers or of the peers.
QueueServed ==
    \A m \in Message : m \in Items(queue) ~> m \notin Items(queue) \/ hub = "returned"

\* If handlers run, the handler of a peer that hung up ends, as long as the
\* hub is there to take its unregister.
StreamsEnd ==
    HandlerFairness =>
        \A c \in Conns : c \in gone ~> stream[c] = "ended" \/ hub = "returned"

\* "Close stops the SSE hub and disconnects all clients" (sse.go:129): after
\* Close the handler of every stream that was open ends.
CloseDisconnects ==
    \A c \in Conns : stopped /\ Open(c) ~> stream[c] = "ended"
=============================================================================
