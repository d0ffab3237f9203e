---------------------------- MODULE EventPipeline ----------------------------
(***************************************************************************)
(* Security events on their way from the XDP program to the database of    *)
(* Control: emit_event (bpf/xdp_data_plane.bpf.c), ConsumeRingbuf          *)
(* (internal/agent/ringbuf.go), SecurityEventForwarder                     *)
(* (internal/agent/event_forwarder.go, started and abandoned by Agent.Run) *)
(* and IngestSecurityEvents (internal/control/events.go).                  *)
(*                                                                         *)
(* Three goroutines or processes with a bounded buffer between each two.   *)
(* Nothing is sent twice: what cannot be kept or posted is dropped and     *)
(* counted. An event is its number in the order of emission.               *)
(***************************************************************************)
EXTENDS Integers, Sequences, FiniteSets

CONSTANTS
  RingSize,    \* records that fit the events map
  QueueSize,   \* defaultEventQueueSize
  BatchSize,   \* defaultEventBatchSize
  MaxIngest,   \* events that Control takes in one request
  MaxEvents    \* bound on the events

ASSUME PipelineAssumption ==
  /\ RingSize \in Nat \ {0} /\ QueueSize \in Nat \ {0} /\ MaxEvents \in Nat
  /\ MaxIngest \in Nat /\ BatchSize \in 1..MaxIngest

VARIABLES
  emitted,     \* history: events emitted so far
  ring,        \* the ring buffer
  consumer,    \* ConsumeRingbuf runs
  queue,       \* SecurityEventForwarder.queue
  batch,       \* the batch of Run
  loop,        \* Run: "select", "post", "last" (the post before its return) or "gone"
  registered,  \* the state file has an agent id
  stopping,    \* the context of the agent is done
  forwarded,   \* events counted as forwarded
  dropped,     \* events counted as dropped: in the ring, undecodable, queue full,
               \* unregistered or post failed
  stored,      \* security_events, in the order of their commits
  late         \* batches whose request the agent has given up while Control had it

epvars == <<emitted, ring, consumer, queue, batch, loop, registered, stopping, forwarded, dropped,
            stored, late>>

Elems(s) == {s[i] : i \in 1..Len(s)}

-----------------------------------------------------------------------------
(* Kernel and consumer *)

EmitEvent ==
  /\ emitted < MaxEvents
  /\ emitted' = emitted + 1
  /\ IF Len(ring) < RingSize
     THEN ring' = Append(ring, emitted + 1) /\ UNCHANGED dropped
     ELSE dropped' = dropped \cup {emitted + 1} /\ UNCHANGED ring
  /\ UNCHANGED <<consumer, queue, batch, loop, registered, stopping, forwarded, stored, late>>

\* Faulty variant: an event that finds the queue full is not counted.
EnqueueUncounted(e) ==
  /\ queue' = IF Len(queue) < QueueSize THEN Append(queue, e) ELSE queue
  /\ UNCHANGED dropped

\* Enqueue never blocks: the event that finds the queue full is the one that goes.
Enqueue(e) ==
  IF Len(queue) < QueueSize THEN queue' = Append(queue, e) /\ UNCHANGED dropped
  ELSE dropped' = dropped \cup {e} /\ UNCHANGED queue

ConsumeRingbuf ==
  /\ consumer /\ ring # <<>>
  /\ ring' = Tail(ring)
  /\ \/ Enqueue(Head(ring))
     \/ dropped' = dropped \cup {Head(ring)} /\ UNCHANGED queue   \* cannot be decoded
  /\ UNCHANGED <<emitted, consumer, batch, loop, registered, stopping, forwarded, stored, late>>

ConsumerReturns ==
  /\ consumer /\ stopping /\ consumer' = FALSE
  /\ UNCHANGED <<emitted, ring, queue, batch, loop, registered, stopping, forwarded, dropped, stored, late>>

-----------------------------------------------------------------------------
(* The forwarder *)

\* flush up to the request: without an agent id the batch is dropped.
Flush(b, then, post) ==
  IF b = <<>> \/ ~registered
  THEN /\ loop' = then /\ batch' = <<>>
       /\ dropped' = dropped \cup Elems(b)
  ELSE loop' = post /\ batch' = b /\ UNCHANGED dropped

BatchFull(b) == Len(b) >= BatchSize
TakeEvent ==
  LET b == Append(batch, Head(queue)) IN
  /\ loop = "select" /\ queue # <<>>
  /\ queue' = Tail(queue)
  /\ IF BatchFull(b) THEN Flush(b, "select", "post") ELSE batch' = b /\ UNCHANGED <<loop, dropped>>
  /\ UNCHANGED <<emitted, ring, consumer, registered, stopping, forwarded, stored, late>>

\* Faulty variant: the ticker flushes nothing.
TickNothing == FALSE /\ UNCHANGED epvars

FlushTick ==
  /\ loop = "select" /\ batch # <<>>
  /\ Flush(batch, "select", "post")
  /\ UNCHANGED <<emitted, ring, consumer, queue, registered, stopping, forwarded, stored, late>>

\* The case of the context in Run: the queue is not emptied.
FlushLast ==
  /\ loop = "select" /\ stopping
  /\ Flush(batch, "gone", "last")
  /\ UNCHANGED <<emitted, ring, consumer, queue, registered, stopping, forwarded, stored, late>>

\* Faulty variant: a batch that was not posted is kept for the next flush.
BatchKept(ok) == batch' = IF ok THEN <<>> ELSE batch

\* The batch after flush: it starts again from nothing, whether it was posted
\* or not.
BatchReset(ok) == batch' = <<>>
AfterPost == loop' = IF loop = "post" THEN "select" ELSE "gone"

\* IngestSecurityEvents stores all of a batch or nothing.
IngestSecurityEvents(b) == IF Len(b) > MaxIngest THEN stored ELSE stored \o b

\* The request ends well, or with an error before anything is stored.
PostAnswered ==
  /\ loop \in {"post", "last"} /\ Len(batch) <= MaxIngest
  /\ stored' = IngestSecurityEvents(batch)
  /\ forwarded' = forwarded \cup Elems(batch)
  /\ BatchReset(TRUE) /\ AfterPost
  /\ UNCHANGED <<emitted, ring, consumer, queue, registered, stopping, dropped, late>>
PostFailed ==
  /\ loop \in {"post", "last"}
  /\ dropped' = dropped \cup Elems(batch)
  /\ BatchReset(FALSE) /\ AfterPost
  /\ UNCHANGED <<emitted, ring, consumer, queue, registered, stopping, forwarded, stored, late>>

\* The agent gives up after 10 seconds, or when it stops; Control may go on.
PostTimesOut ==
  /\ loop \in {"post", "last"}
  /\ dropped' = dropped \cup Elems(batch)
  /\ late' = late \cup {batch}
  /\ BatchReset(FALSE) /\ AfterPost
  /\ UNCHANGED <<emitted, ring, consumer, queue, registered, stopping, forwarded, stored>>
LateIngest(b) ==
  /\ late' = late \ {b}
  /\ stored' \in {stored, IngestSecurityEvents(b)}
  /\ UNCHANGED <<emitted, ring, consumer, queue, batch, loop, registered, stopping, forwarded, dropped>>

-----------------------------------------------------------------------------
(* The agent *)

\* The control sync has registered the agent.
Register ==
  /\ ~registered /\ registered' = TRUE
  /\ UNCHANGED <<emitted, ring, consumer, queue, batch, loop, stopping, forwarded, dropped, stored, late>>

Stop ==
  /\ ~stopping /\ stopping' = TRUE
  /\ UNCHANGED <<emitted, ring, consumer, queue, batch, loop, registered, forwarded, dropped, stored, late>>

\* Agent.Run returns, because it is told to or because its metrics server
\* fails, and the process with it, without waiting for the others.
Exit ==
  /\ consumer \/ loop # "gone"
  /\ consumer' = FALSE /\ loop' = "gone" /\ stopping' = TRUE
  /\ late' = IF loop \in {"post", "last"} THEN late \cup {batch} ELSE late
  /\ UNCHANGED <<emitted, ring, queue, batch, registered, forwarded, dropped, stored>>

-----------------------------------------------------------------------------

EpInit ==
  /\ emitted = 0 /\ ring = <<>> /\ consumer = TRUE /\ queue = <<>> /\ batch = <<>>
  /\ loop = "select" /\ registered \in BOOLEAN /\ stopping = FALSE
  /\ forwarded = {} /\ dropped = {} /\ stored = <<>> /\ late = {}

Forwarder ==
  TakeEvent \/ FlushTick \/ FlushLast \/ PostAnswered \/ PostFailed \/ PostTimesOut

EpNext ==
  \/ EmitEvent \/ ConsumeRingbuf \/ ConsumerReturns \/ Forwarder
  \/ Register \/ Stop \/ Exit
  \/ \E b \in late : LateIngest(b)

\* The goroutines get on: a tick every second, an answer or the timeout.
EpSpec ==
  /\ EpInit /\ [][EpNext]_epvars
  /\ WF_epvars(ConsumeRingbuf) /\ WF_epvars(ConsumerReturns) /\ WF_epvars(Forwarder)

-----------------------------------------------------------------------------
(* Properties *)

\* No event is lost without being counted: every one emitted is in a buffer, or
\* counted as forwarded or as dropped, in exactly one of these ways. When the
\* forwarder has returned, what is left in the buffers is the loss. What is
\* counted as forwarded is in the database.
EveryEventCounted ==
  /\ 1..emitted = Elems(ring) \cup Elems(queue) \cup Elems(batch) \cup forwarded \cup dropped
  /\ emitted = Len(ring) + Len(queue) + Len(batch) + Cardinality(forwarded) + Cardinality(dropped)
  /\ forwarded \subseteq Elems(stored)

\* Events are stored at most once, although the answer of Control may be lost,
\* and in the order of their emission, up to batches whose request timed out:
\* their events, which the agent has counted as dropped, can follow later ones.
StoredInOrder ==
  \A i, j \in DOMAIN stored : i < j =>
    /\ stored[i] # stored[j]
    /\ stored[j] \in forwarded => stored[i] < stored[j]

\* What the forwarder has taken over does not stay with it while it runs.
EventsMoveOn ==
  \A e \in 1..MaxEvents : (e \in Elems(queue) \cup Elems(batch)) ~>
    (e \notin Elems(queue) \cup Elems(batch) \/ loop = "gone")
=============================================================================
