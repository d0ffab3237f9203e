------------------------- MODULE AgentLoopsProofs -------------------------
(***************************************************************************)
(* Proofs about the two loops in which an agent talks to Control: the sync *)
(* loop (ControlSync) and the path of security events (EventPipeline).     *)
(*                                                                         *)
(* SyncInv, for every set of policies and every bound on versions and      *)
(* crashes: what holds of Control's records also holds of every request    *)
(* that is still under way, however late it will be processed.             *)
(*                                                                         *)
(* PipeInv, for every size of the ring, the queue and the batch and any    *)
(* number of events: the buffers are kept in the order of emission, each   *)
(* behind the next, and a batch that leaves the agent is ahead of          *)
(* everything that stays.                                                  *)
(***************************************************************************)
EXTENDS ControlSync, EventPipeline, FiniteSetTheorems, SequenceTheorems, TLAPS

-----------------------------------------------------------------------------
(* ControlSync *)

Message == [type : {"register", "heartbeat", "fetch", "apply"}, version : Nat,
            result : {"none", "applied", "failed"}, live : BOOLEAN]

SyncTypes ==
  /\ snaps \in Seq(Content) /\ Len(snaps) <= MaxVersion
  /\ reported \in Nat
  /\ status \in [1..MaxVersion -> {"none", "applied", "failed"}]
  /\ net \subseteq Message
  /\ active \in Nat /\ DefaultVersion <= active
  /\ live \in Nat
  /\ job \in 0..Len(snaps)
  /\ applied \subseteq Nat

\* A request says nothing that is not, or was not, true.
NetInv ==
  \A m \in net :
    /\ m.type = "heartbeat" => m.version \in applied \cup {DefaultVersion}
    /\ m.type = "heartbeat" /\ ~fell => m.version <= active
    /\ m.type = "apply" => m.version \in 1..Len(snaps)
    /\ m.type = "apply" /\ m.result = "applied" => m.version \in applied

\* The agent has something to apply; what it has saved it has applied, and
\* Control has published it.
AgentInv ==
  /\ pc = "apply" => job # 0
  /\ active # DefaultVersion => active <= Len(snaps) /\ active \in applied
  /\ active <= live

SyncInv ==
  /\ SyncTypes /\ NetInv /\ AgentInv
  /\ ReportedWasActive /\ AppliedIsTrue /\ EnforcedIsActive

-----------------------------------------------------------------------------
(* Messages *)

\* What a request looks like, and that one the agent has given up on stays the
\* same but for that.
LEMMA MessageTyping ==
  /\ \A t \in {"register", "heartbeat", "fetch", "apply"}, v \in Nat,
        r \in {"none", "applied", "failed"} :
       /\ Request(t, v, r) \in Message
       /\ Request(t, v, r).type = t /\ Request(t, v, r).version = v
       /\ Request(t, v, r).result = r
  /\ \A m \in Message :
       /\ [m EXCEPT !.live = FALSE] \in Message
       /\ [m EXCEPT !.live = FALSE].type = m.type
       /\ [m EXCEPT !.live = FALSE].version = m.version
       /\ [m EXCEPT !.live = FALSE].result = m.result
  BY DEF Request, Message

\* Requests that disappear, or that nobody waits for any more, disturb nothing;
\* neither does a restart, which leaves active as it is or sets fell.
LEMMA FewerMessages ==
  ASSUME SyncTypes, NetInv, UNCHANGED <<snaps, applied>>,
         fell' \/ (UNCHANGED <<active, fell>>),
         net' \subseteq net \/ net' = Abandoned
  PROVE  net' \subseteq Message /\ NetInv'
<1> SUFFICES ASSUME NEW n \in net'
             PROVE  /\ n \in Message
                    /\ n.type = "heartbeat" => n.version \in applied \cup {DefaultVersion}
                    /\ n.type = "heartbeat" /\ ~fell' => n.version <= active'
                    /\ n.type = "apply" => n.version \in 1..Len(snaps)
                    /\ n.type = "apply" /\ n.result = "applied" => n.version \in applied
  BY DEF NetInv
<1>1. PICK m \in net : /\ n \in Message
                       /\ n.type = m.type /\ n.version = m.version /\ n.result = m.result
  <2>1. CASE net' \subseteq net
    BY <2>1 DEF SyncTypes
  <2>2. CASE net' = Abandoned
    <3> PICK m \in net : n = [m EXCEPT !.live = FALSE]
      BY <2>2 DEF Abandoned
    <3> m \in Message
      BY DEF SyncTypes
    <3> QED
      BY MessageTyping
  <2> QED
    BY <2>1, <2>2
<1> QED
  BY <1>1 DEF NetInv

\* Neither does a new request that is true.
LEMMA NewMessage ==
  ASSUME SyncTypes, NetInv, UNCHANGED <<snaps, fell>>,
         NEW t \in {"register", "heartbeat", "fetch", "apply"}, NEW v \in Nat,
         NEW r \in {"none", "applied", "failed"},
         net' \subseteq net \cup {Request(t, v, r)},
         active <= active', applied \subseteq applied', active' \in Nat,
         t = "heartbeat" => v = active' /\ v \in applied' \cup {DefaultVersion},
         t = "apply" => v \in 1..Len(snaps),
         t = "apply" /\ r = "applied" => v \in applied'
  PROVE  net' \subseteq Message /\ NetInv'
<1> SUFFICES ASSUME NEW n \in net'
             PROVE  /\ n \in Message
                    /\ n.type = "heartbeat" => n.version \in applied' \cup {DefaultVersion}
                    /\ n.type = "heartbeat" /\ ~fell => n.version <= active'
                    /\ n.type = "apply" => n.version \in 1..Len(snaps)
                    /\ n.type = "apply" /\ n.result = "applied" => n.version \in applied'
  BY DEF NetInv
<1>1. CASE n = Request(t, v, r)
  BY <1>1, MessageTyping
<1>2. CASE n \in net
  <2> n \in Message /\ n.version \in Nat
    BY <1>2 DEF SyncTypes, Message
  <2> QED
    BY <1>2 DEF NetInv, SyncTypes
<1> QED
  BY <1>1, <1>2

\* Control processes a request: its records get what the request says.
LEMMA ProcessKeeps ==
  ASSUME SyncInv, NEW m \in net, Process(m), UNCHANGED <<maps, fell>>,
         job' \in 0..Len(snaps), pc' = "apply" => job' # 0
  PROVE  SyncInv'
<1> USE SyncAssumption DEF SyncInv, maps
<1>1. m \in Message /\ m.version \in Nat
  BY DEF SyncTypes, Message
<1>2. net' \subseteq Message /\ NetInv'
  BY FewerMessages DEF Process
<1>3. reported' \in Nat /\ ReportedWasActive'
  BY <1>1 DEF Process, NetInv, ReportedWasActive, SyncTypes
<1>4. status' \in [1..MaxVersion -> {"none", "applied", "failed"}] /\ AppliedIsTrue'
  <2>1. CASE m.type = "apply"
    <3>1. m.version \in 1..MaxVersion
      BY <1>1, <2>1 DEF NetInv, SyncTypes
    <3>2. m.result \in {"none", "applied", "failed"}
      BY <1>1 DEF Message
    <3> QED
      BY <2>1, <3>1, <3>2 DEF Process, AppliedIsTrue, NetInv, SyncTypes
  <2>2. CASE m.type # "apply"
    BY <2>2 DEF Process, AppliedIsTrue, SyncTypes
  <2> QED
    BY <2>1, <2>2
<1>5. SyncTypes' /\ AgentInv' /\ EnforcedIsActive'
  BY <1>2, <1>3, <1>4 DEF Process, SyncTypes, AgentInv, EnforcedIsActive, Policy
<1> QED
  BY <1>2, <1>3, <1>4, <1>5

\* A step that changes neither Control's records nor the maps has only the
\* requests to care for.
LEMMA RecordsKept ==
  ASSUME SyncInv, UNCHANGED <<control, maps, fell>>, net' \subseteq Message, NetInv',
         job' \in 0..Len(snaps), pc' = "apply" => job' # 0
  PROVE  SyncInv'
  BY DEF SyncInv, control, maps, SyncTypes, AgentInv, ReportedWasActive, AppliedIsTrue,
         EnforcedIsActive, Policy

-----------------------------------------------------------------------------
(* The actions *)

\* A new version is put on top: what was published stays what it was.
LEMMA PublishKeeps ==
  ASSUME SyncInv, NEW c \in Content, snaps' = Append(snaps, c), Len(snaps) < MaxVersion,
         UNCHANGED <<reported, status, net, pc, node, job>>
  PROVE  SyncInv'
<1> USE SyncAssumption DEF SyncInv, node, maps
<1>1. /\ snaps' \in Seq(Content) /\ Len(snaps') = Len(snaps) + 1
      /\ \A i \in 1..Len(snaps) : snaps'[i] = snaps[i]
  BY DEF SyncTypes
<1>2. SyncTypes'
  BY <1>1 DEF SyncTypes
<1>3. NetInv'
  BY <1>1 DEF SyncTypes, NetInv
<1>4. AgentInv' /\ EnforcedIsActive'
  BY <1>1 DEF SyncTypes, AgentInv, EnforcedIsActive, Policy, DefaultVersion
<1>5. ReportedWasActive' /\ AppliedIsTrue'
  BY DEF ReportedWasActive, AppliedIsTrue
<1> QED
  BY <1>2, <1>3, <1>4, <1>5

\* The agent's own steps.
LEMMA LoopKeeps ==
  ASSUME SyncInv, \/ EnterLoop \/ TickWithoutId \/ Heartbeat
                  \/ ApplySucceeds \/ ApplyTears \/ ApplyFails \/ GiveUp
  PROVE  SyncInv'
<1> USE SyncAssumption DEF SyncInv, node, control
<1>1. CASE EnterLoop
  <2>1. net' \subseteq net \cup {Request("register", 0, "none")}
    BY <1>1 DEF EnterLoop, Send
  <2>2. net' \subseteq Message /\ NetInv'
    BY <1>1, <2>1, NewMessage DEF EnterLoop, SyncTypes, maps
  <2> QED
    BY <1>1, <2>2, RecordsKept DEF EnterLoop, SyncTypes, AgentInv
<1>2. CASE TickWithoutId
  BY <1>2, RecordsKept DEF TickWithoutId, svars, SyncTypes, NetInv, AgentInv, maps
<1>3. CASE Heartbeat
  <2>1. net' \subseteq net \cup {Request("heartbeat", active, "none")}
    BY <1>3 DEF Heartbeat, Send
  <2>2. net' \subseteq Message /\ NetInv'
    BY <1>3, <2>1, NewMessage DEF Heartbeat, SyncTypes, AgentInv, maps
  <2> QED
    BY <1>3, <2>2, RecordsKept DEF Heartbeat, SyncTypes, AgentInv
<1>a. CASE ApplySucceeds \/ ApplyTears
  <2>1. job \in 1..Len(snaps) /\ live' = job /\ active < job /\ fell' = fell
    BY <1>a DEF ApplySucceeds, ApplyTears, Passes, AgentInv, SyncTypes
  <2>2. CASE ApplySucceeds
    <3>1. net' \subseteq net \cup {Request("apply", job, "applied")}
      BY <2>2 DEF ApplySucceeds, Ack, Send
    <3>2. net' \subseteq Message /\ NetInv'
      BY <2>1, <2>2, <3>1, NewMessage DEF ApplySucceeds, SyncTypes
    <3>3. SyncTypes' /\ AgentInv'
      BY <2>1, <2>2, <3>2 DEF ApplySucceeds, Ack, SyncTypes, AgentInv, DefaultVersion
    <3>4. ReportedWasActive' /\ AppliedIsTrue'
      BY <2>1, <2>2 DEF ApplySucceeds, SyncTypes, ReportedWasActive, AppliedIsTrue
    <3>5. EnforcedIsActive'
      BY <2>1, <2>2 DEF ApplySucceeds, SyncTypes, EnforcedIsActive, Policy, DefaultVersion
    <3> QED
      BY <3>2, <3>3, <3>4, <3>5
  <2>3. CASE ApplyTears
    <3>1. net' \subseteq net \cup {Request("apply", job, "failed")}
      BY <2>3 DEF ApplyTears, Ack, Send
    <3>2. net' \subseteq Message /\ NetInv'
      BY <2>1, <2>3, <3>1, NewMessage DEF ApplyTears, SyncTypes
    <3>3. SyncTypes' /\ AgentInv'
      BY <2>1, <2>3, <3>2 DEF ApplyTears, Ack, SyncTypes, AgentInv
    <3>4. ReportedWasActive' /\ AppliedIsTrue'
      BY <2>1, <2>3 DEF ApplyTears, ReportedWasActive, AppliedIsTrue
    <3>5. EnforcedIsActive'
      BY <2>3 DEF ApplyTears, EnforcedIsActive
    <3> QED
      BY <3>2, <3>3, <3>4, <3>5
  <2> QED
    BY <1>a, <2>2, <2>3
<1>5. CASE ApplyFails
  <2>1. job \in 1..Len(snaps)
    BY <1>5 DEF ApplyFails, AgentInv, SyncTypes
  <2>2. net' \subseteq net \cup {Request("apply", job, "failed")}
    BY <1>5 DEF ApplyFails, Ack, Send
  <2>3. net' \subseteq Message /\ NetInv'
    BY <1>5, <2>1, <2>2, NewMessage DEF ApplyFails, SyncTypes, maps
  <2> QED
    BY <1>5, <2>3, RecordsKept DEF ApplyFails, Ack, SyncTypes
<1>6. CASE GiveUp
  <2>1. net' \subseteq Message /\ NetInv'
    BY <1>6, FewerMessages DEF GiveUp, maps
  <2> QED
    BY <1>6, <2>1, RecordsKept DEF GiveUp, SyncTypes
<1> QED
  BY <1>1, <1>2, <1>3, <1>a, <1>5, <1>6

\* Answers in time, processing too late, and losses.
LEMMA RequestKeeps ==
  ASSUME SyncInv, NEW m \in net, Answer(m) \/ ProcessLate(m) \/ Lose(m)
  PROVE  SyncInv'
<1> USE SyncAssumption DEF SyncInv, node, control
<1>1. m \in Message /\ m.version \in Nat
  BY DEF SyncTypes, Message
<1>2. CASE AnswerRegister(m)
  BY <1>2, ProcessKeeps DEF AnswerRegister, SyncTypes
<1>3. CASE AnswerHeartbeat(m)
  <2>1. net' \subseteq net \cup {Request("fetch", active, "none")}
    BY <1>3 DEF AnswerHeartbeat
  <2>2. net' \subseteq Message /\ NetInv'
    BY <1>3, <2>1, NewMessage DEF AnswerHeartbeat, SyncTypes, maps
  <2>3. SyncTypes' /\ AgentInv' /\ ReportedWasActive'
    BY <1>1, <1>3, <2>2 DEF AnswerHeartbeat, SyncTypes, NetInv, AgentInv, ReportedWasActive, maps
  <2>4. AppliedIsTrue' /\ EnforcedIsActive'
    BY <1>3 DEF AnswerHeartbeat, AppliedIsTrue, EnforcedIsActive, Policy, maps
  <2> QED
    BY <2>2, <2>3, <2>4
<1>4. CASE AnswerFetch(m)
  <2>1. job' \in 0..Len(snaps) /\ (pc' = "apply" => job' # 0)
    BY <1>1, <1>4 DEF AnswerFetch, SyncTypes, Latest
  <2> QED
    BY <1>4, <2>1, ProcessKeeps DEF AnswerFetch
<1>5. CASE AnswerAck(m)
  BY <1>5, ProcessKeeps DEF AnswerAck, SyncTypes
<1>6. CASE ProcessLate(m)
  BY <1>6, ProcessKeeps DEF ProcessLate, SyncTypes, AgentInv
<1>7. CASE Lose(m)
  <2>1. net' \subseteq Message /\ NetInv'
    BY <1>7, FewerMessages DEF Lose, maps
  <2> QED
    BY <1>7, <2>1, RecordsKept DEF Lose, SyncTypes, AgentInv
<1> QED
  BY <1>2, <1>3, <1>4, <1>5, <1>6, <1>7 DEF Answer

\* The process or the host goes down and comes up again.
LEMMA RestartKeeps ==
  ASSUME SyncInv, Crash \/ Reboot
  PROVE  SyncInv'
<1> USE DEF SyncInv
<1>1. /\ UNCHANGED <<snaps, reported, status, applied>>
      /\ job' = 0 /\ pc' = "start" /\ net' = Abandoned
      /\ live' = active'
      /\ \/ UNCHANGED <<active, fell>>
         \/ fell' /\ active' = DefaultVersion
  BY DEF Crash, Reboot, Restart, LoadOrCreateSnapshot, control
<1>2. net' \subseteq Message /\ NetInv'
  BY <1>1, FewerMessages
<1>3. active' \in Nat /\ DefaultVersion <= active'
  BY <1>1 DEF SyncTypes, DefaultVersion
<1>4. SyncTypes' /\ AgentInv'
  BY <1>1, <1>2, <1>3 DEF SyncTypes, AgentInv
<1>5. ReportedWasActive' /\ AppliedIsTrue'
  BY <1>1 DEF ReportedWasActive, AppliedIsTrue
<1>6. EnforcedIsActive'
  <2>1. CASE Crash
    <3>1. CASE active' = active /\ mishap # "torn"
      BY <1>1, <2>1, <3>1 DEF Crash, EnforcedIsActive, Policy
    <3>2. CASE ~(active' = active /\ mishap # "torn")
      BY <1>1, <2>1, <3>2 DEF Crash, EnforcedIsActive
    <3> QED
      BY <3>1, <3>2
  <2>2. CASE Reboot
    BY <1>1, <2>2 DEF Reboot, EnforcedIsActive, Policy
  <2> QED
    BY <2>1, <2>2
<1> QED
  BY <1>2, <1>4, <1>5, <1>6

-----------------------------------------------------------------------------
(* The theorems *)

\* The invariant of the sync loop holds in every reachable state.
THEOREM SyncInvariance == SSpec => []SyncInv
<1>1. SInit => SyncInv
  <2> SUFFICES ASSUME SInit PROVE SyncInv
    OBVIOUS
  <2> USE SyncAssumption DEF SInit
  <2>1. SyncTypes /\ NetInv /\ AgentInv
    BY DEF SyncTypes, NetInv, AgentInv, DefaultVersion
  <2>2. ReportedWasActive /\ AppliedIsTrue /\ EnforcedIsActive
    BY DEF ReportedWasActive, AppliedIsTrue, EnforcedIsActive, Policy, DefaultVersion
  <2> QED
    BY <2>1, <2>2 DEF SyncInv
<1>2. SyncInv /\ [SNext]_svars => SyncInv'
  <2> SUFFICES ASSUME SyncInv, [SNext]_svars PROVE SyncInv'
    OBVIOUS
  <2>1. ASSUME NEW c \in Content, RebuildSnapshot(c) PROVE SyncInv'
    BY <2>1, PublishKeeps DEF RebuildSnapshot, Latest
  <2>2. ASSUME NEW v \in 1..Latest, RollbackSnapshot(v) PROVE SyncInv'
    <3>1. snaps[v] \in Content
      BY DEF SyncInv, SyncTypes, Latest
    <3> QED
      BY <2>2, <3>1, PublishKeeps DEF RollbackSnapshot, Latest
  <2>3. ASSUME NEW c \in Content, Expire(c) \/ Bar(c) PROVE SyncInv'
    BY <2>3, RecordsKept DEF Expire, Bar, SyncInv, SyncTypes, NetInv, AgentInv, control, maps
  <2>4. CASE UNCHANGED svars
    BY <2>4, RecordsKept DEF svars, SyncInv, SyncTypes, NetInv, AgentInv, control, maps
  <2> QED
    BY <2>1, <2>2, <2>3, <2>4, LoopKeeps, RequestKeeps, RestartKeeps DEF SNext
<1> QED
  BY <1>1, <1>2, PTL DEF SSpec

\* For any number of versions, crashes and late heartbeats, Control believes an
\* agent to run only what it has applied, and nothing ahead of what it has saved
\* before a restart falls back to the default (HeartbeatAgent,
\* loadOrCreateSnapshot).
THEOREM ReportedVersionsWereActive == SSpec => []ReportedWasActive
  BY SyncInvariance, PTL DEF SyncInv

\* Every version with the status "applied" was applied (RecordAgentApply).
THEOREM AppliedStatusIsTrue == SSpec => []AppliedIsTrue
  BY SyncInvariance, PTL DEF SyncInv

\* The policy in the maps is that of the active version, unless a reboot has
\* emptied them, an apply could not be undone, or a restart has come up over a
\* slot that was not live (RunControlSync, ApplyPolicySnapshot, LoadAndAttach).
THEOREM ActiveIsEnforced == SSpec => []EnforcedIsActive
  BY SyncInvariance, PTL DEF SyncInv

-----------------------------------------------------------------------------
(* EventPipeline *)

Ascending(s) == \A i, j \in 1..Len(s) : i < j => s[i] < s[j]
Below(S, T) == \A x \in S, y \in T : x < y

PipeTypes ==
  /\ emitted \in Nat /\ ring \in Seq(Nat) /\ queue \in Seq(Nat) /\ batch \in Seq(Nat)
  /\ loop \in {"select", "post", "last", "gone"}
  /\ forwarded \subseteq Nat /\ IsFiniteSet(forwarded)
  /\ dropped \subseteq Nat /\ IsFiniteSet(dropped)
  /\ stored \in Seq(Nat) /\ late \subseteq Seq(Nat)

\* The buffers hold events in the order of emission, the older ones further on.
BufferInv ==
  /\ Ascending(ring) /\ Ascending(queue) /\ Ascending(batch)
  /\ Below(Elems(batch), Elems(queue)) /\ Below(Elems(batch), Elems(ring))
  /\ Below(Elems(queue), Elems(ring))
  /\ dropped \cap (Elems(ring) \cup Elems(queue) \cup Elems(batch)) = {}

\* What Control has got or may still get.
Sent == Elems(stored) \cup UNION {Elems(b) : b \in late}

\* It is older than what the agent still has, but for the batch of a process
\* that has ended, and no event is in it twice.
SentInv ==
  /\ Below(Sent, Elems(queue)) /\ Below(Sent, Elems(ring))
  /\ loop # "gone" => Below(Sent, Elems(batch))
  /\ Sent \subseteq 1..emitted
  /\ \A b \in late : Ascending(b) /\ Elems(b) \cap Elems(stored) = {}
  /\ \A b, c \in late : b # c => Elems(b) \cap Elems(c) = {}

\* A request is never larger than Control takes it.
BatchInv ==
  /\ loop = "select" => Len(batch) < BatchSize
  /\ Len(batch) <= BatchSize

PipeInv ==
  PipeTypes /\ BufferInv /\ SentInv /\ BatchInv /\ EveryEventCounted /\ StoredInOrder

-----------------------------------------------------------------------------
(* Sequences and the sets of their elements *)

LEMMA ElemsOfEmpty == Elems(<<>>) = {} /\ Ascending(<<>>) /\ <<>> \in Seq(Nat) /\ Len(<<>>) = 0
  BY DEF Elems, Ascending

LEMMA ElemsOfAppend ==
  ASSUME NEW s \in Seq(Nat), NEW e \in Nat
  PROVE  /\ Append(s, e) \in Seq(Nat) /\ Len(Append(s, e)) = Len(s) + 1
         /\ Elems(Append(s, e)) = Elems(s) \cup {e}
         /\ Ascending(s) /\ Below(Elems(s), {e}) => Ascending(Append(s, e))
<1>1. /\ Append(s, e) \in Seq(Nat) /\ Len(Append(s, e)) = Len(s) + 1
      /\ \A i \in 1..Len(s) : Append(s, e)[i] = s[i]
      /\ Append(s, e)[Len(s) + 1] = e
  OBVIOUS
<1>2. 1..Len(s) + 1 = 1..Len(s) \cup {Len(s) + 1}
  OBVIOUS
<1>3. Elems(Append(s, e)) = Elems(s) \cup {e}
  BY <1>1, <1>2 DEF Elems
<1>4. ASSUME Ascending(s), Below(Elems(s), {e}) PROVE Ascending(Append(s, e))
  <2>1. \A i \in 1..Len(s) : s[i] < e
    BY <1>4 DEF Below, Elems
  <2>2. ASSUME NEW i \in 1..Len(s) + 1, NEW j \in 1..Len(s) + 1, i < j
        PROVE  Append(s, e)[i] < Append(s, e)[j]
    <3>1. CASE j \in 1..Len(s)
      BY <1>1, <1>4, <2>2, <3>1 DEF Ascending
    <3>2. CASE j = Len(s) + 1
      BY <1>1, <2>1, <2>2, <3>2
    <3> QED
      BY <3>1, <3>2
  <2> QED
    BY <1>1, <2>2 DEF Ascending
<1> QED
  BY <1>1, <1>3, <1>4

LEMMA ElemsOfTail ==
  ASSUME NEW s \in Seq(Nat), s # <<>>
  PROVE  /\ Head(s) \in Nat /\ Tail(s) \in Seq(Nat) /\ Len(Tail(s)) = Len(s) - 1
         /\ Elems(s) = {Head(s)} \cup Elems(Tail(s))
         /\ Ascending(s) => Ascending(Tail(s)) /\ Below({Head(s)}, Elems(Tail(s)))
<1>1. /\ Head(s) = s[1] /\ Len(s) \in Nat \ {0} /\ Tail(s) \in Seq(Nat)
      /\ Len(Tail(s)) = Len(s) - 1
      /\ \A i \in 1..(Len(s) - 1) : Tail(s)[i] = s[i + 1]
  BY EmptySeq, HeadTailProperties
<1>2. \A i \in 2..Len(s) : s[i] = Tail(s)[i - 1] /\ i - 1 \in 1..Len(Tail(s))
  BY <1>1
<1>3. Elems(s) = {Head(s)} \cup Elems(Tail(s))
  <2>1. 1..Len(s) = {1} \cup 2..Len(s)
    BY <1>1
  <2>2. Elems(s) \subseteq {Head(s)} \cup Elems(Tail(s))
    BY <1>1, <1>2, <2>1 DEF Elems
  <2>3. {Head(s)} \cup Elems(Tail(s)) \subseteq Elems(s)
    BY <1>1 DEF Elems
  <2> QED
    BY <2>2, <2>3
<1>4. ASSUME Ascending(s) PROVE Ascending(Tail(s)) /\ Below({Head(s)}, Elems(Tail(s)))
  BY <1>1, <1>4 DEF Ascending, Below, Elems
<1>5. Head(s) \in Nat
  BY <1>1
<1> QED
  BY <1>1, <1>3, <1>4, <1>5

LEMMA ElemsOfConcat ==
  ASSUME NEW s \in Seq(Nat), NEW t \in Seq(Nat)
  PROVE  s \o t \in Seq(Nat) /\ Elems(s \o t) = Elems(s) \cup Elems(t)
<1>1. /\ s \o t \in Seq(Nat) /\ Len(s \o t) = Len(s) + Len(t)
      /\ \A i \in 1..Len(s) : (s \o t)[i] = s[i]
      /\ \A i \in 1..Len(t) : (s \o t)[Len(s) + i] = t[i]
  BY ConcatProperties
<1>2. \A i \in 1..(Len(s) + Len(t)) : i \in 1..Len(s) \/ (i - Len(s) \in 1..Len(t) /\ i = Len(s) + (i - Len(s)))
  OBVIOUS
<1>3. Elems(s \o t) \subseteq Elems(s) \cup Elems(t)
  BY <1>1, <1>2 DEF Elems
<1>4. Elems(s) \cup Elems(t) \subseteq Elems(s \o t)
  <2>1. \A i \in 1..Len(s) : i \in 1..(Len(s) + Len(t))
    OBVIOUS
  <2>2. \A i \in 1..Len(t) : Len(s) + i \in 1..(Len(s) + Len(t))
    OBVIOUS
  <2> QED
    BY <1>1, <2>1, <2>2 DEF Elems
<1> QED
  BY <1>1, <1>3, <1>4

LEMMA ElemsAreNaturals ==
  ASSUME NEW s \in Seq(Nat)
  PROVE  Elems(s) \subseteq Nat
  BY DEF Elems

\* An ascending sequence has as many elements as it is long.
LEMMA ElemsCount ==
  ASSUME NEW s \in Seq(Nat), Ascending(s)
  PROVE  IsFiniteSet(Elems(s)) /\ Cardinality(Elems(s)) = Len(s)
<1> DEFINE f == [i \in 1..Len(s) |-> s[i]]
<1>1. Len(s) \in Nat /\ \A i \in 1..Len(s) : s[i] \in Nat
  OBVIOUS
<1>2. f \in Surjection(1..Len(s), Elems(s))
  BY DEF Surjection, Elems
<1>3. f \in Injection(1..Len(s), Elems(s))
  <2>1. f \in [1..Len(s) -> Elems(s)]
    BY DEF Elems
  <2>2. ASSUME NEW i \in 1..Len(s), NEW j \in 1..Len(s), f[i] = f[j] PROVE i = j
    <3>1. ~(s[i] < s[j]) /\ ~(s[j] < s[i])
      BY <1>1, <2>2
    <3> QED
      BY <1>1, <3>1 DEF Ascending
  <2> HIDE DEF f
  <2> QED
    BY <2>1, <2>2 DEF Injection, IsInjective
<1>4. IsFiniteSet(1..Len(s)) /\ Cardinality(1..Len(s)) = Len(s)
  BY <1>1, FS_Interval
<1> QED
  BY <1>2, <1>3, <1>4, FS_Surjection

\* Counting a batch whose events are counted nowhere else.
LEMMA CountBatch ==
  ASSUME NEW S, IsFiniteSet(S), NEW s \in Seq(Nat), Ascending(s), S \cap Elems(s) = {}
  PROVE  /\ IsFiniteSet(S \cup Elems(s))
         /\ Cardinality(S) \in Nat
         /\ Cardinality(S \cup Elems(s)) = Cardinality(S) + Len(s)
<1>1. IsFiniteSet(Elems(s)) /\ Cardinality(Elems(s)) = Len(s)
  BY ElemsCount
<1>2. Cardinality(S \cap Elems(s)) = 0
  BY FS_EmptySet
<1>3. Cardinality(S) \in Nat
  BY FS_CardinalityType
<1>4. /\ IsFiniteSet(S \cup Elems(s))
      /\ Cardinality(S \cup Elems(s)) = Cardinality(S) + Len(s) - 0
  BY <1>1, <1>2, FS_Union
<1>5. Len(s) \in Nat
  OBVIOUS
<1> QED
  BY <1>3, <1>4, <1>5

\* The order of the database, when a batch is put at its end. New among the
\* forwarded events G are only some of the batch, all after what is there.
InOrder(s, F) ==
  \A i, j \in 1..Len(s) : i < j => s[i] # s[j] /\ (s[j] \in F => s[i] < s[j])

LEMMA InOrderConcat ==
  ASSUME NEW s \in Seq(Nat), NEW b \in Seq(Nat), NEW F, NEW G, InOrder(s, F), Ascending(b),
         Elems(s) \cap Elems(b) = {}, Elems(s) \cap G \subseteq F,
         Below(Elems(s), Elems(b) \cap G)
  PROVE  InOrder(s \o b, G)
<1>1. /\ Len(s) \in Nat /\ Len(b) \in Nat
      /\ Len(s \o b) = Len(s) + Len(b)
      /\ \A i \in 1..(Len(s) + Len(b)) :
           (s \o b)[i] = IF i <= Len(s) THEN s[i] ELSE b[i - Len(s)]
  BY ConcatProperties
<1> SUFFICES ASSUME NEW i \in 1..(Len(s) + Len(b)), NEW j \in 1..(Len(s) + Len(b)), i < j
             PROVE  /\ (s \o b)[i] # (s \o b)[j]
                    /\ (s \o b)[j] \in G => (s \o b)[i] < (s \o b)[j]
  BY <1>1 DEF InOrder
<1>2. CASE j <= Len(s)
  <2>1. i \in 1..Len(s) /\ j \in 1..Len(s)
    BY <1>1, <1>2
  <2>2. (s \o b)[i] = s[i] /\ (s \o b)[j] = s[j] /\ s[j] \in Elems(s)
    BY <1>1, <2>1 DEF Elems
  <2>3. s[i] # s[j] /\ (s[j] \in F => s[i] < s[j])
    BY <2>1 DEF InOrder
  <2> QED
    BY <2>2, <2>3
<1>3. CASE i <= Len(s) /\ Len(s) < j
  <2>1. i \in 1..Len(s) /\ j - Len(s) \in 1..Len(b)
    BY <1>1, <1>3
  <2>2. /\ (s \o b)[i] = s[i] /\ (s \o b)[j] = b[j - Len(s)]
        /\ s[i] \in Elems(s) /\ b[j - Len(s)] \in Elems(b)
    BY <1>1, <1>3, <2>1 DEF Elems
  <2>3. b[j - Len(s)] \in G => s[i] < b[j - Len(s)]
    BY <2>2 DEF Below
  <2> QED
    BY <2>2, <2>3
<1>4. CASE Len(s) < i
  <2>1. i - Len(s) \in 1..Len(b) /\ j - Len(s) \in 1..Len(b) /\ i - Len(s) < j - Len(s)
    BY <1>1, <1>4
  <2>2. b[i - Len(s)] \in Nat /\ b[j - Len(s)] \in Nat
    BY <2>1
  <2>4. (s \o b)[i] = b[i - Len(s)] /\ (s \o b)[j] = b[j - Len(s)]
    BY <1>1, <1>4
  <2>3. b[i - Len(s)] < b[j - Len(s)]
    BY <2>1 DEF Ascending
  <2> QED
    BY <2>2, <2>3, <2>4
<1> QED
  BY <1>1, <1>2, <1>3, <1>4

-----------------------------------------------------------------------------
(* The actions *)

\* The sets and numbers that the parts of the invariant are about.
LEMMA PipeFacts ==
  ASSUME PipeInv
  PROVE  /\ Elems(ring) \subseteq 1..emitted /\ Elems(queue) \subseteq 1..emitted
         /\ Elems(batch) \subseteq 1..emitted /\ forwarded \subseteq 1..emitted
         /\ dropped \subseteq 1..emitted
         /\ Len(ring) \in Nat /\ Len(queue) \in Nat /\ Len(batch) \in Nat
         /\ Cardinality(forwarded) \in Nat /\ Cardinality(dropped) \in Nat
         /\ emitted \in Nat /\ 1..emitted \subseteq Nat
         /\ (\A b \in late : Elems(b) \subseteq Sent) /\ Elems(stored) \subseteq Sent
         /\ forwarded \subseteq Sent
         /\ BatchSize \in Nat \ {0} /\ MaxIngest \in Nat /\ BatchSize <= MaxIngest
<1>1. /\ Elems(ring) \subseteq 1..emitted /\ Elems(queue) \subseteq 1..emitted
      /\ Elems(batch) \subseteq 1..emitted /\ forwarded \subseteq 1..emitted
      /\ dropped \subseteq 1..emitted
  BY DEF PipeInv, EveryEventCounted
<1>2. /\ Len(ring) \in Nat /\ Len(queue) \in Nat /\ Len(batch) \in Nat
      /\ emitted \in Nat /\ 1..emitted \subseteq Nat
  BY DEF PipeInv, PipeTypes
<1>3. Cardinality(forwarded) \in Nat /\ Cardinality(dropped) \in Nat
  BY FS_CardinalityType DEF PipeInv, PipeTypes
<1>4. /\ \A b \in late : Elems(b) \subseteq Sent
      /\ Elems(stored) \subseteq Sent /\ forwarded \subseteq Sent
  BY DEF PipeInv, EveryEventCounted, Sent
<1>5. BatchSize \in Nat \ {0} /\ MaxIngest \in Nat /\ BatchSize <= MaxIngest
  BY PipelineAssumption
<1> QED
  BY <1>1, <1>2, <1>3, <1>4, <1>5

\* A new event is younger than all others.
LEMMA EmitKeeps ==
  ASSUME PipeInv, EmitEvent
  PROVE  PipeInv'
<1> USE DEF PipeInv
<1> DEFINE e == emitted + 1
<1>1. /\ emitted' = e /\ e \in Nat /\ 1..e = 1..emitted \cup {e} /\ e \notin 1..emitted
      /\ \A x \in 1..emitted : x < e
      /\ UNCHANGED <<queue, batch, loop, forwarded, stored, late>>
  BY PipeFacts DEF EmitEvent
<1> HIDE DEF e
<1>2. Elems(ring) \subseteq 1..emitted /\ Elems(queue) \subseteq 1..emitted
      /\ Elems(batch) \subseteq 1..emitted /\ Sent \subseteq 1..emitted
      /\ dropped \subseteq 1..emitted
  BY PipeFacts DEF SentInv
<1>3. CASE Len(ring) < RingSize
  <2>1. ring' = Append(ring, e) /\ dropped' = dropped
    BY <1>3 DEF EmitEvent, e
  <2>2. /\ ring' \in Seq(Nat) /\ Len(ring') = Len(ring) + 1
        /\ Elems(ring') = Elems(ring) \cup {e} /\ Ascending(ring')
    BY <1>1, <1>2, <2>1, ElemsOfAppend DEF PipeTypes, BufferInv, Below
  <2>3. PipeTypes' /\ BatchInv'
    BY <1>1, <2>1, <2>2 DEF PipeTypes, BatchInv
  <2>4. BufferInv'
    <3>1. Below(Elems(batch), Elems(ring')) /\ Below(Elems(queue), Elems(ring'))
      BY <1>1, <1>2, <2>2 DEF BufferInv, Below
    <3>2. dropped \cap (Elems(ring') \cup Elems(queue) \cup Elems(batch)) = {}
      BY <1>1, <1>2, <2>2 DEF BufferInv
    <3> QED
      BY <1>1, <2>1, <2>2, <3>1, <3>2 DEF BufferInv
  <2>5. SentInv'
    <3>1. Sent' = Sent
      BY <1>1 DEF Sent
    <3>2. Below(Sent, Elems(ring')) /\ Sent \subseteq 1..emitted'
      BY <1>1, <1>2, <2>2 DEF SentInv, Below
    <3> QED
      BY <1>1, <3>1, <3>2 DEF SentInv
  <2>6. EveryEventCounted'
    <3>1. 1..emitted' = Elems(ring') \cup Elems(queue') \cup Elems(batch') \cup forwarded' \cup dropped'
      BY <1>1, <2>1, <2>2 DEF EveryEventCounted
    <3>2. emitted' = Len(ring') + Len(queue') + Len(batch') + Cardinality(forwarded') + Cardinality(dropped')
      BY <1>1, <2>1, <2>2, PipeFacts DEF EveryEventCounted, e
    <3> QED
      BY <1>1, <3>1, <3>2 DEF EveryEventCounted
  <2> QED
    BY <1>1, <2>3, <2>4, <2>5, <2>6 DEF StoredInOrder
<1>4. CASE ~(Len(ring) < RingSize)
  <2>1. ring' = ring /\ dropped' = dropped \cup {e}
    BY <1>4 DEF EmitEvent, e
  <2>2. IsFiniteSet(dropped') /\ Cardinality(dropped') = Cardinality(dropped) + 1
    BY <1>1, <1>2, <2>1, FS_AddElement DEF PipeTypes
  <2>3. PipeTypes' /\ BatchInv'
    BY <1>1, <2>1, <2>2 DEF PipeTypes, BatchInv
  <2>4. BufferInv'
    BY <1>1, <1>2, <2>1 DEF BufferInv
  <2>5. SentInv'
    BY <1>1, <1>2, <2>1 DEF SentInv, Sent
  <2>6. EveryEventCounted'
    <3>1. 1..emitted' = Elems(ring') \cup Elems(queue') \cup Elems(batch') \cup forwarded' \cup dropped'
      BY <1>1, <2>1 DEF EveryEventCounted
    <3>2. emitted' = Len(ring') + Len(queue') + Len(batch') + Cardinality(forwarded') + Cardinality(dropped')
      BY <1>1, <2>1, <2>2, PipeFacts DEF EveryEventCounted, e
    <3> QED
      BY <1>1, <3>1, <3>2 DEF EveryEventCounted
  <2> QED
    BY <1>1, <2>3, <2>4, <2>5, <2>6 DEF StoredInOrder
<1> QED
  BY <1>3, <1>4

\* The oldest event of the ring goes to the end of the queue or is dropped.
LEMMA ConsumeKeeps ==
  ASSUME PipeInv, ConsumeRingbuf
  PROVE  PipeInv'
<1> USE DEF PipeInv
<1> DEFINE e == Head(ring)
<1>1. /\ ring' = Tail(ring) /\ ring # <<>>
      /\ UNCHANGED <<emitted, batch, loop, forwarded, stored, late>>
      /\ \/ queue' = Append(queue, e) /\ dropped' = dropped
         \/ dropped' = dropped \cup {e} /\ queue' = queue
  BY DEF ConsumeRingbuf, Enqueue
<1>2. /\ e \in Nat /\ ring' \in Seq(Nat) /\ Len(ring') = Len(ring) - 1
      /\ Elems(ring) = {e} \cup Elems(ring')
      /\ Ascending(ring') /\ Below({e}, Elems(ring'))
  BY <1>1, ElemsOfTail DEF PipeTypes, BufferInv
<1> HIDE DEF e
<1>3. /\ Below(Elems(queue), {e}) /\ Below(Elems(batch), {e}) /\ Below(Sent, {e})
      /\ e \notin dropped /\ e \in 1..emitted /\ e \notin Elems(ring')
      /\ e \notin Elems(queue) /\ e \notin Elems(batch)
  <2>1. Below(Elems(queue), {e}) /\ Below(Elems(batch), {e}) /\ Below(Sent, {e})
    BY <1>2 DEF BufferInv, SentInv, Below
  <2>2. e \notin dropped /\ e \in 1..emitted
    BY <1>2, PipeFacts DEF BufferInv
  <2>3. ~(e < e)
    BY <1>2
  <2>4. e \notin Elems(ring') /\ e \notin Elems(queue) /\ e \notin Elems(batch)
    BY <1>2, <2>1, <2>3 DEF Below
  <2> QED
    BY <2>1, <2>2, <2>4
<1>4. CASE queue' = Append(queue, e) /\ dropped' = dropped
  <2>1. /\ queue' \in Seq(Nat) /\ Len(queue') = Len(queue) + 1
        /\ Elems(queue') = Elems(queue) \cup {e} /\ Ascending(queue')
    BY <1>2, <1>3, <1>4, ElemsOfAppend DEF PipeTypes, BufferInv
  <2>2. PipeTypes' /\ BatchInv'
    BY <1>1, <1>2, <1>4, <2>1 DEF PipeTypes, BatchInv
  <2>3. BufferInv'
    BY <1>1, <1>2, <1>3, <1>4, <2>1 DEF BufferInv, Below
  <2>4. SentInv'
    BY <1>1, <1>2, <1>3, <2>1 DEF SentInv, Sent, Below
  <2>5. EveryEventCounted'
    <3>1. 1..emitted' = Elems(ring') \cup Elems(queue') \cup Elems(batch') \cup forwarded' \cup dropped'
      BY <1>1, <1>2, <1>4, <2>1 DEF EveryEventCounted
    <3>2. emitted' = Len(ring') + Len(queue') + Len(batch') + Cardinality(forwarded') + Cardinality(dropped')
      BY <1>1, <1>2, <1>4, <2>1, PipeFacts DEF EveryEventCounted
    <3> QED
      BY <1>1, <3>1, <3>2 DEF EveryEventCounted
  <2> QED
    BY <1>1, <2>2, <2>3, <2>4, <2>5 DEF StoredInOrder
<1>5. CASE dropped' = dropped \cup {e} /\ queue' = queue
  <2>1. IsFiniteSet(dropped') /\ Cardinality(dropped') = Cardinality(dropped) + 1
    BY <1>3, <1>5, FS_AddElement DEF PipeTypes
  <2>2. PipeTypes' /\ BatchInv'
    BY <1>1, <1>2, <1>5, <2>1 DEF PipeTypes, BatchInv
  <2>3. BufferInv'
    BY <1>1, <1>2, <1>3, <1>5 DEF BufferInv, Below
  <2>4. SentInv'
    BY <1>1, <1>2, <1>5 DEF SentInv, Sent, Below
  <2>5. EveryEventCounted'
    <3>1. 1..emitted' = Elems(ring') \cup Elems(queue') \cup Elems(batch') \cup forwarded' \cup dropped'
      BY <1>1, <1>2, <1>5 DEF EveryEventCounted
    <3>2. emitted' = Len(ring') + Len(queue') + Len(batch') + Cardinality(forwarded') + Cardinality(dropped')
      BY <1>1, <1>2, <1>5, <2>1, PipeFacts DEF EveryEventCounted
    <3> QED
      BY <1>1, <3>1, <3>2 DEF EveryEventCounted
  <2> QED
    BY <1>1, <2>2, <2>3, <2>4, <2>5 DEF StoredInOrder
<1> QED
  BY <1>1, <1>4, <1>5

\* The forwarder takes events over from the queue into a batch b, and keeps b,
\* posts it or drops it.
LEMMA GatherKeeps ==
  ASSUME PipeInv, loop = "select", UNCHANGED <<emitted, ring, forwarded, stored, late>>,
         NEW b \in Seq(Nat), Ascending(b), Len(b) <= BatchSize,
         queue' \in Seq(Nat), Ascending(queue'), Below(Elems(b), Elems(queue')),
         Elems(b) \cup Elems(queue') = Elems(batch) \cup Elems(queue),
         emitted = Len(ring) + (Len(queue') + Len(b)) + Cardinality(forwarded) + Cardinality(dropped),
         \/ batch' = <<>> /\ dropped' = dropped \cup Elems(b) /\ loop' \in {"select", "gone"}
         \/ /\ batch' = b /\ dropped' = dropped
            /\ loop' \in {"post", "last"} \/ (loop' = "select" /\ Len(b) < BatchSize)
  PROVE  PipeInv'
<1> USE DEF PipeInv
<1>1. dropped \cap Elems(b) = {} /\ dropped \cap Elems(queue') = {}
  BY DEF BufferInv
<1>2. /\ Below(Elems(b), Elems(ring)) /\ Below(Elems(queue'), Elems(ring))
      /\ Below(Sent, Elems(b)) /\ Below(Sent, Elems(queue'))
  BY DEF BufferInv, SentInv, Below
<1>a. Len(b) \in Nat /\ Len(queue') \in Nat
  OBVIOUS
<1>b. /\ emitted' = Len(ring') + (Len(queue') + Len(b)) + Cardinality(forwarded') + Cardinality(dropped)
      /\ Len(ring') \in Nat /\ Cardinality(forwarded') \in Nat /\ Cardinality(dropped) \in Nat
  BY PipeFacts
<1>3. CASE batch' = <<>> /\ dropped' = dropped \cup Elems(b) /\ loop' \in {"select", "gone"}
  <2>1. /\ batch' \in Seq(Nat) /\ Elems(batch') = {} /\ Ascending(batch') /\ Len(batch') = 0
    BY <1>3, ElemsOfEmpty
  <2>2. /\ IsFiniteSet(dropped') /\ dropped' \subseteq Nat
        /\ Cardinality(dropped') = Cardinality(dropped) + Len(b)
    BY <1>1, <1>3, CountBatch, ElemsAreNaturals DEF PipeTypes
  <2>3. PipeTypes'
    BY <1>3, <2>1, <2>2 DEF PipeTypes
  <2>7. BatchInv'
    <3>1. BatchSize \in Nat \ {0}
      BY PipeFacts
    <3> QED
      BY <2>1, <3>1 DEF BatchInv
  <2>4. BufferInv'
    <3>1. Elems(b) \cap Elems(queue') = {} /\ Elems(b) \cap Elems(ring) = {}
      BY <1>2, PipeFacts, ElemsAreNaturals DEF Below
    <3> QED
      BY <1>1, <1>2, <1>3, <2>1, <3>1 DEF BufferInv, Below
  <2>5. SentInv'
    BY <1>2, <2>1 DEF SentInv, Sent, Below
  <2>6. EveryEventCounted'
    <3>1. 1..emitted' = Elems(ring') \cup Elems(queue') \cup Elems(batch') \cup forwarded' \cup dropped'
      BY <1>3, <2>1 DEF EveryEventCounted
    <3>2. emitted' = Len(ring') + Len(queue') + Len(batch') + Cardinality(forwarded') + Cardinality(dropped')
      <4>1. Len(batch') = 0 /\ Cardinality(dropped') = Cardinality(dropped) + Len(b)
        BY <2>1, <2>2
      <4>2. emitted' = Len(ring') + Len(queue') + 0 + Cardinality(forwarded')
                         + (Cardinality(dropped) + Len(b))
        BY <1>a, <1>b
      <4> QED
        BY <4>1, <4>2, Zenon
    <3> QED
      BY <3>1, <3>2 DEF EveryEventCounted
  <2> QED
    BY <2>3, <2>4, <2>5, <2>6, <2>7 DEF StoredInOrder
<1>4. CASE /\ batch' = b /\ dropped' = dropped
           /\ loop' \in {"post", "last"} \/ (loop' = "select" /\ Len(b) < BatchSize)
  <2>1. PipeTypes' /\ BatchInv'
    BY <1>4 DEF PipeTypes, BatchInv
  <2>2. BufferInv'
    BY <1>1, <1>2, <1>4 DEF BufferInv, Below
  <2>3. SentInv'
    BY <1>2, <1>4 DEF SentInv, Sent, Below
  <2>4. EveryEventCounted'
    <3>1. 1..emitted' = Elems(ring') \cup Elems(queue') \cup Elems(batch') \cup forwarded' \cup dropped'
      BY <1>4 DEF EveryEventCounted
    <3>2. emitted' = Len(ring') + Len(queue') + Len(batch') + Cardinality(forwarded') + Cardinality(dropped')
      BY <1>4, <1>a, <1>b
    <3> QED
      BY <3>1, <3>2 DEF EveryEventCounted
  <2> QED
    BY <2>1, <2>2, <2>3, <2>4 DEF StoredInOrder
<1> QED
  BY <1>3, <1>4

LEMMA TakeKeeps ==
  ASSUME PipeInv, TakeEvent
  PROVE  PipeInv'
<1> USE DEF PipeInv
<1> DEFINE e == Head(queue)  b == Append(batch, e)
<1>1. /\ loop = "select" /\ queue # <<>> /\ queue' = Tail(queue)
      /\ UNCHANGED <<emitted, ring, forwarded, stored, late>>
      /\ IF BatchFull(b) THEN Flush(b, "select", "post")
         ELSE batch' = b /\ UNCHANGED <<loop, dropped>>
  BY DEF TakeEvent
<1>2. /\ e \in Nat /\ queue' \in Seq(Nat) /\ Len(queue') = Len(queue) - 1
      /\ Elems(queue) = {e} \cup Elems(queue')
      /\ Ascending(queue') /\ Below({e}, Elems(queue'))
  BY <1>1, ElemsOfTail DEF PipeTypes, BufferInv
<1> HIDE DEF e
<1>3. /\ b \in Seq(Nat) /\ Len(b) = Len(batch) + 1 /\ Elems(b) = Elems(batch) \cup {e}
      /\ Ascending(b)
  BY <1>2, ElemsOfAppend DEF PipeTypes, BufferInv, Below
<1> HIDE DEF b
<1>4. Below(Elems(b), Elems(queue')) /\ Elems(b) \cup Elems(queue') = Elems(batch) \cup Elems(queue)
  BY <1>2, <1>3 DEF BufferInv, Below
<1>5. /\ Len(b) <= BatchSize
      /\ emitted = Len(ring) + (Len(queue') + Len(b)) + Cardinality(forwarded) + Cardinality(dropped)
  <2>1. Len(b) <= BatchSize
    BY <1>1, <1>3, PipeFacts DEF BatchInv
  <2>2. emitted = Len(ring) + Len(queue) + Len(batch) + Cardinality(forwarded) + Cardinality(dropped)
    BY DEF EveryEventCounted
  <2> QED
    BY <2>1, <2>2, <1>2, <1>3, PipeFacts
<1>6. \/ batch' = <<>> /\ dropped' = dropped \cup Elems(b) /\ loop' \in {"select", "gone"}
      \/ /\ batch' = b /\ dropped' = dropped
         /\ loop' \in {"post", "last"} \/ (loop' = "select" /\ Len(b) < BatchSize)
  <2>1. CASE BatchFull(b)
    BY <1>1, <2>1 DEF Flush
  <2>2. CASE ~BatchFull(b)
    BY <1>1, <1>3, <2>2, PipeFacts DEF BatchFull
  <2> QED
    BY <2>1, <2>2
<1> QED
  BY <1>1, <1>2, <1>3, <1>4, <1>5, <1>6, GatherKeeps

LEMMA FlushKeeps ==
  ASSUME PipeInv, FlushTick \/ FlushLast
  PROVE  PipeInv'
<1>1. /\ loop = "select" /\ UNCHANGED <<emitted, ring, queue, forwarded, stored, late>>
      /\ \/ batch' = <<>> /\ dropped' = dropped \cup Elems(batch) /\ loop' \in {"select", "gone"}
         \/ /\ batch' = batch /\ dropped' = dropped /\ loop' \in {"post", "last"}
  BY DEF FlushTick, FlushLast, Flush
<1>2. /\ batch \in Seq(Nat) /\ Ascending(batch) /\ Len(batch) <= BatchSize
      /\ queue \in Seq(Nat) /\ Ascending(queue) /\ Below(Elems(batch), Elems(queue))
  BY DEF PipeInv, PipeTypes, BufferInv, BatchInv
<1>3. emitted = Len(ring) + (Len(queue) + Len(batch)) + Cardinality(forwarded) + Cardinality(dropped)
  BY PipeFacts DEF PipeInv, EveryEventCounted
<1> QED
  BY <1>1, <1>2, <1>3, GatherKeeps

\* The batch of a post belongs to nobody else.
LEMMA BatchIsNew ==
  ASSUME PipeInv, loop # "gone"
  PROVE  Elems(batch) \cap Sent = {} /\ Elems(batch) \cap dropped = {}
<1>1. \A x \in Elems(batch) : ~(x < x)
  BY PipeFacts
<1> QED
  BY <1>1 DEF PipeInv, SentInv, BufferInv, Below

\* The request ends: the batch is stored and counted as forwarded ...
LEMMA PostAnsweredKeeps ==
  ASSUME PipeInv, PostAnswered
  PROVE  PipeInv'
<1> USE DEF PipeInv
<1>1. /\ loop \in {"post", "last"} /\ loop' \in {"select", "gone"} /\ batch' = <<>>
      /\ stored' = stored \o batch /\ forwarded' = forwarded \cup Elems(batch)
      /\ UNCHANGED <<emitted, ring, queue, dropped, late>>
  <2>1. ~(Len(batch) > MaxIngest)
    BY PipeFacts DEF PostAnswered
  <2> QED
    BY <2>1 DEF PostAnswered, BatchReset, AfterPost, IngestSecurityEvents
<1>2. /\ stored' \in Seq(Nat) /\ Elems(stored') = Elems(stored) \cup Elems(batch)
  BY <1>1, ElemsOfConcat DEF PipeTypes
<1>3. /\ Elems(batch) \cap Sent = {} /\ Elems(batch) \cap dropped = {}
      /\ Below(Sent, Elems(batch))
  BY <1>1, BatchIsNew DEF SentInv
<1>4. Sent' = Sent \cup Elems(batch)
  BY <1>1, <1>2 DEF Sent
<1>5. batch' \in Seq(Nat) /\ Elems(batch') = {} /\ Ascending(batch') /\ Len(batch') = 0
  BY <1>1, ElemsOfEmpty
<1>6. /\ IsFiniteSet(forwarded') /\ forwarded' \subseteq Nat
      /\ Cardinality(forwarded') = Cardinality(forwarded) + Len(batch)
  <2>1. forwarded \cap Elems(batch) = {}
    BY <1>3, PipeFacts
  <2> QED
    BY <1>1, <2>1, CountBatch, ElemsAreNaturals DEF PipeTypes, BufferInv
<1>7. PipeTypes' /\ BatchInv'
  BY <1>1, <1>2, <1>5, <1>6, PipeFacts DEF PipeTypes, BatchInv
<1>8. BufferInv'
  BY <1>1, <1>5 DEF BufferInv, Below
<1>9. SentInv'
  <2>1. Below(Sent', Elems(queue')) /\ Below(Sent', Elems(ring')) /\ Below(Sent', Elems(batch'))
    BY <1>1, <1>4, <1>5 DEF SentInv, BufferInv, Below
  <2>2. Sent' \subseteq 1..emitted'
    BY <1>1, <1>4, PipeFacts DEF SentInv
  <2>3. \A b \in late : Elems(b) \cap Elems(stored') = {}
    BY <1>2, <1>3, PipeFacts DEF SentInv
  <2> QED
    BY <1>1, <2>1, <2>2, <2>3 DEF SentInv
<1>10. EveryEventCounted'
  <2>1. 1..emitted' = Elems(ring') \cup Elems(queue') \cup Elems(batch') \cup forwarded' \cup dropped'
    BY <1>1, <1>5 DEF EveryEventCounted
  <2>2. emitted' = Len(ring') + Len(queue') + Len(batch') + Cardinality(forwarded') + Cardinality(dropped')
    BY <1>1, <1>5, <1>6, PipeFacts DEF EveryEventCounted
  <2>3. forwarded' \subseteq Elems(stored')
    BY <1>1, <1>2 DEF EveryEventCounted
  <2> QED
    BY <2>1, <2>2, <2>3 DEF EveryEventCounted
<1>11. StoredInOrder'
  <2>1. InOrder(stored, forwarded) /\ DOMAIN stored = 1..Len(stored)
    BY DEF StoredInOrder, InOrder, PipeTypes
  <2>2. Elems(stored) \cap Elems(batch) = {} /\ Elems(stored) \cap forwarded' \subseteq forwarded
    BY <1>1, <1>3, PipeFacts
  <2>3. Below(Elems(stored), Elems(batch) \cap forwarded')
    BY <1>3, PipeFacts DEF Below
  <2>4. InOrder(stored', forwarded')
    BY <1>1, <2>1, <2>2, <2>3, InOrderConcat DEF PipeTypes, BufferInv
  <2>5. DOMAIN stored' = 1..Len(stored')
    BY <1>2
  <2> QED
    BY <2>4, <2>5 DEF StoredInOrder, InOrder
<1> QED
  BY <1>7, <1>8, <1>9, <1>10, <1>11

\* ... or it is counted as dropped, although Control may still store it.
LEMMA PostLostKeeps ==
  ASSUME PipeInv, PostFailed \/ PostTimesOut
  PROVE  PipeInv'
<1> USE DEF PipeInv
<1>1. /\ loop \in {"post", "last"} /\ loop' \in {"select", "gone"} /\ batch' = <<>>
      /\ dropped' = dropped \cup Elems(batch) /\ late' \in {late, late \cup {batch}}
      /\ UNCHANGED <<emitted, ring, queue, forwarded, stored>>
  BY DEF PostFailed, PostTimesOut, BatchReset, AfterPost
<1>2. /\ Elems(batch) \cap Sent = {} /\ Elems(batch) \cap dropped = {}
      /\ Below(Sent, Elems(batch))
  BY <1>1, BatchIsNew DEF SentInv
<1>3. Sent' \subseteq Sent \cup Elems(batch)
  BY <1>1 DEF Sent
<1>4. batch' \in Seq(Nat) /\ Elems(batch') = {} /\ Ascending(batch') /\ Len(batch') = 0
  BY <1>1, ElemsOfEmpty
<1>5. /\ IsFiniteSet(dropped') /\ dropped' \subseteq Nat
      /\ Cardinality(dropped') = Cardinality(dropped) + Len(batch)
  BY <1>1, <1>2, CountBatch, ElemsAreNaturals DEF PipeTypes, BufferInv
<1>6. PipeTypes' /\ BatchInv'
  BY <1>1, <1>4, <1>5, PipeFacts DEF PipeTypes, BatchInv
<1>7. BufferInv'
  <2>1. \A x \in Elems(batch) : ~(x < x)
    BY PipeFacts
  <2>2. Elems(batch) \cap Elems(queue) = {} /\ Elems(batch) \cap Elems(ring) = {}
    BY <2>1 DEF BufferInv, Below
  <2> QED
    BY <1>1, <1>4, <2>2 DEF BufferInv, Below
<1>8. SentInv'
  <2>1. Below(Sent', Elems(queue')) /\ Below(Sent', Elems(ring')) /\ Below(Sent', Elems(batch'))
    BY <1>1, <1>3, <1>4 DEF SentInv, BufferInv, Below
  <2>2. Sent' \subseteq 1..emitted'
    BY <1>1, <1>3, PipeFacts DEF SentInv
  <2>3. \A b \in late' : Ascending(b) /\ Elems(b) \cap Elems(stored) = {}
    BY <1>1, <1>2, PipeFacts DEF SentInv, BufferInv
  <2>4. \A b, c \in late' : b # c => Elems(b) \cap Elems(c) = {}
    BY <1>1, <1>2, PipeFacts DEF SentInv
  <2> QED
    BY <1>1, <2>1, <2>2, <2>3, <2>4 DEF SentInv
<1>9. EveryEventCounted'
  <2>1. 1..emitted' = Elems(ring') \cup Elems(queue') \cup Elems(batch') \cup forwarded' \cup dropped'
    BY <1>1, <1>4 DEF EveryEventCounted
  <2>2. emitted' = Len(ring') + Len(queue') + Len(batch') + Cardinality(forwarded') + Cardinality(dropped')
    BY <1>1, <1>4, <1>5, PipeFacts DEF EveryEventCounted
  <2> QED
    BY <1>1, <2>1, <2>2 DEF EveryEventCounted
<1> QED
  BY <1>1, <1>6, <1>7, <1>8, <1>9 DEF StoredInOrder

\* Control is done with a request nobody waits for.
LEMMA LateKeeps ==
  ASSUME PipeInv, NEW b \in late, LateIngest(b)
  PROVE  PipeInv'
<1> USE DEF PipeInv
<1>1. /\ late' = late \ {b} /\ stored' \in {stored, stored \o b}
      /\ UNCHANGED <<emitted, ring, queue, batch, loop, forwarded, dropped>>
  BY DEF LateIngest, IngestSecurityEvents
<1>2. b \in Seq(Nat) /\ Ascending(b) /\ Elems(b) \cap Elems(stored) = {}
  BY DEF PipeTypes, SentInv
<1>3. /\ stored' \in Seq(Nat) /\ Elems(stored) \subseteq Elems(stored')
      /\ Elems(stored') \subseteq Elems(stored) \cup Elems(b)
  BY <1>1, <1>2, ElemsOfConcat DEF PipeTypes
<1>4. Sent' \subseteq Sent
  BY <1>1, <1>3 DEF Sent
<1>5. PipeTypes' /\ BatchInv'
  BY <1>1, <1>3 DEF PipeTypes, BatchInv
<1>6. BufferInv' /\ EveryEventCounted'
  BY <1>1, <1>3 DEF BufferInv, EveryEventCounted
<1>7. SentInv'
  <2>1. \A c \in late' : Ascending(c) /\ Elems(c) \cap Elems(stored') = {}
    BY <1>1, <1>3 DEF SentInv
  <2> QED
    BY <1>1, <1>4, <2>1 DEF SentInv, Below
<1>8. StoredInOrder'
  <2>1. InOrder(stored, forwarded) /\ DOMAIN stored = 1..Len(stored)
    BY DEF StoredInOrder, InOrder, PipeTypes
  <2>2. Elems(b) \cap forwarded = {}
    BY <1>2 DEF EveryEventCounted
  <2>3. Below(Elems(stored), Elems(b) \cap forwarded)
    BY <2>2 DEF Below
  <2>4. InOrder(stored', forwarded)
    BY <1>1, <1>2, <2>1, <2>3, InOrderConcat DEF PipeTypes
  <2>5. DOMAIN stored' = 1..Len(stored')
    BY <1>3
  <2> QED
    BY <1>1, <2>4, <2>5 DEF StoredInOrder, InOrder
<1> QED
  BY <1>5, <1>6, <1>7, <1>8

\* The process ends, and its last request may be under way.
LEMMA ExitKeeps ==
  ASSUME PipeInv, Exit
  PROVE  PipeInv'
<1> USE DEF PipeInv
<1>1. /\ loop' = "gone" /\ UNCHANGED <<emitted, ring, queue, batch, forwarded, dropped, stored>>
      /\ late' = late \/ (loop # "gone" /\ late' = late \cup {batch})
  BY DEF Exit
<1>2. PipeTypes' /\ BufferInv' /\ BatchInv' /\ EveryEventCounted' /\ StoredInOrder'
  BY <1>1 DEF PipeTypes, BufferInv, BatchInv, EveryEventCounted, StoredInOrder
<1>3. SentInv'
  <2>1. CASE late' = late
    BY <1>1, <2>1 DEF SentInv, Sent
  <2>2. CASE loop # "gone" /\ late' = late \cup {batch}
    <3>1. Elems(batch) \cap Sent = {} /\ Sent' = Sent \cup Elems(batch)
      BY <1>1, <2>2, BatchIsNew DEF Sent
    <3>2. Below(Sent', Elems(queue')) /\ Below(Sent', Elems(ring'))
      BY <1>1, <3>1 DEF SentInv, BufferInv, Below
    <3>3. Sent' \subseteq 1..emitted'
      BY <1>1, <3>1, PipeFacts DEF SentInv
    <3>4. \A b \in late' : Ascending(b) /\ Elems(b) \cap Elems(stored) = {}
      BY <2>2, <3>1, PipeFacts DEF SentInv, BufferInv
    <3>5. \A b, c \in late' : b # c => Elems(b) \cap Elems(c) = {}
      BY <2>2, <3>1, PipeFacts DEF SentInv
    <3> QED
      BY <1>1, <3>2, <3>3, <3>4, <3>5 DEF SentInv
  <2> QED
    BY <1>1, <2>1, <2>2
<1> QED
  BY <1>2, <1>3

-----------------------------------------------------------------------------
(* The theorems *)

LEMMA PipeInit ==
  ASSUME EpInit
  PROVE  PipeInv
<1> USE ElemsOfEmpty, FS_EmptySet DEF EpInit
<1>1. Sent = {}
  BY DEF Sent
<1>2. PipeTypes /\ BufferInv /\ SentInv /\ BatchInv
  BY <1>1, PipelineAssumption DEF PipeTypes, BufferInv, SentInv, BatchInv, Below
<1>3. EveryEventCounted
  BY DEF EveryEventCounted
<1>4. StoredInOrder
  BY DEF StoredInOrder
<1> QED
  BY <1>2, <1>3, <1>4 DEF PipeInv

LEMMA PipeStep ==
  ASSUME PipeInv, [EpNext]_epvars
  PROVE  PipeInv'
<1>1. CASE ConsumerReturns \/ Register \/ Stop \/ UNCHANGED epvars
  <2>1. UNCHANGED <<emitted, ring, queue, batch, loop, forwarded, dropped, stored, late>>
    BY <1>1 DEF ConsumerReturns, Register, Stop, epvars
  <2> QED
    BY <2>1 DEF PipeInv, PipeTypes, BufferInv, SentInv, Sent, BatchInv, EveryEventCounted,
                StoredInOrder
<1> QED
  BY <1>1, EmitKeeps, ConsumeKeeps, TakeKeeps, FlushKeeps, PostAnsweredKeeps, PostLostKeeps,
     LateKeeps, ExitKeeps
  DEF EpNext, Forwarder

\* The invariant of the pipeline holds in every reachable state.
THEOREM PipeInvariance == EpSpec => []PipeInv
<1>1. EpInit => PipeInv
  BY PipeInit
<1>2. PipeInv /\ [EpNext]_epvars => PipeInv'
  BY PipeStep
<1> QED
  BY <1>1, <1>2, PTL DEF EpSpec

\* No event is lost without being counted, for every size of the buffers
\* (ConsumeRingbuf, Enqueue, Run and flush of the forwarder).
THEOREM EventsAreCounted == EpSpec => []EveryEventCounted
  BY PipeInvariance, PTL DEF PipeInv

\* Control stores an event at most once and what the agent counts as forwarded
\* in the order of emission (IngestSecurityEvents).
THEOREM StoredAreInOrder == EpSpec => []StoredInOrder
  BY PipeInvariance, PTL DEF PipeInv

\* Control never refuses a batch for its size: IngestSecurityEvents takes at
\* least as many events as Run puts into a batch.
THEOREM BatchesFit == EpSpec => [](Len(batch) <= MaxIngest)
<1>1. PipeInv => Len(batch) <= MaxIngest
  BY PipeFacts DEF PipeInv, BatchInv
<1> QED
  BY <1>1, PipeInvariance, PTL
=============================================================================
