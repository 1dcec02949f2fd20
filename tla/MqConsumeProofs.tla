-------------------------- MODULE MqConsumeProofs --------------------------
(***************************************************************************)
(* Proofs about MqConsume, for every set of messages, every number of      *)
(* goroutines and retries and every number of faults: type correctness,    *)
(* that no promised message is lost, and that the loop and the publisher   *)
(* implement Delivery.                                                     *)
(*                                                                         *)
(* The publisher keeps at most one frame or confirm outstanding on its     *)
(* channel, and it is the one of the publish in progress (ChannelOK).  So  *)
(* a confirm that was read means that this very copy reached the broker,   *)
(* and a message stays safe (SafeOK): settled, or in a queue, or in the    *)
(* hands of a goroutine that has neither acknowledged it nor got the       *)
(* confirm after which it will.                                            *)
(***************************************************************************)
EXTENDS MqConsume, FiniteSetTheorems, TLAPS

\* A retry stays within the limit.
RetryOK == \A s \in Slot : job[s].pc = "publish" => job[s].copy.retry < MaxRetry

\* The holder of pubMu is a publisher that has not been answered.
OwnerOK ==
  /\ pub.owner = Nobody => pub.phase = "ready" /\ pub.try = 1
  /\ pub.owner \in Slot => job[pub.owner].pc \in Publishing
  /\ pub.owner \in Body => producer[pub.owner] = "publishing"

\* What the publish channel holds belongs to the publish that waits on it.
ChannelOK ==
  IF pub.phase = "waiting"
  THEN \/ frames = <<FrameOf(pub.owner)>> /\ confirms = <<>>
       \/ frames = <<>> /\ confirms = <<"ack">>
       \/ frames = <<>> /\ confirms = <<"nack">>
  ELSE frames = <<>> /\ confirms = <<>>

Typed == TypeOK /\ RetryOK /\ OwnerOK /\ ChannelOK

-----------------------------------------------------------------------------
(* The building blocks of the actions.                                     *)

LEMMA JobFacts ==
  ASSUME TypeOK, NEW s \in Slot
  PROVE  /\ job[s].pc # "idle" => job[s] \in Job
         /\ job[s].pc = "idle" => job[s] = Idle
         /\ job[s] = Idle \/ job[s] \in Job
<1>1. job[s] \in Job \cup {Idle}
  BY DEF TypeOK
<1>2. Idle.pc = "idle"
  BY DEF Idle
<1>3. \A j \in Job : j.pc # "idle"
  BY DEF Job, Busy, Publishing
<1> QED BY <1>1, <1>2, <1>3

\* A goroutine that moves on keeps its delivery; the others do not move.
LEMMA GotoFacts ==
  ASSUME TypeOK, NEW s \in Slot, job[s].pc # "idle", NEW pc \in Busy, Goto(s, pc)
  PROVE  /\ job' \in [Slot -> Job \cup {Idle}]
         /\ job'[s].pc = pc /\ job'[s].copy = job[s].copy /\ job'[s].live = job[s].live
         /\ \A t \in Slot : t # s => job'[t] = job[t]
<1>1. job[s] \in Job
  BY JobFacts
<1>2. job \in [Slot -> Job \cup {Idle}]
  BY DEF TypeOK
<1>3. job' = [job EXCEPT ![s] = [job[s] EXCEPT !.pc = pc]]
  BY DEF Goto
<1>4. [job[s] EXCEPT !.pc = pc] \in Job
  BY <1>1 DEF Job
<1>5. /\ [job[s] EXCEPT !.pc = pc].pc = pc
      /\ [job[s] EXCEPT !.pc = pc].copy = job[s].copy
      /\ [job[s] EXCEPT !.pc = pc].live = job[s].live
  BY <1>1 DEF Job
<1> QED BY <1>2, <1>3, <1>4, <1>5

\* A goroutine that ends frees its slot.
LEMMA EndFacts ==
  ASSUME TypeOK, NEW s \in Slot, job' = [job EXCEPT ![s] = Idle]
  PROVE  /\ job' \in [Slot -> Job \cup {Idle}]
         /\ job'[s] = Idle
         /\ \A t \in Slot : t # s => job'[t] = job[t]
BY DEF TypeOK

LEMMA InFramesType ==
  ASSUME frames \in Seq(Frame), NEW f
  PROVE  InFrames(f) \in Nat
<1>1. DOMAIN frames = 1..Len(frames) /\ Len(frames) \in Nat
  OBVIOUS
<1>2. IsFiniteSet(1..Len(frames))
  BY <1>1, FS_Interval
<1>3. {i \in DOMAIN frames : frames[i] = f} \subseteq 1..Len(frames)
  BY <1>1
<1>4. IsFiniteSet({i \in DOMAIN frames : frames[i] = f})
  BY <1>2, <1>3, FS_Subset
<1> QED BY <1>4, FS_CardinalityType DEF InFrames

\* Returning deliveries only adds to the queue, and adds every one.
LEMMA ReturnedFacts ==
  ASSUME TypeOK, NEW S \in SUBSET Slot
  PROVE  /\ Returned(S) \in [Copy -> Nat]
         /\ \A c \in Copy : Returned(S)[c] >= queue[c]
         /\ \A s \in S : s \in Unacked => Returned(S)[job[s].copy] > 0
         /\ \A c \in Copy : Returned(S)[c] > 0 =>
              queue[c] > 0 \/ \E s \in S : s \in Unacked /\ job[s].copy = c
<1> DEFINE T(c) == {s \in S \cap Unacked : job[s].copy = c}
<1>1. \A c : IsFiniteSet(T(c))
  <2> TAKE c
  <2>1. T(c) \subseteq Slot /\ IsFiniteSet(Slot)
    BY MqConstants
  <2> QED BY <2>1, FS_Subset
<1>2. \A c : Cardinality(T(c)) \in Nat
  BY <1>1, FS_CardinalityType
<1>3. \A c : T(c) # {} => Cardinality(T(c)) # 0
  BY <1>1, FS_EmptySet
<1>4. \A c : T(c) = {} => Cardinality(T(c)) = 0
  BY <1>1, FS_EmptySet
<1>5. Returned(S) = [c \in Copy |-> queue[c] + Cardinality(T(c))]
  BY DEF Returned
<1>6. queue \in [Copy -> Nat]
  BY DEF TypeOK
<1> HIDE DEF T
<1>7. Returned(S) \in [Copy -> Nat] /\ \A c \in Copy : Returned(S)[c] >= queue[c]
  BY <1>2, <1>5, <1>6
<1>8. ASSUME NEW s \in S, s \in Unacked PROVE Returned(S)[job[s].copy] > 0
  <2>1. job[s].copy \in Copy
    BY <1>8, JobFacts DEF Unacked, Job
  <2>2. T(job[s].copy) # {}
    BY <1>8 DEF T
  <2> QED BY <1>2, <1>3, <1>5, <1>6, <2>1, <2>2
<1>9. ASSUME NEW c \in Copy, Returned(S)[c] > 0
      PROVE  queue[c] > 0 \/ \E s \in S : s \in Unacked /\ job[s].copy = c
  <2>1. CASE T(c) = {}
    BY <1>4, <1>5, <1>6, <1>9, <2>1
  <2>2. CASE T(c) # {}
    BY <2>2 DEF T
  <2> QED BY <2>1, <2>2
<1> QED BY <1>7, <1>8, <1>9

LEMMA DropPubChFacts ==
  ASSUME TypeOK, DropPubCh
  PROVE  /\ strays' \in [Frame -> Nat]
         /\ frames' = <<>> /\ confirms' = <<>>
         /\ frames' \in Seq(Frame) /\ confirms' \in Seq({"ack", "nack"})
BY InFramesType DEF DropPubCh, TypeOK

LEMMA FrameOfType ==
  ASSUME Typed, NEW p \in Body \cup Slot, p \in Slot => job[p].pc \in Publishing
  PROVE  FrameOf(p) \in Frame
<1>1. CASE p \in Body
  BY <1>1, MqConstants DEF FrameOf, Frame, Copy
<1>2. CASE p \notin Body
  <2>1. p \in Slot /\ job[p] \in Job
    BY <1>2, JobFacts DEF Publishing, Typed
  <2>2. job[p].copy \in Copy
    BY <2>1 DEF Job
  <2>3. CASE job[p].pc = "delay"
    BY <1>2, <2>2, <2>3 DEF FrameOf, Frame
  <2>4. CASE job[p].pc = "publish"
    <3>1. job[p].copy.retry < MaxRetry
      BY <2>1, <2>4 DEF Typed, RetryOK
    <3>2. [job[p].copy EXCEPT !.retry = @ + 1] \in Copy
      BY <2>2, <3>1, MqConstants DEF Copy
    <3> QED BY <1>2, <2>4, <3>2 DEF FrameOf, Frame
  <2> QED BY <1>2, <2>1, <2>3, <2>4 DEF Publishing
<1> QED BY <1>1, <1>2

\* A publisher that is trying is a producer or a goroutine about to publish.
LEMMA TryingFacts ==
  ASSUME Typed, NEW p \in Body \cup Slot, Trying(p)
  PROVE  /\ p \in Slot => job[p].pc \in Publishing
         /\ pub.phase = "ready" /\ frames = <<>> /\ confirms = <<>>
         /\ pub.owner \in {Nobody, p}
<1>1. /\ p \in Slot => job[p].pc \in Publishing
      /\ pub.phase = "ready" /\ pub.owner \in {Nobody, p}
  BY MqConstants DEF Typed, Trying, Wants, OwnerOK
<1>2. frames = <<>> /\ confirms = <<>>
  BY <1>1 DEF Typed, ChannelOK
<1> QED BY <1>1, <1>2

\* The publisher is told the outcome of its publish.
LEMMA ReportFacts ==
  ASSUME Typed, NEW p \in Body \cup Slot, p \in Slot => job[p].pc \in Publishing,
         NEW ok \in BOOLEAN, Report(p, ok)
  PROVE  /\ pub' = FreePub
         /\ job' \in [Slot -> Job \cup {Idle}]
         /\ producer' \in [Body -> {"new", "publishing", "ok", "error"}]
         /\ \A s \in Slot : s # p => job'[s] = job[s]
         /\ p \in Slot => /\ job'[p].pc = (IF ok THEN "ack" ELSE "requeue")
                          /\ job'[p].copy = job[p].copy /\ job'[p].live = job[p].live
                          /\ producer' = producer
         /\ p \in Body => /\ producer' = [producer EXCEPT ![p] = IF ok THEN "ok" ELSE "error"]
                          /\ job' = job
<1>1. CASE p \in Body
  <2>1. p \notin Slot
    BY <1>1, MqConstants
  <2>2. /\ job' = job
        /\ producer' = [producer EXCEPT ![p] = IF ok THEN "ok" ELSE "error"]
    BY <1>1 DEF Report
  <2>3. producer' \in [Body -> {"new", "publishing", "ok", "error"}]
    BY <2>2 DEF Typed, TypeOK
  <2> QED BY <1>1, <2>1, <2>2, <2>3 DEF Report, Typed, TypeOK
<1>2. CASE p \notin Body
  <2> DEFINE pc == IF ok THEN "ack" ELSE "requeue"
  <2>1. p \in Slot /\ job[p].pc # "idle" /\ pc \in Busy
    BY <1>2 DEF Publishing, Busy
  <2>2. Goto(p, pc) /\ producer' = producer /\ pub' = FreePub
    BY <1>2 DEF Report, Goto
  <2>3. TypeOK /\ producer \in [Body -> {"new", "publishing", "ok", "error"}]
    BY DEF Typed, TypeOK
  <2> HIDE DEF pc
  <2>4. /\ job' \in [Slot -> Job \cup {Idle}]
        /\ job'[p].pc = pc /\ job'[p].copy = job[p].copy /\ job'[p].live = job[p].live
        /\ \A t \in Slot : t # p => job'[t] = job[t]
    BY <2>1, <2>2, <2>3, GotoFacts
  <2> QED BY <1>2, <2>2, <2>3, <2>4 DEF pc
<1> QED BY <1>1, <1>2

LEMMA FreePubType ==
  /\ FreePub \in [owner : Slot \cup Body \cup {Nobody}, try : {1, 2},
                  phase : {"ready", "waiting", "broken"}]
  /\ FreePub.owner = Nobody /\ FreePub.phase = "ready" /\ FreePub.try = 1
BY DEF FreePub

\* Either the attempt is made again, or the publisher learns of the failure.
LEMMA TryFailsFacts ==
  ASSUME Typed, NEW p \in Body \cup Slot, p \in Slot => job[p].pc \in Publishing,
         TryFails(p)
  PROVE  /\ pub' \in [owner : Slot \cup Body \cup {Nobody}, try : {1, 2},
                      phase : {"ready", "waiting", "broken"}]
         /\ pub'.phase = "ready"
         /\ job' \in [Slot -> Job \cup {Idle}]
         /\ producer' \in [Body -> {"new", "publishing", "ok", "error"}]
         /\ \A s \in Slot : \/ job'[s] = job[s]
                            \/ /\ s = p /\ job'[s].pc = "requeue"
                               /\ job'[s].copy = job[s].copy /\ job'[s].live = job[s].live
         /\ \A b \in Body : producer'[b] = "ok" => producer[b] = "ok"
         /\ RetryOK' /\ OwnerOK'
<1>1. CASE pub.try = 1
  <2>1. pub' = [owner |-> p, try |-> 2, phase |-> "ready"]
    BY <1>1 DEF TryFails
  <2>2. job' = job
    BY <1>1 DEF TryFails
  <2>3. producer' = IF p \in Body THEN [producer EXCEPT ![p] = "publishing"] ELSE producer
    BY <1>1 DEF TryFails
  <2>4. producer' \in [Body -> {"new", "publishing", "ok", "error"}]
    BY <2>3 DEF Typed, TypeOK
  <2>5. OwnerOK'
    BY <2>1, <2>2, <2>3, MqConstants DEF OwnerOK, Typed, TypeOK
  <2>6. RetryOK'
    BY <2>2 DEF RetryOK, Typed
  <2>7. \A b \in Body : producer'[b] = "ok" => producer[b] = "ok"
    BY <2>3 DEF Typed, TypeOK
  <2> QED BY <2>1, <2>2, <2>4, <2>5, <2>6, <2>7 DEF Typed, TypeOK
<1>2. CASE pub.try # 1
  <2>1. Report(p, FALSE)
    BY <1>2 DEF TryFails
  <2>2. /\ pub' = FreePub
        /\ job' \in [Slot -> Job \cup {Idle}]
        /\ producer' \in [Body -> {"new", "publishing", "ok", "error"}]
        /\ \A s \in Slot : s # p => job'[s] = job[s]
        /\ p \in Slot => /\ job'[p].pc = "requeue"
                         /\ job'[p].copy = job[p].copy /\ job'[p].live = job[p].live
                         /\ producer' = producer
        /\ p \in Body => /\ producer' = [producer EXCEPT ![p] = "error"]
                         /\ job' = job
    BY <2>1, ReportFacts
  <2>3. OwnerOK'
    BY <2>2, FreePubType, MqConstants DEF OwnerOK
  <2>4. RetryOK'
    BY <2>2 DEF RetryOK, Typed
  <2>5. \A b \in Body : producer'[b] = "ok" => producer[b] = "ok"
    BY <2>2 DEF Typed, TypeOK
  <2> QED BY <2>2, <2>3, <2>4, <2>5, FreePubType, MqConstants
<1> QED BY <1>1, <1>2

\* A goroutine that is not publishing moves to pc or ends: the publisher is
\* not concerned.
LEMMA GoroutineTyped ==
  ASSUME Typed, NEW s \in Slot, job[s].pc \notin Publishing,
         job' \in [Slot -> Job \cup {Idle}],
         job'[s].pc = "publish" => job'[s].copy.retry < MaxRetry,
         \A t \in Slot : t # s => job'[t] = job[t],
         UNCHANGED <<pub, channel, producer>>
  PROVE  RetryOK' /\ OwnerOK' /\ ChannelOK'
<1>1. pub' = pub /\ frames' = frames /\ confirms' = confirms /\ producer' = producer
  BY DEF channel
<1>2. RetryOK'
  BY DEF RetryOK, Typed
<1>3. pub.owner # s
  BY DEF Typed, OwnerOK
<1>4. OwnerOK'
  BY <1>1, <1>3 DEF OwnerOK, Typed
<1>5. pub.owner # Nobody => FrameOf(pub.owner)' = FrameOf(pub.owner)
  <2>1. pub.owner \in Slot => job'[pub.owner] = job[pub.owner]
    BY <1>3
  <2>2. CASE pub.owner \in Slot
    BY <1>1, <2>1, <2>2 DEF FrameOf
  <2>3. CASE pub.owner \in Body
    BY <1>1, <2>3 DEF FrameOf
  <2> QED BY <2>2, <2>3 DEF Typed, TypeOK
<1>6. ChannelOK'
  BY <1>1, <1>5 DEF ChannelOK, Typed, OwnerOK
<1> QED BY <1>2, <1>4, <1>6

-----------------------------------------------------------------------------
(* Type correctness.                                                       *)

LEMMA TypedInit == Init => Typed
<1> SUFFICES ASSUME Init PROVE Typed
  OBVIOUS
<1>1. TypeOK
  BY FreePubType, MqConstants DEF Init, TypeOK
<1>2. RetryOK
  BY DEF Init, RetryOK, Idle
<1>3. OwnerOK
  BY FreePubType, MqConstants DEF Init, OwnerOK
<1>4. ChannelOK
  BY FreePubType DEF Init, ChannelOK
<1> QED BY <1>1, <1>2, <1>3, <1>4 DEF Typed

LEMMA FaultType ==
  ASSUME TypeOK, NEW kind, Fault(kind)
  PROVE  faults' \in 0..MaxFaults
BY MqConstants DEF TypeOK, Fault

LEMMA PutType ==
  ASSUME TypeOK, NEW f \in Frame, Put(f)
  PROVE  queue' \in [Copy -> Nat] /\ delayed' \in [Copy -> Nat]
<1>1. f.copy \in Copy
  BY DEF Frame
<1>2. CASE f.to = "queue"
  <2>1. queue' = [queue EXCEPT ![f.copy] = @ + 1] /\ delayed' = delayed
    BY <1>2 DEF Put
  <2>2. queue \in [Copy -> Nat] /\ delayed \in [Copy -> Nat]
    BY DEF TypeOK
  <2> QED BY <1>1, <2>1, <2>2
<1>3. CASE f.to # "queue"
  BY <1>1, <1>3 DEF TypeOK, Put
<1> QED BY <1>2, <1>3

\* The steps of the publisher.
LEMMA PublisherTyped ==
  ASSUME Typed, Publisher \/ Timeout
  PROVE  Typed'
<1> USE DEF Typed
<1>1. ASSUME NEW p \in Body \cup Slot, Send(p) PROVE Typed'
  <2>1. /\ p \in Slot => job[p].pc \in Publishing
        /\ pub.phase = "ready" /\ frames = <<>> /\ confirms = <<>>
        /\ pub.owner \in {Nobody, p}
    BY <1>1, TryingFacts DEF Send
  <2>2. FrameOf(p) \in Frame
    BY <2>1, FrameOfType
  <2>3. frames' = <<FrameOf(p)>> /\ confirms' = <<>>
    BY <1>1, <2>1 DEF Send
  <2>4. /\ pub' = [pub EXCEPT !.owner = p, !.phase = "waiting"]
        /\ pub'.owner = p /\ pub'.phase = "waiting"
        /\ pub' \in [owner : Slot \cup Body \cup {Nobody}, try : {1, 2},
                     phase : {"ready", "waiting", "broken"}]
    BY <1>1 DEF Send, TypeOK
  <2>5. /\ producer' = IF p \in Body THEN [producer EXCEPT ![p] = "publishing"] ELSE producer
        /\ producer' \in [Body -> {"new", "publishing", "ok", "error"}]
    BY <1>1 DEF Send, TypeOK
  <2>6. job' = job
    BY <1>1 DEF Send
  <2>7. TypeOK'
    BY <1>1, <2>2, <2>3, <2>4, <2>5 DEF Send, TypeOK, broker, history
  <2>8. RetryOK' /\ OwnerOK'
    BY <2>1, <2>4, <2>5, <2>6, MqConstants DEF RetryOK, OwnerOK, TypeOK
  <2>9. ChannelOK'
    <3>1. FrameOf(p)' = FrameOf(p)
      BY <2>6 DEF FrameOf
    <3> QED BY <2>3, <2>4, <3>1 DEF ChannelOK
  <2> QED BY <2>7, <2>8, <2>9
<1>2. ASSUME NEW p \in Body \cup Slot, p \in Slot => job[p].pc \in Publishing,
             TryFails(p), DropPubCh, faults' \in 0..MaxFaults,
             UNCHANGED <<queue, delayed, conn, loop, conc, history>>
      PROVE  Typed'
  <2>1. /\ pub' \in [owner : Slot \cup Body \cup {Nobody}, try : {1, 2},
                     phase : {"ready", "waiting", "broken"}]
        /\ pub'.phase = "ready"
        /\ job' \in [Slot -> Job \cup {Idle}]
        /\ producer' \in [Body -> {"new", "publishing", "ok", "error"}]
        /\ RetryOK' /\ OwnerOK'
    BY <1>2, TryFailsFacts
  <2>2. /\ strays' \in [Frame -> Nat]
        /\ frames' = <<>> /\ confirms' = <<>>
        /\ frames' \in Seq(Frame) /\ confirms' \in Seq({"ack", "nack"})
    BY <1>2, DropPubChFacts
  <2>3. TypeOK'
    BY <1>2, <2>1, <2>2 DEF TypeOK, history
  <2>4. ChannelOK'
    BY <2>1, <2>2 DEF ChannelOK
  <2> QED BY <2>1, <2>3, <2>4
<1>3. pub.phase # "ready" =>
        /\ pub.owner \in Body \cup Slot
        /\ pub.owner \in Slot => job[pub.owner].pc \in Publishing
  BY DEF TypeOK, OwnerOK
<1>4. faults \in 0..MaxFaults
  BY DEF TypeOK
<1>5. ASSUME NEW p \in Body \cup Slot, SendFails(p) PROVE Typed'
  <2>1. p \in Slot => job[p].pc \in Publishing
    BY <1>5, TryingFacts DEF SendFails
  <2> QED BY <1>2, <1>4, <1>5, <2>1 DEF SendFails
<1>6. ASSUME Confirmed PROVE Typed'
  <2>1. frames = <<>> /\ confirms = <<"ack">>
    BY <1>6 DEF Confirmed, ChannelOK
  <2>2. frames' = <<>> /\ confirms' = <<>>
    BY <1>6, <2>1 DEF Confirmed
  <2>3. Report(pub.owner, TRUE) /\ pub.phase = "waiting"
    BY <1>6 DEF Confirmed
  <2>4. /\ pub' = FreePub
        /\ job' \in [Slot -> Job \cup {Idle}]
        /\ producer' \in [Body -> {"new", "publishing", "ok", "error"}]
        /\ \A s \in Slot : s # pub.owner => job'[s] = job[s]
        /\ pub.owner \in Slot => job'[pub.owner].pc = "ack"
        /\ pub.owner \in Body => job' = job
    BY <1>3, <2>3, ReportFacts
  <2>5. RetryOK'
    BY <2>4 DEF RetryOK
  <2>6. TypeOK'
    BY <1>6, <2>2, <2>4, FreePubType DEF Confirmed, TypeOK, broker, history
  <2>7. OwnerOK' /\ ChannelOK'
    BY <2>2, <2>4, FreePubType, MqConstants DEF OwnerOK, ChannelOK
  <2> QED BY <2>5, <2>6, <2>7
<1>7. ASSUME Rejected PROVE Typed'
  <2>1. frames = <<>> /\ confirms = <<"nack">>
    BY <1>7 DEF Rejected, ChannelOK
  <2>2. CASE pub.try = 1
    BY <1>2, <1>3, <1>4, <1>7, <2>2 DEF Rejected
  <2>3. CASE pub.try # 1
    <3>1. frames' = <<>> /\ confirms' = <<>> /\ strays' = strays
      BY <1>7, <2>1, <2>3 DEF Rejected
    <3>2. /\ pub' \in [owner : Slot \cup Body \cup {Nobody}, try : {1, 2},
                       phase : {"ready", "waiting", "broken"}]
          /\ pub'.phase = "ready"
          /\ job' \in [Slot -> Job \cup {Idle}]
          /\ producer' \in [Body -> {"new", "publishing", "ok", "error"}]
          /\ RetryOK' /\ OwnerOK'
      BY <1>3, <1>7, TryFailsFacts DEF Rejected
    <3>3. TypeOK'
      BY <1>7, <3>1, <3>2 DEF Rejected, TypeOK, history
    <3>4. ChannelOK'
      BY <3>1, <3>2 DEF ChannelOK
    <3> QED BY <3>2, <3>3, <3>4
  <2> QED BY <2>2, <2>3
<1>8. ASSUME Timeout PROVE Typed'
  <2>1. faults' \in 0..MaxFaults
    BY <1>8, FaultType DEF Timeout
  <2> QED BY <1>2, <1>3, <1>8, <2>1 DEF Timeout
<1>9. ASSUME ConfirmClosed PROVE Typed'
  BY <1>2, <1>3, <1>4, <1>9 DEF ConfirmClosed
<1> QED BY <1>1, <1>5, <1>6, <1>7, <1>8, <1>9 DEF Publisher

\* A frame that is or was sent is a frame.
LEMMA HeadFrame ==
  ASSUME Typed, frames # <<>>
  PROVE  /\ pub.phase = "waiting" /\ pub.owner \in Body \cup Slot
         /\ pub.owner \in Slot => job[pub.owner].pc \in Publishing
         /\ frames = <<FrameOf(pub.owner)>> /\ confirms = <<>>
         /\ Head(frames) = FrameOf(pub.owner) /\ Tail(frames) = <<>>
         /\ FrameOf(pub.owner) \in Frame
<1>1. /\ pub.phase = "waiting"
      /\ frames = <<FrameOf(pub.owner)>> /\ confirms = <<>>
  BY DEF Typed, ChannelOK
<1>2. /\ pub.owner \in Body \cup Slot
      /\ pub.owner \in Slot => job[pub.owner].pc \in Publishing
  BY <1>1 DEF Typed, TypeOK, OwnerOK
<1>3. FrameOf(pub.owner) \in Frame
  BY <1>2, FrameOfType
<1> QED BY <1>1, <1>2, <1>3

\* The steps of the broker leave goroutines and publisher alone.
LEMMA BrokerTyped ==
  ASSUME Typed,
         \/ BrokerTakes \/ BrokerRejects
         \/ \E f \in Frame : StrayTaken(f) \/ StrayLost(f)
         \/ \E c \in Copy : DelayExpires(c)
  PROVE  Typed'
<1>1. TypeOK /\ RetryOK /\ OwnerOK /\ ChannelOK
  BY DEF Typed
<1>2. ASSUME UNCHANGED <<job, pub, producer>> PROVE RetryOK' /\ OwnerOK'
  BY <1>1, <1>2 DEF RetryOK, OwnerOK
<1>3. ASSUME NEW kind \in {"ack", "nack"}, frames # <<>>,
             frames' = Tail(frames), confirms' = Append(confirms, kind), pub' = pub
      PROVE  /\ ChannelOK'
             /\ frames' \in Seq(Frame) /\ confirms' \in Seq({"ack", "nack"})
  <2>1. frames' = <<>> /\ confirms' = <<kind>> /\ pub.phase = "waiting"
    BY <1>3, HeadFrame
  <2>2. <<>> \in Seq(Frame) /\ <<kind>> \in Seq({"ack", "nack"})
    OBVIOUS
  <2>3. ChannelOK'
    <3>1. pub'.phase = "waiting"
      BY <1>3, <2>1
    <3>2. confirms' = <<"ack">> \/ confirms' = <<"nack">>
      BY <2>1
    <3> QED BY <2>1, <3>1, <3>2 DEF ChannelOK
  <2> QED BY <2>1, <2>2, <2>3
<1>4. ASSUME BrokerTakes PROVE Typed'
  <2>1. queue' \in [Copy -> Nat] /\ delayed' \in [Copy -> Nat]
    BY <1>1, <1>4, HeadFrame, PutType DEF BrokerTakes
  <2>2. /\ ChannelOK'
        /\ frames' \in Seq(Frame) /\ confirms' \in Seq({"ack", "nack"})
    BY <1>3, <1>4 DEF BrokerTakes
  <2>3. RetryOK' /\ OwnerOK'
    BY <1>2, <1>4 DEF BrokerTakes
  <2> QED BY <1>1, <1>4, <2>1, <2>2, <2>3 DEF BrokerTakes, Typed, TypeOK, history
<1>5. ASSUME BrokerRejects PROVE Typed'
  <2>1. faults' \in 0..MaxFaults
    BY <1>1, <1>5, FaultType DEF BrokerRejects
  <2>2. /\ ChannelOK'
        /\ frames' \in Seq(Frame) /\ confirms' \in Seq({"ack", "nack"})
    BY <1>3, <1>5 DEF BrokerRejects
  <2>3. RetryOK' /\ OwnerOK'
    BY <1>2, <1>5 DEF BrokerRejects
  <2> QED BY <1>1, <1>5, <2>1, <2>2, <2>3 DEF BrokerRejects, Typed, TypeOK, history, broker
<1>6. ASSUME UNCHANGED <<job, pub, channel>> PROVE ChannelOK'
  <2>1. job' = job /\ pub' = pub /\ frames' = frames /\ confirms' = confirms
    BY <1>6 DEF channel
  <2>2. FrameOf(pub.owner)' = FrameOf(pub.owner)
    BY <2>1 DEF FrameOf
  <2> QED BY <1>1, <2>1, <2>2 DEF ChannelOK
<1>7. ASSUME NEW f \in Frame, StrayTaken(f) \/ StrayLost(f) PROVE Typed'
  <2>1. strays' \in [Frame -> Nat]
    <3>1. strays' = [strays EXCEPT ![f] = @ - 1] /\ strays[f] > 0
      BY <1>7 DEF StrayTaken, StrayLost
    <3>2. strays \in [Frame -> Nat] /\ strays[f] \in Nat
      BY <1>1 DEF TypeOK
    <3>3. strays[f] - 1 \in Nat
      BY <3>1, <3>2
    <3> QED BY <3>1, <3>2, <3>3
  <2>2. queue' \in [Copy -> Nat] /\ delayed' \in [Copy -> Nat]
    <3>1. CASE StrayTaken(f)
      BY <1>1, <3>1, PutType DEF StrayTaken
    <3>2. CASE StrayLost(f)
      BY <1>1, <3>2 DEF StrayLost, TypeOK
    <3> QED BY <1>7, <3>1, <3>2
  <2>3. UNCHANGED <<conn, loop, conc, job, pub, channel, producer, history, faults>>
    BY <1>7 DEF StrayTaken, StrayLost
  <2>4. RetryOK' /\ OwnerOK' /\ ChannelOK'
    BY <1>2, <1>6, <2>3
  <2> QED BY <1>1, <2>1, <2>2, <2>3, <2>4 DEF Typed, TypeOK, history, channel
<1>8. ASSUME NEW c \in Copy, DelayExpires(c) PROVE Typed'
  <2>1. queue' \in [Copy -> Nat] /\ delayed' \in [Copy -> Nat]
    BY <1>1, <1>8 DEF DelayExpires, TypeOK
  <2>2. UNCHANGED <<strays, conn, loop, conc, job, pub, channel, producer, history, faults>>
    BY <1>8 DEF DelayExpires
  <2>3. RetryOK' /\ OwnerOK' /\ ChannelOK'
    BY <1>2, <1>6, <2>2
  <2> QED BY <1>1, <2>1, <2>2, <2>3 DEF Typed, TypeOK, history, channel
<1> QED BY <1>4, <1>5, <1>7, <1>8

\* The steps of the consume loop.
LEMMA LoopTyped ==
  ASSUME Typed,
         \/ Connect \/ Drain \/ Drained \/ ConnLost \/ Reconnect \/ Crash
         \/ \E s \in Slot : Start(s) \/ \E c \in Copy : Deliver(s, c)
  PROVE  Typed'
<1>1. TypeOK /\ RetryOK /\ OwnerOK /\ ChannelOK
  BY DEF Typed
<1>2. ASSUME UNCHANGED <<job, pub, channel, producer>> PROVE RetryOK' /\ OwnerOK' /\ ChannelOK'
  <2>1. job' = job /\ pub' = pub /\ frames' = frames /\ confirms' = confirms /\ producer' = producer
    BY <1>2 DEF channel
  <2>2. FrameOf(pub.owner)' = FrameOf(pub.owner)
    BY <2>1 DEF FrameOf
  <2>3. RetryOK' /\ OwnerOK'
    BY <1>1, <2>1 DEF RetryOK, OwnerOK
  <2>4. ChannelOK'
    BY <1>1, <2>1, <2>2 DEF ChannelOK
  <2> QED BY <2>3, <2>4
<1>3. Returned(Slot) \in [Copy -> Nat]
  BY <1>1, ReturnedFacts
<1>4. CASE Connect
  BY <1>1, <1>2, <1>4 DEF Connect, Typed, TypeOK, broker, channel, history
<1>5. CASE Reconnect
  BY <1>1, <1>2, <1>5 DEF Reconnect, Typed, TypeOK, broker, channel, history
<1>6. CASE Drain
  <2>1. faults' \in 0..MaxFaults
    BY <1>1, <1>6, FaultType DEF Drain
  <2> QED BY <1>1, <1>2, <1>6, <2>1 DEF Drain, Typed, TypeOK, broker, channel, history
<1>7. CASE Drained
  <2>1. \A s \in Slot : job[s].pc \notin Busy
    BY <1>7 DEF Drained, BusySlots
  <2>2. pub.owner \notin Slot
    BY <1>1, <2>1 DEF OwnerOK, Busy
  <2>3. job' = [s \in Slot |-> Idle] /\ UNCHANGED <<pub, frames, confirms, producer>>
    BY <1>7 DEF Drained, channel
  <2>4. RetryOK' /\ OwnerOK'
    BY <1>1, <2>2, <2>3 DEF RetryOK, OwnerOK, Idle
  <2>5. ChannelOK'
    <3>1. pub.owner \in Body => FrameOf(pub.owner)' = FrameOf(pub.owner)
      BY <2>3 DEF FrameOf
    <3> QED BY <1>1, <2>2, <2>3, <3>1 DEF ChannelOK, OwnerOK, TypeOK
  <2>6. TypeOK'
    BY <1>1, <1>3, <1>7, <2>3 DEF Drained, TypeOK, channel, history
  <2> QED BY <2>4, <2>5, <2>6 DEF Typed
<1>8. CASE ConnLost
  <2>1. faults' \in 0..MaxFaults
    BY <1>1, <1>8, FaultType DEF ConnLost
  <2>2. /\ job' = [s \in Slot |-> IF job[s].pc \in Busy THEN [job[s] EXCEPT !.live = FALSE] ELSE Idle]
        /\ \A s \in Slot : job'[s] \in Job \cup {Idle}
        /\ \A s \in Slot : job[s].pc \in Busy => job'[s].pc = job[s].pc /\ job'[s].copy = job[s].copy
        /\ \A s \in Slot : job[s].pc \notin Busy => job'[s] = Idle
    <3>1. job' = [s \in Slot |-> IF job[s].pc \in Busy THEN [job[s] EXCEPT !.live = FALSE] ELSE Idle]
      BY <1>8 DEF ConnLost
    <3>2. \A s \in Slot : job[s].pc \in Busy => job[s] \in Job
      BY <1>1, JobFacts DEF Busy, Publishing
    <3>3. \A j \in Job : /\ [j EXCEPT !.live = FALSE] \in Job
                         /\ [j EXCEPT !.live = FALSE].pc = j.pc
                         /\ [j EXCEPT !.live = FALSE].copy = j.copy
      BY DEF Job
    <3> QED BY <3>1, <3>2, <3>3
  <2>3. /\ frames' = <<>> /\ confirms' \in {confirms, <<>>}
        /\ strays' = [f \in Frame |-> strays[f] + InFrames(f)]
        /\ pub' = IF pub.phase = "waiting" /\ confirms' = <<>>
                  THEN [pub EXCEPT !.phase = "broken"] ELSE pub
    BY <1>8 DEF ConnLost
  <2>4. strays' \in [Frame -> Nat]
    BY <1>1, <2>3, InFramesType DEF TypeOK
  <2>5. /\ pub' \in [owner : Slot \cup Body \cup {Nobody}, try : {1, 2},
                     phase : {"ready", "waiting", "broken"}]
        /\ pub'.owner = pub.owner /\ pub'.try = pub.try
        /\ pub'.phase = IF pub.phase = "waiting" /\ confirms' = <<>> THEN "broken" ELSE pub.phase
    BY <1>1, <2>3 DEF TypeOK
  <2>6. producer' = producer
    BY <1>8 DEF ConnLost
  <2>7. RetryOK' /\ OwnerOK'
    <3>1. RetryOK'
      BY <1>1, <2>2 DEF RetryOK, Idle
    <3>2. OwnerOK'
      BY <1>1, <2>2, <2>5, <2>6 DEF OwnerOK, Busy
    <3> QED BY <3>1, <3>2
  <2>8. ChannelOK'
    BY <1>1, <2>3, <2>5 DEF ChannelOK
  <2>9. TypeOK'
    <3>1. confirms' \in Seq({"ack", "nack"}) /\ frames' \in Seq(Frame)
      <4>1. <<>> \in Seq({"ack", "nack"}) /\ <<>> \in Seq(Frame)
        OBVIOUS
      <4> QED BY <1>1, <2>3, <4>1 DEF TypeOK
    <3> QED BY <1>1, <1>3, <1>8, <2>1, <2>2, <2>4, <2>5, <3>1 DEF ConnLost, TypeOK, history
  <2> QED BY <2>7, <2>8, <2>9 DEF Typed
<1>9. CASE Crash
  <2>1. faults' \in 0..MaxFaults
    BY <1>1, <1>9, FaultType DEF Crash
  <2>2. /\ strays' \in [Frame -> Nat]
        /\ frames' = <<>> /\ confirms' = <<>>
        /\ frames' \in Seq(Frame) /\ confirms' \in Seq({"ack", "nack"})
    BY <1>1, <1>9, DropPubChFacts DEF Crash
  <2>3. job' = [s \in Slot |-> Idle] /\ pub' = FreePub
    BY <1>9 DEF Crash
  <2>4. producer' \in [Body -> {"new", "publishing", "ok", "error"}]
    BY <1>1, <1>9 DEF Crash, TypeOK
  <2>5. RetryOK' /\ OwnerOK' /\ ChannelOK'
    BY <2>2, <2>3, FreePubType, MqConstants DEF RetryOK, OwnerOK, ChannelOK, Idle
  <2>6. TypeOK'
    <3>1. job' \in [Slot -> Job \cup {Idle}]
      BY <2>3
    <3>2. pub' \in [owner : Slot \cup Body \cup {Nobody}, try : {1, 2},
                   phase : {"ready", "waiting", "broken"}]
      BY <2>3, FreePubType
    <3>3. /\ queue' = Returned(Slot) /\ conn' = FALSE /\ loop' = "down"
          /\ UNCHANGED <<delayed, conc, handled, givenUp, recovered, fails>>
      BY <1>9 DEF Crash, history
    <3> QED BY <1>1, <1>3, <2>1, <2>2, <2>4, <3>1, <3>2, <3>3 DEF TypeOK
  <2> QED BY <2>5, <2>6 DEF Typed
<1>10. ASSUME NEW s \in Slot, Start(s) PROVE Typed'
  <2>1. /\ job' \in [Slot -> Job \cup {Idle}]
        /\ job'[s].pc = "handling"
        /\ \A t \in Slot : t # s => job'[t] = job[t]
    BY <1>1, <1>10, GotoFacts DEF Start, Goto, Busy
  <2>2. RetryOK' /\ OwnerOK' /\ ChannelOK'
    BY <1>10, <2>1, GoroutineTyped DEF Start, Publishing
  <2> QED BY <1>1, <1>10, <2>1, <2>2 DEF Start, Typed, TypeOK, broker, channel, history
<1>11. ASSUME NEW s \in Slot, NEW c \in Copy, Deliver(s, c) PROVE Typed'
  <2>1. [pc |-> "fetched", copy |-> c, live |-> TRUE] \in Job
    BY DEF Job
  <2>2. /\ job' \in [Slot -> Job \cup {Idle}]
        /\ job'[s].pc = "fetched"
        /\ \A t \in Slot : t # s => job'[t] = job[t]
    BY <1>1, <1>11, <2>1 DEF Deliver, TypeOK
  <2>3. job[s].pc \notin Publishing
    BY <1>11 DEF Deliver, FirstFree, Idle, Publishing
  <2>4. RetryOK' /\ OwnerOK' /\ ChannelOK'
    BY <1>11, <2>2, <2>3, GoroutineTyped DEF Deliver
  <2>5. queue' \in [Copy -> Nat]
    BY <1>1, <1>11 DEF Deliver, TypeOK
  <2> QED BY <1>1, <1>11, <2>2, <2>4, <2>5 DEF Deliver, Typed, TypeOK, channel, history
<1> QED BY <1>4, <1>5, <1>6, <1>7, <1>8, <1>9, <1>10, <1>11

\* The steps of a goroutine.
LEMMA HandlingTyped ==
  ASSUME Typed, NEW s \in Slot, Handling(s) \/ HandlerBusy(s) \/ OnExhaustedFails(s)
  PROVE  Typed'
<1>1. TypeOK
  BY DEF Typed
<1>2. ASSUME NEW pc \in Busy, job[s].pc \in Busy, job[s].pc \notin Publishing, Goto(s, pc),
             pc = "publish" => job[s].copy.retry < MaxRetry,
             UNCHANGED <<pub, channel, producer>>
      PROVE  /\ job' \in [Slot -> Job \cup {Idle}]
             /\ RetryOK' /\ OwnerOK' /\ ChannelOK'
  <2>1. job[s].pc # "idle"
    BY <1>2 DEF Busy, Publishing
  <2>2. /\ job' \in [Slot -> Job \cup {Idle}]
        /\ job'[s].pc = pc /\ job'[s].copy = job[s].copy
        /\ \A t \in Slot : t # s => job'[t] = job[t]
    BY <1>1, <1>2, <2>1, GotoFacts
  <2> QED BY <1>2, <2>2, GoroutineTyped
<1>3. ASSUME job' = [job EXCEPT ![s] = Idle], job[s].pc \notin Publishing,
             UNCHANGED <<pub, channel, producer>>
      PROVE  /\ job' \in [Slot -> Job \cup {Idle}]
             /\ RetryOK' /\ OwnerOK' /\ ChannelOK'
  <2>1. /\ job' \in [Slot -> Job \cup {Idle}]
        /\ job'[s].pc = "idle"
        /\ \A t \in Slot : t # s => job'[t] = job[t]
    BY <1>1, <1>3, EndFacts DEF Idle
  <2> QED BY <1>3, <2>1, GoroutineTyped
<1>4. job[s].pc # "idle" => job[s].copy \in Copy /\ job[s].copy.body \in Body
  BY <1>1, JobFacts DEF Job, Copy
<1>5. \A p \in {"handling", "ack", "requeue", "drop", "recover"} :
        p \in Busy /\ p \notin Publishing /\ p # "idle" /\ p # "publish"
  BY DEF Busy, Publishing
<1>6. CASE HandlerOk(s)
  BY <1>1, <1>2, <1>4, <1>5, <1>6 DEF HandlerOk, Typed, TypeOK, broker, channel, history
<1>7. CASE HandlerBusy(s)
  <2>1. faults' \in 0..MaxFaults
    BY <1>1, <1>7, FaultType DEF HandlerBusy
  <2> QED BY <1>1, <1>2, <1>5, <1>7, <2>1 DEF HandlerBusy, Typed, TypeOK, broker, channel, history
<1>8. CASE HandlerFails(s)
  <2>1. /\ AfterFailure(job[s].copy) \in Busy
        /\ AfterFailure(job[s].copy) = "publish" => job[s].copy.retry < MaxRetry
    BY DEF AfterFailure, Busy, Publishing
  <2>2. /\ job' \in [Slot -> Job \cup {Idle}]
        /\ RetryOK' /\ OwnerOK' /\ ChannelOK'
    BY <1>2, <1>5, <1>8, <2>1 DEF HandlerFails
  <2>3. fails' \in [Body -> Nat]
    <3>1. fails' = [fails EXCEPT ![job[s].copy.body] = @ + 1] /\ job[s].copy.body \in Body
      BY <1>4, <1>5, <1>8 DEF HandlerFails
    <3>2. fails \in [Body -> Nat]
      BY <1>1 DEF TypeOK
    <3> QED BY <3>1, <3>2
  <2> QED BY <1>1, <1>8, <2>2, <2>3 DEF HandlerFails, Typed, TypeOK, broker, channel
<1>9. CASE OnExhausted(s)
  BY <1>1, <1>2, <1>4, <1>5, <1>9 DEF OnExhausted, Typed, TypeOK, broker, channel, history
<1>10. CASE OnExhaustedFails(s)
  <2>1. faults' \in 0..MaxFaults
    BY <1>1, <1>10, FaultType DEF OnExhaustedFails
  <2>2. "delay" \in Busy
    BY DEF Busy, Publishing
  <2> QED BY <1>1, <1>2, <1>5, <1>10, <2>1, <2>2
          DEF OnExhaustedFails, Typed, TypeOK, broker, channel, history
<1>11. CASE Ack(s)
  BY <1>1, <1>3, <1>5, <1>11 DEF Ack, Typed, TypeOK, broker, channel, history
<1>12. CASE Requeue(s)
  <2>1. queue' \in [Copy -> Nat]
    BY <1>1, <1>12, ReturnedFacts DEF Requeue
  <2> QED BY <1>1, <1>3, <1>5, <1>12, <2>1 DEF Requeue, Typed, TypeOK, channel, history
<1>13. CASE Drop(s)
  <2>1. givenUp' \subseteq Body
    BY <1>1, <1>4, <1>5, <1>13 DEF Drop, TypeOK
  <2> QED BY <1>1, <1>3, <1>5, <1>13, <2>1 DEF Drop, Typed, TypeOK, broker, channel
<1> QED BY <1>6, <1>7, <1>8, <1>9, <1>10, <1>11, <1>12, <1>13 DEF Handling

LEMMA TypedNext == Typed /\ [Next]_vars => Typed'
<1> SUFFICES ASSUME Typed, [Next]_vars PROVE Typed'
  OBVIOUS
<1>1. ASSUME UNCHANGED vars PROVE Typed'
  <2>1. FrameOf(pub.owner)' = FrameOf(pub.owner)
    BY <1>1 DEF vars, FrameOf
  <2>2. TypeOK' /\ RetryOK' /\ OwnerOK'
    BY <1>1 DEF vars, broker, channel, history, Typed, TypeOK, RetryOK, OwnerOK
  <2>3. ChannelOK'
    BY <1>1, <2>1 DEF vars, channel, Typed, ChannelOK
  <2> QED BY <2>2, <2>3 DEF Typed
<1> QED BY <1>1, PublisherTyped, BrokerTyped, LoopTyped, HandlingTyped DEF Next, Internal, Environment

\* Type correctness: whatever the faults, the state stays well formed.
THEOREM TypeCorrect == Spec => []TypeOK
<1>1. Typed => TypeOK
  BY DEF Typed
<1> QED BY TypedInit, TypedNext, <1>1, PTL DEF Spec

-----------------------------------------------------------------------------
(* Safe messages.                                                          *)

\* The goroutine s will still settle or return its delivery of b.
Confirming(p) == pub.owner = p /\ confirms = <<"ack">>
Holder(s, b) ==
  /\ s \in Unacked /\ job[s].copy.body = b
  /\ job[s].pc # "ack" /\ ~Confirming(s)

Safe(b) == b \in Settled \/ InQueues(b) \/ \E s \in Slot : Holder(s, b)

\* Somebody relies on b: its producer, told or about to be told that it was
\* published, or a goroutine at work on it.
Relied(b) ==
  \/ producer[b] = "ok"
  \/ Confirming(b)
  \/ \E s \in Slot : job[s].pc # "idle" /\ job[s].copy.body = b

SafeOK == \A b \in Body : Relied(b) => Safe(b)

\* A step keeps messages safe if everything that makes one safe does.
LEMMA SafeStep ==
  ASSUME SafeOK,
         Settled \subseteq Settled',
         \A c \in Copy : queue[c] + delayed[c] > 0 => Safe(c.body)',
         \A s \in Slot : \A b \in Body : Holder(s, b) => Safe(b)',
         \A b \in Body : Relied(b)' => Relied(b) \/ Safe(b)'
  PROVE  SafeOK'
<1> SUFFICES ASSUME NEW b \in Body, Relied(b)' PROVE Safe(b)'
  BY DEF SafeOK
<1>1. CASE Safe(b)
  <2>1. CASE b \in Settled
    BY <2>1 DEF Safe
  <2>2. CASE InQueues(b)
    BY <2>2 DEF InQueues
  <2>3. CASE \E s \in Slot : Holder(s, b)
    BY <2>3
  <2> QED BY <1>1, <2>1, <2>2, <2>3 DEF Safe
<1>2. CASE ~Safe(b)
  BY <1>2 DEF SafeOK
<1> QED BY <1>1, <1>2

\* Steps that keep the queues, the deliveries and what is settled, let no
\* goroutine on to its acknowledgement and bring no confirm.
LEMMA QuietSafe ==
  ASSUME SafeOK, confirms' # <<"ack">>,
         UNCHANGED <<queue, delayed, handled, givenUp>>,
         \A b \in Body : producer'[b] = "ok" => producer[b] = "ok",
         \A s \in Slot : \/ job'[s] = job[s]
                          \/ /\ job'[s].copy = job[s].copy /\ job'[s].live = job[s].live
                             /\ job[s].pc # "idle" /\ job'[s].pc \notin {"idle", "ack"}
  PROVE  SafeOK'
<1>1. Settled = Settled'
  BY DEF Settled
<1>2. \A c \in Copy : queue[c] + delayed[c] > 0 => Safe(c.body)'
  BY DEF Safe, InQueues
<1>3. ASSUME NEW s \in Slot, NEW b \in Body, Holder(s, b) PROVE Safe(b)'
  <2>1. ~Confirming(s)'
    BY DEF Confirming
  <2>2. Holder(s, b)'
    BY <1>3, <2>1 DEF Holder, Unacked
  <2> QED BY <2>2 DEF Safe
<1>4. ASSUME NEW b \in Body, Relied(b)' PROVE Relied(b)
  <2>1. ~Confirming(b)'
    BY DEF Confirming
  <2> QED BY <1>4, <2>1 DEF Relied
<1> QED BY <1>1, <1>2, <1>3, <1>4, SafeStep

LEMMA SafeInit == Init => SafeOK
BY FreePubType, MqConstants DEF Init, SafeOK, Relied, Confirming, Idle

LEMMA PublisherSafe ==
  ASSUME Typed, SafeOK, Publisher \/ Timeout
  PROVE  SafeOK'
<1>1. <<>> # <<"ack">>
  OBVIOUS
<1>2. ASSUME NEW p \in Body \cup Slot, Send(p) PROVE SafeOK'
  <2>1. confirms' = <<>>
    BY <1>2, TryingFacts DEF Send
  <2>2. \A b \in Body : producer'[b] = "ok" => producer[b] = "ok"
    BY <1>2 DEF Send, Typed, TypeOK
  <2> QED BY <1>1, <1>2, <2>1, <2>2, QuietSafe DEF Send, broker, history
<1>3. ASSUME NEW p \in Body \cup Slot, p \in Slot => job[p].pc \in Publishing,
             TryFails(p), confirms' = <<>>, UNCHANGED <<queue, delayed, handled, givenUp>>
      PROVE  SafeOK'
  <2>1. /\ \A s \in Slot : \/ job'[s] = job[s]
                            \/ /\ s = p /\ job'[s].pc = "requeue"
                               /\ job'[s].copy = job[s].copy /\ job'[s].live = job[s].live
        /\ \A b \in Body : producer'[b] = "ok" => producer[b] = "ok"
    BY <1>3, TryFailsFacts
  <2>2. \A s \in Slot : \/ job'[s] = job[s]
                         \/ /\ job'[s].copy = job[s].copy /\ job'[s].live = job[s].live
                            /\ job[s].pc # "idle" /\ job'[s].pc \notin {"idle", "ack"}
    BY <1>3, <2>1 DEF Publishing
  <2> QED BY <1>1, <1>3, <2>1, <2>2, QuietSafe
<1>4. pub.phase # "ready" =>
        /\ pub.owner \in Body \cup Slot
        /\ pub.owner \in Slot => job[pub.owner].pc \in Publishing
  BY DEF Typed, TypeOK, OwnerOK
<1>5. ASSUME NEW p \in Body \cup Slot, SendFails(p) PROVE SafeOK'
  <2>1. p \in Slot => job[p].pc \in Publishing
    BY <1>5, TryingFacts DEF SendFails
  <2> QED BY <1>3, <1>5, <2>1 DEF SendFails, DropPubCh, history
<1>6. CASE Rejected
  <2>1. confirms = <<"nack">>
    BY <1>6 DEF Rejected, Typed, ChannelOK
  <2>2. confirms' = <<>>
    BY <1>6, <2>1 DEF Rejected, DropPubCh
  <2> QED BY <1>3, <1>4, <1>6, <2>2 DEF Rejected, history
<1>7. CASE Timeout
  BY <1>3, <1>4, <1>7 DEF Timeout, DropPubCh, history
<1>8. CASE ConfirmClosed
  BY <1>3, <1>4, <1>8 DEF ConfirmClosed, DropPubCh, history
<1>9. CASE Confirmed
  <2> DEFINE p == pub.owner
  <2>1. /\ confirms = <<"ack">> /\ pub.phase = "waiting" /\ p \in Body \cup Slot
        /\ p \in Slot => job[p].pc \in Publishing
    BY <1>4, <1>9 DEF Confirmed, Typed, ChannelOK
  <2>2. Report(p, TRUE)
    BY <1>9 DEF Confirmed
  <2> HIDE DEF p
  <2>3. /\ pub' = FreePub
        /\ \A s \in Slot : s # p => job'[s] = job[s]
        /\ p \in Slot => /\ job'[p].pc = "ack" /\ job'[p].copy = job[p].copy
                         /\ producer' = producer
        /\ p \in Body => /\ producer' = [producer EXCEPT ![p] = "ok"]
                         /\ job' = job
    BY <2>1, <2>2, ReportFacts
  <2>4. UNCHANGED <<queue, delayed, handled, givenUp>>
    BY <1>9 DEF Confirmed, broker, history
  <2>5. \A q \in Body \cup Slot : ~Confirming(q)'
    BY <2>3, FreePubType, MqConstants DEF Confirming
  <2>6. Confirming(p)
    BY <2>1 DEF Confirming, p
  <2>7. \A s \in Slot : \A b \in Body : Holder(s, b) => Safe(b)'
    BY <2>3, <2>5, <2>6 DEF Holder, Unacked, Safe
  <2>8. \A c \in Copy : queue[c] + delayed[c] > 0 => Safe(c.body)'
    BY <2>4 DEF Safe, InQueues
  <2>9. ASSUME NEW b \in Body, Relied(b)' PROVE Relied(b)
    <3>1. CASE producer'[b] = "ok"
      <4>1. producer[b] = "ok" \/ b = p
        BY <2>1, <2>3, <3>1 DEF Typed, TypeOK
      <4> QED BY <2>6, <4>1 DEF Relied
    <3>2. CASE \E s \in Slot : job'[s].pc # "idle" /\ job'[s].copy.body = b
      BY <2>1, <2>3, <3>2, MqConstants DEF Relied, Publishing
    <3> QED BY <2>5, <2>9, <3>1, <3>2 DEF Relied
  <2>10. Settled = Settled'
    BY <2>4 DEF Settled
  <2> QED BY <2>7, <2>8, <2>9, <2>10, SafeStep
<1> QED BY <1>2, <1>5, <1>6, <1>7, <1>8, <1>9 DEF Publisher

\* What Put does to the queues.
LEMMA PutFacts ==
  ASSUME TypeOK, NEW f \in Frame, Put(f)
  PROVE  /\ \A c \in Copy : queue[c] + delayed[c] > 0 => queue'[c] + delayed'[c] > 0
         /\ queue'[f.copy] + delayed'[f.copy] > 0
         /\ \A c \in Copy : queue'[c] + delayed'[c] > 0 => queue[c] + delayed[c] > 0 \/ c = f.copy
<1>1. f.copy \in Copy /\ queue \in [Copy -> Nat] /\ delayed \in [Copy -> Nat]
  BY DEF Frame, TypeOK
<1>2. CASE f.to = "queue"
  <2>1. queue' = [queue EXCEPT ![f.copy] = @ + 1] /\ delayed' = delayed
    BY <1>2 DEF Put
  <2> QED BY <1>1, <2>1
<1>3. CASE f.to # "queue"
  <2>1. delayed' = [delayed EXCEPT ![f.copy] = @ + 1] /\ queue' = queue
    BY <1>3 DEF Put
  <2> QED BY <1>1, <2>1
<1> QED BY <1>2, <1>3

LEMMA BrokerSafe ==
  ASSUME Typed, SafeOK,
         \/ BrokerTakes \/ BrokerRejects
         \/ \E f \in Frame : StrayTaken(f) \/ StrayLost(f)
         \/ \E c \in Copy : DelayExpires(c)
  PROVE  SafeOK'
<1>1. TypeOK
  BY DEF Typed
<1>2. CASE BrokerTakes
  <2>0. PICK p \in Body \cup Slot, f \in Frame : p = pub.owner /\ f = FrameOf(pub.owner)
    BY <1>2, HeadFrame DEF BrokerTakes
  <2>1. /\ f = FrameOf(p) /\ Put(f)
        /\ p \in Slot => job[p].pc \in Publishing
        /\ confirms' = <<"ack">>
    BY <1>2, <2>0, HeadFrame DEF BrokerTakes
  <2>2. /\ p \in Body => f.copy.body = p
        /\ p \in Slot => f.copy.body = job[p].copy.body
    <3>1. CASE p \in Body
      BY <2>1, <3>1, MqConstants DEF FrameOf
    <3>2. CASE p \in Slot
      <4>1. job[p] \in Job /\ p \notin Body
        BY <1>1, <2>1, <3>2, JobFacts, MqConstants DEF Publishing
      <4>2. job[p].copy \in Copy
        BY <4>1 DEF Job
      <4>3. [job[p].copy EXCEPT !.retry = @ + 1].body = job[p].copy.body
        BY <4>2 DEF Copy
      <4> QED BY <2>1, <4>1, <4>3 DEF FrameOf
    <3> QED BY <3>1, <3>2
  <2>3. UNCHANGED <<job, pub, producer, handled, givenUp>>
    BY <1>2 DEF BrokerTakes, history
  <2>4. p = pub.owner
    BY <2>0
  <2>5. f.copy \in Copy
    BY <2>1 DEF Frame
  <2>6. \A b \in Body : InQueues(b) => InQueues(b)'
    BY <1>1, <2>1, PutFacts DEF InQueues
  <2>7. InQueues(f.copy.body)'
    BY <1>1, <2>1, <2>5, PutFacts DEF InQueues
  <2>8. \A c \in Copy : queue[c] + delayed[c] > 0 => Safe(c.body)'
    BY <1>1, <2>1, PutFacts DEF InQueues, Safe
  <2>9. ASSUME NEW s \in Slot, NEW b \in Body, Holder(s, b) PROVE Safe(b)'
    <3>1. CASE s = p
      BY <2>2, <2>7, <2>9, <3>1 DEF Holder, Safe
    <3>2. CASE s # p
      <4>1. ~Confirming(s)'
        BY <2>3, <2>4, <3>2 DEF Confirming
      <4>2. Holder(s, b)'
        BY <2>3, <2>9, <4>1 DEF Holder, Unacked
      <4> QED BY <4>2 DEF Safe
    <3> QED BY <3>1, <3>2
  <2>10. ASSUME NEW b \in Body, Relied(b)' PROVE Relied(b) \/ Safe(b)'
    <3>1. CASE Confirming(b)'
      BY <2>2, <2>3, <2>4, <2>7, <3>1 DEF Confirming, Safe
    <3>2. CASE ~Confirming(b)'
      BY <2>3, <2>10, <3>2 DEF Relied
    <3> QED BY <3>1, <3>2
  <2>11. Settled = Settled'
    BY <2>3 DEF Settled
  <2> QED BY <2>8, <2>9, <2>10, <2>11, SafeStep
<1>3. CASE BrokerRejects
  <2>1. confirms' = <<"nack">>
    BY <1>3, HeadFrame DEF BrokerRejects
  <2>2. confirms' # <<"ack">>
    BY <2>1
  <2> QED BY <1>3, <2>2, QuietSafe DEF BrokerRejects, broker, history
<1>4. ASSUME \A c \in Copy : queue[c] + delayed[c] > 0 => queue'[c] + delayed'[c] > 0,
             UNCHANGED <<job, pub, confirms, producer, handled, givenUp>>
      PROVE  SafeOK'
  <2>1. \A s \in Slot : \A b \in Body : Holder(s, b) => Safe(b)'
    BY <1>4 DEF Holder, Unacked, Confirming, Safe
  <2>2. \A c \in Copy : queue[c] + delayed[c] > 0 => Safe(c.body)'
    BY <1>4 DEF InQueues, Safe
  <2>3. \A b \in Body : Relied(b)' => Relied(b)
    BY <1>4 DEF Relied, Confirming
  <2>4. Settled = Settled'
    BY <1>4 DEF Settled
  <2> QED BY <2>1, <2>2, <2>3, <2>4, SafeStep
<1>5. ASSUME NEW f \in Frame, StrayTaken(f) PROVE SafeOK'
  <2>1. \A c \in Copy : queue[c] + delayed[c] > 0 => queue'[c] + delayed'[c] > 0
    BY <1>1, <1>5, PutFacts DEF StrayTaken
  <2> QED BY <1>4, <1>5, <2>1 DEF StrayTaken, channel, history
<1>6. ASSUME NEW f \in Frame, StrayLost(f) PROVE SafeOK'
  BY <1>4, <1>6 DEF StrayLost, channel, history
<1>7. ASSUME NEW c \in Copy, DelayExpires(c) PROVE SafeOK'
  <2>1. \A d \in Copy : queue'[d] + delayed'[d] = queue[d] + delayed[d]
    BY <1>1, <1>7 DEF DelayExpires, TypeOK
  <2> QED BY <1>4, <1>7, <2>1 DEF DelayExpires, channel, history
<1> QED BY <1>2, <1>3, <1>5, <1>6, <1>7

\* Steps that return the deliveries of S and leave the other ones as they are.
LEMMA ReturnSafe ==
  ASSUME Typed, SafeOK, NEW S \in SUBSET Slot,
         queue' = Returned(S), UNCHANGED <<delayed, handled, givenUp>>,
         \A s \in Slot \ S : job'[s] = job[s],
         \A s \in S : job'[s].pc # "idle" => job[s].pc # "idle" /\ job'[s].copy = job[s].copy,
         \A b \in Body : producer'[b] = "ok" => producer[b] = "ok",
         \A q \in Body \cup Slot : Confirming(q)' => Confirming(q)
  PROVE  SafeOK'
<1>1. TypeOK
  BY DEF Typed
<1>2. /\ \A c \in Copy : Returned(S)[c] >= queue[c] /\ Returned(S)[c] \in Nat
      /\ \A s \in S : s \in Unacked => Returned(S)[job[s].copy] > 0
  BY <1>1, ReturnedFacts
<1>3. queue \in [Copy -> Nat] /\ delayed \in [Copy -> Nat]
  BY <1>1 DEF TypeOK
<1>4. \A c \in Copy : queue[c] + delayed[c] > 0 => Safe(c.body)'
  BY <1>2, <1>3 DEF InQueues, Safe
<1>5. ASSUME NEW s \in Slot, NEW b \in Body, Holder(s, b) PROVE Safe(b)'
  <2>1. CASE s \in S
    <3>1. job[s].copy \in Copy /\ job[s].copy.body = b
      BY <1>1, <1>5, JobFacts DEF Holder, Unacked, Job
    <3>2. Returned(S)[job[s].copy] > 0
      BY <1>2, <1>5, <2>1 DEF Holder
    <3>3. queue'[job[s].copy] + delayed'[job[s].copy] > 0
      BY <1>3, <3>1, <3>2, <1>2
    <3> QED BY <3>1, <3>3 DEF InQueues, Safe
  <2>2. CASE s \notin S
    BY <1>5, <2>2 DEF Holder, Unacked, Safe
  <2> QED BY <2>1, <2>2
<1>6. \A b \in Body : Relied(b)' => Relied(b)
  BY DEF Relied
<1>7. Settled = Settled'
  BY DEF Settled
<1> QED BY <1>4, <1>5, <1>6, <1>7, SafeStep

LEMMA LoopSafe ==
  ASSUME Typed, SafeOK,
         \/ Connect \/ Drain \/ Drained \/ ConnLost \/ Reconnect \/ Crash
         \/ \E s \in Slot : Start(s) \/ \E c \in Copy : Deliver(s, c)
  PROVE  SafeOK'
<1>1. TypeOK
  BY DEF Typed
<1>2. ASSUME UNCHANGED <<queue, delayed, confirms, pub, producer, handled, givenUp>>,
             \A s \in Slot : \/ job'[s] = job[s]
                              \/ /\ job'[s].copy = job[s].copy /\ job'[s].live = job[s].live
                                 /\ job[s].pc # "idle" /\ job'[s].pc \notin {"idle", "ack"}
      PROVE  SafeOK'
  <2>1. \A s \in Slot : \A b \in Body : Holder(s, b) => Safe(b)'
    BY <1>2 DEF Holder, Unacked, Confirming, Safe
  <2>2. \A c \in Copy : queue[c] + delayed[c] > 0 => Safe(c.body)'
    BY <1>2 DEF InQueues, Safe
  <2>3. \A b \in Body : Relied(b)' => Relied(b)
    BY <1>2 DEF Relied, Confirming
  <2>4. Settled = Settled'
    BY <1>2 DEF Settled
  <2> QED BY <2>1, <2>2, <2>3, <2>4, SafeStep
<1>3. CASE Connect \/ Drain \/ Reconnect
  BY <1>2, <1>3 DEF Connect, Drain, Reconnect, broker, channel, history
<1>4. CASE Drained
  <2>1. \A s \in Slot : job'[s].pc = "idle"
    BY <1>4 DEF Drained, Idle
  <2> QED BY <1>4, <2>1, ReturnSafe DEF Drained, channel, history, Confirming
<1>5. CASE ConnLost
  <2>1. \A s \in Slot : job'[s].pc # "idle" => job[s].pc # "idle" /\ job'[s].copy = job[s].copy
    <3>1. job' = [s \in Slot |-> IF job[s].pc \in Busy THEN [job[s] EXCEPT !.live = FALSE] ELSE Idle]
      BY <1>5 DEF ConnLost
    <3>2. \A s \in Slot : job[s].pc \in Busy => job[s] \in Job /\ job[s].pc # "idle"
      BY <1>1, JobFacts DEF Busy, Publishing
    <3>3. \A j \in Job : [j EXCEPT !.live = FALSE].copy = j.copy
      BY DEF Job
    <3>4. Idle.pc = "idle"
      BY DEF Idle
    <3> QED BY <3>1, <3>2, <3>3, <3>4
  <2>2. ASSUME NEW q \in Body \cup Slot, Confirming(q)' PROVE Confirming(q)
    <3>1. confirms' = confirms /\ pub'.owner = pub.owner
      BY <1>1, <1>5, <2>2 DEF ConnLost, Confirming, TypeOK
    <3> QED BY <2>2, <3>1 DEF Confirming
  <2> QED BY <1>5, <2>1, <2>2, ReturnSafe DEF ConnLost, history
<1>6. CASE Crash
  <2>1. \A s \in Slot : job'[s].pc = "idle"
    BY <1>6 DEF Crash, Idle
  <2>2. \A q \in Body \cup Slot : ~Confirming(q)'
    BY <1>6, FreePubType, MqConstants DEF Crash, Confirming
  <2>3. \A b \in Body : producer'[b] = "ok" => producer[b] = "ok"
    BY <1>6 DEF Crash
  <2> QED BY <1>6, <2>1, <2>2, <2>3, ReturnSafe DEF Crash, history
<1>7. ASSUME NEW s \in Slot, Start(s) PROVE SafeOK'
  <2>1. /\ job'[s].pc = "handling" /\ job'[s].copy = job[s].copy /\ job'[s].live = job[s].live
        /\ \A t \in Slot : t # s => job'[t] = job[t]
    BY <1>1, <1>7, GotoFacts DEF Start, Goto, Busy
  <2> QED BY <1>2, <1>7, <2>1 DEF Start, broker, channel, history
<1>8. ASSUME NEW s \in Slot, NEW c \in Copy, Deliver(s, c) PROVE SafeOK'
  <2>1. /\ queue' = [queue EXCEPT ![c] = @ - 1] /\ delayed' = delayed
        /\ job' = [job EXCEPT ![s] = [pc |-> "fetched", copy |-> c, live |-> TRUE]]
        /\ job[s] = Idle
        /\ UNCHANGED <<pub, confirms, producer, handled, givenUp>>
    BY <1>8 DEF Deliver, FirstFree, channel, history
  <2>2. ~Confirming(s)'
    BY <2>1 DEF Confirming, Typed, OwnerOK, Idle, Publishing
  <2>3. job'[s] = [pc |-> "fetched", copy |-> c, live |-> TRUE]
    BY <1>1, <2>1 DEF TypeOK
  <2>4. Safe(c.body)'
    <3>1. Holder(s, c.body)'
      BY <2>2, <2>3 DEF Holder, Unacked
    <3> QED BY <3>1 DEF Safe
  <2>5. ASSUME NEW d \in Copy, queue[d] + delayed[d] > 0 PROVE Safe(d.body)'
    <3>1. CASE d = c
      BY <2>4, <3>1
    <3>2. CASE d # c
      <4>1. queue'[d] + delayed'[d] > 0
        BY <1>1, <2>1, <2>5, <3>2 DEF TypeOK
      <4> QED BY <4>1 DEF InQueues, Safe
    <3> QED BY <3>1, <3>2
  <2>6. ASSUME NEW t \in Slot, NEW b \in Body, Holder(t, b) PROVE Safe(b)'
    <3>1. t # s /\ job'[t] = job[t]
      BY <1>1, <2>1, <2>6 DEF Holder, Unacked, Idle, TypeOK
    <3>2. Holder(t, b)'
      BY <2>1, <2>6, <3>1 DEF Holder, Unacked, Confirming
    <3> QED BY <3>2 DEF Safe
  <2>7. ASSUME NEW b \in Body, Relied(b)' PROVE Relied(b) \/ Safe(b)'
    <3>1. CASE b = c.body
      BY <2>4, <3>1
    <3>2. CASE b # c.body
      <4>1. \A t \in Slot : job'[t].copy.body = b /\ job'[t].pc # "idle" => job'[t] = job[t]
        BY <1>1, <2>1, <2>3, <3>2 DEF TypeOK
      <4> QED BY <2>1, <2>7, <4>1 DEF Relied, Confirming
    <3> QED BY <3>1, <3>2
  <2>8. Settled = Settled'
    BY <2>1 DEF Settled
  <2> QED BY <2>5, <2>6, <2>7, <2>8, SafeStep
<1> QED BY <1>3, <1>4, <1>5, <1>6, <1>7, <1>8

LEMMA HandlingSafe ==
  ASSUME Typed, SafeOK, NEW s \in Slot, Handling(s) \/ HandlerBusy(s) \/ OnExhaustedFails(s)
  PROVE  SafeOK'
<1>1. TypeOK
  BY DEF Typed
<1>2. job[s].pc # "idle" => job[s].copy \in Copy /\ job[s].copy.body \in Body
  BY <1>1, JobFacts DEF Job, Copy
<1>3. job[s].pc \notin Publishing => ~Confirming(s)
  BY DEF Confirming, Typed, OwnerOK
\* The goroutine stays a holder, or its message is settled or back.
<1>4. ASSUME NEW m \in Body, m = job[s].copy.body,
             UNCHANGED <<confirms, pub, producer>>, job[s].pc # "idle",
             \A t \in Slot : t # s => job'[t] = job[t],
             job'[s].pc # "idle" => job'[s].copy = job[s].copy,
             Settled \subseteq Settled',
             \A c \in Copy : queue[c] + delayed[c] > 0 => queue'[c] + delayed'[c] > 0,
             \/ job'[s].pc # "idle" /\ job'[s].pc # "ack" /\ job'[s].live = job[s].live
             \/ job[s].pc = "ack"
             \/ ~job[s].live
             \/ Safe(m)'
      PROVE  SafeOK'
  <2>1. \A c \in Copy : queue[c] + delayed[c] > 0 => Safe(c.body)'
    BY <1>4 DEF InQueues, Safe
  <2>2. ASSUME NEW t \in Slot, NEW b \in Body, Holder(t, b) PROVE Safe(b)'
    <3>1. ASSUME Holder(t, b)' PROVE Safe(b)'
      BY <3>1 DEF Safe
    <3>2. CASE t # s
      BY <1>4, <2>2, <3>1, <3>2 DEF Holder, Unacked, Confirming
    <3>3. CASE t = s
      <4>1. b = job[s].copy.body /\ job[s].live /\ job[s].pc # "ack" /\ ~Confirming(s)
        BY <2>2, <3>3 DEF Holder, Unacked
      <4>2. CASE job'[s].pc # "idle" /\ job'[s].pc # "ack" /\ job'[s].live = job[s].live
        BY <1>4, <3>1, <3>3, <4>1, <4>2 DEF Holder, Unacked, Confirming
      <4>3. CASE Safe(m)'
        BY <1>4, <4>1, <4>3
      <4> QED BY <1>4, <4>1, <4>2, <4>3
    <3> QED BY <3>2, <3>3
  <2>3. \A b \in Body : Relied(b)' => Relied(b)
    BY <1>4 DEF Relied, Confirming
  <2> QED BY <1>4, <2>1, <2>2, <2>3, SafeStep
\* It moves on with its delivery.
<1>5. ASSUME NEW pc \in Busy, pc # "ack", job[s].pc \in Busy, Goto(s, pc),
             UNCHANGED <<broker, channel, pub, producer, handled, givenUp>>
      PROVE  SafeOK'
  <2>1. job[s].pc # "idle" /\ pc # "idle"
    BY <1>5 DEF Busy, Publishing
  <2>2. /\ job'[s].pc = pc /\ job'[s].copy = job[s].copy /\ job'[s].live = job[s].live
        /\ \A t \in Slot : t # s => job'[t] = job[t]
    BY <1>1, <1>5, <2>1, GotoFacts
  <2>3. /\ \A c \in Copy : queue[c] + delayed[c] > 0 => queue'[c] + delayed'[c] > 0
        /\ UNCHANGED <<confirms, pub, producer>>
        /\ Settled = Settled'
    BY <1>5 DEF broker, channel, Settled
  <2> QED BY <1>2, <1>4, <1>5, <2>1, <2>2, <2>3
\* It ends.
<1>6. ASSUME job' = [job EXCEPT ![s] = Idle], job[s].pc # "idle", job[s].pc \notin Publishing,
             UNCHANGED <<channel, pub, producer>>,
             Settled \subseteq Settled',
             \A c \in Copy : queue[c] + delayed[c] > 0 => queue'[c] + delayed'[c] > 0,
             NEW m \in Body, m = job[s].copy.body,
             job[s].pc = "ack" \/ ~job[s].live \/ Safe(m)'
      PROVE  SafeOK'
  <2>1. /\ job'[s].pc = "idle"
        /\ \A t \in Slot : t # s => job'[t] = job[t]
    BY <1>1, <1>6, EndFacts DEF Idle
  <2>2. UNCHANGED <<confirms, pub, producer>>
    BY <1>6 DEF channel
  <2> QED BY <1>4, <1>6, <2>1, <2>2
<1>7. \A p \in {"handling", "ack", "requeue", "drop", "recover", "delay"} : p \in Busy /\ p # "idle"
  BY DEF Busy, Publishing
<1>8. \A p \in {"handling", "ack", "requeue", "drop", "recover"} : p \notin Publishing
  BY DEF Publishing
<1>9. CASE HandlerOk(s)
  <2>1. PICK m \in Body : m = job[s].copy.body
    BY <1>2, <1>7, <1>9 DEF HandlerOk
  <2>2. m \in handled' /\ Settled \subseteq Settled'
    BY <1>9, <2>1 DEF HandlerOk, Settled
  <2>3. Safe(m)'
    BY <2>2 DEF Safe, Settled
  <2>4. /\ job'[s].pc = "ack" /\ job'[s].copy = job[s].copy
        /\ \A t \in Slot : t # s => job'[t] = job[t]
    BY <1>1, <1>7, <1>9, GotoFacts DEF HandlerOk
  <2>5. /\ \A c \in Copy : queue[c] + delayed[c] > 0 => queue'[c] + delayed'[c] > 0
        /\ UNCHANGED <<confirms, pub, producer>>
    BY <1>9 DEF HandlerOk, broker, channel
  <2> QED BY <1>4, <1>7, <1>9, <2>1, <2>2, <2>3, <2>4, <2>5 DEF HandlerOk
<1>10. CASE HandlerBusy(s)
  BY <1>5, <1>7, <1>10 DEF HandlerBusy, history
<1>11. CASE HandlerFails(s)
  <2>1. AfterFailure(job[s].copy) \in Busy /\ AfterFailure(job[s].copy) # "ack"
    BY DEF AfterFailure, Busy, Publishing
  <2> QED BY <1>5, <1>7, <1>11, <2>1 DEF HandlerFails
<1>12. CASE OnExhausted(s)
  BY <1>5, <1>7, <1>12 DEF OnExhausted
<1>13. CASE OnExhaustedFails(s)
  BY <1>5, <1>7, <1>13 DEF OnExhaustedFails, history
<1>14. CASE Ack(s)
  <2>1. PICK m \in Body : m = job[s].copy.body
    BY <1>2, <1>7, <1>14 DEF Ack
  <2> QED BY <1>6, <1>7, <1>8, <1>14, <2>1 DEF Ack, broker, history, Settled
<1>15. CASE Requeue(s)
  <2>1. PICK m \in Body : m = job[s].copy.body
    BY <1>2, <1>7, <1>15 DEF Requeue
  <2>2. /\ queue' = Returned({s}) /\ delayed' = delayed
        /\ queue \in [Copy -> Nat] /\ delayed \in [Copy -> Nat]
    BY <1>1, <1>15 DEF Requeue, TypeOK
  <2>3. /\ Returned({s}) \in [Copy -> Nat]
        /\ \A c \in Copy : Returned({s})[c] >= queue[c]
        /\ s \in Unacked => Returned({s})[job[s].copy] > 0
    BY <1>1, ReturnedFacts
  <2>4. \A c \in Copy : queue[c] + delayed[c] > 0 => queue'[c] + delayed'[c] > 0
    BY <2>2, <2>3
  <2>5. ASSUME job[s].live PROVE Safe(m)'
    <3>1. PICK c \in Copy : c = job[s].copy /\ c.body = m
      BY <1>2, <1>7, <1>15, <2>1 DEF Requeue
    <3>2. s \in Unacked
      BY <1>7, <1>15, <2>5 DEF Requeue, Unacked
    <3>3. queue'[c] + delayed'[c] > 0
      <4>1. Returned({s})[c] > 0
        BY <2>3, <3>1, <3>2
      <4>2. queue'[c] > 0 /\ queue'[c] \in Nat /\ delayed'[c] \in Nat
        BY <2>2, <2>3, <4>1
      <4> QED BY <4>2
    <3> QED BY <3>1, <3>3 DEF InQueues, Safe
  <2>6. Settled = Settled'
    BY <1>15 DEF Requeue, history, Settled
  <2> QED BY <1>6, <1>7, <1>8, <1>15, <2>1, <2>4, <2>5, <2>6 DEF Requeue
<1>16. CASE Drop(s)
  <2>1. PICK m \in Body : m = job[s].copy.body
    BY <1>2, <1>7, <1>16 DEF Drop
  <2>2. Settled \subseteq Settled' /\ (job[s].live => m \in givenUp')
    BY <1>16, <2>1 DEF Drop, Settled
  <2>3. job[s].live => Safe(m)'
    BY <2>2 DEF Safe, Settled
  <2> QED BY <1>6, <1>7, <1>8, <1>16, <2>1, <2>2, <2>3 DEF Drop, broker
<1> QED BY <1>9, <1>10, <1>11, <1>12, <1>13, <1>14, <1>15, <1>16 DEF Handling

LEMMA SafeNext == Typed /\ SafeOK /\ [Next]_vars => SafeOK'
<1> SUFFICES ASSUME Typed, SafeOK, [Next]_vars PROVE SafeOK'
  OBVIOUS
<1>1. ASSUME UNCHANGED vars PROVE SafeOK'
  BY <1>1 DEF vars, broker, channel, history, SafeOK, Relied, Safe, Confirming, Settled,
              InQueues, Holder, Unacked
<1> QED BY <1>1, PublisherSafe, BrokerSafe, LoopSafe, HandlingSafe DEF Next, Internal, Environment

LEMMA SafePresent == SafeOK => NothingLost
BY DEF SafeOK, Relied, Safe, Holder, NothingLost, Promised, Present, InFlight

\* No promised message is lost, whatever connections, confirms, handlers and
\* processes do, and however often.
THEOREM NoMessageLost == Spec => []NothingLost
<1>1. Init => Typed /\ SafeOK
  BY TypedInit, SafeInit
<1>2. (Typed /\ SafeOK) /\ [Next]_vars => (Typed /\ SafeOK)'
  BY TypedNext, SafeNext
<1>3. Typed /\ SafeOK => NothingLost
  BY SafePresent
<1> QED BY <1>1, <1>2, <1>3, PTL DEF Spec

-----------------------------------------------------------------------------
(* Retry counts are earned: a copy with retry count n follows n failures,  *)
(* and a message about to be discarded has used up its retries.            *)

Counted(c) == fails[c.body] >= c.retry
Failed == {"publish", "recover", "delay", "drop"}
JobCounted(s) ==
  job[s].pc # "idle" =>
    /\ Counted(job[s].copy)
    /\ job[s].pc \in Failed => fails[job[s].copy.body] > job[s].copy.retry
    /\ job[s].pc \in Failed \ {"publish"} => job[s].copy.retry = MaxRetry
    /\ job[s].pc = "drop" /\ HasRecovery => job[s].copy.body \in recovered

FailsOK ==
  /\ \A c \in Copy : queue[c] + delayed[c] > 0 => Counted(c)
  /\ \A f \in Frame : strays[f] > 0 => Counted(f.copy)
  /\ \A s \in Slot : JobCounted(s)

LEMMA FailsInit == Init => FailsOK
BY DEF Init, FailsOK, JobCounted, Idle

\* Failures are only added; what is new must be counted, and a goroutine that
\* goes on with its delivery must not claim more than before.
LEMMA FailsStep ==
  ASSUME Typed, FailsOK,
         \A b \in Body : fails'[b] >= fails[b], fails' \in [Body -> Nat],
         recovered \subseteq recovered',
         \A c \in Copy : queue'[c] + delayed'[c] > 0 => Counted(c),
         \A f \in Frame : strays'[f] > 0 => Counted(f.copy),
         \A s \in Slot :
           \/ JobCounted(s)'
           \/ /\ job[s].pc # "idle" /\ job'[s].copy = job[s].copy
              /\ job'[s].pc = job[s].pc \/ job'[s].pc \notin Failed
  PROVE  FailsOK'
<1>1. TypeOK /\ fails \in [Body -> Nat]
  BY DEF Typed, TypeOK
<1>2. ASSUME NEW c \in Copy, Counted(c) PROVE Counted(c)'
  <2>1. c.body \in Body /\ c.retry \in Nat
    BY MqConstants DEF Copy
  <2> QED BY <1>1, <1>2, <2>1 DEF Counted
<1>3. \A f \in Frame : f.copy \in Copy
  BY DEF Frame
<1>4. ASSUME NEW s \in Slot, job[s].pc # "idle", job'[s].copy = job[s].copy,
             job'[s].pc = job[s].pc \/ job'[s].pc \notin Failed
      PROVE  JobCounted(s)'
  <2>1. PICK c \in Copy : c = job[s].copy
    BY <1>1, <1>4, JobFacts DEF Job
  <2>2. c.body \in Body /\ c.retry \in 0..MaxRetry
    BY DEF Copy
  <2>3. /\ Counted(c)
        /\ job[s].pc \in Failed => fails[c.body] > c.retry
        /\ job[s].pc \in Failed \ {"publish"} => c.retry = MaxRetry
        /\ job[s].pc = "drop" /\ HasRecovery => c.body \in recovered
    BY <1>4, <2>1 DEF FailsOK, JobCounted
  <2>4. Counted(c)'
    BY <1>2, <2>3
  <2>5. job[s].pc \in Failed => fails'[c.body] > c.retry
    BY <1>1, <2>2, <2>3, MqConstants
  <2>6. job'[s].copy = c /\ (job'[s].pc \in Failed => job'[s].pc = job[s].pc)
    BY <1>4, <2>1
  <2>7. "drop" \in Failed
    BY DEF Failed
  <2> QED BY <2>3, <2>4, <2>5, <2>6, <2>7 DEF JobCounted, Counted
<1> QED BY <1>2, <1>3, <1>4 DEF FailsOK

\* The frame of a publisher is counted.
LEMMA FrameCounted ==
  ASSUME Typed, FailsOK, NEW p \in Body \cup Slot, p \in Slot => job[p].pc \in Publishing
  PROVE  Counted(FrameOf(p).copy)
<1>1. TypeOK /\ fails \in [Body -> Nat]
  BY DEF Typed, TypeOK
<1>2. CASE p \in Body
  BY <1>1, <1>2 DEF FrameOf, Counted
<1>3. CASE p \notin Body
  <2>1. p \in Slot /\ job[p].pc # "idle" /\ job[p].copy \in Copy
    BY <1>1, <1>3, JobFacts DEF Publishing, Job
  <2>2. job[p].copy.body \in Body /\ job[p].copy.retry \in Nat
    BY <2>1, MqConstants DEF Copy
  <2>3. CASE job[p].pc = "delay"
    BY <1>3, <2>1, <2>3 DEF FrameOf, FailsOK, JobCounted
  <2>4. CASE job[p].pc = "publish"
    <3>1. fails[job[p].copy.body] > job[p].copy.retry
      BY <2>1, <2>4 DEF FailsOK, JobCounted, Failed
    <3>2. /\ [job[p].copy EXCEPT !.retry = @ + 1].body = job[p].copy.body
          /\ [job[p].copy EXCEPT !.retry = @ + 1].retry = job[p].copy.retry + 1
      BY <2>1 DEF Copy
    <3>3. FrameOf(p).copy = [job[p].copy EXCEPT !.retry = @ + 1]
      BY <1>3, <2>4 DEF FrameOf
    <3> QED BY <1>1, <2>2, <3>1, <3>2, <3>3 DEF Counted
  <2> QED BY <2>1, <2>3, <2>4 DEF Publishing
<1> QED BY <1>2, <1>3

\* Frames that become strays are the frame of the publish in progress.
LEMMA StraysCounted ==
  ASSUME Typed, FailsOK, strays' = [f \in Frame |-> strays[f] + InFrames(f)]
  PROVE  \A f \in Frame : strays'[f] > 0 => Counted(f.copy)
<1> SUFFICES ASSUME NEW f \in Frame, strays'[f] > 0 PROVE Counted(f.copy)
  OBVIOUS
<1>1. strays[f] \in Nat /\ frames \in Seq(Frame)
  BY DEF Typed, TypeOK
<1>2. CASE strays[f] > 0
  BY <1>2 DEF FailsOK
<1>3. CASE ~(strays[f] > 0)
  <2>1. InFrames(f) # 0
    BY <1>1, <1>3
  <2>2. {i \in DOMAIN frames : frames[i] = f} # {}
    BY <2>1, FS_EmptySet DEF InFrames
  <2>3. PICK i \in DOMAIN frames : frames[i] = f
    BY <2>2
  <2>4. frames # <<>>
    BY <2>3
  <2>5. /\ frames = <<FrameOf(pub.owner)>> /\ pub.owner \in Body \cup Slot
        /\ pub.owner \in Slot => job[pub.owner].pc \in Publishing
    BY <2>4, HeadFrame
  <2>6. f = FrameOf(pub.owner)
    BY <2>3, <2>5
  <2> QED BY <2>5, <2>6, FrameCounted
<1> QED BY <1>2, <1>3

LEMMA PublisherFails ==
  ASSUME Typed, FailsOK, Publisher \/ Timeout
  PROVE  FailsOK'
<1>1. fails \in [Body -> Nat]
  BY DEF Typed, TypeOK
<1>2. ASSUME UNCHANGED <<queue, delayed, fails, recovered>>,
             strays' = strays \/ strays' = [f \in Frame |-> strays[f] + InFrames(f)],
             \A s \in Slot : \/ job'[s] = job[s]
                              \/ /\ job[s].pc # "idle" /\ job'[s].copy = job[s].copy
                                 /\ job'[s].pc \notin Failed
      PROVE  FailsOK'
  <2>1. \A f \in Frame : strays'[f] > 0 => Counted(f.copy)
    BY <1>2, StraysCounted DEF FailsOK
  <2>2. \A c \in Copy : queue'[c] + delayed'[c] > 0 => Counted(c)
    BY <1>2 DEF FailsOK
  <2>3. \A s \in Slot : job[s].pc = "idle" /\ job'[s] = job[s] => JobCounted(s)'
    BY DEF JobCounted
  <2>4. \A b \in Body : fails'[b] >= fails[b]
    BY <1>1, <1>2
  <2> QED BY <1>1, <1>2, <2>1, <2>2, <2>3, <2>4, FailsStep
<1>3. pub.phase # "ready" =>
        /\ pub.owner \in Body \cup Slot
        /\ pub.owner \in Slot => job[pub.owner].pc \in Publishing
  BY DEF Typed, TypeOK, OwnerOK
<1>4. ASSUME NEW p \in Body \cup Slot, p \in Slot => job[p].pc \in Publishing, TryFails(p),
             UNCHANGED <<queue, delayed, fails, recovered>>,
             strays' = strays \/ strays' = [f \in Frame |-> strays[f] + InFrames(f)]
      PROVE  FailsOK'
  <2>1. \A s \in Slot : \/ job'[s] = job[s]
                         \/ /\ s = p /\ job'[s].pc = "requeue"
                            /\ job'[s].copy = job[s].copy /\ job'[s].live = job[s].live
    BY <1>4, TryFailsFacts
  <2>2. \A s \in Slot : s = p => job[s].pc # "idle"
    BY <1>4 DEF Publishing
  <2>3. "requeue" \notin Failed
    BY DEF Failed
  <2> QED BY <1>2, <1>4, <2>1, <2>2, <2>3
<1>5. ASSUME NEW p \in Body \cup Slot, Send(p) PROVE FailsOK'
  BY <1>2, <1>5 DEF Send, broker, history
<1>6. ASSUME NEW p \in Body \cup Slot, SendFails(p) PROVE FailsOK'
  <2>1. p \in Slot => job[p].pc \in Publishing
    BY <1>6, TryingFacts DEF SendFails
  <2> QED BY <1>4, <1>6, <2>1 DEF SendFails, DropPubCh, history
<1>7. CASE Rejected
  BY <1>3, <1>4, <1>7 DEF Rejected, DropPubCh, history
<1>8. CASE Timeout
  BY <1>3, <1>4, <1>8 DEF Timeout, DropPubCh, history
<1>9. CASE ConfirmClosed
  BY <1>3, <1>4, <1>9 DEF ConfirmClosed, DropPubCh, history
<1>10. CASE Confirmed
  <2>1. /\ pub.owner \in Body \cup Slot /\ Report(pub.owner, TRUE)
        /\ pub.owner \in Slot => job[pub.owner].pc \in Publishing
    BY <1>3, <1>10 DEF Confirmed
  <2>2. \A s \in Slot : \/ job'[s] = job[s]
                         \/ /\ job[s].pc # "idle" /\ job'[s].copy = job[s].copy
                            /\ job'[s].pc = "ack"
    BY <2>1, ReportFacts DEF Publishing
  <2>3. "ack" \notin Failed
    BY DEF Failed
  <2> QED BY <1>2, <1>10, <2>2, <2>3 DEF Confirmed, broker, history
<1> QED BY <1>5, <1>6, <1>7, <1>8, <1>9, <1>10 DEF Publisher

LEMMA BrokerFails ==
  ASSUME Typed, FailsOK,
         \/ BrokerTakes \/ BrokerRejects
         \/ \E f \in Frame : StrayTaken(f) \/ StrayLost(f)
         \/ \E c \in Copy : DelayExpires(c)
  PROVE  FailsOK'
<1>1. TypeOK /\ fails \in [Body -> Nat] /\ strays \in [Frame -> Nat]
  BY DEF Typed, TypeOK
<1>2. ASSUME UNCHANGED <<job, fails, recovered>>,
             \A c \in Copy : queue'[c] + delayed'[c] > 0 => Counted(c),
             \A f \in Frame : strays'[f] > 0 => strays[f] > 0
      PROVE  FailsOK'
  <2>1. \A s \in Slot : job[s].pc = "idle" => JobCounted(s)'
    BY <1>2 DEF JobCounted
  <2>2. \A b \in Body : fails'[b] >= fails[b]
    BY <1>1, <1>2
  <2>3. \A f \in Frame : strays'[f] > 0 => Counted(f.copy)
    BY <1>2 DEF FailsOK
  <2> QED BY <1>1, <1>2, <2>1, <2>2, <2>3, FailsStep
<1>3. ASSUME NEW f \in Frame, Put(f), Counted(f.copy)
      PROVE  \A c \in Copy : queue'[c] + delayed'[c] > 0 => Counted(c)
  BY <1>1, <1>3, PutFacts DEF FailsOK
<1>4. CASE BrokerTakes
  <2>1. PICK f \in Frame : f = FrameOf(pub.owner)
    BY <1>4, HeadFrame DEF BrokerTakes
  <2>2. Put(f) /\ Counted(f.copy)
    BY <1>4, <2>1, HeadFrame, FrameCounted DEF BrokerTakes
  <2> QED BY <1>2, <1>3, <1>4, <2>2 DEF BrokerTakes, history
<1>5. CASE BrokerRejects
  BY <1>2, <1>5 DEF BrokerRejects, broker, history, FailsOK
<1>6. ASSUME NEW f \in Frame, strays[f] > 0, strays' = [strays EXCEPT ![f] = @ - 1]
      PROVE  \A g \in Frame : strays'[g] > 0 => strays[g] > 0
  BY <1>1, <1>6
<1>7. ASSUME NEW f \in Frame, StrayTaken(f) PROVE FailsOK'
  <2>1. Put(f) /\ Counted(f.copy)
    BY <1>7 DEF StrayTaken, FailsOK
  <2> QED BY <1>2, <1>3, <1>6, <1>7, <2>1 DEF StrayTaken, history
<1>8. ASSUME NEW f \in Frame, StrayLost(f) PROVE FailsOK'
  BY <1>2, <1>6, <1>8 DEF StrayLost, history, FailsOK
<1>9. ASSUME NEW c \in Copy, DelayExpires(c) PROVE FailsOK'
  <2>1. \A d \in Copy : queue'[d] + delayed'[d] = queue[d] + delayed[d]
    BY <1>1, <1>9 DEF DelayExpires, TypeOK
  <2> QED BY <1>2, <1>9, <2>1 DEF DelayExpires, history, FailsOK
<1> QED BY <1>4, <1>5, <1>7, <1>8, <1>9

\* What comes back to the queue was counted in the hands of its goroutine.
LEMMA ReturnCounted ==
  ASSUME Typed, FailsOK, NEW S \in SUBSET Slot, queue' = Returned(S), delayed' = delayed
  PROVE  \A c \in Copy : queue'[c] + delayed'[c] > 0 => Counted(c)
<1> SUFFICES ASSUME NEW c \in Copy, queue'[c] + delayed'[c] > 0 PROVE Counted(c)
  OBVIOUS
<1>1. TypeOK /\ queue \in [Copy -> Nat] /\ delayed \in [Copy -> Nat]
  BY DEF Typed, TypeOK
<1>2. /\ Returned(S) \in [Copy -> Nat]
      /\ Returned(S)[c] > 0 => queue[c] > 0 \/ \E s \in S : s \in Unacked /\ job[s].copy = c
  BY <1>1, ReturnedFacts
<1>3. CASE \E s \in S : s \in Unacked /\ job[s].copy = c
  BY <1>3 DEF Unacked, FailsOK, JobCounted
<1>4. CASE queue[c] + delayed[c] > 0
  BY <1>4 DEF FailsOK
<1> QED BY <1>1, <1>2, <1>3, <1>4

LEMMA LoopFails ==
  ASSUME Typed, FailsOK,
         \/ Connect \/ Drain \/ Drained \/ ConnLost \/ Reconnect \/ Crash
         \/ \E s \in Slot : Start(s) \/ \E c \in Copy : Deliver(s, c)
  PROVE  FailsOK'
<1>1. TypeOK /\ fails \in [Body -> Nat]
  BY DEF Typed, TypeOK
<1>2. ASSUME UNCHANGED <<fails, recovered>>,
             \A c \in Copy : queue'[c] + delayed'[c] > 0 => Counted(c),
             \A f \in Frame : strays'[f] > 0 => Counted(f.copy),
             \A s \in Slot : \/ job'[s] = job[s]
                              \/ job'[s].pc = "idle"
                              \/ /\ job[s].pc # "idle" /\ job'[s].copy = job[s].copy
                                 /\ job'[s].pc = job[s].pc \/ job'[s].pc \notin Failed
      PROVE  FailsOK'
  <2>1. \A s \in Slot : job'[s].pc = "idle" => JobCounted(s)'
    BY DEF JobCounted
  <2>2. \A b \in Body : fails'[b] >= fails[b]
    BY <1>1, <1>2
  <2> QED BY <1>1, <1>2, <2>1, <2>2, FailsStep
<1>3. CASE Connect \/ Drain \/ Reconnect
  BY <1>2, <1>3 DEF Connect, Drain, Reconnect, broker, history, FailsOK
<1>4. Idle.pc = "idle"
  BY DEF Idle
<1>5. CASE Drained
  <2>1. \A s \in Slot : job'[s].pc = "idle"
    BY <1>4, <1>5 DEF Drained
  <2>2. \A c \in Copy : queue'[c] + delayed'[c] > 0 => Counted(c)
    BY <1>5, ReturnCounted DEF Drained
  <2> QED BY <1>2, <1>5, <2>1, <2>2 DEF Drained, history, FailsOK
<1>6. CASE ConnLost
  <2>1. \A s \in Slot : \/ job'[s].pc = "idle"
                         \/ /\ job[s].pc # "idle" /\ job'[s].copy = job[s].copy
                            /\ job'[s].pc = job[s].pc
    <3>1. job' = [s \in Slot |-> IF job[s].pc \in Busy THEN [job[s] EXCEPT !.live = FALSE] ELSE Idle]
      BY <1>6 DEF ConnLost
    <3>2. \A s \in Slot : job[s].pc \in Busy => job[s] \in Job /\ job[s].pc # "idle"
      BY <1>1, JobFacts DEF Busy, Publishing
    <3>3. \A j \in Job : /\ [j EXCEPT !.live = FALSE].copy = j.copy
                         /\ [j EXCEPT !.live = FALSE].pc = j.pc
      BY DEF Job
    <3> QED BY <1>4, <3>1, <3>2, <3>3
  <2>2. \A c \in Copy : queue'[c] + delayed'[c] > 0 => Counted(c)
    BY <1>6, ReturnCounted DEF ConnLost
  <2>3. \A f \in Frame : strays'[f] > 0 => Counted(f.copy)
    BY <1>6, StraysCounted DEF ConnLost
  <2> QED BY <1>2, <1>6, <2>1, <2>2, <2>3 DEF ConnLost, history
<1>7. CASE Crash
  <2>1. \A s \in Slot : job'[s].pc = "idle"
    BY <1>4, <1>7 DEF Crash
  <2>2. \A c \in Copy : queue'[c] + delayed'[c] > 0 => Counted(c)
    BY <1>7, ReturnCounted DEF Crash
  <2>3. \A f \in Frame : strays'[f] > 0 => Counted(f.copy)
    BY <1>7, StraysCounted DEF Crash, DropPubCh
  <2> QED BY <1>2, <1>7, <2>1, <2>2, <2>3 DEF Crash, history
<1>8. ASSUME NEW s \in Slot, Start(s) PROVE FailsOK'
  <2>1. /\ job'[s].pc = "handling" /\ job'[s].copy = job[s].copy /\ job[s].pc # "idle"
        /\ \A t \in Slot : t # s => job'[t] = job[t]
    BY <1>1, <1>8, GotoFacts DEF Start, Goto, Busy
  <2>2. "handling" \notin Failed
    BY DEF Failed
  <2> QED BY <1>2, <1>8, <2>1, <2>2 DEF Start, broker, history, FailsOK
<1>9. ASSUME NEW s \in Slot, NEW c \in Copy, Deliver(s, c) PROVE FailsOK'
  <2>1. /\ queue' = [queue EXCEPT ![c] = @ - 1] /\ queue[c] > 0 /\ delayed' = delayed
        /\ job' = [job EXCEPT ![s] = [pc |-> "fetched", copy |-> c, live |-> TRUE]]
        /\ UNCHANGED <<strays, fails, recovered>>
    BY <1>9 DEF Deliver, history
  <2>2. \A d \in Copy : queue'[d] + delayed'[d] > 0 => queue[d] + delayed[d] > 0
    BY <1>1, <2>1 DEF TypeOK
  <2>3. Counted(c)
    <3>1. queue[c] + delayed[c] > 0
      BY <1>1, <2>1 DEF TypeOK
    <3> QED BY <3>1 DEF FailsOK
  <2>4. job'[s] = [pc |-> "fetched", copy |-> c, live |-> TRUE] /\ \A t \in Slot : t # s => job'[t] = job[t]
    BY <1>1, <2>1 DEF TypeOK
  <2>5. JobCounted(s)'
    BY <2>1, <2>3, <2>4 DEF JobCounted, Counted, Failed
  <2>6. \A t \in Slot : job'[t] = job[t] /\ job[t].pc = "idle" => JobCounted(t)'
    BY DEF JobCounted
  <2>7. \A b \in Body : fails'[b] >= fails[b]
    BY <1>1, <2>1
  <2>8. fails' \in [Body -> Nat] /\ recovered \subseteq recovered'
    BY <1>1, <2>1
  <2>9. \A t \in Slot :
           \/ JobCounted(t)'
           \/ /\ job[t].pc # "idle" /\ job'[t].copy = job[t].copy
              /\ job'[t].pc = job[t].pc \/ job'[t].pc \notin Failed
    BY <2>4, <2>5, <2>6
  <2>10. /\ \A d \in Copy : queue'[d] + delayed'[d] > 0 => Counted(d)
         /\ \A f \in Frame : strays'[f] > 0 => Counted(f.copy)
    BY <2>1, <2>2 DEF FailsOK
  <2> QED BY <2>7, <2>8, <2>9, <2>10, FailsStep
<1> QED BY <1>3, <1>5, <1>6, <1>7, <1>8, <1>9

LEMMA HandlingFails ==
  ASSUME Typed, FailsOK, NEW s \in Slot, Handling(s) \/ HandlerBusy(s) \/ OnExhaustedFails(s)
  PROVE  FailsOK'
<1>1. TypeOK /\ fails \in [Body -> Nat]
  BY DEF Typed, TypeOK
<1>2. job[s].pc # "idle" =>
        /\ job[s].copy \in Copy /\ job[s].copy.body \in Body /\ job[s].copy.retry \in 0..MaxRetry
  BY <1>1, JobFacts DEF Job, Copy
<1>3. ASSUME \A t \in Slot : t # s => job'[t] = job[t], JobCounted(s)',
             fails' \in [Body -> Nat], \A b \in Body : fails'[b] >= fails[b],
             recovered \subseteq recovered', strays' = strays,
             \A c \in Copy : queue'[c] + delayed'[c] > 0 => Counted(c)
      PROVE  FailsOK'
  <2>1. \A t \in Slot : job'[t] = job[t] /\ job[t].pc = "idle" => JobCounted(t)'
    BY DEF JobCounted
  <2>2. \A f \in Frame : strays'[f] > 0 => Counted(f.copy)
    BY <1>3 DEF FailsOK
  <2>3. \A t \in Slot :
           \/ JobCounted(t)'
           \/ /\ job[t].pc # "idle" /\ job'[t].copy = job[t].copy
              /\ job'[t].pc = job[t].pc \/ job'[t].pc \notin Failed
    BY <1>3, <2>1
  <2> QED BY <1>3, <2>2, <2>3, FailsStep
<1>4. \A c \in Copy : queue[c] + delayed[c] > 0 => Counted(c)
  BY DEF FailsOK
<1>5. JobCounted(s)
  BY DEF FailsOK
<1>6. \A p \in {"handling", "ack", "requeue", "drop", "recover", "delay", "publish"} :
        p \in Busy /\ p # "idle"
  BY DEF Busy, Publishing
<1>7. \A b \in Body : fails[b] >= fails[b]
  BY <1>1
\* It moves on with its delivery to a state that claims no more.
<1>8. ASSUME NEW pc \in {"ack", "requeue"}, job[s].pc = "handling", Goto(s, pc),
             UNCHANGED <<broker, fails, recovered>>
      PROVE  FailsOK'
  <2>1. /\ job'[s].pc = pc /\ job'[s].copy = job[s].copy
        /\ \A t \in Slot : t # s => job'[t] = job[t]
    BY <1>1, <1>6, <1>8, GotoFacts
  <2>2. JobCounted(s)'
    BY <1>5, <1>8, <2>1 DEF JobCounted, Counted, Failed
  <2> QED BY <1>1, <1>3, <1>4, <1>7, <1>8, <2>1, <2>2 DEF broker
\* It ends.
<1>9. ASSUME job' = [job EXCEPT ![s] = Idle], UNCHANGED <<strays, fails, recovered>>,
             \A c \in Copy : queue'[c] + delayed'[c] > 0 => Counted(c)
      PROVE  FailsOK'
  <2>1. job'[s].pc = "idle" /\ \A t \in Slot : t # s => job'[t] = job[t]
    BY <1>1, <1>9, EndFacts DEF Idle
  <2>2. JobCounted(s)'
    BY <2>1 DEF JobCounted
  <2> QED BY <1>1, <1>3, <1>7, <1>9, <2>1, <2>2
<1>10. CASE HandlerOk(s)
  BY <1>8, <1>10 DEF HandlerOk
<1>11. CASE HandlerBusy(s)
  BY <1>8, <1>11 DEF HandlerBusy, history
<1>12. CASE HandlerFails(s)
  <2> DEFINE c == job[s].copy
             pc == AfterFailure(c)
  <2>1. pc \in Busy
    BY <1>6 DEF AfterFailure
  <2>2. c \in Copy /\ c.body \in Body /\ c.retry \in 0..MaxRetry /\ Counted(c)
    BY <1>2, <1>5, <1>6, <1>12 DEF HandlerFails, JobCounted
  <2>3. /\ job'[s].pc = pc /\ job'[s].copy = c
        /\ \A t \in Slot : t # s => job'[t] = job[t]
    BY <1>1, <1>6, <1>12, <2>1, GotoFacts DEF HandlerFails
  <2>4. fails' = [fails EXCEPT ![c.body] = @ + 1] /\ recovered' = recovered
    BY <1>12 DEF HandlerFails
  <2>5. /\ fails' \in [Body -> Nat] /\ \A b \in Body : fails'[b] >= fails[b]
        /\ fails'[c.body] > c.retry
    <3>1. fails[c.body] \in Nat /\ fails[c.body] >= c.retry /\ c.retry \in Nat
      BY <1>1, <2>2, MqConstants DEF Counted
    <3> HIDE DEF c
    <3> QED BY <1>1, <2>2, <2>4, <3>1
  <2>6. /\ pc \in Failed \ {"publish"} => c.retry = MaxRetry
        /\ pc = "drop" => ~HasRecovery
    BY <2>2, MqConstants DEF AfterFailure, Failed
  <2>7. JobCounted(s)'
    <3>1. fails'[c.body] >= c.retry
      BY <2>2, <2>5, MqConstants
    <3> QED BY <2>3, <2>5, <2>6, <3>1 DEF JobCounted, Counted
  <2> QED BY <1>3, <1>4, <1>12, <2>3, <2>4, <2>5, <2>7 DEF HandlerFails, broker
<1>13. ASSUME NEW pc \in {"drop", "delay"}, job[s].pc = "recover", Goto(s, pc),
              UNCHANGED <<broker, fails>>, recovered \subseteq recovered',
              pc = "drop" => job[s].copy.body \in recovered'
       PROVE  FailsOK'
  <2>1. /\ job'[s].pc = pc /\ job'[s].copy = job[s].copy
        /\ \A t \in Slot : t # s => job'[t] = job[t]
    BY <1>1, <1>6, <1>13, GotoFacts
  <2>2. JobCounted(s)'
    BY <1>5, <1>13, <2>1 DEF JobCounted, Counted, Failed
  <2> QED BY <1>1, <1>3, <1>4, <1>7, <1>13, <2>1, <2>2 DEF broker
<1>14. CASE OnExhausted(s)
  BY <1>13, <1>14 DEF OnExhausted
<1>15. CASE OnExhaustedFails(s)
  BY <1>13, <1>15 DEF OnExhaustedFails, history
<1>16. CASE Ack(s)
  BY <1>4, <1>9, <1>16 DEF Ack, broker, history
<1>17. CASE Requeue(s)
  <2>1. \A c \in Copy : queue'[c] + delayed'[c] > 0 => Counted(c)
    BY <1>17, ReturnCounted DEF Requeue
  <2> QED BY <1>9, <1>17, <2>1 DEF Requeue, history
<1>18. CASE Drop(s)
  BY <1>4, <1>9, <1>18 DEF Drop, broker
<1> QED BY <1>10, <1>11, <1>12, <1>14, <1>15, <1>16, <1>17, <1>18 DEF Handling

LEMMA FailsNext == Typed /\ FailsOK /\ [Next]_vars => FailsOK'
<1> SUFFICES ASSUME Typed, FailsOK, [Next]_vars PROVE FailsOK'
  OBVIOUS
<1>1. ASSUME UNCHANGED vars PROVE FailsOK'
  BY <1>1 DEF vars, broker, history, FailsOK, JobCounted, Counted
<1> QED BY <1>1, PublisherFails, BrokerFails, LoopFails, HandlingFails DEF Next, Internal, Environment

-----------------------------------------------------------------------------
(* Every step is a step of Delivery or changes nothing Delivery speaks of. *)

AtBroker(b) == InQueues(b) \/ InFlight(b)
Told == \A b \in Body : producer'[b] = "ok" <=> producer[b] = "ok"

LEMMA RefineInit == Init => D!Init
BY DEF Init, D!Init, Present, Promised, InQueues, InFlight, Unacked, Idle

LEMMA Stutter ==
  ASSUME \A b \in Body : AtBroker(b)' <=> AtBroker(b), Told, UNCHANGED history
  PROVE  UNCHANGED D!vars
<1>1. Present' = Present
  BY DEF Present, AtBroker
<1>2. Promised' = Promised
  BY DEF Promised, Told
<1> QED BY <1>1, <1>2 DEF D!vars, history

\* The queues and every unacknowledged delivery stay.
LEMMA AtBrokerSame ==
  ASSUME \A c \in Copy : queue'[c] + delayed'[c] > 0 <=> queue[c] + delayed[c] > 0,
         \A s \in Slot : \/ job'[s] = job[s]
                          \/ /\ job'[s].copy = job[s].copy /\ job'[s].live = job[s].live
                             /\ job[s].pc # "idle" /\ job'[s].pc # "idle"
  PROVE  \A b \in Body : AtBroker(b)' <=> AtBroker(b)
BY DEF AtBroker, InQueues, InFlight, Unacked

LEMMA PublisherRefines ==
  ASSUME Typed, SafeOK, Publisher \/ Timeout
  PROVE  D!Next \/ UNCHANGED D!vars
<1>1. ASSUME UNCHANGED <<queue, delayed, history>>, Told,
             \A s \in Slot : \/ job'[s] = job[s]
                              \/ /\ job'[s].copy = job[s].copy /\ job'[s].live = job[s].live
                                 /\ job[s].pc # "idle" /\ job'[s].pc # "idle"
      PROVE  UNCHANGED D!vars
  BY <1>1, AtBrokerSame, Stutter
<1>2. pub.phase # "ready" =>
        /\ pub.owner \in Body \cup Slot
        /\ pub.owner \in Slot => job[pub.owner].pc \in Publishing
        /\ pub.owner \in Body => producer[pub.owner] # "ok"
  BY DEF Typed, TypeOK, OwnerOK
<1>3. ASSUME NEW p \in Body \cup Slot, p \in Slot => job[p].pc \in Publishing, TryFails(p),
             p \in Body => producer[p] # "ok", UNCHANGED <<queue, delayed, history>>
      PROVE  UNCHANGED D!vars
  <2>1. \A s \in Slot : \/ job'[s] = job[s]
                         \/ /\ s = p /\ job'[s].pc = "requeue"
                            /\ job'[s].copy = job[s].copy /\ job'[s].live = job[s].live
    BY <1>3, TryFailsFacts
  <2>2. \A s \in Slot : s = p => job[s].pc # "idle"
    BY <1>3 DEF Publishing
  <2>3. Told
    <3>1. CASE pub.try = 1
      BY <1>3, <3>1 DEF TryFails, Told, Typed, TypeOK
    <3>2. CASE pub.try # 1
      <4>1. Report(p, FALSE)
        BY <1>3, <3>2 DEF TryFails
      <4>2. /\ p \in Body => producer' = [producer EXCEPT ![p] = "error"]
            /\ p \in Slot => producer' = producer
        BY <1>3, <4>1, ReportFacts
      <4> QED BY <1>3, <4>2 DEF Told, Typed, TypeOK
    <3> QED BY <3>1, <3>2
  <2> QED BY <1>1, <1>3, <2>1, <2>2, <2>3
<1>4. ASSUME NEW p \in Body \cup Slot, Trying(p) PROVE p \in Body => producer[p] # "ok"
  BY <1>4, MqConstants DEF Trying, Wants, Typed, OwnerOK
<1>5. ASSUME NEW p \in Body \cup Slot, Send(p) PROVE UNCHANGED D!vars
  <2>1. Told
    BY <1>4, <1>5 DEF Send, Told, Typed, TypeOK
  <2> QED BY <1>1, <1>5, <2>1 DEF Send, broker
<1>6. ASSUME NEW p \in Body \cup Slot, SendFails(p) PROVE UNCHANGED D!vars
  <2>1. p \in Slot => job[p].pc \in Publishing
    BY <1>6, TryingFacts DEF SendFails
  <2> QED BY <1>3, <1>4, <1>6, <2>1 DEF SendFails
<1>7. CASE Rejected
  BY <1>2, <1>3, <1>7 DEF Rejected
<1>8. CASE Timeout
  BY <1>2, <1>3, <1>8 DEF Timeout
<1>9. CASE ConfirmClosed
  BY <1>2, <1>3, <1>9 DEF ConfirmClosed
<1>10. CASE Confirmed
  <2>0. PICK p \in Body \cup Slot : p = pub.owner
    BY <1>2, <1>10 DEF Confirmed
  <2>1. /\ Report(p, TRUE) /\ confirms = <<"ack">>
        /\ p \in Slot => job[p].pc \in Publishing
    <3>1. confirms = <<"ack">>
      BY <1>10 DEF Confirmed, Typed, ChannelOK
    <3>2. Report(p, TRUE) /\ pub.phase = "waiting"
      BY <1>10, <2>0 DEF Confirmed
    <3> QED BY <1>2, <2>0, <3>1, <3>2
  <2>2. UNCHANGED <<queue, delayed, history>>
    BY <1>10 DEF Confirmed, broker
  <2>3. /\ \A s \in Slot : s # p => job'[s] = job[s]
        /\ p \in Slot => /\ job'[p].pc = "ack"
                         /\ job'[p].copy = job[p].copy /\ job'[p].live = job[p].live
                         /\ producer' = producer
        /\ p \in Body => /\ producer' = [producer EXCEPT ![p] = "ok"]
                         /\ job' = job
    BY <2>1, ReportFacts
  <2>4. CASE p \in Slot
    <3>1. Told
      BY <2>3, <2>4 DEF Told
    <3> QED BY <1>1, <2>1, <2>2, <2>3, <2>4, <3>1 DEF Publishing
  <2>5. CASE p \in Body
    <3>1. Present' = Present
      BY <2>2, <2>3, <2>5 DEF Present, InQueues, InFlight, Unacked
    <3>2. Promised' = Promised \cup {p}
      BY <2>3, <2>5 DEF Promised, Typed, TypeOK
    <3>3. Safe(p)
      BY <2>0, <2>1, <2>5 DEF SafeOK, Relied, Confirming
    <3>4. p \in Present \cup Settled
      BY <2>5, <3>3 DEF Safe, Holder, Present, InFlight
    <3>5. D!Promise(p)
      BY <2>2, <3>1, <3>2, <3>4 DEF D!Promise, D!Settled, Settled, history
    <3> QED BY <2>5, <3>5 DEF D!Next
  <2> QED BY <2>4, <2>5
<1> QED BY <1>5, <1>6, <1>7, <1>8, <1>9, <1>10 DEF Publisher

\* The broker takes a frame: a message arrives, if it was not there already.
LEMMA PutRefines ==
  ASSUME TypeOK, NEW f \in Frame, Put(f), UNCHANGED <<job, producer, history>>
  PROVE  D!Next
<1>1. f.copy \in Copy /\ f.copy.body \in Body
  BY DEF Frame, Copy
<1>2. /\ \A c \in Copy : queue[c] + delayed[c] > 0 => queue'[c] + delayed'[c] > 0
      /\ queue'[f.copy] + delayed'[f.copy] > 0
      /\ \A c \in Copy : queue'[c] + delayed'[c] > 0 => queue[c] + delayed[c] > 0 \/ c = f.copy
  BY PutFacts
<1>3. Present' = Present \cup {f.copy.body}
  BY <1>1, <1>2 DEF Present, InQueues, InFlight, Unacked
<1>4. Promised' = Promised
  BY DEF Promised
<1>5. D!Arrive(f.copy.body)
  BY <1>3, <1>4 DEF D!Arrive, history
<1> QED BY <1>1, <1>5 DEF D!Next

LEMMA BrokerRefines ==
  ASSUME Typed,
         \/ BrokerTakes \/ BrokerRejects
         \/ \E f \in Frame : StrayTaken(f) \/ StrayLost(f)
         \/ \E c \in Copy : DelayExpires(c)
  PROVE  D!Next \/ UNCHANGED D!vars
<1>1. TypeOK
  BY DEF Typed
<1>2. ASSUME UNCHANGED <<job, producer, history>>,
             \A c \in Copy : queue'[c] + delayed'[c] = queue[c] + delayed[c]
      PROVE  UNCHANGED D!vars
  BY <1>2, AtBrokerSame, Stutter DEF Told
<1>3. CASE BrokerTakes
  <2>1. PICK f \in Frame : Put(f)
    BY <1>3, HeadFrame DEF BrokerTakes
  <2> QED BY <1>1, <1>3, <2>1, PutRefines DEF BrokerTakes
<1>4. CASE BrokerRejects
  BY <1>2, <1>4 DEF BrokerRejects, broker
<1>5. ASSUME NEW f \in Frame, StrayTaken(f) PROVE D!Next
  BY <1>1, <1>5, PutRefines DEF StrayTaken
<1>6. ASSUME NEW f \in Frame, StrayLost(f) PROVE UNCHANGED D!vars
  BY <1>2, <1>6 DEF StrayLost
<1>7. ASSUME NEW c \in Copy, DelayExpires(c) PROVE UNCHANGED D!vars
  <2>1. \A d \in Copy : queue'[d] + delayed'[d] = queue[d] + delayed[d]
    BY <1>1, <1>7 DEF DelayExpires, TypeOK
  <2> QED BY <1>2, <1>7, <2>1 DEF DelayExpires
<1> QED BY <1>3, <1>4, <1>5, <1>6, <1>7

\* Deliveries that go back to the queue do not leave the broker.
LEMMA ReturnSame ==
  ASSUME TypeOK, NEW S \in SUBSET Slot, queue' = Returned(S), delayed' = delayed,
         \A s \in Slot \ S : job'[s] = job[s],
         \A s \in S : job'[s].pc = "idle" \/ ~job'[s].live
  PROVE  \A b \in Body : AtBroker(b)' <=> AtBroker(b)
<1>1. /\ Returned(S) \in [Copy -> Nat]
      /\ \A c \in Copy : Returned(S)[c] >= queue[c]
      /\ \A s \in S : s \in Unacked => Returned(S)[job[s].copy] > 0
      /\ \A c \in Copy : Returned(S)[c] > 0 =>
           queue[c] > 0 \/ \E s \in S : s \in Unacked /\ job[s].copy = c
  BY ReturnedFacts
<1>2. queue \in [Copy -> Nat] /\ delayed \in [Copy -> Nat]
  BY DEF TypeOK
<1>3. \A s \in Unacked : job[s].copy \in Copy
  BY JobFacts DEF Unacked, Job
<1> SUFFICES ASSUME NEW b \in Body PROVE AtBroker(b)' <=> AtBroker(b)
  OBVIOUS
<1>4. ASSUME InQueues(b) PROVE InQueues(b)'
  <2>1. PICK c \in Copy : c.body = b /\ queue[c] + delayed[c] > 0
    BY <1>4 DEF InQueues
  <2>2. queue'[c] + delayed'[c] > 0
    BY <1>1, <1>2, <2>1
  <2> QED BY <2>1, <2>2 DEF InQueues
<1>5. ASSUME InFlight(b) PROVE AtBroker(b)'
  <2>1. PICK s \in Unacked : job[s].copy.body = b
    BY <1>5 DEF InFlight
  <2>2. PICK c \in Copy : c = job[s].copy
    BY <1>3, <2>1
  <2>3. CASE s \in S
    <3>1. queue'[c] > 0 /\ queue'[c] \in Nat /\ delayed'[c] \in Nat
      BY <1>1, <1>2, <2>1, <2>2, <2>3
    <3>2. queue'[c] + delayed'[c] > 0
      BY <3>1
    <3> QED BY <2>1, <2>2, <3>2 DEF InQueues, AtBroker
  <2>4. CASE s \notin S
    BY <2>1, <2>4 DEF Unacked, InFlight, AtBroker
  <2> QED BY <2>3, <2>4
<1>6. ASSUME InQueues(b)' PROVE AtBroker(b)
  <2>1. PICK c \in Copy : c.body = b /\ queue'[c] + delayed'[c] > 0
    BY <1>6 DEF InQueues
  <2>2. CASE queue[c] + delayed[c] > 0
    BY <2>1, <2>2 DEF InQueues, AtBroker
  <2>3. CASE ~(queue[c] + delayed[c] > 0)
    <3>1. Returned(S)[c] > 0 /\ ~(queue[c] > 0)
      BY <1>1, <1>2, <2>1, <2>3
    <3> QED BY <1>1, <2>1, <3>1 DEF InFlight, AtBroker
  <2> QED BY <2>2, <2>3
<1>7. ASSUME InFlight(b)' PROVE InFlight(b)
  BY <1>7 DEF InFlight, Unacked
<1> QED BY <1>4, <1>5, <1>6, <1>7 DEF AtBroker

LEMMA LoopRefines ==
  ASSUME Typed,
         \/ Connect \/ Drain \/ Drained \/ ConnLost \/ Reconnect \/ Crash
         \/ \E s \in Slot : Start(s) \/ \E c \in Copy : Deliver(s, c)
  PROVE  UNCHANGED D!vars
<1>1. TypeOK
  BY DEF Typed
<1>2. Idle.pc = "idle"
  BY DEF Idle
<1>3. CASE Connect \/ Drain \/ Reconnect
  BY <1>3, AtBrokerSame, Stutter DEF Connect, Drain, Reconnect, broker, Told
<1>4. CASE Drained
  <2>1. \A s \in Slot : job'[s].pc = "idle"
    BY <1>2, <1>4 DEF Drained
  <2>2. \A b \in Body : AtBroker(b)' <=> AtBroker(b)
    BY <1>1, <1>4, <2>1, ReturnSame DEF Drained
  <2> QED BY <1>4, <2>2, Stutter DEF Drained, Told
<1>5. CASE ConnLost
  <2>1. \A s \in Slot : job'[s].pc = "idle" \/ ~job'[s].live
    <3>1. job' = [s \in Slot |-> IF job[s].pc \in Busy THEN [job[s] EXCEPT !.live = FALSE] ELSE Idle]
      BY <1>5 DEF ConnLost
    <3>2. \A s \in Slot : job[s].pc \in Busy => job[s] \in Job
      BY <1>1, JobFacts DEF Busy, Publishing
    <3>3. \A j \in Job : [j EXCEPT !.live = FALSE].live = FALSE
      BY DEF Job
    <3> QED BY <1>2, <3>1, <3>2, <3>3
  <2>2. \A b \in Body : AtBroker(b)' <=> AtBroker(b)
    BY <1>1, <1>5, <2>1, ReturnSame DEF ConnLost
  <2> QED BY <1>5, <2>2, Stutter DEF ConnLost, Told
<1>6. CASE Crash
  <2>1. \A s \in Slot : job'[s].pc = "idle"
    BY <1>2, <1>6 DEF Crash
  <2>2. \A b \in Body : AtBroker(b)' <=> AtBroker(b)
    BY <1>1, <1>6, <2>1, ReturnSame DEF Crash
  <2> QED BY <1>6, <2>2, Stutter DEF Crash, Told
<1>7. ASSUME NEW s \in Slot, Start(s) PROVE UNCHANGED D!vars
  <2>1. /\ job'[s].pc = "handling" /\ job'[s].copy = job[s].copy /\ job'[s].live = job[s].live
        /\ job[s].pc # "idle" /\ \A t \in Slot : t # s => job'[t] = job[t]
    BY <1>1, <1>7, GotoFacts DEF Start, Goto, Busy
  <2> QED BY <1>7, <2>1, AtBrokerSame, Stutter DEF Start, broker, Told
<1>8. ASSUME NEW s \in Slot, NEW c \in Copy, Deliver(s, c) PROVE UNCHANGED D!vars
  <2>1. /\ queue' = [queue EXCEPT ![c] = @ - 1] /\ queue[c] > 0 /\ delayed' = delayed
        /\ job' = [job EXCEPT ![s] = [pc |-> "fetched", copy |-> c, live |-> TRUE]]
        /\ job[s] = Idle
        /\ UNCHANGED <<producer, history>>
    BY <1>8 DEF Deliver, FirstFree
  <2>2. /\ job'[s] = [pc |-> "fetched", copy |-> c, live |-> TRUE]
        /\ \A t \in Slot : t # s => job'[t] = job[t]
    BY <1>1, <2>1 DEF TypeOK
  <2>3. queue \in [Copy -> Nat] /\ delayed \in [Copy -> Nat]
    BY <1>1 DEF TypeOK
  <2>4. \A d \in Copy : d # c => queue'[d] + delayed'[d] = queue[d] + delayed[d]
    BY <2>1, <2>3
  <2>5. queue[c] + delayed[c] > 0
    BY <2>1, <2>3
  <2>6. \A d \in Copy : queue'[d] + delayed'[d] > 0 => queue[d] + delayed[d] > 0
    BY <2>4, <2>5
  <2>7. InFlight(c.body)'
    BY <2>2 DEF InFlight, Unacked
  <2>8. s \notin Unacked
    BY <1>2, <2>1 DEF Unacked
  <2>9. ASSUME NEW b \in Body, AtBroker(b) PROVE AtBroker(b)'
    <3>1. CASE InQueues(b)
      BY <2>4, <2>7, <3>1 DEF InQueues, AtBroker
    <3>2. CASE InFlight(b)
      BY <2>2, <2>8, <3>2 DEF InFlight, Unacked, AtBroker
    <3> QED BY <2>9, <3>1, <3>2 DEF AtBroker
  <2>10. ASSUME NEW b \in Body, AtBroker(b)' PROVE AtBroker(b)
    <3>1. CASE InQueues(b)'
      BY <2>6, <3>1 DEF InQueues, AtBroker
    <3>2. CASE InFlight(b)'
      <4>1. b = c.body \/ InFlight(b)
        BY <2>2, <3>2 DEF InFlight, Unacked
      <4> QED BY <2>5, <4>1 DEF InQueues, AtBroker
    <3> QED BY <2>10, <3>1, <3>2 DEF AtBroker
  <2> QED BY <2>1, <2>9, <2>10, Stutter DEF Told
<1> QED BY <1>3, <1>4, <1>5, <1>6, <1>7, <1>8

LEMMA HandlingRefines ==
  ASSUME Typed, SafeOK, FailsOK, NEW s \in Slot,
         Handling(s) \/ HandlerBusy(s) \/ OnExhaustedFails(s)
  PROVE  D!Next \/ UNCHANGED D!vars
<1>1. TypeOK
  BY DEF Typed
<1>2. job[s].pc # "idle" => job[s].copy \in Copy /\ job[s].copy.body \in Body
  BY <1>1, JobFacts DEF Job, Copy
<1>3. \A p \in {"handling", "ack", "requeue", "drop", "recover", "delay"} : p \in Busy /\ p # "idle"
  BY DEF Busy, Publishing
\* A goroutine that moves on leaves its delivery unacknowledged.
<1>4. ASSUME NEW pc \in Busy, job[s].pc \in {"handling", "recover"}, Goto(s, pc),
             UNCHANGED <<queue, delayed, producer>>
      PROVE  Present' = Present /\ Promised' = Promised
  <2>1. pc # "idle"
    BY DEF Busy, Publishing
  <2>2. /\ job'[s].pc = pc /\ job'[s].copy = job[s].copy /\ job'[s].live = job[s].live
        /\ \A t \in Slot : t # s => job'[t] = job[t]
    BY <1>1, <1>3, <1>4, GotoFacts
  <2>3. \A b \in Body : AtBroker(b)' <=> AtBroker(b)
    BY <1>3, <1>4, <2>1, <2>2, AtBrokerSame
  <2> QED BY <1>4, <2>3 DEF Present, AtBroker, Promised
\* A goroutine that ends takes at most its own message from the broker.
<1>5. ASSUME job[s].pc # "idle", job' = [job EXCEPT ![s] = Idle], UNCHANGED <<queue, delayed>>,
             NEW m \in Body, m = job[s].copy.body
      PROVE  /\ Present' \in {Present, Present \ {m}}
             /\ \A t \in Slot : t # s /\ t \in Unacked /\ job[t].copy.body = m => m \in Present'
             /\ ~job[s].live => Present' = Present
             /\ InQueues(m) => m \in Present'
  <2>1. /\ job'[s].pc = "idle"
        /\ \A t \in Slot : t # s => job'[t] = job[t]
    BY <1>1, <1>5, EndFacts DEF Idle
  <2>2. \A b \in Body : InQueues(b)' <=> InQueues(b)
    BY <1>5 DEF InQueues
  <2>3. \A t \in Slot : t \in Unacked' <=> t \in Unacked /\ t # s
    BY <2>1 DEF Unacked
  <2>4. \A b \in Body : b # m => (InFlight(b)' <=> InFlight(b))
    BY <1>5, <2>1, <2>3 DEF InFlight, Unacked
  <2>5. ~job[s].live => \A b \in Body : InFlight(b)' <=> InFlight(b)
    BY <2>1, <2>3 DEF InFlight, Unacked
  <2>6. InFlight(m)' => InFlight(m)
    BY <2>1, <2>3 DEF InFlight, Unacked
  <2>7. \A t \in Slot : t # s /\ t \in Unacked /\ job[t].copy.body = m => m \in Present'
    BY <2>1, <2>3 DEF Present, InFlight
  <2>8. CASE m \in Present'
    <3>1. Present' = Present
      BY <2>2, <2>4, <2>6, <2>8 DEF Present
    <3> QED BY <2>7, <2>8, <3>1
  <2>9. CASE m \notin Present'
    <3>1. Present' = Present \ {m}
      BY <2>2, <2>4, <2>9 DEF Present
    <3>2. ~job[s].live => Present' = Present
      BY <2>2, <2>5 DEF Present
    <3>3. InQueues(m) => m \in Present'
      BY <2>2 DEF Present
    <3> QED BY <2>7, <3>1, <3>2, <3>3
  <2> QED BY <2>8, <2>9
<1>6. CASE HandlerOk(s)
  <2>1. PICK m \in Body : m = job[s].copy.body
    BY <1>2, <1>3, <1>6 DEF HandlerOk
  <2>2. Present' = Present /\ Promised' = Promised
    BY <1>3, <1>4, <1>6 DEF HandlerOk, broker
  <2>3. D!Handle(m)
    BY <1>6, <2>1, <2>2 DEF HandlerOk, D!Handle
  <2> QED BY <2>1, <2>3 DEF D!Next
<1>7. CASE HandlerBusy(s)
  BY <1>3, <1>4, <1>7 DEF HandlerBusy, broker, history, D!vars
<1>8. CASE HandlerFails(s)
  <2>1. PICK m \in Body : m = job[s].copy.body
    BY <1>2, <1>3, <1>8 DEF HandlerFails
  <2>2. AfterFailure(job[s].copy) \in Busy
    BY DEF AfterFailure, Busy, Publishing
  <2>3. Present' = Present /\ Promised' = Promised
    BY <1>3, <1>4, <1>8, <2>2 DEF HandlerFails, broker
  <2>4. D!Fail(m)
    BY <1>8, <2>1, <2>3 DEF HandlerFails, D!Fail
  <2> QED BY <2>1, <2>4 DEF D!Next
<1>9. JobCounted(s)
  BY DEF FailsOK
<1>10. ASSUME job[s].pc \in {"recover", "drop"}, NEW m \in Body, m = job[s].copy.body
       PROVE  D!Exhausted(m) /\ (job[s].pc = "drop" /\ HasRecovery => m \in recovered)
  BY <1>3, <1>9, <1>10 DEF JobCounted, Failed, D!Exhausted
<1>11. CASE OnExhausted(s)
  <2>1. PICK m \in Body : m = job[s].copy.body
    BY <1>2, <1>3, <1>11 DEF OnExhausted
  <2>2. Present' = Present /\ Promised' = Promised
    BY <1>3, <1>4, <1>11 DEF OnExhausted, broker
  <2>3. D!Recover(m)
    BY <1>10, <1>11, <2>1, <2>2 DEF OnExhausted, D!Recover
  <2> QED BY <2>1, <2>3 DEF D!Next
<1>12. CASE OnExhaustedFails(s)
  BY <1>3, <1>4, <1>12 DEF OnExhaustedFails, broker, history, D!vars
<1>13. CASE Ack(s)
  <2>1. PICK m \in Body : m = job[s].copy.body
    BY <1>2, <1>3, <1>13 DEF Ack
  <2>2. /\ job[s].pc = "ack" /\ job[s].pc # "idle" /\ job' = [job EXCEPT ![s] = Idle]
        /\ UNCHANGED <<queue, delayed, producer, history>>
    BY <1>3, <1>13 DEF Ack, broker
  <2>3. /\ Present' \in {Present, Present \ {m}}
        /\ \A t \in Slot : t # s /\ t \in Unacked /\ job[t].copy.body = m => m \in Present'
        /\ InQueues(m) => m \in Present'
    BY <1>5, <2>1, <2>2
  <2>4. Promised' = Promised
    BY <2>2 DEF Promised
  <2>5. Safe(m)
    BY <2>1, <2>2 DEF SafeOK, Relied
  <2>6. \A t \in Slot : Holder(t, m) => t # s /\ t \in Unacked /\ job[t].copy.body = m
    BY <2>2 DEF Holder
  <2>7. m \in Settled \/ m \in Present'
    BY <2>3, <2>5, <2>6 DEF Safe
  <2>8. CASE Present' = Present
    BY <2>2, <2>4, <2>8 DEF D!vars, history
  <2>9. CASE Present' # Present
    <3>1. m \in Settled /\ Present' = Present \ {m}
      BY <2>3, <2>7, <2>9
    <3>2. D!Leave(m)
      BY <2>2, <2>4, <3>1 DEF D!Leave, D!Settled, Settled, history
    <3> QED BY <2>1, <3>2 DEF D!Next
  <2> QED BY <2>8, <2>9
<1>14. CASE Requeue(s)
  <2>1. \A t \in Slot \ {s} : job'[t] = job[t]
    BY <1>1, <1>14, EndFacts DEF Requeue
  <2>2. job'[s].pc = "idle"
    BY <1>1, <1>14, EndFacts DEF Requeue, Idle
  <2>3. \A b \in Body : AtBroker(b)' <=> AtBroker(b)
    <3>1. {s} \in SUBSET Slot /\ \A t \in {s} : job'[t].pc = "idle" \/ ~job'[t].live
      BY <2>2
    <3> QED BY <1>1, <1>14, <2>1, <3>1, ReturnSame DEF Requeue
  <2> QED BY <1>14, <2>3, Stutter DEF Requeue, Told
<1>15. CASE Drop(s)
  <2>1. PICK m \in Body : m = job[s].copy.body
    BY <1>2, <1>3, <1>15 DEF Drop
  <2>2. /\ job[s].pc = "drop" /\ job[s].pc # "idle" /\ job' = [job EXCEPT ![s] = Idle]
        /\ UNCHANGED <<queue, delayed, producer, handled, recovered, fails>>
        /\ givenUp' = IF job[s].live THEN givenUp \cup {m} ELSE givenUp
    BY <1>3, <1>15, <2>1 DEF Drop, broker
  <2>3. /\ Present' \in {Present, Present \ {m}}
        /\ ~job[s].live => Present' = Present
    BY <1>5, <2>1, <2>2
  <2>4. Promised' = Promised
    BY <2>2 DEF Promised
  <2>5. CASE job[s].live
    <3>1. m \in Present
      BY <2>1, <2>2, <2>5 DEF Present, InFlight, Unacked
    <3>2. D!Exhausted(m) /\ (HasRecovery => m \in recovered)
      BY <1>10, <2>1, <2>2
    <3>3. D!GiveUp(m)
      BY <2>2, <2>3, <2>4, <2>5, <3>1, <3>2 DEF D!GiveUp
    <3> QED BY <2>1, <3>3 DEF D!Next
  <2>6. CASE ~job[s].live
    BY <2>2, <2>3, <2>4, <2>6 DEF D!vars
  <2> QED BY <2>5, <2>6
<1> QED BY <1>6, <1>7, <1>8, <1>11, <1>12, <1>13, <1>14, <1>15 DEF Handling

LEMMA RefineNext == Typed /\ SafeOK /\ FailsOK /\ [Next]_vars => [D!Next]_(D!vars)
<1> SUFFICES ASSUME Typed, SafeOK, FailsOK, [Next]_vars PROVE D!Next \/ UNCHANGED D!vars
  OBVIOUS
<1>1. ASSUME UNCHANGED vars PROVE UNCHANGED D!vars
  BY <1>1 DEF vars, broker, history, D!vars, Present, Promised, InQueues, InFlight, Unacked
<1> QED BY <1>1, PublisherRefines, BrokerRefines, LoopRefines, HandlingRefines
        DEF Next, Internal, Environment

\* The consume loop and the publisher implement the promise of Delivery: a
\* promised message leaves the broker only when it is settled, and is given up
\* only after MaxRetry + 1 failures and a recorded recovery.
THEOREM ImplementsDelivery == Spec => Implements
<1>1. Init => Typed /\ SafeOK /\ FailsOK
  BY TypedInit, SafeInit, FailsInit
<1>2. (Typed /\ SafeOK /\ FailsOK) /\ [Next]_vars => (Typed /\ SafeOK /\ FailsOK)'
  BY TypedNext, SafeNext, FailsNext
<1> QED BY <1>1, <1>2, RefineInit, RefineNext, PTL DEF Spec, Implements, D!Spec

-----------------------------------------------------------------------------
(* The number of handlers.                                                 *)

InUse == {s \in Slot : job[s].pc # "idle"}

\* A loop that is down has no deliveries; one that consumes has no delivery
\* whose tag is void; there are never more than conc of them.
LoopOK ==
  /\ loop = "down" => InUse = {}
  /\ loop = "consuming" => InUse \subseteq Unacked
  /\ Cardinality(InUse) <= conc

LEMMA SlotSets ==
  ASSUME NEW S \in SUBSET Slot
  PROVE  /\ IsFiniteSet(S) /\ Cardinality(S) \in Nat
         /\ \A T \in SUBSET S : Cardinality(T) <= Cardinality(S)
         /\ \A s \in Slot : Cardinality(S \cup {s}) <= Cardinality(S) + 1
<1>1. IsFiniteSet(S)
  BY MqConstants, FS_Subset
<1>2. Cardinality(S) \in Nat
  BY <1>1, FS_CardinalityType
<1>3. \A T \in SUBSET S : Cardinality(T) <= Cardinality(S)
  BY <1>1, FS_Subset
<1>4. \A s \in Slot : Cardinality(S \cup {s}) <= Cardinality(S) + 1
  BY <1>1, <1>2, FS_AddElement
<1> QED BY <1>1, <1>2, <1>3, <1>4

LEMMA LoopInit == Init => LoopOK
<1> SUFFICES ASSUME Init PROVE LoopOK
  OBVIOUS
<1>1. InUse = {} /\ loop = "down" /\ conc \in Nat
  BY MqConstants DEF Init, InUse, Idle
<1> QED BY <1>1, FS_EmptySet DEF LoopOK

LEMMA LoopNext == Typed /\ LoopOK /\ [Next]_vars => LoopOK'
<1> SUFFICES ASSUME Typed, LoopOK, [Next]_vars PROVE LoopOK'
  OBVIOUS
<1>1. TypeOK /\ conc \in Nat
  BY MqConstants DEF Typed, TypeOK
<1>2. InUse \in SUBSET Slot /\ InUse' \in SUBSET Slot /\ Cardinality(InUse) <= conc
  BY DEF InUse, LoopOK
\* Steps after which no more slots are in use and no tag is void that was valid.
<1>3. ASSUME UNCHANGED <<loop, conc>>, InUse' \subseteq InUse,
             \A s \in Slot : job'[s].pc # "idle" => job'[s].live = job[s].live
      PROVE  LoopOK'
  <2>1. Cardinality(InUse') <= Cardinality(InUse) /\ Cardinality(InUse') \in Nat /\ Cardinality(InUse) \in Nat
    BY <1>2, <1>3, SlotSets
  <2>2. loop' = "consuming" => InUse' \subseteq Unacked'
    BY <1>3 DEF LoopOK, InUse, Unacked
  <2> QED BY <1>1, <1>2, <1>3, <2>1, <2>2 DEF LoopOK
<1>4. ASSUME UNCHANGED vars PROVE LoopOK'
  BY <1>3, <1>4 DEF vars, InUse
<1>5. ASSUME NEW s \in Slot, NEW pc \in Busy, job[s].pc # "idle", Goto(s, pc), UNCHANGED <<loop, conc>>
      PROVE  LoopOK'
  <2>1. /\ job'[s].live = job[s].live
        /\ \A t \in Slot : t # s => job'[t] = job[t]
    BY <1>1, <1>5, GotoFacts
  <2>2. InUse' \subseteq InUse
    BY <1>5, <2>1 DEF InUse
  <2> QED BY <1>3, <1>5, <2>1, <2>2
<1>6. ASSUME NEW s \in Slot, job' = [job EXCEPT ![s] = Idle], UNCHANGED <<loop, conc>>
      PROVE  LoopOK'
  <2>1. /\ job'[s].pc = "idle"
        /\ \A t \in Slot : t # s => job'[t] = job[t]
    BY <1>1, <1>6, EndFacts DEF Idle
  <2>2. InUse' \subseteq InUse
    BY <2>1 DEF InUse
  <2> QED BY <1>3, <1>6, <2>1, <2>2
<1>7. ASSUME job' = job, UNCHANGED <<loop, conc>> PROVE LoopOK'
  BY <1>3, <1>7 DEF InUse
<1>8. \A p \in {"handling", "ack", "requeue", "drop", "recover", "delay", "publish"} :
        p \in Busy /\ p # "idle"
  BY DEF Busy, Publishing
<1>9. ASSUME NEW p \in Body \cup Slot, p \in Slot => job[p].pc \in Publishing,
             TryFails(p) \/ Report(p, TRUE), UNCHANGED <<loop, conc>>
      PROVE  LoopOK'
  <2>1. CASE job' = job
    BY <1>7, <1>9, <2>1
  <2>2. CASE job' # job
    <3>1. PICK ok \in BOOLEAN : Report(p, ok)
      BY <1>9, <2>2 DEF TryFails
    <3>2. p \notin Body
      BY <2>2, <3>1 DEF Report
    <3>3. PICK pc \in Busy : Goto(p, pc)
      BY <1>8, <3>1, <3>2 DEF Report, Goto
    <3> QED BY <1>5, <1>9, <3>2, <3>3 DEF Publishing
  <2> QED BY <2>1, <2>2
<1>10. pub.phase # "ready" =>
        /\ pub.owner \in Body \cup Slot
        /\ pub.owner \in Slot => job[pub.owner].pc \in Publishing
  BY DEF Typed, TypeOK, OwnerOK
<1>11. CASE Publisher \/ Timeout
  <2>1. ASSUME NEW p \in Body \cup Slot, Send(p) PROVE LoopOK'
    BY <1>7, <2>1 DEF Send
  <2>2. ASSUME NEW p \in Body \cup Slot, SendFails(p) PROVE LoopOK'
    <3>1. p \in Slot => job[p].pc \in Publishing
      BY <2>2, TryingFacts DEF SendFails
    <3> QED BY <1>9, <2>2, <3>1 DEF SendFails
  <2>3. CASE Confirmed
    BY <1>9, <1>10, <2>3 DEF Confirmed
  <2>4. CASE Rejected \/ Timeout \/ ConfirmClosed
    BY <1>9, <1>10, <2>4 DEF Rejected, Timeout, ConfirmClosed
  <2> QED BY <1>11, <2>1, <2>2, <2>3, <2>4 DEF Publisher
<1>12. ASSUME \/ BrokerTakes \/ BrokerRejects \/ Reconnect
              \/ \E f \in Frame : StrayTaken(f) \/ StrayLost(f)
              \/ \E c \in Copy : DelayExpires(c)
       PROVE  LoopOK'
  BY <1>7, <1>12 DEF BrokerTakes, BrokerRejects, Reconnect, StrayTaken, StrayLost, DelayExpires
<1>13. ASSUME InUse' = {}, conc' = conc, loop' # "consuming" PROVE LoopOK'
  <2>1. Cardinality(InUse') = 0
    BY <1>13, FS_EmptySet
  <2> QED BY <1>1, <1>13, <2>1 DEF LoopOK
<1>14. CASE Drained \/ Crash
  <2>1. InUse' = {}
    BY <1>14 DEF Drained, Crash, InUse, Idle
  <2> QED BY <1>13, <1>14, <2>1 DEF Drained, Crash
<1>15. CASE Connect
  <2>1. InUse' = {} /\ conc' \in Nat
    BY <1>15, MqConstants DEF Connect, InUse, LoopOK
  <2>2. Cardinality(InUse') = 0
    BY <2>1, FS_EmptySet
  <2> QED BY <2>1, <2>2 DEF LoopOK
<1>16. CASE Drain \/ ConnLost
  <2>1. InUse' \subseteq InUse
    <3>1. CASE Drain
      BY <3>1 DEF Drain, InUse
    <3>2. CASE ConnLost
      <4>1. job' = [s \in Slot |-> IF job[s].pc \in Busy THEN [job[s] EXCEPT !.live = FALSE] ELSE Idle]
        BY <3>2 DEF ConnLost
      <4>2. \A s \in Slot : job[s].pc \in Busy => job[s].pc # "idle"
        BY DEF Busy, Publishing
      <4>3. Idle.pc = "idle"
        BY DEF Idle
      <4> QED BY <4>1, <4>2, <4>3 DEF InUse
    <3> QED BY <1>16, <3>1, <3>2
  <2>2. Cardinality(InUse') <= Cardinality(InUse) /\ Cardinality(InUse') \in Nat /\ Cardinality(InUse) \in Nat
    BY <1>2, <2>1, SlotSets
  <2>3. conc' = conc /\ loop' # "consuming" /\ (loop' = "down" => loop = "down")
    BY <1>16 DEF Drain, ConnLost
  <2> QED BY <1>1, <1>2, <2>1, <2>2, <2>3 DEF LoopOK
<1>17. ASSUME NEW s \in Slot, Start(s) PROVE LoopOK'
  BY <1>5, <1>8, <1>17 DEF Start, Goto
<1>18. ASSUME NEW s \in Slot, NEW c \in Copy, Deliver(s, c) PROVE LoopOK'
  <2>1. /\ job'[s] = [pc |-> "fetched", copy |-> c, live |-> TRUE]
        /\ \A t \in Slot : t # s => job'[t] = job[t]
        /\ loop = "consuming" /\ UNCHANGED <<loop, conc>>
        /\ Cardinality(Unacked) < conc
    BY <1>1, <1>18 DEF Deliver, TypeOK
  <2>2. InUse' \subseteq InUse \cup {s}
    BY <2>1 DEF InUse
  <2>3. InUse = Unacked
    BY <2>1 DEF LoopOK, InUse, Unacked
  <2>4. InUse \cup {s} \in SUBSET Slot
    BY <1>2
  <2>5. Cardinality(InUse') <= Cardinality(InUse \cup {s})
    BY <2>2, <2>4, SlotSets
  <2>6. Cardinality(InUse \cup {s}) <= Cardinality(InUse) + 1
    BY <1>2, SlotSets
  <2>7. /\ Cardinality(InUse') \in Nat /\ Cardinality(InUse \cup {s}) \in Nat
        /\ Cardinality(InUse) \in Nat
    BY <1>2, <2>4, SlotSets
  <2>8. Cardinality(InUse') <= conc'
    BY <1>1, <2>1, <2>3, <2>5, <2>6, <2>7
  <2>9. InUse' \subseteq Unacked'
    BY <2>1, <2>3 DEF InUse, Unacked
  <2> QED BY <2>1, <2>8, <2>9 DEF LoopOK
<1>19. ASSUME NEW s \in Slot, Handling(s) \/ HandlerBusy(s) \/ OnExhaustedFails(s) PROVE LoopOK'
  <2>1. CASE HandlerOk(s) \/ HandlerBusy(s)
    BY <1>5, <1>8, <2>1 DEF HandlerOk, HandlerBusy
  <2>2. CASE HandlerFails(s)
    <3>1. AfterFailure(job[s].copy) \in Busy
      BY <1>8 DEF AfterFailure
    <3> QED BY <1>5, <1>8, <2>2, <3>1 DEF HandlerFails
  <2>3. CASE OnExhausted(s) \/ OnExhaustedFails(s)
    BY <1>5, <1>8, <2>3 DEF OnExhausted, OnExhaustedFails
  <2>4. CASE Ack(s) \/ Requeue(s) \/ Drop(s)
    BY <1>6, <2>4 DEF Ack, Requeue, Drop
  <2> QED BY <1>19, <2>1, <2>2, <2>3, <2>4 DEF Handling
<1> QED BY <1>4, <1>11, <1>12, <1>14, <1>15, <1>16, <1>17, <1>18, <1>19
        DEF Next, Internal, Environment

\* Handlers never outnumber the configured concurrency, also not while one
\* loop replaces another.
THEOREM HandlersBounded == Spec => []WorkersBounded
<1>1. Typed /\ LoopOK => WorkersBounded
  <2> SUFFICES ASSUME Typed, LoopOK PROVE WorkersBounded
    OBVIOUS
  <2>1. BusySlots \subseteq InUse /\ InUse \in SUBSET Slot
    BY DEF BusySlots, InUse, Busy, Publishing
  <2>2. /\ Cardinality(BusySlots) <= Cardinality(InUse)
        /\ Cardinality(InUse) \in Nat /\ Cardinality(BusySlots) \in Nat
    BY <2>1, SlotSets
  <2>3. conc \in Nat /\ Cardinality(InUse) <= conc
    BY MqConstants DEF Typed, TypeOK, LoopOK
  <2> QED BY <2>2, <2>3 DEF WorkersBounded
<1>2. Init => Typed /\ LoopOK
  BY TypedInit, LoopInit
<1>3. (Typed /\ LoopOK) /\ [Next]_vars => (Typed /\ LoopOK)'
  BY TypedNext, LoopNext
<1> QED BY <1>1, <1>2, <1>3, PTL DEF Spec
=============================================================================
