----------------------------- MODULE MqConsume -----------------------------
(***************************************************************************)
(* One queue, its consume loop (mqconsume.Run) and the publisher all       *)
(* goroutines of a process share (event.RabbitMQ.Publish).                 *)
(*                                                                         *)
(* The broker delivers with manual acknowledgement and a prefetch of conc. *)
(* Each delivery is handled by a goroutine; a failed one is published      *)
(* again with a higher retry count and then acknowledged, and an exhausted *)
(* one is discarded after its durable recovery, or parked in a delay queue *)
(* when that recovery fails.  Publish holds a mutex, sends one frame and   *)
(* waits 1.5 s for its confirm; a failed attempt drops the channel and is  *)
(* made once more.  Connections break and processes crash at any point:    *)
(* the broker then takes back what was not acknowledged, while a goroutine *)
(* of a living process carries on with a delivery it can no longer settle. *)
(*                                                                         *)
(* handled, givenUp, recovered and fails are history variables.            *)
(***************************************************************************)
EXTENDS Integers, Sequences, FiniteSets

CONSTANTS Body,        \* messages the producers publish, by what they ask for
          Slot,        \* deliveries and the goroutines that handle them
          Limits,      \* values ConcurrencySource may return
          MaxRetry,    \* Options.MaxRetry
          HasRecovery, \* Options.OnExhausted is set
          Nobody,      \* the publish mutex is free
          FaultKinds,  \* faults of this instance, of AllFaults
          MaxFaults    \* bound on their number

AllFaults == {"timeout", "reject", "connection", "crash", "busy", "recovery", "drain"}

ASSUME MqConstants ==
  /\ Slot \subseteq Nat /\ IsFiniteSet(Slot)
  /\ Slot \cap Body = {}
  /\ Nobody \notin Slot \cup Body
  /\ Limits \subseteq Nat \ {0}
  /\ Limits # {}
  /\ MaxRetry \in Nat \ {0}
  /\ HasRecovery \in BOOLEAN
  /\ FaultKinds \subseteq AllFaults
  /\ MaxFaults \in Nat

VARIABLES
  queue,       \* [Copy -> Nat]: copies ready in the queue
  delayed,     \* [Copy -> Nat]: copies in the delay queues
  conn,        \* the process has a connection
  loop, conc,  \* the consume loop and its prefetch and worker limit
  job,         \* [Slot -> delivery and where its goroutine is]
  pub,         \* the publish in progress, under pubMu
  frames, confirms, \* the publish channel: sent frames, unread confirms
  strays,      \* [Frame -> Nat]: frames of dropped channels still under way
  producer,    \* [Body -> what the producer knows]
  handled, givenUp, recovered, fails,  \* history
  faults

broker  == <<queue, delayed, strays>>
channel == <<frames, confirms>>
history == <<handled, givenUp, recovered, fails>>
vars == <<broker, conn, loop, conc, job, pub, channel, producer, history, faults>>

Copy  == [body : Body, retry : 0..MaxRetry]
Frame == [to : {"queue", "delay"}, copy : Copy]

Publishing == {"publish", "delay"}
Busy == {"handling", "recover", "ack", "requeue", "drop"} \cup Publishing
Idle == [pc |-> "idle"]
Job  == [pc : Busy \cup {"fetched"}, copy : Copy, live : BOOLEAN]
FreePub == [owner |-> Nobody, try |-> 1, phase |-> "ready"]

BusySlots == {s \in Slot : job[s].pc \in Busy}
\* Deliveries the broker waits for on the consumer's channel.
Unacked == {s \in Slot : job[s].pc # "idle" /\ job[s].live}

Fault(kind) ==
  /\ kind \in FaultKinds
  /\ faults < MaxFaults
  /\ faults' = faults + 1

------------------------------------------------------------------------------
Init ==
  /\ queue = [c \in Copy |-> 0]
  /\ delayed = [c \in Copy |-> 0]
  /\ strays = [f \in Frame |-> 0]
  /\ conn = TRUE
  /\ loop = "down"
  /\ conc \in Limits
  /\ job = [s \in Slot |-> Idle]
  /\ pub = FreePub
  /\ frames = <<>> /\ confirms = <<>>
  /\ producer = [b \in Body |-> "new"]
  /\ handled = {} /\ givenUp = {} /\ recovered = {}
  /\ fails = [b \in Body |-> 0]
  /\ faults = 0

------------------------------------------------------------------------------
(* The publisher: event.RabbitMQ.Publish *)

\* The frame a publisher sends: a producer its message, a failed delivery its
\* next retry, an exhausted one itself by way of the delay queue.
FrameOf(p) ==
  IF p \in Body THEN [to |-> "queue", copy |-> [body |-> p, retry |-> 0]]
  ELSE IF job[p].pc = "delay" THEN [to |-> "delay", copy |-> job[p].copy]
  ELSE [to |-> "queue", copy |-> [job[p].copy EXCEPT !.retry = @ + 1]]

\* A publisher that takes pubMu, or the holder about to try again.
Wants(p) ==
  \/ p \in Body /\ producer[p] = "new"
  \/ p \in Slot /\ job[p].pc \in Publishing
Trying(p) ==
  \/ pub.owner = Nobody /\ Wants(p)
  \/ pub.owner = p /\ pub.phase = "ready"

\* ensurePubCh opens a channel on the living connection when there is none.
Send(p) ==
  /\ Trying(p)
  /\ conn
  /\ frames' = Append(frames, FrameOf(p))
  /\ pub' = [pub EXCEPT !.owner = p, !.phase = "waiting"]
  /\ producer' = IF p \in Body THEN [producer EXCEPT ![p] = "publishing"] ELSE producer
  /\ UNCHANGED <<broker, conn, loop, conc, job, confirms, history, faults>>

\* The frames of a dropped channel reach the broker later or never; their
\* confirms reach nobody.
InFrames(f) == Cardinality({i \in DOMAIN frames : frames[i] = f})
DropPubCh ==
  /\ strays' = [f \in Frame |-> strays[f] + InFrames(f)]
  /\ frames' = <<>>
  /\ confirms' = <<>>

\* p learns ok; it goes on to acknowledge, or to report success.
Report(p, ok) ==
  /\ pub' = FreePub
  /\ IF p \in Body
     THEN /\ producer' = [producer EXCEPT ![p] = IF ok THEN "ok" ELSE "error"]
          /\ UNCHANGED job
     ELSE /\ job' = [job EXCEPT ![p].pc = IF ok THEN "ack" ELSE "requeue"]
          /\ UNCHANGED producer

\* A failed first attempt drops the channel and is made again; the second
\* failure is reported.
TryFails(p) ==
  IF pub.try = 1
  THEN /\ pub' = [owner |-> p, try |-> 2, phase |-> "ready"]
       /\ producer' = IF p \in Body THEN [producer EXCEPT ![p] = "publishing"] ELSE producer
       /\ UNCHANGED job
  ELSE Report(p, FALSE)

SendFails(p) ==
  /\ Trying(p)
  /\ ~conn
  /\ TryFails(p)
  /\ DropPubCh
  /\ UNCHANGED <<queue, delayed, conn, loop, conc, history, faults>>

Confirmed ==
  /\ pub.phase = "waiting"
  /\ confirms # <<>>
  /\ Head(confirms) = "ack"
  /\ confirms' = Tail(confirms)
  /\ Report(pub.owner, TRUE)
  /\ UNCHANGED <<broker, conn, loop, conc, frames, history, faults>>

Rejected ==
  /\ pub.phase = "waiting"
  /\ confirms # <<>>
  /\ Head(confirms) = "nack"
  /\ TryFails(pub.owner)
  /\ IF pub.try = 1 THEN DropPubCh
     ELSE confirms' = Tail(confirms) /\ UNCHANGED <<strays, frames>>
  /\ UNCHANGED <<queue, delayed, conn, loop, conc, history, faults>>

\* Mutant: the timeout keeps the channel, so a late confirm is read later.
TimeoutKeepsChannel ==
  /\ pub.phase = "waiting"
  /\ Fault("timeout")
  /\ TryFails(pub.owner)
  /\ UNCHANGED <<broker, channel, conn, loop, conc, history>>

\* The timer and a confirm may be ready together: select takes either.
Timeout ==
  /\ pub.phase = "waiting"
  /\ Fault("timeout")
  /\ TryFails(pub.owner)
  /\ DropPubCh
  /\ UNCHANGED <<queue, delayed, conn, loop, conc, history>>

\* Mutant: the publisher does not notice that its confirm channel was closed.
ConfirmClosedUnseen == FALSE

\* The confirm channel was closed under the waiting publisher.
ConfirmClosed ==
  /\ pub.phase = "broken"
  /\ TryFails(pub.owner)
  /\ DropPubCh
  /\ UNCHANGED <<queue, delayed, conn, loop, conc, history, faults>>

------------------------------------------------------------------------------
(* The broker *)

Put(f) ==
  IF f.to = "queue"
  THEN queue' = [queue EXCEPT ![f.copy] = @ + 1] /\ UNCHANGED delayed
  ELSE delayed' = [delayed EXCEPT ![f.copy] = @ + 1] /\ UNCHANGED queue

BrokerTakes ==
  /\ frames # <<>>
  /\ Put(Head(frames))
  /\ frames' = Tail(frames)
  /\ confirms' = Append(confirms, "ack")
  /\ UNCHANGED <<strays, conn, loop, conc, job, pub, producer, history, faults>>

BrokerRejects ==
  /\ frames # <<>>
  /\ Fault("reject")
  /\ frames' = Tail(frames)
  /\ confirms' = Append(confirms, "nack")
  /\ UNCHANGED <<broker, conn, loop, conc, job, pub, producer, history>>

StrayTaken(f) ==
  /\ strays[f] > 0
  /\ strays' = [strays EXCEPT ![f] = @ - 1]
  /\ Put(f)
  /\ UNCHANGED <<conn, loop, conc, job, pub, channel, producer, history, faults>>

StrayLost(f) ==
  /\ strays[f] > 0
  /\ strays' = [strays EXCEPT ![f] = @ - 1]
  /\ UNCHANGED <<queue, delayed, conn, loop, conc, job, pub, channel, producer, history, faults>>

\* x-message-ttl runs out and the copy is dead-lettered back to the queue.
DelayExpires(c) ==
  /\ delayed[c] > 0
  /\ delayed' = [delayed EXCEPT ![c] = @ - 1]
  /\ queue' = [queue EXCEPT ![c] = @ + 1]
  /\ UNCHANGED <<strays, conn, loop, conc, job, pub, channel, producer, history, faults>>

\* A closed channel returns the unacknowledged deliveries of S to the queue.
Returned(S) ==
  [c \in Copy |-> queue[c] + Cardinality({s \in S \cap Unacked : job[s].copy = c})]

------------------------------------------------------------------------------
(* The consume loop *)

\* runOnce opens a channel with the prefetch that is configured now.
Connect ==
  /\ loop = "down"
  /\ conn
  /\ loop' = "consuming"
  /\ conc' \in Limits
  /\ UNCHANGED <<broker, conn, job, pub, channel, producer, history, faults>>

\* Slots stand for goroutines and have no identity: the first free one serves.
FirstFree(s) == job[s] = Idle /\ \A t \in Slot : t < s => job[t] # Idle

Deliver(s, c) ==
  /\ loop = "consuming"
  /\ queue[c] > 0
  /\ FirstFree(s)
  /\ Cardinality(Unacked) < conc
  /\ queue' = [queue EXCEPT ![c] = @ - 1]
  /\ job' = [job EXCEPT ![s] = [pc |-> "fetched", copy |-> c, live |-> TRUE]]
  /\ UNCHANGED <<delayed, strays, conn, loop, conc, pub, channel, producer, history, faults>>

\* The loop takes a delivery, holding one of the conc places of its sem; the
\* goroutines of an earlier loop, whose tags are void, hold none of them.
Start(s) ==
  /\ loop = "consuming"
  /\ job[s].pc = "fetched"
  /\ Cardinality(BusySlots \cap Unacked) < conc
  /\ job' = [job EXCEPT ![s].pc = "handling"]
  /\ UNCHANGED <<broker, conn, loop, conc, pub, channel, producer, history, faults>>

\* Stop, or a changed concurrency: no new delivery is taken.
Drain ==
  /\ loop = "consuming"
  /\ Fault("drain")
  /\ loop' = "draining"
  /\ UNCHANGED <<broker, conn, conc, job, pub, channel, producer, history>>

\* Mutant: the loop reconnects without waiting for its goroutines.
DrainedWithoutWait ==
  /\ loop = "draining"
  /\ loop' = "down"
  /\ queue' = Returned(Slot)
  /\ job' = [s \in Slot |-> IF job[s].pc \in Busy THEN [job[s] EXCEPT !.live = FALSE] ELSE Idle]
  /\ UNCHANGED <<delayed, strays, conn, conc, pub, channel, producer, history, faults>>

\* wg.Wait, then the channel is closed; deliveries nobody took go back.
Drained ==
  /\ loop = "draining"
  /\ BusySlots = {}
  /\ loop' = "down"
  /\ queue' = Returned(Slot)
  /\ job' = [s \in Slot |-> Idle]
  /\ UNCHANGED <<delayed, strays, conn, conc, pub, channel, producer, history, faults>>

\* The connection breaks.  Deliveries nobody took vanish, running handlers
\* keep deliveries whose tags are void, a confirm already read survives.
ConnLost ==
  /\ conn
  /\ Fault("connection")
  /\ conn' = FALSE
  /\ loop' = IF loop = "consuming" THEN "draining" ELSE loop
  /\ queue' = Returned(Slot)
  /\ job' = [s \in Slot |-> IF job[s].pc \in Busy THEN [job[s] EXCEPT !.live = FALSE] ELSE Idle]
  /\ strays' = [f \in Frame |-> strays[f] + InFrames(f)]
  /\ frames' = <<>>
  /\ confirms' \in {confirms, <<>>}
  /\ pub' = IF pub.phase = "waiting" /\ confirms' = <<>>
            THEN [pub EXCEPT !.phase = "broken"] ELSE pub
  /\ UNCHANGED <<delayed, conc, producer, history>>

\* watchConn, ensureConn or Publish dials again.
Reconnect ==
  /\ ~conn
  /\ conn' = TRUE
  /\ UNCHANGED <<broker, loop, conc, job, pub, channel, producer, history, faults>>

Crash ==
  /\ Fault("crash")
  /\ conn' = FALSE
  /\ loop' = "down"
  /\ queue' = Returned(Slot)
  /\ job' = [s \in Slot |-> Idle]
  /\ pub' = FreePub
  /\ DropPubCh
  /\ producer' = [b \in Body |-> IF producer[b] = "publishing" THEN "error" ELSE producer[b]]
  /\ UNCHANGED <<delayed, conc, history>>

------------------------------------------------------------------------------
(* The goroutine of a delivery *)

Goto(s, pc) == job' = [job EXCEPT ![s].pc = pc]

HandlerOk(s) ==
  /\ job[s].pc = "handling"
  /\ handled' = handled \cup {job[s].copy.body}
  /\ Goto(s, "ack")
  /\ UNCHANGED <<broker, conn, loop, conc, pub, channel, producer, givenUp, recovered, fails, faults>>

\* ShouldRequeue: the message goes back without counting as a failure.
HandlerBusy(s) ==
  /\ job[s].pc = "handling"
  /\ Fault("busy")
  /\ Goto(s, "requeue")
  /\ UNCHANGED <<broker, conn, loop, conc, pub, channel, producer, history>>

\* Mutant: one retry too many, with a header nobody expects.
AfterFailureOneMore(c) ==
  IF c.retry <= MaxRetry THEN "publish" ELSE IF HasRecovery THEN "recover" ELSE "drop"

\* An error or a panic: handleFail.
AfterFailure(c) ==
  IF c.retry < MaxRetry THEN "publish" ELSE IF HasRecovery THEN "recover" ELSE "drop"
HandlerFails(s) ==
  /\ job[s].pc = "handling"
  /\ fails' = [fails EXCEPT ![job[s].copy.body] = @ + 1]
  /\ Goto(s, AfterFailure(job[s].copy))
  /\ UNCHANGED <<broker, conn, loop, conc, pub, channel, producer, handled, givenUp, recovered, faults>>

OnExhausted(s) ==
  /\ job[s].pc = "recover"
  /\ recovered' = recovered \cup {job[s].copy.body}
  /\ Goto(s, "drop")
  /\ UNCHANGED <<broker, conn, loop, conc, pub, channel, producer, handled, givenUp, fails, faults>>

\* Mutant: an exhausted message is discarded although its recovery failed.
OnExhaustedIgnored(s) ==
  /\ job[s].pc = "recover"
  /\ Fault("recovery")
  /\ Goto(s, "drop")
  /\ UNCHANGED <<broker, conn, loop, conc, pub, channel, producer, history>>

OnExhaustedFails(s) ==
  /\ job[s].pc = "recover"
  /\ Fault("recovery")
  /\ Goto(s, "delay")
  /\ UNCHANGED <<broker, conn, loop, conc, pub, channel, producer, history>>

Ack(s) ==
  /\ job[s].pc = "ack"
  /\ job' = [job EXCEPT ![s] = Idle]
  /\ UNCHANGED <<broker, conn, loop, conc, pub, channel, producer, history, faults>>

\* Nack(requeue): without a valid tag the broker has the message already.
Requeue(s) ==
  /\ job[s].pc = "requeue"
  /\ queue' = Returned({s})
  /\ job' = [job EXCEPT ![s] = Idle]
  /\ UNCHANGED <<delayed, strays, conn, loop, conc, pub, channel, producer, history, faults>>

Drop(s) ==
  /\ job[s].pc = "drop"
  /\ givenUp' = IF job[s].live THEN givenUp \cup {job[s].copy.body} ELSE givenUp
  /\ job' = [job EXCEPT ![s] = Idle]
  /\ UNCHANGED <<broker, conn, loop, conc, pub, channel, producer, handled, recovered, fails, faults>>

------------------------------------------------------------------------------
Publisher ==
  \/ \E p \in Body \cup Slot : Send(p) \/ SendFails(p)
  \/ Confirmed \/ Rejected \/ ConfirmClosed
Handling(s) ==
  \/ HandlerOk(s) \/ HandlerFails(s) \/ OnExhausted(s)
  \/ Ack(s) \/ Requeue(s) \/ Drop(s)

Internal ==
  \/ Publisher
  \/ BrokerTakes
  \/ \E f \in Frame : StrayTaken(f) \/ StrayLost(f)
  \/ \E c \in Copy : DelayExpires(c)
  \/ Connect \/ Drained \/ Reconnect
  \/ \E s \in Slot : Start(s) \/ Handling(s) \/ \E c \in Copy : Deliver(s, c)

Environment ==
  \/ Timeout \/ BrokerRejects \/ Drain \/ ConnLost \/ Crash
  \/ \E s \in Slot : HandlerBusy(s) \/ OnExhaustedFails(s)

Next == Internal \/ Environment

Spec == Init /\ [][Next]_vars

\* Goroutines, broker and timers go on; nothing is assumed of the order.
FairSpec == Spec /\ WF_vars(Internal)

------------------------------------------------------------------------------
(* Properties *)

\* Type correctness; a handler never runs without a delivery.
TypeOK ==
  /\ queue \in [Copy -> Nat] /\ delayed \in [Copy -> Nat] /\ strays \in [Frame -> Nat]
  /\ conn \in BOOLEAN
  /\ loop \in {"down", "consuming", "draining"}
  /\ conc \in Limits
  /\ job \in [Slot -> Job \cup {Idle}]
  /\ pub \in [owner : Slot \cup Body \cup {Nobody}, try : {1, 2},
              phase : {"ready", "waiting", "broken"}]
  /\ frames \in Seq(Frame) /\ confirms \in Seq({"ack", "nack"})
  /\ producer \in [Body -> {"new", "publishing", "ok", "error"}]
  /\ handled \subseteq Body /\ givenUp \subseteq Body /\ recovered \subseteq Body
  /\ fails \in [Body -> Nat]
  /\ faults \in 0..MaxFaults

Settled == handled \cup givenUp
InQueues(b) == \E c \in Copy : c.body = b /\ queue[c] + delayed[c] > 0
InFlight(b) == \E s \in Unacked : job[s].copy.body = b
Present == {b \in Body : InQueues(b) \/ InFlight(b)}
Promised == {b \in Body : producer[b] = "ok"}

\* A message whose publish was confirmed is at the broker until it is settled:
\* republish-then-ack (handleFail), late and lost confirms (Publish) and
\* broken connections lose none.
NothingLost == \A b \in Promised : b \in Settled \/ b \in Present

\* Never more handlers than the configured concurrency, across reconnections
\* and reloads (sem of the old loop does not limit the new one; wg.Wait does).
WorkersBounded == Cardinality(BusySlots) <= conc

\* The loop and the publisher implement the promise of Delivery.
D == INSTANCE Delivery WITH present <- Present, promised <- Promised
Implements == D!Spec

\* Once faults stop, every promised message is settled.
EverySettled == \A b \in Body : (b \in Promised) ~> (b \in Settled)
=============================================================================
