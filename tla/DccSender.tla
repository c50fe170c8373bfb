----------------------------- MODULE DccSender -----------------------------
(***************************************************************************)
(* The sending side of the DCC for one access category (dcc/src/dcc.cpp):  *)
(* receiver threads that take packets from the facilities layer            *)
(* (receiveFromCa2 for CAMs, receiveFromDen for DENMs) and the io thread   *)
(* that adds tokens (addToken) share one LeakyBucket.  Both sides end in   *)
(* sendQueuedPackets, which they may run at the same time.                 *)
(*                                                                         *)
(* A thread's pc names the call it is about to make:                       *)
(*   receiver  idle flush flushing enqueue log  dequeue check send|refund  *)
(*   io        idle flush flushing increment    dequeue check send|refund  *)
(* The wall clock advances between any two steps; its value is what        *)
(* Utils::currentTime returns.                                             *)
(***************************************************************************)
EXTENDS LeakyBucket, FiniteSets

CONSTANTS Receivers,   \* threads that enqueue packets of this category
          Io,          \* the thread that runs the io_service
          NoData,      \* no packet in hand
          MaxTime      \* bound: the last instant of the clock

Threads == Receivers \cup {Io}

ASSUME SenderAssumption ==
  /\ IsFiniteSet(Receivers) /\ IsFiniteSet(Message)
  /\ Io \notin Receivers
  /\ Free \notin Threads
  /\ NoData \notin Entry
  /\ Message \subseteq Nat
  /\ MaxTime \in Nat /\ 0..MaxTime \subseteq Time

VARIABLES clock,
          pc,
          data,       \* the packet a thread has in hand, with its validUntil
          nowTime,    \* the thread's last reading of the clock
          fate,       \* history: what has become of each packet
          accepted,   \* history: tokens addToken has put into the bucket
          forfeited   \* history: tokens lost because the bucket was full

bucketVars == <<availableTokens, queue, mutexQueue>>
vars == <<availableTokens, queue, mutexQueue, clock, pc, data, nowTime,
          fate, accepted, forfeited>>

Fates == {"outside", "arrived", "queued", "held", "sent", "expired", "dropped"}
Pcs == {"idle", "flush", "flushing", "enqueue", "log", "increment",
        "dequeue", "check", "send", "refund"}

\* pcs at which a thread holds a packet it has paid a token for.
Paid == {"check", "send", "refund"}
\* pcs from which a thread goes on to look at the queue again.
Draining == {"log", "dequeue"} \cup Paid

Goto(t, to) == pc' = [pc EXCEPT ![t] = to]

-----------------------------------------------------------------------------
Init ==
  /\ BucketInit
  /\ clock = 0
  /\ pc = [t \in Threads |-> "idle"]
  /\ data = [t \in Threads |-> NoData]
  /\ nowTime = [t \in Threads |-> 0]
  /\ fate = [m \in Message |-> "outside"]
  /\ accepted = 0
  /\ forfeited = 0

Tick ==
  /\ clock < MaxTime
  /\ clock' = clock + 1
  /\ UNCHANGED <<bucketVars, pc, data, nowTime, fate, accepted, forfeited>>

\* A packet arrives, is parsed, and the clock is read.  Packets are numbered
\* in the order of their arrival; one that was delayed on its way may have
\* expired already.
Receive(r, m, v) ==
  /\ pc[r] = "idle"
  /\ fate[m] = "outside"
  /\ \A k \in Message : k < m => fate[k] # "outside"
  /\ Goto(r, "flush")
  /\ data' = [data EXCEPT ![r] = [validUntil |-> v, msg |-> m]]
  /\ nowTime' = [nowTime EXCEPT ![r] = clock]
  /\ fate' = [fate EXCEPT ![m] = "arrived"]
  /\ UNCHANGED <<bucketVars, clock, accepted, forfeited>>

\* The token timer fires.
AddToken ==
  /\ pc[Io] = "idle"
  /\ Goto(Io, "flush")
  /\ nowTime' = [nowTime EXCEPT ![Io] = clock]
  /\ UNCHANGED <<bucketVars, clock, data, fate, accepted, forfeited>>

-----------------------------------------------------------------------------
\* flushQueue(nowTime), from lock to unlock.
BeginFlush(t) ==
  /\ pc[t] = "flush"
  /\ mutexQueue = Free
  /\ mutexQueue' = t
  /\ Goto(t, "flushing")
  /\ UNCHANGED <<availableTokens, queue, clock, data, nowTime, fate,
                 accepted, forfeited>>

EraseExpired(t) ==
  /\ pc[t] = "flushing"
  /\ \E i \in DOMAIN queue :
        /\ NextExpired(i, nowTime[t])
        /\ Erase(i)
        /\ fate' = [fate EXCEPT ![queue[i].msg] = "expired"]
  /\ UNCHANGED <<availableTokens, mutexQueue, clock, pc, data, nowTime,
                 accepted, forfeited>>

\* Mutant of EndFlush: the loop stops at the first entry that is still valid.
EndFlushAtValidHead(t) ==
  /\ pc[t] = "flushing"
  /\ queue # << >> => ~ ExpiredAt(1, nowTime[t])
  /\ mutexQueue' = Free
  /\ Goto(t, IF t = Io THEN "increment" ELSE "enqueue")
  /\ UNCHANGED <<availableTokens, queue, clock, data, nowTime, fate,
                 accepted, forfeited>>

EndFlush(t) ==
  /\ pc[t] = "flushing"
  /\ NoneExpired(nowTime[t])
  /\ mutexQueue' = Free
  /\ Goto(t, IF t = Io THEN "increment" ELSE "enqueue")
  /\ UNCHANGED <<availableTokens, queue, clock, data, nowTime, fate,
                 accepted, forfeited>>

-----------------------------------------------------------------------------
Enqueue(r) ==
  /\ pc[r] = "enqueue"
  /\ mutexQueue = Free
  /\ HasRoomForPacket
  /\ PushBack(data[r])
  /\ Goto(r, "log")
  /\ fate' = [fate EXCEPT ![data[r].msg] = "queued"]
  /\ UNCHANGED <<availableTokens, mutexQueue, clock, data, nowTime,
                 accepted, forfeited>>

\* The queue is full.  The packet is not deleted either.
Drop(r) ==
  /\ pc[r] = "enqueue"
  /\ mutexQueue = Free
  /\ ~ HasRoomForPacket
  /\ Goto(r, "idle")
  /\ data' = [data EXCEPT ![r] = NoData]
  /\ fate' = [fate EXCEPT ![data[r].msg] = "dropped"]
  /\ UNCHANGED <<bucketVars, clock, nowTime, accepted, forfeited>>

\* The log line of the receiver: getQueuedPackets waits for mutex_queue.
LogEnqueued(r) ==
  /\ pc[r] = "log"
  /\ mutexQueue = Free
  /\ Goto(r, "dequeue")
  /\ data' = [data EXCEPT ![r] = NoData]
  /\ UNCHANGED <<bucketVars, clock, nowTime, fate, accepted, forfeited>>

\* Mutant of IncrementToken: addToken does not call sendQueuedPackets.
IncrementOnly ==
  /\ pc[Io] = "increment"
  /\ Increment
  /\ Goto(Io, "idle")
  /\ accepted' = IF HasRoomForToken THEN accepted + 1 ELSE accepted
  /\ UNCHANGED <<queue, mutexQueue, clock, data, nowTime, fate, forfeited>>

\* addToken adds its token.
IncrementToken ==
  /\ pc[Io] = "increment"
  /\ Increment
  /\ Goto(Io, "dequeue")
  /\ accepted' = IF HasRoomForToken THEN accepted + 1 ELSE accepted
  /\ UNCHANGED <<queue, mutexQueue, clock, data, nowTime, fate, forfeited>>

-----------------------------------------------------------------------------
\* sendQueuedPackets: while a packet and a token can be had ...
Dequeue(t) ==
  /\ pc[t] = "dequeue"
  /\ mutexQueue = Free
  /\ CanDequeue
  /\ PopFront
  /\ Goto(t, "check")
  /\ data' = [data EXCEPT ![t] = Head(queue)]
  /\ fate' = [fate EXCEPT ![Head(queue).msg] = "held"]
  /\ UNCHANGED <<mutexQueue, clock, nowTime, accepted, forfeited>>

StopDraining(t) ==
  /\ pc[t] = "dequeue"
  /\ mutexQueue = Free
  /\ ~ CanDequeue
  /\ Goto(t, "idle")
  /\ UNCHANGED <<bucketVars, clock, data, nowTime, fate, accepted, forfeited>>

\* ... read the clock, and send the packet if it is still valid.
CheckValidity(t) ==
  /\ pc[t] = "check"
  /\ nowTime' = [nowTime EXCEPT ![t] = clock]
  /\ Goto(t, IF data[t].validUntil >= clock THEN "send" ELSE "refund")
  /\ UNCHANGED <<bucketVars, clock, data, fate, accepted, forfeited>>

\* setMessageLimits, sendWithGeoNet and delete.  (The log line between them
\* takes mutex_queue for a moment; the next dequeue waits for it anyway.)
Send(t) ==
  /\ pc[t] = "send"
  /\ Goto(t, "dequeue")
  /\ data' = [data EXCEPT ![t] = NoData]
  /\ fate' = [fate EXCEPT ![data[t].msg] = "sent"]
  /\ UNCHANGED <<bucketVars, clock, nowTime, accepted, forfeited>>

\* Mutants of Refund: the token is not given back; the thread leaves the loop.
RefundNothing(t) ==
  /\ pc[t] = "refund"
  /\ Goto(t, "dequeue")
  /\ data' = [data EXCEPT ![t] = NoData]
  /\ fate' = [fate EXCEPT ![data[t].msg] = "expired"]
  /\ UNCHANGED <<bucketVars, clock, nowTime, accepted, forfeited>>

RefundAndLeave(t) ==
  /\ pc[t] = "refund"
  /\ Increment
  /\ Goto(t, "idle")
  /\ data' = [data EXCEPT ![t] = NoData]
  /\ fate' = [fate EXCEPT ![data[t].msg] = "expired"]
  /\ forfeited' = IF HasRoomForToken THEN forfeited ELSE forfeited + 1
  /\ UNCHANGED <<queue, mutexQueue, clock, nowTime, accepted>>

\* The packet expired in the queue: undo the decrement and delete it.
Refund(t) ==
  /\ pc[t] = "refund"
  /\ Increment
  /\ Goto(t, "dequeue")
  /\ data' = [data EXCEPT ![t] = NoData]
  /\ fate' = [fate EXCEPT ![data[t].msg] = "expired"]
  /\ forfeited' = IF HasRoomForToken THEN forfeited ELSE forfeited + 1
  /\ UNCHANGED <<queue, mutexQueue, clock, nowTime, accepted>>

-----------------------------------------------------------------------------
ReceiverStep(r) == Enqueue(r) \/ Drop(r) \/ LogEnqueued(r)

ThreadStep(t) ==
  \/ BeginFlush(t) \/ EraseExpired(t) \/ EndFlush(t)
  \/ Dequeue(t) \/ StopDraining(t) \/ CheckValidity(t) \/ Send(t) \/ Refund(t)

Next ==
  \/ Tick
  \/ AddToken
  \/ IncrementToken
  \/ \E r \in Receivers :
        \/ \E m \in Message, v \in Time : Receive(r, m, v)
        \/ ReceiverStep(r)
  \/ \E t \in Threads : ThreadStep(t)

Spec == Init /\ [][Next]_vars

\* The operating system runs every thread that can run, and the token timer
\* is re-armed each time it fires.  Nothing makes packets arrive or time pass,
\* and std::mutex is not fair: a thread may wait for mutex_queue for ever while
\* others take it again and again.
Fairness ==
  /\ WF_vars(AddToken)
  /\ WF_vars(IncrementToken)
  /\ \A r \in Receivers : WF_vars(ReceiverStep(r))
  /\ \A t \in Threads : WF_vars(ThreadStep(t))

LiveSpec == Spec /\ Fairness

-----------------------------------------------------------------------------
TypeOK ==
  /\ availableTokens \in 0..MaxBucketSize
  /\ queue \in Seq(Entry) /\ Len(queue) <= QueueSize
  /\ mutexQueue \in Threads \cup {Free}
  /\ clock \in 0..MaxTime
  /\ pc \in [Threads -> Pcs]
  /\ data \in [Threads -> Entry \cup {NoData}]
  /\ nowTime \in [Threads -> 0..MaxTime]
  /\ fate \in [Message -> Fates]
  /\ accepted \in Nat
  /\ forfeited \in Nat

\* The packets a token has been taken for and not given back.
Charged == {m \in Message : fate[m] \in {"held", "sent"}}

\* Tokens are neither made nor lost by the race of receiver and io thread:
\* each one put into the bucket is still there, pays for exactly one packet on
\* the air or in hand, or was refused by a bucket filled up in the meantime.
TokenAccounting ==
  accepted = availableTokens + Cardinality(Charged) + forfeited

\* Every packet has exactly one owner: a packet in the queue is in it once and
\* in no thread's hand, and no two threads hold the same packet.  Otherwise it
\* would be sent or deleted twice.
SingleOwner ==
  /\ \A i, j \in DOMAIN queue : i # j => queue[i].msg # queue[j].msg
  /\ \A i \in DOMAIN queue : fate[queue[i].msg] = "queued"
  /\ \A t \in Threads : pc[t] \in Paid =>
        /\ data[t] # NoData
        /\ fate[data[t].msg] = "held"
        /\ \A u \in Threads \ {t} :
              pc[u] \in Paid => data[u].msg # data[t].msg

\* No lost wake-up: while a packet and a token are both there, some thread is
\* still bound to call dequeue, whatever the order in which enqueue, increment,
\* the refund and the failing dequeue of two threads interleave.
NoPacketLeftBehind ==
  queue # << >> /\ availableTokens > 0 =>
    \E t \in Threads : pc[t] \in Draining

\* Outdated packets never crowd out a fresh one (one receiver): when enqueue
\* runs, nothing in the queue had expired when the packet arrived (dcc.h:
\* "Before enqueuing, outdated CAMs are flushed from the queue").
FlushedBeforeEnqueue ==
  \A r \in Receivers : pc[r] = "enqueue" => NoneExpired(nowTime[r])

\* Each access category is a rate limiter; besides the bucket itself only a
\* receiver with a paid packet in hand adds to the burst it can emit.
Limiter == INSTANCE RateLimiter WITH
  Burst   <- MaxBucketSize + Cardinality(Receivers),
  permits <- availableTokens
               + Cardinality({m \in Message : fate[m] = "held"}),
  waiting <- {m \in Message : fate[m] \in {"queued", "held"}},
  aired   <- {m \in Message : fate[m] = "sent"}

LimitsRate == Limiter!Spec

\* A packet in the queue does not stay there: it is sent or it expires.
QueuedPacketLeaves ==
  \A m \in Message : fate[m] = "queued" ~> fate[m] \in {"sent", "expired"}

\* What the comment at dcc.cpp:589 says of the refund: "undo decrement in
\* dequeue because message expired and token is still valid".
RefundUndoesDecrement ==
  [][\A t \in Threads : pc[t] = "refund" /\ pc'[t] # "refund" =>
        availableTokens' = availableTokens + 1]_vars

=============================================================================
