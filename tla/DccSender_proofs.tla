-------------------------- MODULE DccSender_proofs --------------------------
(***************************************************************************)
(* For every number of receivers, packets, tokens and places in the queue: *)
(* the sending side of the DCC is type correct, never forgets a packet it  *)
(* could send, gives every packet exactly one owner and limits the rate.   *)
(* With one receiver it makes room for a packet before it enqueues it.     *)
(***************************************************************************)
EXTENDS DccSender, FiniteSetTheorems, SequenceTheorems, TLAPS

\* pcs at which a receiver holds a packet that is not yet in the queue.
Arriving == {"flush", "flushing", "enqueue"}

\* A thread that is about to use data has a packet in it.
Keeps(t) ==
  \/ pc[t] \in Paid
  \/ t \in Receivers /\ pc[t] \in Arriving

InHand == \A t \in Threads : Keeps(t) => data[t] \in Entry

TypeInv == TypeOK /\ InHand

-----------------------------------------------------------------------------
LEMMA ThreadFacts ==
  /\ Io \in Threads /\ Receivers \subseteq Threads
  /\ \A r \in Receivers : r # Io
  BY SenderAssumption DEF Threads

\* What flushQueue leaves when it erases the i-th entry of a queue.
LEMMA EraseProperties ==
  ASSUME NEW S, NEW q \in Seq(S), NEW i \in 1..Len(q),
         NEW e, e = SubSeq(q, 1, i - 1) \o SubSeq(q, i + 1, Len(q))
  PROVE  /\ e \in Seq(S)
         /\ Len(e) = Len(q) - 1
         /\ \A j \in 1..Len(q) - 1 : e[j] = IF j < i THEN q[j] ELSE q[j + 1]
<1> DEFINE L == Len(q)
           before == SubSeq(q, 1, i - 1)
           after == SubSeq(q, i + 1, L)
<1>1. L \in Nat /\ i \in 1..L /\ \A j \in 1..L : q[j] \in S
  OBVIOUS
<1>2. /\ before \in Seq(S) /\ Len(before) = i - 1
      /\ \A j \in 1..i - 1 : before[j] = q[j]
  BY <1>1, SubSeqProperties
<1>3. /\ after \in Seq(S) /\ Len(after) = L - i
      /\ \A j \in 1..L - i : after[j] = q[i + j]
  BY <1>1, SubSeqProperties
<1> HIDE DEF before, after
<1>4. /\ before \o after \in Seq(S)
      /\ Len(before \o after) = Len(before) + Len(after)
      /\ \A j \in 1..Len(before) + Len(after) : (before \o after)[j] =
            IF j <= Len(before) THEN before[j] ELSE after[j - Len(before)]
  BY <1>2, <1>3, ConcatProperties
<1> HIDE DEF L
<1>5. ASSUME NEW j \in 1..L - 1
      PROVE  (before \o after)[j] = IF j < i THEN q[j] ELSE q[j + 1]
  <2>1. CASE j < i
    BY <1>1, <1>2, <1>3, <1>4, <2>1
  <2>2. CASE ~ (j < i)
    <3>1. j - (i - 1) \in 1..L - i /\ i + (j - (i - 1)) = j + 1
      BY <1>1, <2>2
    <3>2. QED
      BY <1>1, <1>2, <1>3, <1>4, <2>2, <3>1
  <2>3. QED
    BY <2>1, <2>2
<1>6. e = before \o after
  BY DEF before, after, L
<1>7. Len(e) = L - 1 /\ e \in Seq(S)
  <2>1. Len(before) + Len(after) = L - 1
    BY <1>1, <1>2, <1>3
  <2>2. QED
    BY <1>4, <1>6, <2>1
<1>8. QED
  BY <1>5, <1>6, <1>7 DEF L

-----------------------------------------------------------------------------
LEMMA InitTypeInv == Init => TypeInv
  BY BucketAssumption, SenderAssumption, EmptySeq
  DEF Init, BucketInit, TypeInv, TypeOK, InHand, Keeps, Pcs, Fates, Paid, Arriving

LEMMA NextTypeInv == TypeInv /\ [Next]_vars => TypeInv'
<1> SUFFICES ASSUME TypeInv, [Next]_vars PROVE TypeInv'
  OBVIOUS
<1> USE BucketAssumption, SenderAssumption, ThreadFacts
    DEF TypeInv, TypeOK, InHand, Keeps, Pcs, Fates, Paid, Arriving, Goto, bucketVars
<1>1. CASE Tick
  BY <1>1 DEF Tick
<1>2. CASE AddToken
  BY <1>2 DEF AddToken
<1>3. CASE IncrementToken
  BY <1>3 DEF IncrementToken, Increment, HasRoomForToken
<1>4. ASSUME NEW r \in Receivers, NEW m \in Message, NEW v \in Time,
             Receive(r, m, v)
      PROVE  TypeInv'
  BY <1>4 DEF Receive, Entry
<1>5. ASSUME NEW r \in Receivers, Enqueue(r) PROVE TypeInv'
  <2>1. data[r] \in Entry /\ data[r].msg \in Message
    BY <1>5 DEF Enqueue, Entry
  <2>2. queue' \in Seq(Entry) /\ Len(queue') <= QueueSize
    BY <1>5, <2>1, AppendProperties DEF Enqueue, PushBack, HasRoomForPacket
  <2>3. QED
    BY <1>5, <2>1, <2>2 DEF Enqueue
<1>6. ASSUME NEW r \in Receivers, Drop(r) PROVE TypeInv'
  BY <1>6 DEF Drop, Entry
<1>7. ASSUME NEW r \in Receivers, LogEnqueued(r) PROVE TypeInv'
  BY <1>7 DEF LogEnqueued
<1>8. ASSUME NEW t \in Threads, BeginFlush(t) PROVE TypeInv'
  BY <1>8 DEF BeginFlush
<1>9. ASSUME NEW t \in Threads, EraseExpired(t) PROVE TypeInv'
  <2>1. PICK i \in DOMAIN queue :
          /\ Erase(i)
          /\ fate' = [fate EXCEPT ![queue[i].msg] = "expired"]
    BY <1>9 DEF EraseExpired
  <2>2. queue' \in Seq(Entry) /\ Len(queue') <= QueueSize
    BY <2>1, EraseProperties DEF Erase
  <2>3. QED
    BY <1>9, <2>1, <2>2 DEF EraseExpired, Entry
<1>10. ASSUME NEW t \in Threads, EndFlush(t) PROVE TypeInv'
  BY <1>10 DEF EndFlush
<1>11. ASSUME NEW t \in Threads, Dequeue(t) PROVE TypeInv'
  <2>1. /\ queue # << >> /\ Head(queue) \in Entry
        /\ Head(queue).msg \in Message
        /\ availableTokens' = availableTokens - 1 /\ availableTokens > 0
    BY <1>11, HeadTailProperties DEF Dequeue, CanDequeue, PopFront, Entry
  <2>2. queue' \in Seq(Entry) /\ Len(queue') <= QueueSize
    BY <1>11, <2>1, HeadTailProperties DEF Dequeue, PopFront
  <2>3. QED
    BY <1>11, <2>1, <2>2 DEF Dequeue
<1>12. ASSUME NEW t \in Threads, StopDraining(t) PROVE TypeInv'
  BY <1>12 DEF StopDraining
<1>13. ASSUME NEW t \in Threads, CheckValidity(t) PROVE TypeInv'
  BY <1>13 DEF CheckValidity
<1>14. ASSUME NEW t \in Threads, Send(t) PROVE TypeInv'
  BY <1>14 DEF Send
<1>15. ASSUME NEW t \in Threads, Refund(t) PROVE TypeInv'
  <2>1. availableTokens' \in 0..MaxBucketSize /\ forfeited' \in Nat
    BY <1>15 DEF Refund, Increment, HasRoomForToken
  <2>2. /\ pc' \in [Threads -> Pcs]
        /\ data' \in [Threads -> Entry \cup {NoData}]
        /\ fate' \in [Message -> Fates]
    BY <1>15 DEF Refund
  <2>3. InHand'
    BY <1>15, <2>2 DEF Refund
  <2>4. QED
    BY <1>15, <2>1, <2>2, <2>3 DEF Refund
<1>16. CASE UNCHANGED vars
  BY <1>16 DEF vars
<1>17. QED
  BY <1>1, <1>2, <1>3, <1>4, <1>5, <1>6, <1>7, <1>8, <1>9, <1>10, <1>11,
     <1>12, <1>13, <1>14, <1>15, <1>16
  DEF Next, ReceiverStep, ThreadStep

\* Type correctness for every configuration: in particular the bucket and the
\* queue never exceed maxBucketSize and queueSize, and the code never
\* dereferences a packet pointer it does not have (dcc.cpp, LeakyBucket.h).
THEOREM SenderTypeCorrect == Spec => []TypeOK
<1>1. TypeInv => TypeOK
  BY DEF TypeInv
<1>2. QED
  BY InitTypeInv, NextTypeInv, <1>1, PTL DEF Spec

-----------------------------------------------------------------------------
\* A step of a thread that was not draining, and that neither adds a packet nor
\* a token, leaves the thread in charge of the queue in charge of it.
LEMMA BystanderStep ==
  ASSUME TypeInv, NoPacketLeftBehind, NEW t \in Threads, NEW to,
         pc[t] \notin Draining, Goto(t, to),
         queue' # << >> /\ availableTokens' > 0 =>
           queue # << >> /\ availableTokens > 0
  PROVE  NoPacketLeftBehind'
<1> SUFFICES ASSUME queue' # << >>, availableTokens' > 0
             PROVE  \E u \in Threads : pc'[u] \in Draining
  BY DEF NoPacketLeftBehind
<1>1. PICK u \in Threads : pc[u] \in Draining
  BY DEF NoPacketLeftBehind
<1>2. u # t /\ pc'[u] = pc[u]
  BY <1>1 DEF Goto, TypeInv, TypeOK
<1>3. QED
  BY <1>1, <1>2

\* A thread that steps to a draining pc is in charge of the queue itself.
LEMMA DrainingStep ==
  ASSUME TypeInv, NEW t \in Threads, NEW to \in Draining, Goto(t, to)
  PROVE  NoPacketLeftBehind'
<1>1. pc'[t] \in Draining
  BY DEF Goto, TypeInv, TypeOK
<1>2. QED
  BY <1>1 DEF NoPacketLeftBehind

LEMMA NextNoPacketLeftBehind ==
  TypeInv /\ NoPacketLeftBehind /\ [Next]_vars => NoPacketLeftBehind'
<1> SUFFICES ASSUME TypeInv, NoPacketLeftBehind, [Next]_vars
             PROVE  NoPacketLeftBehind'
  OBVIOUS
<1> USE ThreadFacts DEF Draining, Paid
<1>1. CASE Tick
  BY <1>1 DEF Tick, bucketVars, NoPacketLeftBehind
<1>2. CASE AddToken
  BY <1>2, BystanderStep DEF AddToken, bucketVars
<1>3. CASE IncrementToken
  BY <1>3, DrainingStep DEF IncrementToken
<1>4. ASSUME NEW r \in Receivers, NEW m \in Message, NEW v \in Time,
             Receive(r, m, v)
      PROVE  NoPacketLeftBehind'
  BY <1>4, BystanderStep DEF Receive, bucketVars
<1>5. ASSUME NEW r \in Receivers, Enqueue(r) PROVE NoPacketLeftBehind'
  BY <1>5, DrainingStep DEF Enqueue
<1>6. ASSUME NEW r \in Receivers, Drop(r) PROVE NoPacketLeftBehind'
  BY <1>6, BystanderStep DEF Drop, bucketVars
<1>7. ASSUME NEW r \in Receivers, LogEnqueued(r) PROVE NoPacketLeftBehind'
  BY <1>7, DrainingStep DEF LogEnqueued
<1>8. ASSUME NEW t \in Threads, BeginFlush(t) PROVE NoPacketLeftBehind'
  BY <1>8, BystanderStep DEF BeginFlush
<1>9. ASSUME NEW t \in Threads, EraseExpired(t) PROVE NoPacketLeftBehind'
  <2>1. queue # << >>
    BY <1>9 DEF EraseExpired
  <2>2. QED
    BY <1>9, <2>1 DEF EraseExpired, NoPacketLeftBehind
<1>10. ASSUME NEW t \in Threads, EndFlush(t) PROVE NoPacketLeftBehind'
  BY <1>10, BystanderStep DEF EndFlush
<1>11. ASSUME NEW t \in Threads, Dequeue(t) PROVE NoPacketLeftBehind'
  BY <1>11, DrainingStep DEF Dequeue
<1>12. ASSUME NEW t \in Threads, StopDraining(t) PROVE NoPacketLeftBehind'
  BY <1>12 DEF StopDraining, CanDequeue, bucketVars, NoPacketLeftBehind
<1>13. ASSUME NEW t \in Threads, CheckValidity(t) PROVE NoPacketLeftBehind'
  BY <1>13, DrainingStep DEF CheckValidity
<1>14. ASSUME NEW t \in Threads, Send(t) PROVE NoPacketLeftBehind'
  BY <1>14, DrainingStep DEF Send
<1>15. ASSUME NEW t \in Threads, Refund(t) PROVE NoPacketLeftBehind'
  BY <1>15, DrainingStep DEF Refund
<1>16. CASE UNCHANGED vars
  BY <1>16 DEF vars, NoPacketLeftBehind
<1>17. QED
  BY <1>1, <1>2, <1>3, <1>4, <1>5, <1>6, <1>7, <1>8, <1>9, <1>10, <1>11,
     <1>12, <1>13, <1>14, <1>15, <1>16
  DEF Next, ReceiverStep, ThreadStep

\* No lost wake-up, for every number of receivers: while a packet and a token
\* are both in the bucket, some thread is bound to call dequeue
\* (sendQueuedPackets, called from receiveFromCa2, receiveFromDen, addToken).
THEOREM NoLostWakeUp == Spec => []NoPacketLeftBehind
<1>1. Init => NoPacketLeftBehind
  BY DEF Init, BucketInit, NoPacketLeftBehind
<1>2. QED
  BY InitTypeInv, NextTypeInv, NextNoPacketLeftBehind, <1>1, PTL DEF Spec

-----------------------------------------------------------------------------
\* Who owns a packet: the queue, once; or the thread that keeps it, which
\* brought it or has paid for it; and nothing is paid for and then lost.
QueueOwns ==
  /\ \A i, j \in DOMAIN queue : i # j => queue[i].msg # queue[j].msg
  /\ \A i \in DOMAIN queue : fate[queue[i].msg] = "queued"

HandOwns ==
  \A t \in Threads : Keeps(t) =>
    fate[data[t].msg] = IF pc[t] \in Paid THEN "held" ELSE "arrived"

OneHand ==
  \A t, u \in Threads :
    t # u /\ Keeps(t) /\ Keeps(u) => data[t].msg # data[u].msg

HeldInHand ==
  \A m \in Message : fate[m] = "held" =>
    \E t \in Threads : pc[t] \in Paid /\ data[t].msg = m

Ownership == QueueOwns /\ HandOwns /\ OneHand /\ HeldInHand

LEMMA OwnershipSuffices == TypeInv /\ Ownership => SingleOwner
<1> SUFFICES ASSUME TypeInv, Ownership PROVE SingleOwner
  OBVIOUS
<1>1. ASSUME NEW t \in Threads, pc[t] \in Paid
      PROVE  /\ data[t] # NoData
             /\ fate[data[t].msg] = "held"
             /\ \A u \in Threads \ {t} :
                   pc[u] \in Paid => data[u].msg # data[t].msg
  <2>1. \A u \in Threads : pc[u] \in Paid => Keeps(u)
    BY DEF Keeps
  <2>2. data[t] # NoData
    BY <1>1, <2>1, SenderAssumption DEF TypeInv, InHand
  <2>3. fate[data[t].msg] = "held"
    BY <1>1, <2>1 DEF Ownership, HandOwns
  <2>4. QED
    BY <1>1, <2>1, <2>2, <2>3 DEF Ownership, OneHand
<1>2. QED
  BY <1>1 DEF SingleOwner, Ownership, QueueOwns

LEMMA InitOwnership == Init => Ownership
  BY DEF Init, BucketInit, Ownership, QueueOwns, HandOwns, OneHand, HeldInHand,
         Keeps, Paid, Arriving

\* A step after which every thread keeps what it kept before.
LEMMA SameHands ==
  ASSUME TypeInv, Ownership, queue' = queue, fate' = fate,
         \A t \in Threads :
           /\ Keeps(t)' <=> Keeps(t)
           /\ pc'[t] \in Paid <=> pc[t] \in Paid
           /\ Keeps(t) => data'[t] = data[t]
  PROVE  Ownership'
<1>1. QueueOwns' /\ HandOwns' /\ OneHand'
  <2>1. QueueOwns'
    BY DEF Ownership, QueueOwns
  <2>2. HandOwns'
    BY DEF Ownership, HandOwns
  <2>3. OneHand'
    BY DEF Ownership, OneHand
  <2>4. QED
    BY <2>1, <2>2, <2>3
<1>2. \A t \in Threads : pc[t] \in Paid => Keeps(t)
  BY DEF Keeps
<1>3. HeldInHand'
  BY <1>2 DEF Ownership, HeldInHand
<1>4. QED
  BY <1>1, <1>3 DEF Ownership

\* A thread that disposes of its packet, sent, expired or dropped.
LEMMA LetGo ==
  ASSUME TypeInv, Ownership, NEW t \in Threads, Keeps(t),
         fate'[data[t].msg] \notin {"queued", "held", "arrived"},
         \A k \in Message : k # data[t].msg => fate'[k] = fate[k],
         queue' = queue, ~ Keeps(t)',
         \A u \in Threads \ {t} : pc'[u] = pc[u] /\ data'[u] = data[u]
  PROVE  Ownership'
<1> DEFINE m == data[t].msg
<1>1. m \in Message /\ fate \in [Message -> Fates]
      /\ fate[m] \in {"held", "arrived"}
  BY DEF TypeInv, TypeOK, InHand, Entry, Ownership, HandOwns
<1>2. \A u \in Threads \ {t} :
        /\ Keeps(u)' <=> Keeps(u)
        /\ Keeps(u) => data[u].msg # m /\ data[u].msg \in Message
  BY DEF Keeps, TypeInv, InHand, Entry, Ownership, OneHand
<1>3. \A i \in DOMAIN queue : queue[i].msg # m /\ queue[i].msg \in Message
  <2>1. ASSUME NEW i \in DOMAIN queue PROVE queue[i] \in Entry
    BY DEF TypeInv, TypeOK
  <2>2. QED
    BY <1>1, <2>1 DEF Ownership, QueueOwns, Entry
<1> HIDE DEF m
<1>4. \A k \in Message : k # m => fate'[k] = fate[k]
  BY <1>1 DEF m
<1>5. fate'[m] # "held"
  BY DEF m
<1>6. QueueOwns'
  BY <1>3, <1>4 DEF Ownership, QueueOwns
<1>7. HandOwns'
  BY <1>2, <1>4 DEF Ownership, HandOwns
<1>8. OneHand'
  BY <1>2 DEF Ownership, OneHand
<1>9. HeldInHand'
  <2> SUFFICES ASSUME NEW k \in Message, fate'[k] = "held"
               PROVE  \E u \in Threads : pc'[u] \in Paid /\ data'[u].msg = k
    BY DEF HeldInHand
  <2>1. k # m /\ fate[k] = "held"
    BY <1>4, <1>5
  <2>2. PICK u \in Threads : pc[u] \in Paid /\ data[u].msg = k
    BY <2>1 DEF Ownership, HeldInHand
  <2>3. u # t
    BY <2>1, <2>2 DEF m
  <2>4. QED
    BY <2>2, <2>3
<1>10. QED
  BY <1>6, <1>7, <1>8, <1>9 DEF Ownership

\* What every step below needs of the types.
LEMMA OwnershipTypes ==
  ASSUME TypeInv
  PROVE  /\ pc \in [Threads -> Pcs]
         /\ data \in [Threads -> Entry \cup {NoData}]
         /\ fate \in [Message -> Fates]
         /\ \A t \in Threads : Keeps(t) => data[t].msg \in Message
         /\ queue \in Seq(Entry)
         /\ \A i \in DOMAIN queue : queue[i].msg \in Message
<1>1. ASSUME NEW i \in DOMAIN queue PROVE queue[i] \in Entry
  BY DEF TypeInv, TypeOK
<1>2. QED
  BY <1>1 DEF TypeInv, TypeOK, InHand, Entry

LEMMA ReceiveOwnership ==
  ASSUME TypeInv, Ownership, NEW r \in Receivers, NEW m \in Message,
         NEW v \in Time, Receive(r, m, v)
  PROVE  Ownership'
<1>1. /\ \A t \in Threads \ {r} : pc'[t] = pc[t] /\ data'[t] = data[t]
      /\ pc[r] = "idle" /\ pc'[r] = "flush" /\ data'[r].msg = m
      /\ fate[m] = "outside" /\ fate'[m] = "arrived"
      /\ \A k \in Message : k # m => fate'[k] = fate[k]
      /\ queue' = queue
  BY OwnershipTypes, ThreadFacts DEF Receive, Goto, bucketVars
<1>2. \A t \in Threads \ {r} :
        /\ Keeps(t)' <=> Keeps(t)
        /\ Keeps(t) => data[t].msg # m
  BY <1>1 DEF Keeps, Ownership, HandOwns
<1>3. ~ Keeps(r) /\ Keeps(r)' /\ pc'[r] \notin Paid
  BY <1>1 DEF Keeps, Paid, Arriving
<1>4. \A i \in DOMAIN queue : queue[i].msg # m
  BY <1>1 DEF Ownership, QueueOwns
<1>5. QueueOwns'
  BY <1>1, <1>4, OwnershipTypes DEF Ownership, QueueOwns
<1>6. HandOwns'
  BY <1>1, <1>2, <1>3, OwnershipTypes DEF Ownership, HandOwns
<1>7. OneHand'
  BY <1>1, <1>2 DEF Ownership, OneHand
<1>8. HeldInHand'
  BY <1>1, <1>3 DEF Ownership, HeldInHand, Keeps
<1>9. QED
  BY <1>5, <1>6, <1>7, <1>8 DEF Ownership

LEMMA EnqueueOwnership ==
  ASSUME TypeInv, Ownership, NEW r \in Receivers, Enqueue(r)
  PROVE  Ownership'
<1> DEFINE m == data[r].msg
<1>1. /\ \A t \in Threads \ {r} : pc'[t] = pc[t]
      /\ data' = data
      /\ pc[r] = "enqueue" /\ pc'[r] = "log"
  BY OwnershipTypes, ThreadFacts DEF Enqueue, Goto
<1>2. Keeps(r) /\ ~ Keeps(r)' /\ pc[r] \notin Paid
  BY <1>1 DEF Keeps, Paid, Arriving
<1>3. data[r] \in Entry /\ m \in Message /\ fate[m] = "arrived"
  BY <1>2, ThreadFacts, OwnershipTypes
  DEF TypeInv, InHand, Ownership, HandOwns
<1>4. /\ fate'[m] = "queued"
      /\ \A k \in Message : k # m => fate'[k] = fate[k]
  BY <1>3, OwnershipTypes DEF Enqueue
<1>5. \A t \in Threads \ {r} :
        /\ Keeps(t)' <=> Keeps(t)
        /\ Keeps(t) => data[t].msg # m
  BY <1>1, <1>2, ThreadFacts DEF Keeps, Ownership, OneHand
<1>6. /\ Len(queue') = Len(queue) + 1
      /\ \A i \in 1..Len(queue) : queue'[i] = queue[i]
      /\ queue'[Len(queue) + 1] = data[r]
      /\ DOMAIN queue' = 1..Len(queue) + 1
  BY <1>3, OwnershipTypes, AppendProperties DEF Enqueue, PushBack
<1>7. \A i \in 1..Len(queue) : queue[i].msg # m
  BY <1>3, OwnershipTypes DEF Ownership, QueueOwns
<1>8. QueueOwns'
  <2>1. \A i \in 1..Len(queue) + 1 : i \in 1..Len(queue) \/ i = Len(queue) + 1
    BY OwnershipTypes
  <2>2. \A i, j \in 1..Len(queue) + 1 :
          i # j => queue'[i].msg # queue'[j].msg
    BY <1>6, <1>7, <2>1, OwnershipTypes DEF Ownership, QueueOwns
  <2>3. \A i \in 1..Len(queue) + 1 : fate'[queue'[i].msg] = "queued"
    BY <1>4, <1>6, <1>7, <2>1, OwnershipTypes DEF Ownership, QueueOwns
  <2>4. QED
    BY <1>6, <2>2, <2>3 DEF QueueOwns
<1> HIDE DEF m
<1>9. HandOwns'
  BY <1>1, <1>2, <1>4, <1>5, OwnershipTypes DEF Ownership, HandOwns
<1>10. OneHand'
  BY <1>1, <1>2, <1>5 DEF Ownership, OneHand
<1>11. HeldInHand'
  BY <1>1, <1>2, <1>3, <1>4, OwnershipTypes DEF Ownership, HeldInHand
<1>12. QED
  BY <1>8, <1>9, <1>10, <1>11 DEF Ownership

LEMMA DequeueOwnership ==
  ASSUME TypeInv, Ownership, NEW t \in Threads, Dequeue(t)
  PROVE  Ownership'
<1> DEFINE m == Head(queue).msg
<1>1. /\ \A u \in Threads \ {t} : pc'[u] = pc[u] /\ data'[u] = data[u]
      /\ pc[t] = "dequeue" /\ pc'[t] = "check" /\ data'[t] = Head(queue)
  BY OwnershipTypes DEF Dequeue, Goto
<1>2. ~ Keeps(t) /\ Keeps(t)' /\ pc'[t] \in Paid
  BY <1>1 DEF Keeps, Paid, Arriving
<1>3. /\ Len(queue) \in Nat /\ Len(queue) >= 1 /\ Head(queue) = queue[1]
      /\ DOMAIN queue = 1..Len(queue)
      /\ queue' \in Seq(Entry) /\ Len(queue') = Len(queue) - 1
      /\ DOMAIN queue' = 1..Len(queue) - 1
      /\ \A i \in 1..Len(queue) - 1 : queue'[i] = queue[i + 1]
  BY OwnershipTypes, HeadTailProperties DEF Dequeue, CanDequeue, PopFront
<1>4. m \in Message /\ fate[m] = "queued"
  BY <1>3, OwnershipTypes DEF Ownership, QueueOwns
<1>5. /\ fate'[m] = "held"
      /\ \A k \in Message : k # m => fate'[k] = fate[k]
  BY <1>4, OwnershipTypes DEF Dequeue
<1>6. \A u \in Threads \ {t} :
        /\ Keeps(u)' <=> Keeps(u)
        /\ Keeps(u) => data[u].msg # m
  BY <1>1, <1>4 DEF Keeps, Ownership, HandOwns
<1>7. QueueOwns'
  <2>1. \A i \in 1..Len(queue) - 1 :
          /\ i + 1 \in 1..Len(queue) /\ i + 1 # 1
          /\ queue[i + 1].msg # m /\ queue[i + 1].msg \in Message
    BY <1>3, OwnershipTypes DEF Ownership, QueueOwns
  <2>2. \A i, j \in 1..Len(queue) - 1 :
          i # j => queue'[i].msg # queue'[j].msg
    <3> TAKE i, j \in 1..Len(queue) - 1
    <3>1. i # j => i + 1 # j + 1
      BY <1>3
    <3>2. /\ i + 1 \in DOMAIN queue /\ j + 1 \in DOMAIN queue
          /\ queue'[i] = queue[i + 1] /\ queue'[j] = queue[j + 1]
      BY <1>3, <2>1
    <3>3. QED
      BY <3>1, <3>2 DEF Ownership, QueueOwns
  <2>3. \A i \in 1..Len(queue) - 1 : fate'[queue'[i].msg] = "queued"
    BY <1>3, <1>5, <2>1 DEF Ownership, QueueOwns
  <2>4. QED
    BY <1>3, <2>2, <2>3 DEF QueueOwns
<1> HIDE DEF m
<1>8. data'[t].msg = m
  BY <1>1 DEF m
<1>9. HandOwns'
  BY <1>1, <1>2, <1>5, <1>6, <1>8, OwnershipTypes DEF Ownership, HandOwns
<1>10. OneHand'
  BY <1>1, <1>6, <1>8 DEF Ownership, OneHand
<1>11. HeldInHand'
  BY <1>1, <1>2, <1>5, <1>8 DEF Ownership, HeldInHand, Keeps
<1>12. QED
  BY <1>7, <1>9, <1>10, <1>11 DEF Ownership

LEMMA EraseOwnership ==
  ASSUME TypeInv, Ownership, NEW t \in Threads, EraseExpired(t)
  PROVE  Ownership'
<1>1. PICK n \in DOMAIN queue :
        /\ Erase(n)
        /\ fate' = [fate EXCEPT ![queue[n].msg] = "expired"]
  BY DEF EraseExpired
<1> DEFINE m == queue[n].msg
<1>2. /\ Len(queue) \in Nat /\ n \in 1..Len(queue)
      /\ DOMAIN queue = 1..Len(queue)
      /\ queue' \in Seq(Entry) /\ Len(queue') = Len(queue) - 1
      /\ DOMAIN queue' = 1..Len(queue) - 1
      /\ \A i \in 1..Len(queue) - 1 :
            queue'[i] = IF i < n THEN queue[i] ELSE queue[i + 1]
  <2>1. /\ queue \in Seq(Entry) /\ Len(queue) \in Nat
        /\ n \in 1..Len(queue) /\ DOMAIN queue = 1..Len(queue)
    BY OwnershipTypes
  <2>2. /\ queue' \in Seq(Entry) /\ Len(queue') = Len(queue) - 1
        /\ \A i \in 1..Len(queue) - 1 :
              queue'[i] = IF i < n THEN queue[i] ELSE queue[i + 1]
    BY <1>1, <2>1, EraseProperties DEF Erase
  <2>3. QED
    BY <2>1, <2>2
<1>3. m \in Message /\ fate[m] = "queued"
  BY OwnershipTypes DEF Ownership, QueueOwns
<1>4. /\ fate'[m] = "expired"
      /\ \A k \in Message : k # m => fate'[k] = fate[k]
  BY <1>1, <1>3, OwnershipTypes
<1>5. \A u \in Threads : pc'[u] = pc[u] /\ data'[u] = data[u]
  BY DEF EraseExpired
<1>6. QueueOwns'
  <2> DEFINE from(i) == IF i < n THEN i ELSE i + 1
  <2>1. \A i \in 1..Len(queue) - 1 :
          /\ from(i) \in 1..Len(queue) /\ from(i) # n
          /\ queue'[i] = queue[from(i)]
    BY <1>2
  <2>2. \A i, j \in 1..Len(queue) - 1 : i # j => from(i) # from(j)
    BY <1>2
  <2> HIDE DEF from
  <2>3. \A i \in 1..Len(queue) - 1 :
          queue[from(i)].msg # m /\ queue[from(i)].msg \in Message
    BY <1>2, <2>1, OwnershipTypes DEF Ownership, QueueOwns
  <2>4. \A i, j \in 1..Len(queue) - 1 : i # j => queue'[i].msg # queue'[j].msg
    BY <1>2, <2>1, <2>2 DEF Ownership, QueueOwns
  <2>5. \A i \in 1..Len(queue) - 1 : fate'[queue'[i].msg] = "queued"
    BY <1>2, <1>4, <2>1, <2>3 DEF Ownership, QueueOwns
  <2>6. QED
    BY <1>2, <2>4, <2>5 DEF QueueOwns
<1> HIDE DEF m
<1>7. \A u \in Threads :
        /\ Keeps(u)' <=> Keeps(u)
        /\ Keeps(u) => data[u].msg # m
  BY <1>3, <1>5 DEF Keeps, Ownership, HandOwns
<1>8. HandOwns'
  BY <1>4, <1>5, <1>7, OwnershipTypes DEF Ownership, HandOwns
<1>9. OneHand'
  BY <1>5, <1>7 DEF Ownership, OneHand
<1>10. HeldInHand'
  BY <1>4, <1>5 DEF Ownership, HeldInHand
<1>11. QED
  BY <1>6, <1>8, <1>9, <1>10 DEF Ownership

LEMMA NextOwnership == TypeInv /\ Ownership /\ [Next]_vars => Ownership'
<1> SUFFICES ASSUME TypeInv, Ownership, [Next]_vars PROVE Ownership'
  OBVIOUS
<1> USE ThreadFacts, OwnershipTypes DEF bucketVars
<1>1. CASE Tick
  BY <1>1, SameHands DEF Tick, Keeps
<1>2. CASE AddToken
  BY <1>2, SameHands DEF AddToken, Goto, Keeps, Paid, Arriving
<1>3. CASE IncrementToken
  BY <1>3, SameHands DEF IncrementToken, Goto, Keeps, Paid, Arriving
<1>4. ASSUME NEW r \in Receivers, Drop(r) PROVE Ownership'
  <2>1. Keeps(r) /\ ~ Keeps(r)'
    BY <1>4 DEF Drop, Goto, Keeps, Paid, Arriving
  <2>2. /\ data[r].msg \in Message
        /\ fate'[data[r].msg] \notin {"queued", "held", "arrived"}
        /\ \A k \in Message : k # data[r].msg => fate'[k] = fate[k]
        /\ \A u \in Threads \ {r} : pc'[u] = pc[u] /\ data'[u] = data[u]
        /\ queue' = queue
    BY <1>4, <2>1 DEF Drop, Goto
  <2>3. QED
    BY <2>1, <2>2, LetGo
<1>5. ASSUME NEW r \in Receivers, LogEnqueued(r) PROVE Ownership'
  <2>1. \A t \in Threads \ {r} : pc'[t] = pc[t] /\ data'[t] = data[t]
    BY <1>5 DEF LogEnqueued, Goto
  <2>2. pc[r] = "log" /\ pc'[r] = "dequeue"
    BY <1>5 DEF LogEnqueued, Goto
  <2>3. QED
    BY <1>5, <2>1, <2>2, SameHands DEF LogEnqueued, Keeps, Paid, Arriving
<1>6. ASSUME NEW t \in Threads, BeginFlush(t) PROVE Ownership'
  BY <1>6, SameHands DEF BeginFlush, Goto, Keeps, Paid, Arriving
<1>7. ASSUME NEW t \in Threads, EndFlush(t) PROVE Ownership'
  BY <1>7, SameHands DEF EndFlush, Goto, Keeps, Paid, Arriving
<1>8. ASSUME NEW t \in Threads, StopDraining(t) PROVE Ownership'
  BY <1>8, SameHands DEF StopDraining, Goto, Keeps, Paid, Arriving
<1>9. ASSUME NEW t \in Threads, CheckValidity(t) PROVE Ownership'
  BY <1>9, SameHands DEF CheckValidity, Goto, Keeps, Paid, Arriving
<1>10. ASSUME NEW t \in Threads, Send(t) PROVE Ownership'
  <2>1. Keeps(t) /\ ~ Keeps(t)'
    BY <1>10 DEF Send, Goto, Keeps, Paid, Arriving
  <2>2. /\ data[t].msg \in Message
        /\ fate'[data[t].msg] \notin {"queued", "held", "arrived"}
        /\ \A k \in Message : k # data[t].msg => fate'[k] = fate[k]
        /\ \A u \in Threads \ {t} : pc'[u] = pc[u] /\ data'[u] = data[u]
        /\ queue' = queue
    BY <1>10, <2>1 DEF Send, Goto
  <2>3. QED
    BY <2>1, <2>2, LetGo
<1>11. ASSUME NEW t \in Threads, Refund(t) PROVE Ownership'
  <2>1. Keeps(t) /\ ~ Keeps(t)'
    BY <1>11 DEF Refund, Goto, Keeps, Paid, Arriving
  <2>2. /\ data[t].msg \in Message
        /\ fate'[data[t].msg] \notin {"queued", "held", "arrived"}
        /\ \A k \in Message : k # data[t].msg => fate'[k] = fate[k]
        /\ \A u \in Threads \ {t} : pc'[u] = pc[u] /\ data'[u] = data[u]
        /\ queue' = queue
    BY <1>11, <2>1 DEF Refund, Goto
  <2>3. QED
    BY <2>1, <2>2, LetGo
<1>12. CASE UNCHANGED vars
  BY <1>12, SameHands DEF vars, Keeps
<1>13. QED
  BY <1>1, <1>2, <1>3, <1>4, <1>5, <1>6, <1>7, <1>8, <1>9, <1>10, <1>11, <1>12,
     ReceiveOwnership, EnqueueOwnership, DequeueOwnership, EraseOwnership
  DEF Next, ReceiverStep, ThreadStep

\* No packet is sent, deleted or queued twice, whatever the number of receivers
\* and their interleaving with the io thread: it is in the queue once, or in the
\* hand of one thread (enqueue, flushQueue, dequeue of LeakyBucket.h).
THEOREM PacketsHaveOneOwner == Spec => []SingleOwner
<1>1. TypeInv /\ Ownership => SingleOwner
  BY OwnershipSuffices
<1>2. QED
  BY InitTypeInv, NextTypeInv, InitOwnership, NextOwnership, <1>1, PTL DEF Spec

-----------------------------------------------------------------------------
\* Which packets a step charges for, besides those it leaves as they are.
LEMMA SameCharged ==
  ASSUME NEW m \in Message, fate \in [Message -> Fates],
         \A k \in Message : k # m => fate'[k] = fate[k],
         fate[m] \in {"held", "sent"} <=> fate'[m] \in {"held", "sent"}
  PROVE  Charged' = Charged
  BY DEF Charged

LEMMA ChargedFinite == IsFiniteSet(Charged) /\ Cardinality(Charged) \in Nat
<1>1. Charged \subseteq Message
  BY DEF Charged
<1>2. QED
  BY <1>1, SenderAssumption, FS_Subset, FS_CardinalityType

LEMMA NextTokenAccounting ==
  TypeInv /\ Ownership /\ TokenAccounting /\ [Next]_vars => TokenAccounting'
<1> SUFFICES ASSUME TypeInv, Ownership, TokenAccounting, [Next]_vars
             PROVE  TokenAccounting'
  OBVIOUS
<1> USE ThreadFacts, OwnershipTypes, ChargedFinite DEF bucketVars
<1>0. availableTokens \in Nat /\ accepted \in Nat /\ forfeited \in Nat
  BY BucketAssumption DEF TypeInv, TypeOK
<1>1. ASSUME fate' = fate, availableTokens' = availableTokens,
             accepted' = accepted, forfeited' = forfeited
      PROVE  TokenAccounting'
  BY <1>1 DEF TokenAccounting, Charged
<1>2. ASSUME NEW m \in Message, fate[m] \notin {"held", "sent"},
             fate'[m] \notin {"held", "sent"},
             \A k \in Message : k # m => fate'[k] = fate[k],
             availableTokens' = availableTokens,
             accepted' = accepted, forfeited' = forfeited
      PROVE  TokenAccounting'
  BY <1>2, SameCharged DEF TokenAccounting
<1>3. CASE IncrementToken
  <2>1. Charged' = Charged
    BY <1>3 DEF IncrementToken, Charged
  <2>2. \/ accepted' = accepted + 1 /\ availableTokens' = availableTokens + 1
        \/ accepted' = accepted /\ availableTokens' = availableTokens
    BY <1>3 DEF IncrementToken, Increment
  <2>3. forfeited' = forfeited
    BY <1>3 DEF IncrementToken
  <2>4. Cardinality(Charged) \in Nat /\ Cardinality(Charged') = Cardinality(Charged)
    BY <2>1
  <2>5. QED
    BY <1>0, <2>2, <2>3, <2>4 DEF TokenAccounting
<1>4. ASSUME NEW r \in Receivers, NEW m \in Message, NEW v \in Time,
             Receive(r, m, v)
      PROVE  TokenAccounting'
  BY <1>4, <1>2 DEF Receive
<1>5. ASSUME NEW r \in Receivers, Enqueue(r) PROVE TokenAccounting'
  <2>1. Keeps(r) /\ pc[r] \notin Paid
    BY <1>5 DEF Enqueue, Keeps, Arriving, Paid
  <2>2. data[r].msg \in Message /\ fate[data[r].msg] = "arrived"
    BY <2>1 DEF Ownership, HandOwns
  <2>3. QED
    BY <1>5, <1>2, <2>2 DEF Enqueue
<1>6. ASSUME NEW r \in Receivers, Drop(r) PROVE TokenAccounting'
  <2>1. Keeps(r) /\ pc[r] \notin Paid
    BY <1>6 DEF Drop, Keeps, Arriving, Paid
  <2>2. data[r].msg \in Message /\ fate[data[r].msg] = "arrived"
    BY <2>1 DEF Ownership, HandOwns
  <2>3. QED
    BY <1>6, <1>2, <2>2 DEF Drop
<1>7. ASSUME NEW t \in Threads, EraseExpired(t) PROVE TokenAccounting'
  <2>1. PICK n \in DOMAIN queue :
          fate' = [fate EXCEPT ![queue[n].msg] = "expired"]
    BY <1>7 DEF EraseExpired
  <2>2. queue[n].msg \in Message /\ fate[queue[n].msg] = "queued"
    BY DEF Ownership, QueueOwns
  <2>3. QED
    BY <1>7, <1>2, <2>1, <2>2 DEF EraseExpired
<1>8. ASSUME NEW t \in Threads, Dequeue(t) PROVE TokenAccounting'
  <2> DEFINE m == Head(queue).msg
  <2>1. m \in Message /\ fate[m] = "queued"
    BY <1>8 DEF Dequeue, CanDequeue, Ownership, QueueOwns
  <2>2. Charged' = Charged \cup {m} /\ m \notin Charged
    BY <1>8, <2>1 DEF Dequeue, Charged
  <2>3. Cardinality(Charged') = Cardinality(Charged) + 1
    BY <2>2, FS_AddElement
  <2>4. availableTokens' = availableTokens - 1
    BY <1>8 DEF Dequeue, PopFront
  <2>5. accepted' = accepted /\ forfeited' = forfeited
    BY <1>8 DEF Dequeue
  <2>6. QED
    BY <1>0, <2>3, <2>4, <2>5 DEF TokenAccounting
<1>9. ASSUME NEW t \in Threads, Send(t) PROVE TokenAccounting'
  <2>1. Keeps(t) /\ pc[t] \in Paid
    BY <1>9 DEF Send, Keeps, Paid
  <2>2. data[t].msg \in Message /\ fate[data[t].msg] = "held"
    BY <2>1 DEF Ownership, HandOwns
  <2>3. Charged' = Charged
    BY <1>9, <2>2, SameCharged DEF Send
  <2>4. QED
    BY <1>9, <2>3 DEF Send, TokenAccounting
<1>10. ASSUME NEW t \in Threads, Refund(t) PROVE TokenAccounting'
  <2> DEFINE m == data[t].msg
  <2>1. Keeps(t) /\ pc[t] \in Paid
    BY <1>10 DEF Refund, Keeps, Paid
  <2>2. m \in Message /\ fate[m] = "held"
    BY <2>1 DEF Ownership, HandOwns
  <2>3. Charged' = Charged \ {m} /\ m \in Charged
    BY <1>10, <2>2 DEF Refund, Charged
  <2> HIDE DEF m
  <2>4. Cardinality(Charged \ {m}) = Cardinality(Charged) - 1
    BY <2>3, FS_RemoveElement
  <2>5. /\ Cardinality(Charged) \in Nat
        /\ Cardinality(Charged') = Cardinality(Charged) - 1
    BY <2>3, <2>4
  <2>6. \/ /\ availableTokens' = availableTokens + 1
           /\ forfeited' = forfeited
        \/ /\ availableTokens' = availableTokens
           /\ forfeited' = forfeited + 1
    BY <1>10 DEF Refund, Increment
  <2>7. accepted' = accepted
    BY <1>10 DEF Refund
  <2>8. QED
    BY <1>0, <2>5, <2>6, <2>7 DEF TokenAccounting
<1>11. QED
  BY <1>1, <1>3, <1>4, <1>5, <1>6, <1>7, <1>8, <1>9, <1>10
  DEF Next, ReceiverStep, ThreadStep, Tick, AddToken, LogEnqueued, BeginFlush,
      EndFlush, StopDraining, CheckValidity, vars

\* Tokens are conserved for every number of threads, packets and tokens: each
\* one accepted is in the bucket, pays for exactly one packet, or was forfeited
\* by a full bucket (increment, dequeue and the refund in sendQueuedPackets).
THEOREM TokensConserved == Spec => []TokenAccounting
<1>1. Init => TokenAccounting
  <2> SUFFICES ASSUME Init PROVE TokenAccounting
    OBVIOUS
  <2>1. Charged = {}
    BY DEF Init, Charged
  <2>2. QED
    BY <2>1, FS_EmptySet DEF Init, BucketInit, TokenAccounting
<1>2. QED
  BY InitTypeInv, NextTypeInv, InitOwnership, NextOwnership,
     NextTokenAccounting, <1>1, PTL DEF Spec

-----------------------------------------------------------------------------
\* The refinement mapping of LimitsRate by name.
Held == {m \in Message : fate[m] = "held"}
Permits == availableTokens + Cardinality(Held)
Waiting == {m \in Message : fate[m] \in {"queued", "held"}}
Aired == {m \in Message : fate[m] = "sent"}
MaxBurst == MaxBucketSize + Cardinality(Receivers)

LEMMA HeldFinite ==
  /\ IsFiniteSet(Held) /\ Cardinality(Held) \in Nat
  /\ IsFiniteSet(Receivers) /\ Cardinality(Receivers) \in Nat
<1>1. Held \subseteq Message
  BY DEF Held
<1>2. QED
  BY <1>1, SenderAssumption, FS_Subset, FS_CardinalityType

\* While the io thread has nothing in hand, each packet in hand is in the hand
\* of a receiver of its own.
LEMMA HeldByReceivers ==
  ASSUME TypeInv, Ownership, pc[Io] \notin Paid
  PROVE  Cardinality(Held) <= Cardinality(Receivers)
<1> DEFINE by(m) == CHOOSE r \in Receivers : pc[r] \in Paid /\ data[r].msg = m
           f == [m \in Held |-> by(m)]
<1>1. ASSUME NEW m \in Held PROVE by(m) \in Receivers /\ data[by(m)].msg = m
  <2>1. \E r \in Receivers : pc[r] \in Paid /\ data[r].msg = m
    BY DEF Held, Ownership, HeldInHand, Threads
  <2>2. QED
    BY <2>1
<1> HIDE DEF by
<1>2. f \in [Held -> Receivers]
  BY <1>1
<1>3. \A m, k \in Held : f[m] = f[k] => m = k
  BY <1>1
<1> HIDE DEF f
<1>4. f \in Injection(Held, Receivers)
  BY <1>2, <1>3 DEF Injection, IsInjective
<1>5. QED
  BY <1>4, HeldFinite, FS_Injection

-----------------------------------------------------------------------------
\* The steps of the rate limiter in the terms of the mapping.
LEMMA LimiterGrant ==
  ASSUME Permits < MaxBurst, Permits' = Permits + 1,
         Waiting' = Waiting, Aired' = Aired
  PROVE  Limiter!Next
  BY DEF Limiter!Next, Limiter!Grant, Permits, Held, Waiting, Aired, MaxBurst

LEMMA LimiterAccept ==
  ASSUME NEW m \in Message, m \notin Waiting \cup Aired,
         Permits' = Permits, Waiting' = Waiting \cup {m}, Aired' = Aired
  PROVE  Limiter!Next
  BY DEF Limiter!Next, Limiter!Accept, Permits, Held, Waiting, Aired

LEMMA LimiterTransmit ==
  ASSUME NEW m \in Waiting, Permits > 0, Permits' = Permits - 1,
         Waiting' = Waiting \ {m}, Aired' = Aired \cup {m}
  PROVE  Limiter!Next
<1>1. m \in Message
  BY DEF Waiting
<1>2. Limiter!Transmit(m)
  BY DEF Limiter!Transmit, Permits, Held, Waiting, Aired
<1>3. QED
  BY <1>1, <1>2 DEF Limiter!Next

LEMMA LimiterExpire ==
  ASSUME NEW m \in Waiting, Permits' \in {Permits, Permits - 1},
         Permits' >= 0, Waiting' = Waiting \ {m}, Aired' = Aired
  PROVE  Limiter!Next
<1>1. m \in Message
  BY DEF Waiting
<1>2. Limiter!Expire(m)
  BY DEF Limiter!Expire, Permits, Held, Waiting, Aired
<1>3. QED
  BY <1>1, <1>2 DEF Limiter!Next

LEMMA LimiterStutter ==
  ASSUME Permits' = Permits, Waiting' = Waiting, Aired' = Aired
  PROVE  UNCHANGED Limiter!vars
  BY DEF Limiter!vars, Permits, Held, Waiting, Aired

LEMMA NextLimiter ==
  TypeInv /\ Ownership /\ [Next]_vars => Limiter!Next \/ UNCHANGED Limiter!vars
<1> SUFFICES ASSUME TypeInv, Ownership, [Next]_vars
             PROVE  Limiter!Next \/ UNCHANGED Limiter!vars
  OBVIOUS
<1> USE ThreadFacts, OwnershipTypes, HeldFinite DEF bucketVars
<1>0. /\ availableTokens \in Nat /\ MaxBucketSize \in Nat
      /\ availableTokens <= MaxBucketSize /\ Permits \in Nat
  BY BucketAssumption DEF TypeInv, TypeOK, Permits
<1>1. ASSUME fate' = fate, availableTokens' = availableTokens
      PROVE  UNCHANGED Limiter!vars
  BY <1>1, LimiterStutter DEF Permits, Held, Waiting, Aired
<1>2. ASSUME NEW m \in Message, fate[m] \in {"outside", "arrived"},
             fate'[m] \in {"arrived", "dropped"},
             \A k \in Message : k # m => fate'[k] = fate[k],
             availableTokens' = availableTokens
      PROVE  UNCHANGED Limiter!vars
  <2>1. Held' = Held /\ Waiting' = Waiting /\ Aired' = Aired
    BY <1>2 DEF Held, Waiting, Aired
  <2>2. QED
    BY <1>2, <2>1, LimiterStutter DEF Permits
<1>3. CASE IncrementToken
  <2>1. pc[Io] \notin Paid /\ fate' = fate
    BY <1>3 DEF IncrementToken, Paid
  <2>2. Held' = Held /\ Waiting' = Waiting /\ Aired' = Aired
    BY <2>1 DEF Held, Waiting, Aired
  <2>3. CASE availableTokens' = availableTokens
    BY <2>2, <2>3, LimiterStutter DEF Permits
  <2>4. CASE availableTokens' # availableTokens
    <3>1. availableTokens < MaxBucketSize /\ availableTokens' = availableTokens + 1
      BY <1>3, <2>4 DEF IncrementToken, Increment, HasRoomForToken
    <3>2. Permits < MaxBurst
      BY <1>0, <2>1, <3>1, HeldByReceivers DEF Permits, MaxBurst
    <3>3. Permits' = Permits + 1
      BY <1>0, <2>2, <3>1 DEF Permits
    <3>4. QED
      BY <2>2, <3>2, <3>3, LimiterGrant
  <2>5. QED
    BY <2>3, <2>4
<1>4. ASSUME NEW r \in Receivers, NEW m \in Message, NEW v \in Time,
             Receive(r, m, v)
      PROVE  UNCHANGED Limiter!vars
  BY <1>4, <1>2 DEF Receive
<1>5. ASSUME NEW r \in Receivers, Enqueue(r) PROVE Limiter!Next
  <2> DEFINE m == data[r].msg
  <2>1. Keeps(r) /\ pc[r] \notin Paid
    BY <1>5 DEF Enqueue, Keeps, Arriving, Paid
  <2>2. m \in Message /\ fate[m] = "arrived"
    BY <2>1 DEF Ownership, HandOwns
  <2>3. /\ m \notin Waiting \cup Aired /\ Held' = Held
        /\ Waiting' = Waiting \cup {m} /\ Aired' = Aired
    BY <1>5, <2>2 DEF Enqueue, Waiting, Aired, Held
  <2>4. Permits' = Permits
    BY <1>5, <2>3 DEF Enqueue, Permits
  <2> HIDE DEF m
  <2>5. QED
    BY <2>2, <2>3, <2>4, LimiterAccept
<1>6. ASSUME NEW r \in Receivers, Drop(r) PROVE UNCHANGED Limiter!vars
  <2>1. Keeps(r) /\ pc[r] \notin Paid
    BY <1>6 DEF Drop, Keeps, Arriving, Paid
  <2>2. data[r].msg \in Message /\ fate[data[r].msg] = "arrived"
    BY <2>1 DEF Ownership, HandOwns
  <2>3. QED
    BY <1>6, <1>2, <2>2 DEF Drop
<1>7. ASSUME NEW t \in Threads, EraseExpired(t) PROVE Limiter!Next
  <2>1. PICK n \in DOMAIN queue :
          fate' = [fate EXCEPT ![queue[n].msg] = "expired"]
    BY <1>7 DEF EraseExpired
  <2> DEFINE m == queue[n].msg
  <2>2. m \in Message /\ fate[m] = "queued"
    BY DEF Ownership, QueueOwns
  <2>3. /\ m \in Waiting /\ Held' = Held
        /\ Waiting' = Waiting \ {m} /\ Aired' = Aired
    BY <2>1, <2>2 DEF Waiting, Aired, Held
  <2>4. Permits' = Permits
    BY <1>7, <2>3 DEF EraseExpired, Permits
  <2> HIDE DEF m
  <2>5. QED
    BY <1>0, <2>3, <2>4, LimiterExpire
<1>8. ASSUME NEW t \in Threads, Dequeue(t) PROVE UNCHANGED Limiter!vars
  <2> DEFINE m == Head(queue).msg
  <2>1. m \in Message /\ fate[m] = "queued"
    BY <1>8 DEF Dequeue, CanDequeue, Ownership, QueueOwns
  <2>2. /\ m \notin Held /\ Held' = Held \cup {m}
        /\ Waiting' = Waiting /\ Aired' = Aired
    BY <1>8, <2>1 DEF Dequeue, Held, Waiting, Aired
  <2> HIDE DEF m
  <2>3. Cardinality(Held \cup {m}) = Cardinality(Held) + 1
    BY <2>2, FS_AddElement
  <2>4. availableTokens' = availableTokens - 1
    BY <1>8 DEF Dequeue, PopFront
  <2>5. Permits' = Permits
    BY <1>0, <2>2, <2>3, <2>4 DEF Permits
  <2>6. QED
    BY <2>2, <2>5, LimiterStutter
<1>9. ASSUME NEW t \in Threads, pc[t] \in Paid, fate[data[t].msg] = "held",
             data[t].msg \in Message,
             fate'[data[t].msg] \in {"sent", "expired"},
             \A k \in Message : k # data[t].msg => fate'[k] = fate[k]
      PROVE  /\ data[t].msg \in Waiting
             /\ Waiting' = Waiting \ {data[t].msg}
             /\ Cardinality(Held) > 0
             /\ Cardinality(Held') = Cardinality(Held) - 1
  <2> DEFINE m == data[t].msg
  <2>1. /\ m \in Waiting /\ Waiting' = Waiting \ {m}
        /\ m \in Held /\ Held' = Held \ {m}
    BY <1>9 DEF Waiting, Held
  <2> HIDE DEF m
  <2>2. Cardinality(Held \ {m}) = Cardinality(Held) - 1
    BY <2>1, FS_RemoveElement
  <2>3. Cardinality(Held) > 0
    BY <2>1, FS_EmptySet
  <2>4. QED
    BY <2>1, <2>2, <2>3 DEF m
<1>10. ASSUME NEW t \in Threads, Send(t) PROVE Limiter!Next
  <2>1. Keeps(t) /\ pc[t] \in Paid
    BY <1>10 DEF Send, Keeps, Paid
  <2>2. data[t].msg \in Message /\ fate[data[t].msg] = "held"
    BY <2>1 DEF Ownership, HandOwns
  <2>3. /\ data[t].msg \in Waiting
        /\ Waiting' = Waiting \ {data[t].msg}
        /\ Cardinality(Held) > 0
        /\ Cardinality(Held') = Cardinality(Held) - 1
    BY <1>9, <1>10, <2>1, <2>2 DEF Send
  <2>4. Aired' = Aired \cup {data[t].msg}
    BY <1>10, <2>2 DEF Send, Aired
  <2>5. availableTokens' = availableTokens
    BY <1>10 DEF Send
  <2>6. Permits > 0 /\ Permits' = Permits - 1
    BY <1>0, <2>3, <2>5 DEF Permits
  <2>7. QED
    BY <2>3, <2>4, <2>6, LimiterTransmit
<1>11. ASSUME NEW t \in Threads, Refund(t) PROVE Limiter!Next
  <2>1. Keeps(t) /\ pc[t] \in Paid
    BY <1>11 DEF Refund, Keeps, Paid
  <2>2. data[t].msg \in Message /\ fate[data[t].msg] = "held"
    BY <2>1 DEF Ownership, HandOwns
  <2>3. /\ data[t].msg \in Waiting
        /\ Waiting' = Waiting \ {data[t].msg}
        /\ Cardinality(Held) > 0
        /\ Cardinality(Held') = Cardinality(Held) - 1
    BY <1>9, <1>11, <2>1, <2>2 DEF Refund
  <2>4. Aired' = Aired
    BY <1>11, <2>2 DEF Refund, Aired
  <2>5. availableTokens' \in {availableTokens, availableTokens + 1}
    BY <1>11 DEF Refund, Increment
  <2>6. Permits' \in {Permits, Permits - 1} /\ Permits' >= 0
    BY <1>0, <2>3, <2>5 DEF Permits
  <2>7. QED
    BY <2>3, <2>4, <2>6, LimiterExpire
<1>12. QED
  BY <1>1, <1>3, <1>4, <1>5, <1>6, <1>7, <1>8, <1>10, <1>11
  DEF Next, ReceiverStep, ThreadStep, Tick, AddToken, LogEnqueued, BeginFlush,
      EndFlush, StopDraining, CheckValidity, vars

\* Each access category implements the rate limiter for all parameters: at most
\* one transmission per token and packet, with never more than maxBucketSize
\* permits plus one for each receiver outstanding (LeakyBucket.h, dcc.cpp).
THEOREM SenderLimitsRate == Spec => LimitsRate
<1>1. Init => Limiter!Init
  <2> SUFFICES ASSUME Init PROVE Limiter!Init
    OBVIOUS
  <2>1. Held = {} /\ Waiting = {} /\ Aired = {}
    BY DEF Init, Held, Waiting, Aired
  <2>2. Permits = 0
    BY <2>1, FS_EmptySet DEF Permits, Init, BucketInit
  <2>3. QED
    BY <2>1, <2>2 DEF Limiter!Init, Permits, Held, Waiting, Aired
<1>2. QED
  BY InitTypeInv, NextTypeInv, InitOwnership, NextOwnership, NextLimiter,
     <1>1, PTL DEF Spec, LimitsRate, Limiter!Spec

-----------------------------------------------------------------------------
\* Taking packets out of the queue makes none of those left expire.
LEMMA FewerNoneExpired ==
  ASSUME TypeInv, NEW n, NoneExpired(n),
         \A j \in DOMAIN queue' : \E i \in DOMAIN queue : queue'[j] = queue[i]
  PROVE  NoneExpired(n)'
  BY DEF NoneExpired, ExpiredAt

LEMMA ErasedFromQueue ==
  ASSUME TypeInv, NEW t \in Threads, EraseExpired(t)
  PROVE  \A j \in DOMAIN queue' : \E i \in DOMAIN queue : queue'[j] = queue[i]
<1>1. PICK n \in DOMAIN queue : Erase(n)
  BY DEF EraseExpired
<1>2. /\ queue \in Seq(Entry) /\ Len(queue) \in Nat
      /\ n \in 1..Len(queue) /\ DOMAIN queue = 1..Len(queue)
  BY OwnershipTypes
<1>3. /\ queue' \in Seq(Entry) /\ Len(queue') = Len(queue) - 1
      /\ \A j \in 1..Len(queue) - 1 :
            queue'[j] = IF j < n THEN queue[j] ELSE queue[j + 1]
  BY <1>1, <1>2, EraseProperties DEF Erase
<1>4. TAKE j \in DOMAIN queue'
<1>5. j \in DOMAIN queue /\ j + 1 \in DOMAIN queue /\ j \in 1..Len(queue) - 1
  BY <1>2, <1>3
<1> QED
  BY <1>3, <1>5

LEMMA NextFlushed ==
  ASSUME TypeInv, FlushedBeforeEnqueue, [Next]_vars, \A r, s \in Receivers : r = s
  PROVE  FlushedBeforeEnqueue'
<1> SUFFICES ASSUME NEW r \in Receivers, pc'[r] = "enqueue"
             PROVE  NoneExpired(nowTime[r])'
  BY DEF FlushedBeforeEnqueue
<1> USE ThreadFacts
<1>0. /\ pc \in [Threads -> Pcs] /\ nowTime \in [Threads -> 0..MaxTime]
      /\ queue \in Seq(Entry)
  BY DEF TypeInv, TypeOK
\* r ends its flush,
<1>1. CASE EndFlush(r)
  BY <1>0, <1>1 DEF EndFlush, NoneExpired, ExpiredAt
\* or it had done so before; since then only the io thread has moved.
<1>2. ASSUME nowTime'[r] = nowTime[r], pc[r] = "enqueue",
             \A j \in DOMAIN queue' : \E i \in DOMAIN queue : queue'[j] = queue[i]
      PROVE  NoneExpired(nowTime[r])'
  BY <1>2, FewerNoneExpired DEF FlushedBeforeEnqueue
<1>3. ASSUME NEW s \in Receivers,
             \/ \E m \in Message, v \in Time : Receive(s, m, v)
             \/ Enqueue(s) \/ Drop(s) \/ LogEnqueued(s)
      PROVE  FALSE
  BY <1>0, <1>3 DEF Receive, Enqueue, Drop, LogEnqueued, Goto
<1>4. CASE Tick \/ AddToken \/ IncrementToken \/ UNCHANGED vars
  BY <1>0, <1>2, <1>4 DEF Tick, AddToken, IncrementToken, vars, bucketVars, Goto
<1>5. ASSUME NEW t \in Threads, EraseExpired(t) PROVE NoneExpired(nowTime[r])'
  BY <1>0, <1>2, <1>5, ErasedFromQueue DEF EraseExpired
<1>6. ASSUME NEW t \in Threads, Dequeue(t) PROVE NoneExpired(nowTime[r])'
  <2>1. queue # << >> /\ queue' = Tail(queue)
    BY <1>6 DEF Dequeue, CanDequeue, PopFront
  <2>2. \A j \in DOMAIN queue' : \E k \in DOMAIN queue : queue'[j] = queue[k]
    BY <1>0, <2>1, HeadTailProperties
  <2>3. pc[r] = "enqueue" /\ nowTime' = nowTime
    BY <1>0, <1>6 DEF Dequeue, Goto
  <2> QED
    BY <1>2, <2>2, <2>3
<1>7. ASSUME NEW t \in Threads, t # r,
             \/ BeginFlush(t) \/ EndFlush(t) \/ StopDraining(t)
             \/ CheckValidity(t) \/ Send(t) \/ Refund(t)
      PROVE  NoneExpired(nowTime[r])'
  BY <1>0, <1>2, <1>7
  DEF BeginFlush, EndFlush, StopDraining, CheckValidity, Send, Refund, Goto, bucketVars
<1>8. ASSUME BeginFlush(r) \/ StopDraining(r) \/ CheckValidity(r) \/ Send(r) \/ Refund(r)
      PROVE  FALSE
  BY <1>0, <1>8 DEF BeginFlush, StopDraining, CheckValidity, Send, Refund, Goto
<1>9. ASSUME NEW t \in Threads, ThreadStep(t) PROVE NoneExpired(nowTime[r])'
  BY <1>1, <1>5, <1>6, <1>7, <1>8, <1>9 DEF ThreadStep
<1> QED
  BY <1>3, <1>4, <1>9 DEF Next, ReceiverStep

\* With one receiver in the access category, the normal case, and whatever the io
\* thread does meanwhile: a packet is refused for want of room only because of
\* packets that were still valid when it arrived (flushQueue before enqueue in
\* receiveFromCa2 and receiveFromDen).
THEOREM OneReceiverFlushesFirst ==
  ASSUME \A r, s \in Receivers : r = s
  PROVE  Spec => []FlushedBeforeEnqueue
<1>1. Init => FlushedBeforeEnqueue
  BY DEF Init, FlushedBeforeEnqueue, Threads
<1>2. TypeInv /\ FlushedBeforeEnqueue /\ [Next]_vars => FlushedBeforeEnqueue'
  BY NextFlushed
<1> QED
  BY <1>1, <1>2, InitTypeInv, NextTypeInv, PTL DEF Spec

=============================================================================
