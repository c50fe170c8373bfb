---------------------------- MODULE LeakyBucket ----------------------------
(***************************************************************************)
(* LeakyBucket<T> of dcc/src/LeakyBucket.h: the send-permits (tokens) of   *)
(* one access category and the queue of the packets that wait for them.    *)
(* The methods are the building blocks of DccSender, which says who calls  *)
(* them and when.                                                          *)
(*                                                                         *)
(* mutex_bucket guards single updates of availableTokens and is the last   *)
(* lock taken, so increment, decrement and the check-and-pop of dequeue    *)
(* (which holds mutex_queue while it takes mutex_bucket) are single steps. *)
(* flushQueue erases one entry after the other and is a loop of steps for  *)
(* whose length it owns mutex_queue: mutexQueue names that owner, and the  *)
(* other methods on the queue wait for it to be free.                      *)
(***************************************************************************)
EXTENDS Integers, Sequences

CONSTANTS Message,        \* the packets, DATA objects
          Time,           \* instants
          MaxBucketSize,  \* maxBucketSize
          QueueSize       \* queueSize

ASSUME BucketAssumption ==
  /\ Time \subseteq Int
  /\ MaxBucketSize \in Nat
  /\ QueueSize \in Nat

VARIABLES availableTokens,
          queue,       \* pairs of validUntil and packet
          mutexQueue   \* the thread inside flushQueue, or Free

Free == "free"

Entry == [validUntil : Time, msg : Message]

BucketInit ==
  /\ availableTokens = 0
  /\ queue = << >>
  /\ mutexQueue = Free

-----------------------------------------------------------------------------
\* increment(): adds a token unless the bucket is full.
HasRoomForToken == availableTokens < MaxBucketSize

\* Mutant of Increment: the cap is forgotten.
IncrementNoCap == availableTokens' = availableTokens + 1

Increment ==
  availableTokens' = IF HasRoomForToken THEN availableTokens + 1
                                        ELSE availableTokens

\* enqueue(): appends a packet unless the queue is full.
HasRoomForPacket == Len(queue) < QueueSize

PushBack(e) == queue' = Append(queue, e)

\* dequeue(): pops the first packet if there is one and a token to pay it
\* with.  It returns NULL otherwise.
CanDequeue == queue # << >> /\ availableTokens > 0

\* Mutants of PopFront: the packet stays in the queue; the token is kept.
PopWithoutErase ==
  /\ availableTokens' = availableTokens - 1
  /\ UNCHANGED queue

PopForFree ==
  /\ queue' = Tail(queue)
  /\ UNCHANGED availableTokens

PopFront ==
  /\ availableTokens' = availableTokens - 1
  /\ queue' = Tail(queue)

\* flushQueue(t): the entry at i is the next one the loop erases.
ExpiredAt(i, t) == queue[i].validUntil < t

NextExpired(i, t) ==
  /\ i \in DOMAIN queue
  /\ ExpiredAt(i, t)
  /\ \A j \in 1..i - 1 : ~ ExpiredAt(j, t)

NoneExpired(t) == \A i \in DOMAIN queue : ~ ExpiredAt(i, t)

Erase(i) ==
  queue' = SubSeq(queue, 1, i - 1) \o SubSeq(queue, i + 1, Len(queue))

=============================================================================
