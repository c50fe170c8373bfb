# A verification development of OpenC2X

OpenC2X is a set of C++ processes that together form an ITS-G5 station: they
measure position and speed, generate cooperative awareness messages (CAMs) and
event messages (DENMs), limit how much of them goes on the air (DCC,
decentralized congestion control), and keep what was received in a local
dynamic map (LDM).  This directory holds TLA+ modules translated from the
source, the TLC configurations that check them, and proofs for TLAPS.
PROJECT.json lists, for every definition, the lines it models, and for every
property the run that checks it and a mutation of the code that breaks it.

## 1. The system

The processes talk over ZeroMQ.  Each message is two frames, an envelope and a
body; every socket is a publish/subscribe pair but the last.

| port | from -> to | what |
|------|------------|------|
| 6666, 7777 | CA service, DEN service -> DCC | DATA with an encoded CAM or DENM |
| 5555 | DCC -> CA service, DEN service | messages received from the radio |
| 8888, 9999 | CA service, DEN service -> LDM | CAM, camInfo (why it was sent), DENM |
| 1234 | DCC -> LDM | dccInfo |
| 3333, 2222 | GPS, OBD2 -> CA, DEN service, LDM | fixes and speeds |
| 1111 | DENM application, HTTP server -> DEN service | trigger |
| 6789 | HTTP server -> LDM | request/reply |

### Components

**DCC sender** (`dcc/src/dcc.cpp`, `LeakyBucket.h`).  State, per access
category: `availableTokens` and a queue of (expiry, packet) pairs.  Operations:
`receiveFromCa2` and `receiveFromDen`, one thread each, flush expired packets,
enqueue the new one and call `sendQueuedPackets`; `addToken`, a timer handler on
the io thread, flushes, adds a token and calls it too.  `sendQueuedPackets`
dequeues packets against tokens, sends those still valid and refunds the token
of those that are not.  Hard: two threads in the same loop, with two mutexes per
bucket and no lock around the loop.  Correct when each packet has one owner, tokens
are conserved, no packet is left behind while there is a token, and the rate is
limited.

**DCC control loop** (`dcc.cpp`, `State.h`, `DccConfig.h`).  State: two ring
buffers of channel loads, the current state RELAXED, ACTIVE1 or RESTRICTED, the
parameters of each state, a token timer per category, the time of the last
token.  Operations: `measureChannel`, `updateState`/`setCurrentState`,
`addToken`/`rescheduleAddToken`.  Hard: `rescheduleAddToken` re-arms a timer whose
handler may already be posted.  Correct when no timer chain dies, tokens follow the
interval of the current state, and the state does not flap.

**Ring buffer** (`dcc/src/RingBuffer.h`).  A `std::list` and an iterator.  Correct
when it holds exactly the last `maxSize` measurements.

**CA service** (`cam/src/caservice.cpp`).  State: latest fix and speed, each with
a mutex and written by a thread of its own, validity flags, what the last CAM
contained.  Operation: `alarm`, every 100 ms, checks the generation rules
(first fix, distance, heading, speed, time) and generates a CAM when one fires.
Hard: the data changes between the checks.  Correct when CAMs neither stop nor
bunch, and carry fresh data.

**LDM** (`ldm/src/ldm.cpp`).  State: a SQLite table per kind of message and, in
front of it, a cache with the latest message of each station (CAM, DENM) or access
category (dccInfo).  A receiver thread per table caches and inserts what arrives, a
server thread answers requests from the cache and fills it from the database when it
is empty.  Hard: a mutex per table protects the database, nothing protects the cache;
cache and database are written in two steps; the process may die between them.
A statement that SQLite refuses is logged and forgotten.
Correct when the cache keeps up with the database, a complete fill misses nobody, a message
is lost only to a crash that finds it in hand or to a logged error, and answers do not go back.

**HTTP server** (`httpServer/src/httpServer.cpp`), a multithreaded web server.  State: a
mutex and a `CommunicationClient` per kind of request, one publisher for triggers.
Operations: `requestCam` and five like it ask the LDM and give up after a timeout;
`trigger_denm` publishes a trigger.  Hard: late answers, workers that share a publisher
without a lock.

**DEN service** (`denm/src/denservice.cpp`).  One thread takes triggers and sends DENMs to
the DCC and the LDM, another forwards received DENMs to the LDM; both use
`mSenderToLdm` without a lock.  Correct when every trigger leads to a DENM and every
DENM reaches the LDM as one.

**Messaging** (`common/utility/Communication*.cpp`).  A sender publishes an
envelope and a body as two frames by two calls; a receiver takes two frames and calls
the first the envelope; a client opens a socket per request and polls it with a timeout.

**Web application** (`webSite/script/*.js`).  `camData` polls for CAMs and keeps the
last of each station; containers are divs with an interval each that fills them;
`layoutManager.js` opens, locks, saves and loads them.  Hard: responses overtake each
other; intervals outlive their container; the layout depends on the order in which
sizes and offsets are set.

**Not modelled yet**: the message limits of a packet (`setMessageLimits`), the raw
socket sender and receiver, the channel prober, the packet statistics, the GPS and OBD2
services (CaService models what they publish).
**Not to be modelled**: logging, configuration files, ASN.1 and protobuf code, scripts and
kernel patches, which have no state that a property here is about, and the vendored
jQuery, jQuery UI and Leaflet.  These libraries are 35,600 of the repository's 36,477
lines of JavaScript, so a share of JavaScript lines says little about this development:
it covers the C++ processes and the 869 lines of the web application, and of the
libraries only the calls the application makes (`offset`, dragging, resizing).

## 2. The modules

| module | models | uses |
|--------|--------|------|
| `SlidingWindow` | abstract: the last `Size` measurements | |
| `RingBuffer` | `RingBuffer<T>` | implements `SlidingWindow` |
| `RateLimiter` | abstract: what a category promises the channel | |
| `LeakyBucket` | the methods of `LeakyBucket<T>` as operators | |
| `DccSender` | receiver threads and io thread on one bucket | extends `LeakyBucket`, implements `RateLimiter` |
| `DccControl` | the control loop on the io thread | two instances of `RingBuffer` |
| `CaService` | generation of CAMs | |
| `MCCaService` | a road for TLC | extends `CaService` |
| `LdmTable` | a table of the LDM, its cache and its two threads, crashes | |
| `WebQuery` | page, HTTP server and LDM, for CAMs | extends `LdmTable` |
| `WebLayout` | containers and layouts on the page | |
| `DenService` | HTTP server, DEN service and LDM, for DENMs | |
| `*_proofs` | theorems of the module of that name | |

**DccSender.**  A thread is at the call its `pc` names; one step is one critical
section of a mutex or one reading of the clock.  `mutex_bucket` is innermost and held
for one update, so `increment` and `decrement` are steps; `mutex_queue` is held over
the loop of `flushQueue`, so that loop has an owner (`mutexQueue`) and one step per
erased entry.  `Send` stands for `setMessageLimits`, the socket call and `delete`.
`fate`, `accepted` and `forfeited` are history variables.  A packet may arrive expired.
The four categories have buckets of their own, so one stands for all; the io
thread adds tokens of one category at a time in the code, which makes the model's io
thread more available than the real one, never less.  CAMs and DENMs usually go to
different categories, so a bucket normally has one receiver; the model and the proofs
have a set of them.

**DccControl.**  `Poll` is one poll of the reactor: it posts the handlers of due
timers in the order of their expiry; a handler that is posted cannot be cancelled
(asio's `expires_at` says so and its result is not used).  Timers due in the same tick
may be posted together or in separate polls, which gives every order the code can meet.
The measurement is any load; thresholds compare loads only.  `addToken` grants a token
here, and what the bucket does with it is DccSender's matter.  `since`, `enteredFrom`
and `tokens` are history variables.  A cancelled handler returns at once and is left
out.  The packet statistics and dccInfo timers change nothing the loop reads.
The clock stands while a handler is posted or a timer is due: handlers take milliseconds,
periods are 40 ms to seconds, and an overloaded io thread is not modelled.

**CaService.**  One step is one rule of `alarm`, which takes the mutex of what it
reads; the GPS and OBD2 threads may run in between.  `generateCam` locks the GPS and
the OBD2 data one after the other; a message that arrives in between has the same effect
as one that arrives before or after, so `Send` is one step.  Positions are abstract, with
`Distance` and `Bearing` as parameters; of `Distance` it is assumed that a place has distance 0
from itself, as the haversine formula of `getDistance` gives (`caservice.cpp:173-183`).  A fix carries the time of its arrival: both services
stamp their messages with the clock of the same machine just before they send them
(`GpsService.cpp:129, 215, 248`, `Obd2Service.cpp:76, 114`), and local delivery is taken to be
shorter than a tick.  A heading is a whole number of degrees or the sentinel -1.
`cam` and `course` are history variables.

**LdmTable.**  One table stands for three: `table` says which, since
`receiveDccInfo` inserts before it caches while the other two cache first.  A message is
its number among those of its key; only the order matters.  Writing the cache, an
insertion under the mutex, a row of a fill and an entry of an answer are one step each.
`InsertFails` is an insertion that SQLite refuses: `LDM::insert` logs the error and the receiver goes
on (`ldm.cpp:529-536`).
The cache is a `std::map` without a lock.  An entry read while it is written is taken to
be the old or the new message; everything worse a race can do to the map is the step
`Crash`, possible at any time.  The loop of a fill
ends at anything `sqlite3_step` returns but a row (277), so `EndFill` may come before the last
row; `filled` notes only fills that read all.  A query that cannot be prepared is a `Crash`: the branch
for it (363-367) makes a string of `errmsg`, which is still null.  A crash keeps executed statements.  (The database is opened with
`synchronous = OFF` and `journal_mode = MEMORY`, so a failure of the machine, or of the process in
the middle of a statement, may damage the file; that is left out.)
Messages of one key come in the order they were sent, as one publisher sends
them, which is the assumption stated at `ldm.cpp:733`.  The condition of a request is ignored, as
in the code.  `answered`, `filled`, `crashes` and `errors` are history variables.

**WebQuery.**  Extends the LDM's table by its clients.  A request is a poll of
`camData` and moves from the page through a worker, the client's socket and the LDM's
queue; `Socket` is the identity ZeroMQ gives each socket, by which a late reply finds
its socket closed.  `mMutexCam` and the client's own mutex are nested and are held together,
while a request is "polling".  A reply is the body with the life of the LDM it comes from.
An empty body is no JSON, so jQuery calls no callback.  `lastUpdate` is never set, so
`updateCams` polls every time.  The interval of the map asks for the own address while that is not
known (`RefreshMap`); its markers are drawn from `cams` and left out.  `shownLife`, the life of the LDM
that each CAM on the page is from, and `overtaken` are history variables.

**WebLayout.**  A container is in the page (`order`, the order of the DOM) with an offset
from where the flow puts it, an explicit size or none, and whether it has been
filled.  One line of inline blocks and the horizontal axis are modelled; widths are 1
("Loading Data...") or 2 (a table).  The three containers differ in how they are filled:
Cam from data the page has, AC_BE and AC_VI by a request each, opened by one menu
entry.  An interval that was left over by a closed container fills the one opened
later under the same id, so `timed` is a set.  `Appended` opens one id after the other,
each after the test whether the page has it; a place in the flow (`Flow`) is the sum of the
widths before it.  Both are recursive functions over the positions of a sequence.  jQuery's
`offset` sets what is missing between the place in the flow and the place wanted, which is
`Applied`.

**DenService.**  Two ports, frame by frame.  `part1` and `part9` are the frames of a
message that is not complete: ZeroMQ hands over whole multipart messages.  ZeroMQ forbids
two threads in one socket; of what may happen, the mixing of frames and the abort of
the process are modelled.  A multipart message that begins with a body does not begin with the
byte that was subscribed to and is dropped.  A restarted LDM connects anew and gets
no message whose first frame was sent before.  The DEN service does not look into a trigger, so
port 1111 carries plain frames.  `stored` are the
DENMs that the LDM has cached and handed to SQLite; what can still go wrong there is the matter of
LdmTable.  `overlaps` and `torn9` are history variables.

## 3. The runs

| run | question | states | result |
|-----|----------|--------|--------|
| `ring` | does the iterator implement a sliding window, over several wraps? | 213 | holds |
| `sender` | receiver and io thread on one bucket | 255,672 | holds |
| `sender_refund` | does the refund undo the decrement? | | violated |
| `control` | timers, states and tokens | 15,708 | holds |
| `control_last_token` | is the last token in the past? | | violated |
| `cam` | generation rules | 3,108,455 | holds |
| `cam_heading` | does the heading rule mean a turn? | | violated |
| `cam_speed_age` | is the speed in a CAM fresh? | | violated |
| `ldm` | cache, database, requests, errors and crashes of the LDM | 890,419 | holds |
| `web` | the page's polls, the timeout, the LDM | 1,282,776 | holds |
| `layout` | containers and layouts | 750,446 | holds |
| `den` | triggers and DENMs over shared sockets | 60,227 | holds |

Bounds, and why they are enough:

* `ring`: three entries and four values; a wrap needs `MaxSize + 1` insertions, and
  the state space is closed under any number of them.
* `sender`: four packets, a queue and a bucket of two, three instants.  The queue
  overflows, the bucket overflows, packets expire in the queue, in the hand and before
  they arrive, and both threads are in the loop together.  Time stops at `MaxTime`;
  threads do not.
* `control`: buffers of two and three measurements, token intervals of 1, 2 and 4, and a
  period of 2 ticks for measuring and for updating alike.  Equal periods are the code's default
  (`DccConfig.h:287, 291`, 1.00 s each): the first measurement and the first update are due in the
  same tick, as all later ones are, and are posted in one poll or in two, and every transition is taken,
  some twice, before `MaxTime` = 20.  `control_last_token` has periods of 2 and 3; all other
  pairs are the proofs'.
* `cam`: four positions 3 m apart (one step is below the distance rule, two are
  above), three speeds, CAM interval 3, alarm period 2, age limits 3, 8 ticks: four
  alarms with every order of arrivals in between.

* `ldm`: two keys, three messages each, two crashes, one failing insertion, any number of requests
and of fills that break off.  With two
  keys an answer can skip an entry that is written behind it and a fill can be
  interrupted; three messages let the cache be one and two behind; the second crash meets
  a database that the first has left incomplete.
* `web`: two polls under way at once, two workers, two keys with two messages each, a crash.
  Two requests are enough for a reply to meet the wrong socket and for one
  response to overtake another; each may time out before, while and after the LDM
  serves it.  With two keys an answer can leave out a station that the page shows already,
  which is where the page could go back without being overtaken.  Fills may break off; `MaxErrors` is 0,
  as failing insertions are covered by `ldm` and, for any number and in the composition, by the proofs.
* `layout`: three containers opened (all at once, or one twice), one drag or resize, one place off the flow; locks, saves,
  loads, reloads, ticks and answers without bound.
* `den`: three workers in the shared socket together, three triggers, two foreign DENMs,
  one restart; with three triggers two overlaps can cost a whole trigger and leave
  a third that must still fire.

The bounds are named in the modules and each is a number of things that happen
(`MaxTime`, `MaxMessages`, `MaxCrashes`, `MaxErrors`, `MaxRequests`, `MaxCreated`, `MaxMoves`, `MaxLeft`,
`MaxTriggers`, `MaxOthers`, `MaxRestarts`); none is in the code.  `CHECK_DEADLOCK FALSE` is set where the
clock's bound stops the model, and in `den`, which stops when the triggers are used up
or both processes are aborted; the others never stop and are checked for deadlock.

### Properties of the passing runs

* RingBuffer: the refinement `HoldsLastMeasurements`.
* DccSender: `TokenAccounting` (tokens conserved up to those a full bucket
  refuses), `SingleOwner`, `NoPacketLeftBehind` (no lost wake-up),
  `FlushedBeforeEnqueue`, the refinement `LimitsRate`, and the liveness property `QueuedPacketLeaves`.
* DccControl: `TimersStayArmed`, `TokenTimerFollowsState`, `NeverJudgesEmptyWindow`,
  `LongRunRate`, `ActiveKeepsReference`, `DwellsTimeDown`.
* CaService: `NeverSilent`, `SpacedCams`, `FreshPosition`, `AnnouncedPosition`.
* LdmTable: `CacheKeepsUp` (a fill may put back the last message but one, never an
  older one, and for dccInfo not even that), `CompleteOnceFilled` (a fill that read all rows hides nobody),
  `NoSilentLoss` (one message per crash and per logged error), `RepliesNeverRegress`, and the liveness
  property `NobodyBlocked`.
* WebQuery: `AnswersItsRequest` (no late reply goes to another request),
  `BackOnlyIfOvertaken`, and the liveness property `MutexReleased`.
* WebLayout: `UnlockedAllMovable`, `LoadRestores`, `EventuallyFilled`; the type
  invariant contains that no id is in the page twice.
* DenService: `TriggersAccounted` (an equation over all frames of port 1111: each overlap costs
  one, none is invented), `AlignedUnlessTorn`, and the liveness properties
  `TriggersFire` and `DenmsStored`.

Some of these are weaker than one would wish, because the code is.

* The cache of the LDM is filled only if it is empty at the first request.  After a
  restart one message that comes earlier keeps every other station hidden until
  it sends again, and so does a fill that an error ends after its first row.  `CompleteOnceFilled` is
  about caches that a fill has completed.
* For dccInfo the fill may finish before the receiver caches, so that nothing is
  overwritten; for CAM and DENM it may, and the older message stays until the next one of
  that station.  `NobodyBlocked` says of insertion only what holds for tables that are
  cached first.
* `main.js:107` says camData "holds and updates most recent cam data".  That fails
  when two responses overtake each other, because `digestCams` does not compare times.
  `BackOnlyIfOvertaken` says, for each station, that it fails in no other way but one: the LDM was
  started again since it answered with the CAM that is shown.
* `layoutManager.js:76` says a saved layout is applied.  Containers are inline blocks, so a
  size set late moves those placed before: opening two containers in an order other than the
  saved one and loading restores neither place.  `LoadRestores` states the exact
  condition, and that loading twice always helps.
* A container opened in a locked layout is not locked; only the reverse
  (`UnlockedAllMovable`) is guaranteed.
* After one overlap of two sends every pair of frames at the LDM is cut one frame late, and
  from then on envelopes are stored as DENMs, until the LDM or another overlap ends it.

### What the violated runs show

1. `RefundUndoesDecrement`: the token given back for an expired packet is lost when
   `addToken` has filled the bucket since the packet was dequeued
   (`dcc.cpp:589`).  `TokenAccounting` therefore counts `forfeited` tokens.
2. `LastTokenInThePast`: `mLastTokenAt` can be set to a time in the future
   (`dcc.cpp:566`) when a switch of state overtakes a posted token handler.
   `LongRunRate` shows that the rate stays bounded all the same.
3. `HeadingRuleMeansTurn`: the stored heading can be the sentinel -1
   (`caservice.cpp:396`), against which every heading above 3 degrees counts as a turn.
4. `FreshSpeed`: a CAM can carry a speed of any age, since only the speed rule
   refreshes `mObd2Valid` and the rules before it skip it (`caservice.cpp:433`).

### Fairness

In `sender`, each thread that can take a step takes one
eventually (the operating system's scheduler), and the token timer fires again
and again (`TimersStayArmed` and `TokenTimerFollowsState` of DccControl are why).
There is no fairness on arrivals or on the clock, and only weak fairness on taking
`mutex_queue`: `std::mutex` promises no more.

In `ldm`, both threads go on with what they have begun; requests and messages need not
come, and a crash ends what it interrupts.  In `web` only the workers of the HTTP server
are fair, and `zmq::poll` returns at its timeout: the LDM, the network and
the page owe nothing, which is the point of `MutexReleased`.  In `layout` the intervals of
containers fire and the server answers, if only with an error; the user owes nothing.  In
`den` each thread finishes its sends and takes what has arrived; nobody has to
trigger anything, and an aborted process is excused.

## 4. The proofs

TLAPS checks the following for every value of the constants, from the named
assumptions of the modules (`RingAssumption`, `BucketAssumption`, `SenderAssumption`,
`ControlAssumption`, `CamAssumption`, `LdmAssumption`, `WebAssumption`,
`DenAssumption`, `LayoutAssumption`), which TLC evaluates on the runs of these modules.
Every safety invariant and action property that a passing run checks is a theorem; only the
liveness properties are not.

* `RingBuffer_proofs`.  `RingWellFormed`: invariance of `TypeOK` and
  `WrapsOnlyWhenFull`, which is inductive with the type.  `RingImplementsWindow`:
  each `Insert` maps to `Record` of the window, read from the iterator round to
  itself; the cases are growing, overwriting the last and overwriting another entry.
* `DccSender_proofs`, for any number of receivers.  The inductive invariant has two
  parts.  `TypeInv` is `TypeOK` with the fact that a thread past "idle" has a packet
  in hand where the code dereferences it.  `Ownership` says which `fate` goes with
  which place: packets in the queue are "queued" and distinct (`QueueOwns`), packets in
  hand are "arrived" or "held" (`HandOwns`, `HeldInHand`) and in one hand only
  (`OneHand`).  `SingleOwner` alone is not inductive: it does not say that a
  packet about to be enqueued is nowhere in the queue.  On top of it
  `NoLostWakeUp`, `TokensConserved` and the refinement `SenderLimitsRate`.  Permits of
  the limiter are the tokens in the bucket and the packets in hand.  `IncrementToken` is
  the only step that makes one; the io thread has nothing in hand then, so every packet
  in hand is in the hand of a receiver of its own (`HeldByReceivers`), which is the bound
  `MaxBucketSize` plus one per receiver.
  `OneReceiverFlushesFirst` has the hypothesis that a bucket has at most one receiver, which is
  how CAMs and DENMs are usually assigned; with two, one may enqueue a packet that has
  expired between the flush and the enqueue of the other.  It rests on the io thread taking
  packets out of the queue and never putting one in.
* `DccControl_proofs`.  `ControlTypeCorrect`, `TimerChainsSurvive`,
  `TokenDueOneIntervalLater`, `ReferencesResolved`.  The types need
  `WrapsOnlyWhenFull` of both ring buffers; the three others are inductive with the
  types.  Three more have an invariant of their own:
  - `JudgesMeasurements` (no empty window).  `MeasuresFirst`: until the buffers have an entry,
    the measure timer ends before the update timer, or its handler is before every handler of
    the other in the queue of the io thread.  The assertion that the sampling
    period is no shorter than that of the measurements (`DccConfig.h:404`) is needed only at the start.
  - `RelaxedRateBounds` (long-run rate).  `TokensPaced`: the recorded time of the last token pays
    for all tokens so far at the relaxed rate, and is at most one restricted interval ahead of the
    clock, which is what a token recorded in the future costs; a token handler that is posted excludes that.
  - `RestrictionDwells` (no flapping).  `DwellInv`: the load that put the station under its
    restriction is in the longer window, as many insertions back as there were measurements
    since, so that its maximum stays high until timeDown is over.  The lemma `InsertShifts` says what an
    insertion does to the position that is k insertions back, around the iterator.
* `CaService_proofs`.  `CamInv` adds to the type that the alarm is never overdue, that
  the last check found the last CAM young enough (`AlarmKept`), and that a fix found
  valid stays so until the CAM is generated (`FixValid`, because the clock stands
  during a check and a new fix is newer).  From it `CamTypeCorrect`,
  `CamsKeepComing`, `CamPositionsFresh` and the action property `CamsAreSpaced`.
  `PositionsAnnounced` needs `PositionKept` too: while an alarm runs, a fix that was there before
  has been found valid by the first check, and after the position rule it is near the
  last CAM's position, or it is the position of the CAM just sent.
* `LdmTable_proofs`.  `LdmInv` relates cache, database and the message in hand:
  rows are those of messages received; a row of a pending result is at most one message
  behind the cache, because the fill holds the mutex and the receiver, having cached
  one message, waits for it; while a fill runs, a key with rows is in the result or in the cache.
  From it `LdmTypeCorrect`, `CacheFollowsTable`, `FillIsComplete`.  `AnswersMoveForward` needs
  more: a cached entry is never older than what was answered last, although a fill
  writes older rows, since a fill that follows an answer finds the cache as empty as the
  answer was.  `LossesAreLogged` counts the messages that are no row: receiving one adds
  it, inserting takes it out, and a failing insertion or a crash turns the one in hand into a lost one,
  which the log of errors or the crash accounts for (`LossInv`).
* `WebQuery_proofs`.  Each step of the composition is a step of `LdmTable` or leaves it
  unchanged, so `LdmInv` carries over and with it `CacheKeepsUp`
  (`CompositionKeepsTable`).  `ResponsesAreOwn` rests on `OneSocket`: at most one
  request is polling and the open socket is its own, which is what the mutex gives.
  `PageMovesForward` says that overtaking and crashes are the only ways back.  Its invariant `PageInv`
  follows a message from the LDM to the page: once a life of the LDM has reported a message,
  the cache has that one or a newer one of its key, will not be filled again, and an answer being copied
  has it once the iteration has passed the key (`NothingOlder`, `LifeMovesForward`).  Therefore an answer
  that was not overtaken has nothing older than the page, station by station, unless what the page
  shows is of an earlier life (`OnTimeIsForward`).  A fill that broke off does not matter here: no answer
  has reported what it left out, and the cache is filled again only while it is empty.
* `WebLayout_proofs`.  `LayoutInv` adds to the type, which says that no id is in the page twice, that none
  is in the saved layout twice (`SavedOnce`) and that a container that is not in the page will be
  made movable (`ClosedMovable`).  From it `LayoutTypeCorrect`, `UnlockFreesAll` and
  `LayoutComesBack`: each entry is applied with widths that agree with those in the end for all
  containers before it (`EntryRestored`), and only those count (`FlowSame`).  `SecondLoadRestores`
  adds that after one load all sizes are the saved ones, so that loading twice restores any layout.  `Appended` and `Flow`
  are recursive along a sequence; `AppendedFacts`, `FlowFacts` and `FlowSame` are proved for sequences of any
  length by induction on the part that has been gone through (`InductionUpTo`: the lengths at which
  the claim fails would have a least element; `CarriedAlong`: such a function exists).
* `DenService_proofs`.  `DenInv` adds to the type `TriggersAccounted`,
  `AlignedUnlessTorn` and `OneEnvelope` (without an overlap the unfinished message is the
  envelope of the one thread that is sending).  Taking two frames off an
  aligned sequence, and appending two, are lemmas on sequences.  From it the five
  theorems; `NoBlankRow` is an action property: a row without a DENM needs an overlap.

Only model-checked, and why: `QueuedPacketLeaves`, `NobodyBlocked`, `MutexReleased`,
`EventuallyFilled`, `TriggersFire` and `DenmsStored`.  They are liveness properties under weak fairness,
whose proofs need ENABLED, which is out of the prover's reach.

## 5. The plan

In this order; the abstract specification worth stating is in brackets.

1. `MessageLimits`: receiver threads in `setMessageLimits` against
   `setCurrentState` [a packet gets the parameters of one state].
2. `receive()` of the CA service, which shares its sender to the LDM with the
   alarm thread as the DEN service does, and the life time of a packet from `generateCam` to
   `delete`.
3. `GeoNetSender`: the header buffers that two threads fill in.
4. `ChannelLoad`: the prober's quotient of counters as an operator over bounded inputs.
5. The LDM's camInfo, a single record that is read while it is parsed.
6. Proofs: the safety invariants of the modules above, as they come; and of `DccSender` with two
   receivers, how many outdated packets a fresh one can meet.
