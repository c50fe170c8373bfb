----------------------------- MODULE DccControl -----------------------------
(***************************************************************************)
(* The control loop of the DCC, all on the io thread (dcc/src/dcc.cpp):    *)
(* measureChannel samples the channel load into two ring buffers,          *)
(* updateState moves between the states RELAXED, ACTIVE1 and RESTRICTED,   *)
(* and addToken grants send-permits at the token interval of the current   *)
(* state, which setCurrentState reschedules.  One access category stands   *)
(* for the four: each has a token timer of its own and nothing else.       *)
(*                                                                         *)
(* The timers are boost::asio::deadline_timers: a wait that is due posts   *)
(* its handler to the queue of the io_service; expires_at(t) cancels a     *)
(* wait that is still pending but cannot call back a handler that has been *)
(* posted.  A cancelled handler sees operation_aborted and returns, so it  *)
(* is left out.                                                            *)
(***************************************************************************)
EXTENDS Integers, Sequences, FiniteSets, Functions

CONSTANTS Loads,               \* channel loads a measurement can return
          MinLoad, MaxLoad,    \* NDL_minChannelLoad, NDL_maxChannelLoad
          UpSize, DownSize,    \* NDL_timeUp / Tm, NDL_timeDown / Tm
          Tm, Sampling,        \* DCC_measure_interval_Tm, NDL_minDccSampling
          RelaxedInterval,     \* NDL_minPacketInterval
          RestrictedInterval,  \* NDL_maxPacketInterval
          ActiveInterval,      \* NDL_asPacketInterval_active1 ...
          ActiveIsRef,         \* ... or "ref": the previous state's interval
          MaxTime              \* bound: the last instant of the clock

\* loadParameters asserts Sampling >= Tm and whole numbers of measurements.
ASSUME ControlAssumption ==
  /\ Loads \subseteq Int /\ MinLoad \in Int /\ MaxLoad \in Int
  /\ MinLoad <= MaxLoad
  /\ UpSize \in Nat \ {0} /\ DownSize \in Nat \ {0} /\ UpSize <= DownSize
  /\ Tm \in Nat \ {0} /\ Sampling \in Nat /\ Sampling >= Tm
  /\ RelaxedInterval \in Nat \ {0}
  /\ RestrictedInterval \in Nat /\ ActiveInterval \in Nat
  /\ RelaxedInterval <= ActiveInterval
  /\ ActiveInterval <= RestrictedInterval
  /\ ActiveIsRef \in BOOLEAN
  /\ MaxTime \in Nat

VARIABLES now,
          upEntries, upNext,      \* mChannelLoadInTimeUp
          downEntries, downNext,  \* mChannelLoadInTimeDown
          state,                  \* mCurrentStateId
          interval,               \* asPacketInterval of each state
          expiresAt,              \* expiry time of each timer
          pending,                \* timers with a pending wait
          ready,                  \* posted handlers, oldest first
          lastTokenAt, addedFirstToken,  \* mLastTokenAt, mAddedFirstToken
          tokens,     \* history: tokens granted so far
          enteredFrom, \* history: the state before the current one
          since       \* history: measurements since the last switch of state,
                      \* counted up to DownSize

ringVars == <<upEntries, upNext, downEntries, downNext>>
tokenVars == <<lastTokenAt, addedFirstToken, tokens>>
stateVars == <<state, interval, enteredFrom>>
vars == <<now, ringVars, stateVars, expiresAt, pending, ready, tokenVars, since>>

RELAXED == 0
ACTIVE1 == 1
RESTRICTED == 2
States == {RELAXED, ACTIVE1, RESTRICTED}

Timers == {"measure", "update", "token"}

Up == INSTANCE RingBuffer WITH
  Value <- Loads, MaxSize <- UpSize, entries <- upEntries, nextInsert <- upNext
Down == INSTANCE RingBuffer WITH
  Value <- Loads, MaxSize <- DownSize,
  entries <- downEntries, nextInsert <- downNext

-----------------------------------------------------------------------------
\* The constructor creates the timers, init starts their waits.
FirstExpiry == [measure |-> Tm, update |-> Sampling, token |-> RelaxedInterval]

\* initStates and setCurrentState(STATE_RELAXED) in the constructor.
Init ==
  /\ now = 0
  /\ Up!Init
  /\ Down!Init
  /\ state = RELAXED
  /\ interval = [s \in States |-> CASE s = RELAXED -> RelaxedInterval
                                    [] s = ACTIVE1 -> ActiveInterval
                                    [] s = RESTRICTED -> RestrictedInterval]
  /\ expiresAt = FirstExpiry
  /\ pending = Timers
  /\ ready = << >>
  /\ lastTokenAt = 0
  /\ addedFirstToken = FALSE
  /\ tokens = 0
  /\ enteredFrom = RELAXED
  /\ since = 0

Due(tm) == tm \in pending /\ expiresAt[tm] <= now

\* The clock.  The handlers take far less than a tick, so it does not advance
\* while one is posted or a timer is due.
Tick ==
  /\ now < MaxTime
  /\ ready = << >>
  /\ \A tm \in Timers : ~ Due(tm)
  /\ now' = now + 1
  /\ UNCHANGED <<ringVars, stateVars, expiresAt, pending, ready, tokenVars, since>>

\* Mutant of Rank: the constructor creates mTimerStateUpdate first.
RankUpdateFirst == [measure |-> 2, update |-> 1, token |-> 3]

\* Timers due in the same tick fire in the order in which the constructor
\* created them, which gave each a slightly later expiry than the one before.
Rank == [measure |-> 1, update |-> 2, token |-> 3]

FiresBefore(a, b) ==
  \/ expiresAt[a] < expiresAt[b]
  \/ expiresAt[a] = expiresAt[b] /\ Rank[a] < Rank[b]

\* One poll of the reactor posts the handlers of the timers that are due by
\* then, earliest first, and polls again when they have run.  Those due later
\* in the same tick may miss it.
Poll ==
  /\ ready = << >>
  /\ \E n \in 1..Cardinality(Timers) : \E batch \in [1..n -> Timers] :
        /\ \A i \in 1..n : Due(batch[i])
        /\ \A i \in 1..n, j \in 1..n : i < j => FiresBefore(batch[i], batch[j])
        /\ \A tm \in pending \ Range(batch) : FiresBefore(batch[n], tm)
        /\ ready' = batch
        /\ pending' = pending \ Range(batch)
  /\ UNCHANGED <<now, ringVars, stateVars, expiresAt, tokenVars, since>>

Handles(tm) ==
  /\ ready # << >>
  /\ Head(ready) = tm
  /\ ready' = Tail(ready)
  /\ UNCHANGED now

-----------------------------------------------------------------------------
MeasureChannel ==
  /\ Handles("measure")
  /\ \E load \in Loads : Up!Insert(load) /\ Down!Insert(load)
  /\ since' = IF since < DownSize THEN since + 1 ELSE since
  /\ expiresAt' = [expiresAt EXCEPT !["measure"] = @ + Tm]
  /\ pending' = pending \cup {"measure"}
  /\ UNCHANGED <<stateVars, tokenVars>>

-----------------------------------------------------------------------------
\* Mutant of NextState: RESTRICTED is left on the load of timeUp.
NextStateOnTimeUp ==
  CASE state = RELAXED /\ Up!AllAtLeast(MinLoad) -> ACTIVE1
    [] state = RESTRICTED /\ Up!AllBelow(MaxLoad) -> ACTIVE1
    [] state = ACTIVE1 /\ Down!AllBelow(MinLoad) -> RELAXED
    [] state = ACTIVE1 /\ Up!AllAtLeast(MaxLoad) -> RESTRICTED
    [] OTHER -> state

\* updateState's decision; without a change of state the code does not call
\* setCurrentState.
NextState ==
  CASE state = RELAXED /\ Up!AllAtLeast(MinLoad) -> ACTIVE1
    [] state = RESTRICTED /\ Down!AllBelow(MaxLoad) -> ACTIVE1
    [] state = ACTIVE1 /\ Down!AllBelow(MinLoad) -> RELAXED
    [] state = ACTIVE1 /\ Up!AllAtLeast(MaxLoad) -> RESTRICTED
    [] OTHER -> state

\* Mutant of Inherit: the reference is taken from the new state.
InheritFromNew(s) == interval

\* setCurrentState(s): an active state takes over the values marked as
\* references from the state it is entered from.
Inherit(s) ==
  IF s = ACTIVE1 /\ ActiveIsRef
  THEN [interval EXCEPT ![ACTIVE1] = interval[state]]
  ELSE interval

\* Mutants of RescheduleAddToken: nothing is rescheduled; the wait that
\* expires_at cancelled is not started again.
RescheduleNothing(ivl) ==
  /\ expiresAt' = [expiresAt EXCEPT !["update"] = @ + Sampling]
  /\ pending' = pending \cup {"update"}

RescheduleWithoutWait(ivl) ==
  IF addedFirstToken
  THEN /\ expiresAt' = [expiresAt EXCEPT !["update"] = @ + Sampling,
                                         !["token"] = lastTokenAt + ivl]
       /\ pending' = (pending \cup {"update"}) \ {"token"}
  ELSE RescheduleNothing(ivl)

\* rescheduleAddToken, based on the last token rather than on the switch, and
\* the re-arming of the update timer at the end of updateState.
RescheduleAddToken(ivl) ==
  IF addedFirstToken
  THEN /\ expiresAt' = [expiresAt EXCEPT !["update"] = @ + Sampling,
                                         !["token"] = lastTokenAt + ivl]
       /\ pending' = pending \cup {"update", "token"}
  ELSE /\ expiresAt' = [expiresAt EXCEPT !["update"] = @ + Sampling]
       /\ pending' = pending \cup {"update"}

SwitchState ==
  /\ Handles("update")
  /\ NextState # state
  /\ state' = NextState
  /\ enteredFrom' = state
  /\ since' = 0
  /\ interval' = Inherit(NextState)
  /\ RescheduleAddToken(interval'[NextState])
  /\ UNCHANGED <<ringVars, tokenVars>>

KeepState ==
  /\ Handles("update")
  /\ NextState = state
  /\ expiresAt' = [expiresAt EXCEPT !["update"] = @ + Sampling]
  /\ pending' = pending \cup {"update"}
  /\ UNCHANGED <<ringVars, stateVars, tokenVars, since>>

-----------------------------------------------------------------------------
\* Mutant of AddToken: the next token is scheduled from the previous one.
AddTokenFromLast ==
  /\ Handles("token")
  /\ tokens' = tokens + 1
  /\ lastTokenAt' = expiresAt["token"]
  /\ addedFirstToken' = TRUE
  /\ expiresAt' = [expiresAt EXCEPT !["token"] = lastTokenAt + interval[state]]
  /\ pending' = pending \cup {"token"}
  /\ UNCHANGED <<ringVars, stateVars, since>>

\* addToken grants a token (what the bucket does with it is in DccSender) and
\* takes the time of the token from the timer, whatever it was set to last.
AddToken ==
  /\ Handles("token")
  /\ tokens' = tokens + 1
  /\ lastTokenAt' = expiresAt["token"]
  /\ addedFirstToken' = TRUE
  /\ expiresAt' = [expiresAt EXCEPT !["token"] = @ + interval[state]]
  /\ pending' = pending \cup {"token"}
  /\ UNCHANGED <<ringVars, stateVars, since>>

Next ==
  \/ Tick
  \/ Poll
  \/ MeasureChannel
  \/ SwitchState
  \/ KeepState
  \/ AddToken

Spec == Init /\ [][Next]_vars

-----------------------------------------------------------------------------
TypeOK ==
  /\ now \in 0..MaxTime
  /\ Up!TypeOK /\ Down!TypeOK
  /\ state \in States /\ enteredFrom \in States
  /\ interval \in [States -> RelaxedInterval..RestrictedInterval]
  /\ expiresAt \in [Timers -> Nat]
  /\ pending \subseteq Timers
  /\ ready \in Seq(Timers)
  /\ lastTokenAt \in Nat /\ addedFirstToken \in BOOLEAN /\ tokens \in Nat
  /\ since \in 0..DownSize

\* No timer chain ever dies: each timer has a wait pending or its handler
\* posted, so measuring, state updates and tokens go on whatever switches of
\* state cancel and re-arm in between.
TimersStayArmed ==
  \A tm \in Timers : tm \in pending \/ tm \in Range(ready)

\* The next token is always due one interval of the CURRENT state after the
\* last one, also after a switch that meets a token handler already posted.
TokenTimerFollowsState ==
  addedFirstToken /\ "token" \in pending =>
    expiresAt["token"] = lastTokenAt + interval[state]

\* updateState never takes the minimum or maximum of an empty ring buffer.
NeverJudgesEmptyWindow ==
  ready # << >> /\ Head(ready) = "update" =>
    upEntries # << >> /\ downEntries # << >>

\* No flapping.  RESTRICTED, and an ACTIVE1 entered from RELAXED, are left
\* towards less restriction only after a full timeDown of measurements.
Relaxes ==
  \/ state = RESTRICTED /\ state' # RESTRICTED
  \/ state = ACTIVE1 /\ state' = RELAXED /\ enteredFrom = RELAXED

DwellsTimeDown == [][Relaxes => since = DownSize]_vars

\* However switches of state, early tokens and bursts that catch up on a
\* shortened interval interleave, the channel is never granted more than the
\* relaxed rate allows, give or take one restricted interval.
LongRunRate == tokens * RelaxedInterval <= now + RestrictedInterval

\* An active state keeps the interval of the state it was entered from.
ActiveKeepsReference ==
  state = ACTIVE1 /\ ActiveIsRef => interval[ACTIVE1] = interval[enteredFrom]

\* dcc.h on mLastTokenAt: "when was the last token added in this state".
LastTokenInThePast == lastTokenAt <= now

=============================================================================
