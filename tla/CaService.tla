----------------------------- MODULE CaService -----------------------------
(***************************************************************************)
(* When the CA service sends a CAM (cam/src/caservice.cpp).  The alarm     *)
(* handler on the io thread checks the generation rules one after the      *)
(* other: position, heading, speed, time.  The threads receiveGpsData and  *)
(* receiveObd2Data may replace the latest fix and the latest speed between *)
(* any two checks; each check takes the mutex of what it reads, so it is   *)
(* one step.                                                               *)
(*                                                                         *)
(* Positions are points with a Distance and a Bearing; speeds are          *)
(* integers.  A fix and a speed carry the time of their measurement.       *)
(***************************************************************************)
EXTENDS Integers

CONSTANTS Positions, Speeds,
          Origin,            \* the position in a default-constructed GPS
          Distance(_, _),    \* getDistance, in metres
          Bearing(_, _),     \* the angle getHeading computes, 0..359 degrees
          NextFix(_),        \* where a fix can be that follows one at p
          HeadingRadius,     \* mThresholdRadiusForHeading
          MaxGpsAge, MaxObd2Age,
          MaxCamInterval,    \* 1 s
          AlarmPeriod,       \* 100 ms
          IsRSU,             \* mIsRSU
          MaxTime            \* bound: the last instant of the clock

ASSUME CamAssumption ==
  /\ Origin \in Positions /\ Speeds \subseteq Int
  /\ \A p \in Positions : NextFix(p) \subseteq Positions
  /\ \A p, q \in Positions : Distance(p, q) \in Nat /\ Bearing(p, q) \in 0..359
  /\ \A p \in Positions : Distance(p, p) = 0
  /\ HeadingRadius \in Nat
  /\ MaxGpsAge \in Nat /\ MaxObd2Age \in Nat
  /\ MaxCamInterval \in Nat /\ AlarmPeriod \in Nat \ {0}
  /\ IsRSU \in BOOLEAN
  /\ MaxTime \in Nat

VARIABLES clock,
          pc,          \* the next check of the alarm handler
          alarmAt,     \* expiry of mTimer
          latestGps, latestObd2,
          gpsValid, obd2Valid,   \* mGpsValid, mObd2Valid
          lastSent,    \* mLastSentCamInfo
          cam,         \* history: the last CAM on its way to DCC and LDM
          course       \* history: the last heading known when a CAM was sent

vars == <<clock, pc, alarmAt, latestGps, latestObd2, gpsValid, obd2Valid,
          lastSent, cam, course>>

\* A time stamp of 0, before anything the clock has shown.
LongAgo == -(MaxGpsAge + MaxObd2Age + MaxCamInterval) - 1

None == [time |-> LongAgo]
NoHeading == -1

Abs(n) == IF n < 0 THEN -n ELSE n

Init ==
  /\ clock = 0
  /\ pc = "wait"
  /\ alarmAt = AlarmPeriod
  /\ latestGps = [pos |-> Origin, time |-> LongAgo]
  /\ latestObd2 = [speed |-> 0, time |-> LongAgo]
  /\ gpsValid = FALSE
  /\ obd2Valid = FALSE
  /\ lastSent = [hasGps |-> FALSE, gps |-> latestGps, heading |-> NoHeading,
                 obd2 |-> latestObd2, timestamp |-> LongAgo]
  /\ cam = [at |-> LongAgo, reason |-> "none", gps |-> None, obd2 |-> None]
  /\ course = NoHeading

\* The clock.  The alarm handler takes far less than a tick.
Tick ==
  /\ clock < MaxTime
  /\ pc = "wait"
  /\ clock < alarmAt
  /\ clock' = clock + 1
  /\ UNCHANGED <<pc, alarmAt, latestGps, latestObd2, gpsValid, obd2Valid,
                 lastSent, cam, course>>

-----------------------------------------------------------------------------
ReceiveGpsData ==
  /\ \E p \in NextFix(latestGps.pos) :
        latestGps' = [pos |-> p, time |-> clock]
  /\ UNCHANGED <<clock, pc, alarmAt, latestObd2, gpsValid, obd2Valid,
                 lastSent, cam, course>>

ReceiveObd2Data ==
  /\ \E s \in Speeds : latestObd2' = [speed |-> s, time |-> clock]
  /\ UNCHANGED <<clock, pc, alarmAt, latestGps, gpsValid, obd2Valid,
                 lastSent, cam, course>>

-----------------------------------------------------------------------------
\* Mutant of GetHeading: the angle is left between -180 and 180 degrees.
GetHeadingSigned(from, to) ==
  IF Distance(from, to) < HeadingRadius THEN NoHeading
  ELSE IF Bearing(from, to) > 180 THEN Bearing(from, to) - 360
  ELSE Bearing(from, to)

\* getHeading: no heading for a move that is too short to tell.
GetHeading(from, to) ==
  IF Distance(from, to) < HeadingRadius THEN NoHeading ELSE Bearing(from, to)

\* The difference of two headings, between -180 and 180 degrees.
HeadingDelta(current, last) ==
  LET d == current - last
  IN IF d > 180 THEN d - 360 ELSE IF d < -180 THEN d + 360 ELSE d

GpsTooOld == clock - latestGps.time > MaxGpsAge

\* Mutant of GpsValidity: valid once, valid for ever.
GpsValidityKept == gpsValid \/ ~ GpsTooOld

\* isGPSdataValid.
GpsValidity == ~ GpsTooOld

PositionChanged == Distance(lastSent.gps.pos, latestGps.pos) > 5

HeadingChanged ==
  LET current == GetHeading(lastSent.gps.pos, latestGps.pos)
  IN /\ current # NoHeading
     /\ Abs(HeadingDelta(current, lastSent.heading)) > 4

Obd2TooOld == clock - latestObd2.time > MaxObd2Age

SpeedChanged == Abs(latestObd2.speed - lastSent.obd2.speed) > 1

TimeToTrigger == clock - lastSent.timestamp >= MaxCamInterval

\* One check of alarm: go on to pc `next` unless the rule fires, in which case
\* the reason is sent to the LDM and trigger() is next.
Check(fires, reason, next) ==
  /\ pc' = IF fires THEN "send" ELSE next
  /\ cam' = IF fires THEN [cam EXCEPT !.reason = reason] ELSE cam
  /\ UNCHANGED <<clock, alarmAt, latestGps, latestObd2, lastSent, course>>

\* The alarm goes off and asks isGPSdataValid; without valid data the GPS
\* rules are skipped, with the first valid data a CAM is due.
CheckGps ==
  /\ pc = "wait"
  /\ clock >= alarmAt
  /\ gpsValid' = GpsValidity
  /\ Check(gpsValid' /\ ~ lastSent.hasGps, "First GPS data",
           IF gpsValid' THEN "position" ELSE "speed")
  /\ UNCHANGED obd2Valid

CheckPosition ==
  /\ pc = "position"
  /\ Check(PositionChanged, "distance", "heading")
  /\ UNCHANGED <<gpsValid, obd2Valid>>

CheckHeading ==
  /\ pc = "heading"
  /\ Check(HeadingChanged, "heading", "speed")
  /\ UNCHANGED <<gpsValid, obd2Valid>>

\* isSpeedChanged is also what keeps mObd2Valid up to date.
CheckSpeed ==
  /\ pc = "speed"
  /\ obd2Valid' = ~ Obd2TooOld
  /\ Check(~ Obd2TooOld /\ SpeedChanged, "speed", "time")
  /\ UNCHANGED gpsValid

\* Mutant of Rearm: the next alarm is due at once.
RearmAtOnce == alarmAt' = clock

\* scheduleNextAlarm.
Rearm == alarmAt' = clock + AlarmPeriod

\* Mutant of CheckTime: more than the maximal interval has to pass.
CheckTimeLate ==
  /\ pc = "time"
  /\ IF clock - lastSent.timestamp >= MaxCamInterval + AlarmPeriod
     THEN /\ pc' = "send"
          /\ cam' = [cam EXCEPT !.reason = "time"]
          /\ UNCHANGED alarmAt
     ELSE /\ pc' = "wait"
          /\ Rearm
          /\ UNCHANGED cam
  /\ UNCHANGED <<clock, latestGps, latestObd2, gpsValid, obd2Valid, lastSent,
                 course>>

\* The last check; if no rule fires the alarm is scheduled again.
CheckTime ==
  /\ pc = "time"
  /\ IF TimeToTrigger
     THEN /\ pc' = "send"
          /\ cam' = [cam EXCEPT !.reason = "time"]
          /\ UNCHANGED alarmAt
     ELSE /\ pc' = "wait"
          /\ Rearm
          /\ UNCHANGED cam
  /\ UNCHANGED <<clock, latestGps, latestObd2, gpsValid, obd2Valid, lastSent,
                 course>>

\* Mutant of NewLastSent: the reference is not moved to the fix in the CAM.
NewLastSentKeepGps ==
  [lastSent EXCEPT !.timestamp = clock,
                   !.hasGps = gpsValid,
                   !.obd2 = IF ~ IsRSU /\ obd2Valid THEN latestObd2 ELSE @]

\* generateCam: what later checks compare with.  The heading stored is that
\* of the move since the last CAM, NoHeading if the move was too short.
NewLastSent ==
  [lastSent EXCEPT
     !.timestamp = clock,
     !.hasGps = gpsValid,
     !.gps = IF gpsValid THEN latestGps ELSE @,
     !.heading = IF gpsValid THEN GetHeading(lastSent.gps.pos, latestGps.pos)
                             ELSE @,
     !.obd2 = IF ~ IsRSU /\ obd2Valid THEN latestObd2 ELSE @]

\* trigger(): generate the CAM with the latest data that is marked valid, send
\* it to DCC and LDM, schedule the next alarm.
Send ==
  /\ pc = "send"
  /\ lastSent' = NewLastSent
  /\ cam' = [cam EXCEPT
               !.at = clock,
               !.gps = IF gpsValid THEN latestGps ELSE None,
               !.obd2 = IF ~ IsRSU /\ obd2Valid THEN latestObd2 ELSE None]
  /\ course' = IF lastSent'.heading = NoHeading THEN course
                                               ELSE lastSent'.heading
  /\ pc' = "wait"
  /\ Rearm
  /\ UNCHANGED <<clock, latestGps, latestObd2, gpsValid, obd2Valid>>

Next ==
  \/ Tick
  \/ ReceiveGpsData
  \/ ReceiveObd2Data
  \/ CheckGps
  \/ CheckPosition
  \/ CheckHeading
  \/ CheckSpeed
  \/ CheckTime
  \/ Send

Spec == Init /\ [][Next]_vars

-----------------------------------------------------------------------------
Fix == [pos : Positions, time : Int]
Obd2 == [speed : Int, time : Int]
Reasons == {"none", "First GPS data", "distance", "heading", "speed", "time"}
LastSent == [hasGps : BOOLEAN, gps : Fix, obd2 : Obd2, timestamp : Int,
             heading : {NoHeading} \cup 0..359]
Cam == [at : Int, reason : Reasons, gps : Fix \cup {None},
        obd2 : Obd2 \cup {None}]

TypeOK ==
  /\ clock \in 0..MaxTime
  /\ pc \in {"wait", "position", "heading", "speed", "time", "send"}
  /\ alarmAt \in Nat
  /\ latestGps \in Fix
  /\ latestObd2 \in Obd2
  /\ gpsValid \in BOOLEAN /\ obd2Valid \in BOOLEAN
  /\ lastSent \in LastSent
  /\ cam \in Cam
  /\ course \in {NoHeading} \cup 0..359

\* The station never falls silent: whichever rules fire in between, one CAM
\* follows the other within the maximal interval and one alarm period.
NeverSilent ==
  clock > AlarmPeriod =>
    clock - lastSent.timestamp <= MaxCamInterval + AlarmPeriod

\* CAMs keep the minimal distance of one alarm period, also when a rule fires
\* at every alarm.
SpacedCams ==
  [][pc = "send" /\ pc' = "wait" => clock - cam.at >= AlarmPeriod]_vars

\* A CAM never carries a position that was too old when it was generated.
FreshPosition == cam.gps # None => cam.at - cam.gps.time <= MaxGpsAge

\* Position rule: a fix that an alarm has seen is at most 5 m away from the
\* position the neighbours know from the last CAM.
AnnouncedPosition ==
  /\ pc = "wait"
  /\ latestGps.time < alarmAt - AlarmPeriod
  /\ alarmAt - AlarmPeriod - latestGps.time <= MaxGpsAge
  => Distance(lastSent.gps.pos, latestGps.pos) <= 5

\* caservice.h:148: a CAM includes "the latest GPS and OBD2 data if it is not
\* too old (as configured)".
FreshSpeed == cam.obd2 # None => cam.at - cam.obd2.time <= MaxObd2Age

\* caservice.h:168 on the heading rule: "Checks if heading has changed more than
\* 4 degrees".  Of a vehicle whose heading was known before, the rule fires only
\* if the heading differs from that one.
HeadingRuleMeansTurn ==
  [][pc = "heading" /\ pc' = "send" /\ course # NoHeading =>
       Abs(HeadingDelta(GetHeading(lastSent.gps.pos, latestGps.pos), course))
         > 4]_vars

=============================================================================
