-------------------------- MODULE CaService_proofs --------------------------
(***************************************************************************)
(* For every road, speed, age limit and interval: the CA service never     *)
(* falls silent, keeps its CAMs one alarm period apart, never announces a  *)
(* position that is too old, and leaves none it has seen unannounced that  *)
(* is more than 5 m away.                                                  *)
(***************************************************************************)
EXTENDS CaService, TLAPS

\* The alarm timer and the last CAM.  While a check runs, the alarm is due; the
\* last check, one alarm period before the next, found the last CAM young
\* enough or sent one.
AlarmKept ==
  /\ clock <= alarmAt
  /\ pc # "wait" => clock = alarmAt
  /\ cam.at <= alarmAt - AlarmPeriod
  /\ alarmAt > AlarmPeriod =>
       lastSent.timestamp >= alarmAt - AlarmPeriod - MaxCamInterval

\* A fix found valid stays so until the CAM is generated.
FixValid ==
  pc # "wait" /\ gpsValid => clock - latestGps.time <= MaxGpsAge

CamInv == TypeOK /\ AlarmKept /\ FixValid /\ FreshPosition

-----------------------------------------------------------------------------
LEMMA ReasonFacts ==
  /\ "none" \in Reasons /\ "First GPS data" \in Reasons /\ "distance" \in Reasons
  /\ "heading" \in Reasons /\ "speed" \in Reasons /\ "time" \in Reasons
  BY DEF Reasons

\* The fields of the CAM that a rule leaves alone when it gives its reason.
LEMMA ReasonType ==
  ASSUME NEW c \in Cam, NEW reason \in Reasons,
         NEW d \in {c, [c EXCEPT !.reason = reason]}
  PROVE  d \in Cam /\ d.at = c.at /\ d.gps = c.gps
  BY DEF Cam

LEMMA HeadingType ==
  ASSUME NEW p \in Positions, NEW q \in Positions
  PROVE  GetHeading(p, q) \in {NoHeading} \cup 0..359
  BY CamAssumption DEF GetHeading

\* What generateCam remembers is what it read.
LEMMA NewLastSentType ==
  ASSUME TypeOK
  PROVE  /\ NewLastSent \in LastSent
         /\ NewLastSent.timestamp = clock
<1>1. /\ lastSent.gps.pos \in Positions /\ latestGps.pos \in Positions
      /\ clock \in Int
  BY CamAssumption DEF TypeOK, Fix, LastSent
<1>2. GetHeading(lastSent.gps.pos, latestGps.pos) \in {NoHeading} \cup 0..359
  BY <1>1, HeadingType
<1> DEFINE g == IF gpsValid THEN latestGps ELSE lastSent.gps
           h == IF gpsValid THEN GetHeading(lastSent.gps.pos, latestGps.pos)
                            ELSE lastSent.heading
           o == IF ~ IsRSU /\ obd2Valid THEN latestObd2 ELSE lastSent.obd2
<1>3. g \in Fix /\ h \in {NoHeading} \cup 0..359 /\ o \in Obd2
  BY <1>2 DEF TypeOK, LastSent
<1>4. NewLastSent = [lastSent EXCEPT !.timestamp = clock, !.hasGps = gpsValid,
                                     !.gps = g, !.heading = h, !.obd2 = o]
  BY DEF NewLastSent
<1> HIDE DEF g, h, o
<1>5. QED
  BY <1>1, <1>3, <1>4 DEF TypeOK, LastSent

LEMMA InitCamInv == Init => CamInv
<1> SUFFICES ASSUME Init PROVE CamInv
  OBVIOUS
<1>1. LongAgo \in Int /\ LongAgo < 0
  BY CamAssumption DEF LongAgo
<1>2. TypeOK
  <2>1. latestGps \in Fix /\ latestObd2 \in Obd2
    BY <1>1, CamAssumption DEF Init, Fix, Obd2
  <2>2. lastSent \in LastSent
    BY <1>1, <2>1 DEF Init, LastSent
  <2>3. cam \in Cam
    BY <1>1, ReasonFacts DEF Init, Cam
  <2>4. gpsValid \in BOOLEAN /\ obd2Valid \in BOOLEAN
    BY Zenon DEF Init
  <2>5. QED
    BY <1>1, <2>1, <2>2, <2>3, <2>4, CamAssumption DEF Init, TypeOK
<1>3. QED
  BY <1>1, <1>2, CamAssumption DEF Init, CamInv, AlarmKept, FixValid, FreshPosition

-----------------------------------------------------------------------------
LEMMA NextCamInv == CamInv /\ [Next]_vars => CamInv'
<1> SUFFICES ASSUME CamInv, [Next]_vars PROVE CamInv'
  OBVIOUS
<1> USE CamAssumption DEF CamInv
<1>0. /\ clock \in Nat /\ alarmAt \in Nat /\ lastSent.timestamp \in Int
      /\ latestGps.time \in Int /\ cam.at \in Int
  BY DEF TypeOK, Fix, LastSent, Cam
<1>1. CASE Tick
  BY <1>0, <1>1 DEF Tick, TypeOK, AlarmKept, FixValid, FreshPosition
<1>2. CASE ReceiveGpsData
  <2>1. latestGps' \in Fix /\ latestGps'.time = clock
    BY <1>0, <1>2 DEF ReceiveGpsData, TypeOK, Fix
  <2>2. QED
    BY <1>0, <1>2, <2>1
    DEF ReceiveGpsData, TypeOK, AlarmKept, FixValid, FreshPosition
<1>3. CASE ReceiveObd2Data
  <2>1. latestObd2' \in Obd2
    BY <1>0, <1>3 DEF ReceiveObd2Data, Obd2
  <2>2. QED
    BY <1>3, <2>1 DEF ReceiveObd2Data, TypeOK, AlarmKept, FixValid, FreshPosition
\* The checks differ in the rule, the reason and the next check only.
<1>4. ASSUME NEW reason \in Reasons,
             cam' \in {cam, [cam EXCEPT !.reason = reason]},
             pc' \in {"position", "heading", "speed", "time", "send"},
             UNCHANGED <<clock, alarmAt, latestGps, latestObd2, lastSent, course>>,
             clock = alarmAt,
             gpsValid' \in BOOLEAN, obd2Valid' \in BOOLEAN,
             gpsValid' => clock - latestGps.time <= MaxGpsAge
      PROVE  CamInv'
  <2>1. /\ cam' \in Cam
        /\ cam'.at = cam.at /\ cam'.gps = cam.gps
    <3>1. cam \in Cam
      BY DEF TypeOK
    <3>2. QED
      BY <1>4, <3>1, ReasonType
  <2>2. QED
    BY <1>0, <1>4, <2>1 DEF TypeOK, AlarmKept, FixValid, FreshPosition
<1>5. CASE CheckGps
  <2>1. clock = alarmAt
    <3>1. clock >= alarmAt
      BY <1>5 DEF CheckGps
    <3>2. QED
      BY <1>0, <3>1 DEF AlarmKept
  <2>2. gpsValid' \in BOOLEAN /\ obd2Valid' \in BOOLEAN
    <3>1. gpsValid' = ~ GpsTooOld /\ obd2Valid' = obd2Valid
      BY <1>5 DEF CheckGps, GpsValidity
    <3>2. obd2Valid \in BOOLEAN
      BY DEF TypeOK
    <3>3. QED
      BY <3>1, <3>2, Zenon
  <2>3. gpsValid' => ~ GpsTooOld
    BY <1>5 DEF CheckGps, GpsValidity
  <2>4. gpsValid' => clock - latestGps.time <= MaxGpsAge
    BY <1>0, <2>3 DEF GpsTooOld
  <2>5. /\ pc' \in {"position", "speed", "send"}
        /\ cam' \in {cam, [cam EXCEPT !.reason = "First GPS data"]}
        /\ UNCHANGED <<clock, alarmAt, latestGps, latestObd2, lastSent, course>>
    BY <1>5 DEF CheckGps, Check
  <2>6. QED
    BY <1>4, <2>1, <2>2, <2>4, <2>5, ReasonFacts
<1>6. CASE CheckPosition
  <2>1. /\ pc' \in {"heading", "send"}
        /\ cam' \in {cam, [cam EXCEPT !.reason = "distance"]}
        /\ UNCHANGED <<clock, alarmAt, latestGps, latestObd2, lastSent, course>>
        /\ UNCHANGED <<gpsValid, obd2Valid>>
    BY <1>6 DEF CheckPosition, Check
  <2>2. clock = alarmAt /\ (gpsValid => clock - latestGps.time <= MaxGpsAge)
    BY <1>0, <1>6 DEF CheckPosition, AlarmKept, FixValid
  <2>3. gpsValid \in BOOLEAN /\ obd2Valid \in BOOLEAN
    BY DEF TypeOK
  <2>4. QED
    BY <1>4, <2>1, <2>2, <2>3, ReasonFacts
<1>7. CASE CheckHeading
  <2>1. /\ pc' \in {"speed", "send"}
        /\ cam' \in {cam, [cam EXCEPT !.reason = "heading"]}
        /\ UNCHANGED <<clock, alarmAt, latestGps, latestObd2, lastSent, course>>
        /\ UNCHANGED <<gpsValid, obd2Valid>>
    BY <1>7 DEF CheckHeading, Check
  <2>2. clock = alarmAt /\ (gpsValid => clock - latestGps.time <= MaxGpsAge)
    BY <1>0, <1>7 DEF CheckHeading, AlarmKept, FixValid
  <2>3. gpsValid \in BOOLEAN /\ obd2Valid \in BOOLEAN
    BY DEF TypeOK
  <2>4. QED
    BY <1>4, <2>1, <2>2, <2>3, ReasonFacts
<1>8. CASE CheckSpeed
  <2>1. /\ pc' \in {"time", "send"}
        /\ cam' \in {cam, [cam EXCEPT !.reason = "speed"]}
        /\ UNCHANGED <<clock, alarmAt, latestGps, latestObd2, lastSent, course>>
        /\ UNCHANGED gpsValid
    BY <1>8 DEF CheckSpeed, Check
  <2>2. clock = alarmAt /\ (gpsValid => clock - latestGps.time <= MaxGpsAge)
    BY <1>0, <1>8 DEF CheckSpeed, AlarmKept, FixValid
  <2>3. gpsValid \in BOOLEAN
    BY DEF TypeOK
  <2>4. obd2Valid' \in BOOLEAN
    BY <1>8, Zenon DEF CheckSpeed
  <2>5. QED
    BY <1>4, <2>1, <2>2, <2>3, <2>4, ReasonFacts
<1>9. CASE CheckTime
  <2>1. clock = alarmAt
    BY <1>9 DEF CheckTime, AlarmKept
  <2>2. /\ cam' \in Cam
        /\ cam'.at = cam.at /\ cam'.gps = cam.gps
    <3>1. cam' \in {cam, [cam EXCEPT !.reason = "time"]}
      BY <1>9 DEF CheckTime
    <3>2. cam \in Cam /\ "time" \in Reasons
      BY ReasonFacts DEF TypeOK
    <3>3. QED
      BY <3>1, <3>2, ReasonType
  <2>3. CASE TimeToTrigger
    BY <1>0, <1>9, <2>1, <2>2, <2>3
    DEF CheckTime, TypeOK, AlarmKept, FixValid, FreshPosition
  <2>4. CASE ~ TimeToTrigger
    <3>1. pc' = "wait" /\ alarmAt' = clock + AlarmPeriod
      BY <1>9, <2>4 DEF CheckTime, Rearm
    <3>2. lastSent.timestamp >= clock - MaxCamInterval
      BY <1>0, <2>4 DEF TimeToTrigger
    <3>3. QED
      BY <1>0, <1>9, <2>1, <2>2, <3>1, <3>2
      DEF CheckTime, TypeOK, AlarmKept, FixValid, FreshPosition
  <2>5. QED
    BY <2>3, <2>4
<1>10. CASE Send
  <2> DEFINE g == IF gpsValid THEN latestGps ELSE None
             o == IF ~ IsRSU /\ obd2Valid THEN latestObd2 ELSE None
  <2>1. /\ clock = alarmAt /\ pc' = "wait" /\ alarmAt' = clock + AlarmPeriod
        /\ lastSent' = NewLastSent
    BY <1>10 DEF Send, AlarmKept, Rearm
  <2>2. g \in Fix \cup {None} /\ o \in Obd2 \cup {None}
    BY DEF TypeOK
  <2>3. cam' = [cam EXCEPT !.at = clock, !.gps = g, !.obd2 = o]
    BY <1>10 DEF Send
  <2>4. g # None => clock - g.time <= MaxGpsAge
    BY <1>10 DEF Send, FixValid
  <2> HIDE DEF g, o
  <2>5. /\ cam' \in Cam
        /\ cam'.at = clock /\ cam'.gps = g
    <3>1. cam \in Cam
      BY DEF TypeOK
    <3>2. clock \in Int
      BY <1>0
    <3>3. QED
      BY <2>2, <2>3, <3>1, <3>2 DEF Cam
  <2>6. course' \in {NoHeading} \cup 0..359
    BY <1>10, <2>1, NewLastSentType DEF Send, TypeOK, LastSent
  <2>7. TypeOK'
    BY <1>0, <1>10, <2>1, <2>5, <2>6, NewLastSentType DEF Send, TypeOK
  <2>8. QED
    BY <1>0, <1>10, <2>1, <2>4, <2>5, <2>7, NewLastSentType
    DEF Send, AlarmKept, FixValid, FreshPosition
<1>11. CASE UNCHANGED vars
  BY <1>11 DEF vars, TypeOK, AlarmKept, FixValid, FreshPosition
<1>12. QED
  BY <1>1, <1>2, <1>3, <1>5, <1>6, <1>7, <1>8, <1>9, <1>10, <1>11 DEF Next

\* For every configuration the fields of fixes, CAMs and the record of the last
\* CAM stay in their ranges; headings are whole degrees or the sentinel -1
\* (getHeading of caservice.cpp).
THEOREM CamTypeCorrect == Spec => []TypeOK
<1>1. CamInv => TypeOK
  BY DEF CamInv
<1>2. QED
  BY InitCamInv, NextCamInv, <1>1, PTL DEF Spec

\* For every configuration a CAM follows the last one within the maximal
\* interval and one alarm period, whichever rules fire in between (alarm,
\* trigger and scheduleNextAlarm of caservice.cpp).
THEOREM CamsKeepComing == Spec => []NeverSilent
<1>1. CamInv => NeverSilent
  BY CamAssumption DEF CamInv, TypeOK, AlarmKept, NeverSilent, LastSent
<1>2. QED
  BY InitCamInv, NextCamInv, <1>1, PTL DEF Spec

\* For every configuration and every interleaving of the receiver thread with
\* the checks, the position in a CAM was young enough when the CAM was
\* generated (isGPSdataValid and generateCam of caservice.cpp).
THEOREM CamPositionsFresh == Spec => []FreshPosition
<1>1. CamInv => FreshPosition
  BY DEF CamInv
<1>2. QED
  BY InitCamInv, NextCamInv, <1>1, PTL DEF Spec

\* For every configuration two CAMs are at least one alarm period apart, also
\* when a rule fires at every alarm (trigger of caservice.cpp).
THEOREM CamsAreSpaced == Spec => SpacedCams
<1>1. ASSUME CamInv, pc = "send"
      PROVE  clock - cam.at >= AlarmPeriod
  <2>1. clock = alarmAt /\ cam.at <= alarmAt - AlarmPeriod
    BY <1>1 DEF CamInv, AlarmKept
  <2>2. cam.at \in Int /\ clock \in Int
    BY <1>1, CamAssumption DEF CamInv, TypeOK, Cam
  <2>3. QED
    BY <2>1, <2>2, CamAssumption
<1>2. CamInv /\ [Next]_vars =>
        [pc = "send" /\ pc' = "wait" => clock - cam.at >= AlarmPeriod]_vars
  BY <1>1
<1>3. QED
  BY InitCamInv, NextCamInv, <1>2, PTL DEF Spec, SpacedCams

-----------------------------------------------------------------------------
\* A fix that was there before the current instant and is young enough: the
\* checks of this instant have seen it from the first one on.
OlderFix == latestGps.time < clock /\ clock - latestGps.time <= MaxGpsAge

\* Between two alarms the position rule holds for what the last alarm saw; while
\* an alarm runs, an older fix was found valid, and once the position rule has
\* been asked, it is near the position in the last CAM.
PositionKept ==
  /\ pc = "wait" => clock >= alarmAt - AlarmPeriod
  /\ AnnouncedPosition
  /\ pc # "wait" /\ OlderFix => gpsValid
  /\ pc \in {"heading", "speed", "time"} /\ OlderFix =>
       Distance(lastSent.gps.pos, latestGps.pos) <= 5

PositionInv == CamInv /\ PositionKept

LEMMA InitPositionInv == Init => PositionInv
<1> SUFFICES ASSUME Init PROVE PositionInv
  OBVIOUS
<1>1. LongAgo \in Int /\ -LongAgo > MaxGpsAge
  BY CamAssumption DEF LongAgo
<1>2. PositionKept
  BY <1>1, CamAssumption DEF Init, PositionKept, AnnouncedPosition, OlderFix
<1>3. QED
  BY <1>2, InitCamInv DEF PositionInv

LEMMA NextPositionInv == PositionInv /\ [Next]_vars => PositionInv'
<1> SUFFICES ASSUME PositionInv, [Next]_vars PROVE PositionInv'
  OBVIOUS
<1>1. CamInv /\ CamInv'
  BY NextCamInv DEF PositionInv
<1>2. /\ clock \in Nat /\ alarmAt \in Nat /\ latestGps.time \in Int
      /\ lastSent.gps.pos \in Positions /\ latestGps.pos \in Positions
      /\ Distance(lastSent.gps.pos, latestGps.pos) \in Nat
      /\ AlarmPeriod \in Nat \ {0} /\ MaxGpsAge \in Nat
  BY <1>1, CamAssumption DEF CamInv, TypeOK, Fix, LastSent
<1>3. pc # "wait" => clock = alarmAt
  BY <1>1 DEF CamInv, AlarmKept
<1>4. PositionKept
  BY DEF PositionInv
<1> SUFFICES PositionKept'
  BY <1>1 DEF PositionInv
<1>5. CASE Tick
  BY <1>2, <1>4, <1>5 DEF Tick, PositionKept, AnnouncedPosition, OlderFix
\* The new fix is as young as the clock: no alarm has seen it yet.
<1>6. CASE ReceiveGpsData
  <2>1. latestGps'.time = clock
    BY <1>6 DEF ReceiveGpsData
  <2>2. QED
    BY <1>2, <1>4, <1>6, <2>1
    DEF ReceiveGpsData, PositionKept, AnnouncedPosition, OlderFix
<1>7. CASE ReceiveObd2Data
  BY <1>4, <1>7 DEF ReceiveObd2Data, PositionKept, AnnouncedPosition, OlderFix
\* An invalid fix is too old to be an older fix in this sense.
<1>8. CASE CheckGps
  <2>1. /\ gpsValid' = ~ GpsTooOld
        /\ pc' \in {"position", "speed", "send"}
        /\ pc' = "speed" => ~ gpsValid'
        /\ UNCHANGED <<clock, alarmAt, latestGps, lastSent>>
    BY <1>8, Zenon DEF CheckGps, Check, GpsValidity
  <2>2. GpsTooOld => ~ OlderFix'
    BY <1>2, <2>1 DEF GpsTooOld, OlderFix
  <2>3. OlderFix' => gpsValid'
    BY <2>1, <2>2, Zenon
  <2>4. QED
    BY <2>1, <2>3 DEF PositionKept, AnnouncedPosition
<1>9. CASE CheckPosition
  <2>1. /\ pc' \in {"heading", "send"}
        /\ pc' = "heading" => ~ PositionChanged
        /\ UNCHANGED <<clock, alarmAt, latestGps, lastSent, gpsValid>>
        /\ pc = "position"
    BY <1>9 DEF CheckPosition, Check
  <2>2. pc' = "heading" => Distance(lastSent.gps.pos, latestGps.pos) <= 5
    BY <1>2, <2>1 DEF PositionChanged
  <2>3. QED
    BY <1>4, <2>1, <2>2 DEF PositionKept, AnnouncedPosition, OlderFix
<1>10. CASE CheckHeading
  <2>1. /\ pc' \in {"speed", "send"}
        /\ UNCHANGED <<clock, alarmAt, latestGps, lastSent, gpsValid>>
        /\ pc = "heading"
    BY <1>10 DEF CheckHeading, Check
  <2>2. QED
    BY <1>4, <2>1 DEF PositionKept, AnnouncedPosition, OlderFix
<1>11. CASE CheckSpeed
  <2>1. /\ pc' \in {"time", "send"}
        /\ UNCHANGED <<clock, alarmAt, latestGps, lastSent, gpsValid>>
        /\ pc = "speed"
    BY <1>11 DEF CheckSpeed, Check
  <2>2. QED
    BY <1>4, <2>1 DEF PositionKept, AnnouncedPosition, OlderFix
<1>12. CASE CheckTime
  <2>1. /\ pc = "time"
        /\ \/ pc' = "send" /\ alarmAt' = alarmAt
           \/ pc' = "wait" /\ alarmAt' = clock + AlarmPeriod
        /\ UNCHANGED <<clock, latestGps, lastSent, gpsValid>>
    BY <1>12 DEF CheckTime, Rearm
  <2>2. QED
    BY <1>2, <1>4, <2>1 DEF PositionKept, AnnouncedPosition, OlderFix
\* The CAM announces the fix if it is marked valid; if it is not, the fix is
\* not one that the alarm owes.
<1>13. CASE Send
  <2>1. /\ pc = "send" /\ pc' = "wait" /\ alarmAt' = clock + AlarmPeriod
        /\ lastSent' = NewLastSent
        /\ UNCHANGED <<clock, latestGps, gpsValid>>
    BY <1>13 DEF Send, Rearm
  <2>2. gpsValid => lastSent'.gps = latestGps
    BY <1>1, <2>1 DEF NewLastSent, CamInv, TypeOK, LastSent
  <2>3. gpsValid => Distance(lastSent'.gps.pos, latestGps'.pos) = 0
    BY <1>2, <2>1, <2>2, CamAssumption
  <2>4. ~ gpsValid => ~ OlderFix
    BY <1>4, <2>1 DEF PositionKept
  <2>5. AnnouncedPosition'
    BY <1>2, <2>1, <2>3, <2>4 DEF AnnouncedPosition, OlderFix
  <2>6. QED
    BY <1>2, <2>1, <2>5 DEF PositionKept
<1>14. CASE UNCHANGED vars
  BY <1>4, <1>14 DEF vars, PositionKept, AnnouncedPosition, OlderFix
<1>15. QED
  BY <1>5, <1>6, <1>7, <1>8, <1>9, <1>10, <1>11, <1>12, <1>13, <1>14 DEF Next

\* For every road, age limit and alarm period: once an alarm has seen a fix that
\* is young enough, the position of the last CAM is at most 5 m away from it,
\* whichever rule sent that CAM and whatever the receiver thread changed between
\* the checks (isPositionChanged, trigger and generateCam of caservice.cpp).
THEOREM PositionsAnnounced == Spec => []AnnouncedPosition
<1>1. PositionInv => AnnouncedPosition
  BY DEF PositionInv, PositionKept
<1>2. QED
  BY InitPositionInv, NextPositionInv, <1>1, PTL DEF Spec

=============================================================================
