-------------------------- MODULE DccControl_proofs --------------------------
(***************************************************************************)
(* For every configuration of loads, windows and intervals: the control    *)
(* loop of the DCC is type correct, its three timer chains never die, the  *)
(* next token is due one interval of the current state after the last, the *)
(* rate is bounded in the long run, and no state is judged by an empty     *)
(* window or left before the window has passed.                            *)
(***************************************************************************)
EXTENDS DccControl, SequenceTheorems, TLAPS

RingsOK == Up!WrapsOnlyWhenFull /\ Down!WrapsOnlyWhenFull

TypeInv == TypeOK /\ RingsOK

-----------------------------------------------------------------------------
\* One insertion into either ring buffer (RingBuffer_proofs proves it of the
\* ring buffer on its own).
LEMMA UpInsert ==
  ASSUME Up!TypeOK, Up!WrapsOnlyWhenFull, NEW o \in Loads, Up!Insert(o)
  PROVE  Up!TypeOK' /\ Up!WrapsOnlyWhenFull'
<1> USE ControlAssumption DEF Up!TypeOK, Up!WrapsOnlyWhenFull, Up!END
<1>1. CASE Up!Grow(o)
  BY <1>1, AppendProperties DEF Up!Grow
<1>2. CASE Up!Overwrite(o)
  <2>1. Up!Position \in 1..Len(upEntries) /\ Len(upEntries) = UpSize
    BY <1>2 DEF Up!Overwrite, Up!Position
  <2>2. upEntries' \in Seq(Loads) /\ Len(upEntries') = Len(upEntries)
    BY <1>2, <2>1, ExceptSeq DEF Up!Overwrite
  <2>3. QED
    BY <1>2, <2>1, <2>2 DEF Up!Overwrite
<1>3. QED
  BY <1>1, <1>2 DEF Up!Insert

LEMMA DownInsert ==
  ASSUME Down!TypeOK, Down!WrapsOnlyWhenFull, NEW o \in Loads, Down!Insert(o)
  PROVE  Down!TypeOK' /\ Down!WrapsOnlyWhenFull'
<1> USE ControlAssumption DEF Down!TypeOK, Down!WrapsOnlyWhenFull, Down!END
<1>1. CASE Down!Grow(o)
  BY <1>1, AppendProperties DEF Down!Grow
<1>2. CASE Down!Overwrite(o)
  <2>1. Down!Position \in 1..Len(downEntries) /\ Len(downEntries) = DownSize
    BY <1>2 DEF Down!Overwrite, Down!Position
  <2>2. downEntries' \in Seq(Loads) /\ Len(downEntries') = Len(downEntries)
    BY <1>2, <2>1, ExceptSeq DEF Down!Overwrite
  <2>3. QED
    BY <1>2, <2>1, <2>2 DEF Down!Overwrite
<1>3. QED
  BY <1>1, <1>2 DEF Down!Insert

\* A step that inserts nothing.
LEMMA RingsUnchanged ==
  ASSUME Up!TypeOK, Down!TypeOK, RingsOK, UNCHANGED ringVars
  PROVE  Up!TypeOK' /\ Down!TypeOK' /\ RingsOK'
  BY DEF ringVars, RingsOK, Up!TypeOK, Down!TypeOK,
         Up!WrapsOnlyWhenFull, Down!WrapsOnlyWhenFull

\* A handler takes the oldest posted one.
LEMMA HandlesReady ==
  ASSUME ready \in Seq(Timers), NEW tm \in Timers, Handles(tm)
  PROVE  /\ ready' \in Seq(Timers)
         /\ Range(ready) = Range(ready') \cup {tm}
<1>1. /\ ready # << >> /\ ready' = Tail(ready) /\ ready[1] = tm
  BY DEF Handles
<1>2. /\ ready' \in Seq(Timers) /\ Len(ready') = Len(ready) - 1
      /\ \A i \in 1..Len(ready) - 1 : ready'[i] = ready[i + 1]
      /\ Len(ready) \in Nat \ {0}
      /\ DOMAIN ready = 1..Len(ready) /\ DOMAIN ready' = 1..Len(ready) - 1
  BY <1>1, HeadTailProperties
<1>3. ASSUME NEW i \in DOMAIN ready PROVE ready[i] \in Range(ready') \cup {tm}
  <2>1. CASE i = 1
    BY <1>1, <2>1
  <2>2. CASE i # 1
    <3>1. i - 1 \in DOMAIN ready' /\ ready'[i - 1] = ready[i]
      BY <1>2, <2>2
    <3>2. QED
      BY <3>1 DEF Range
  <2>3. QED
    BY <2>1, <2>2
<1>4. ASSUME NEW i \in DOMAIN ready' PROVE ready'[i] \in Range(ready)
  <2>1. i + 1 \in DOMAIN ready /\ ready'[i] = ready[i + 1]
    BY <1>2
  <2>2. QED
    BY <2>1 DEF Range
<1>5. tm \in Range(ready)
  BY <1>1, <1>2 DEF Range
<1>6. QED
  BY <1>2, <1>3, <1>4, <1>5 DEF Range

\* The intervals after a switch of state.
LEMMA InheritType ==
  ASSUME NEW s \in States, state \in States,
         interval \in [States -> RelaxedInterval..RestrictedInterval]
  PROVE  Inherit(s) \in [States -> RelaxedInterval..RestrictedInterval]
  BY DEF Inherit, States

LEMMA NextStateType == state \in States => NextState \in States
  BY DEF NextState, States

-----------------------------------------------------------------------------
LEMMA InitTypeInv == Init => TypeInv
<1> SUFFICES ASSUME Init PROVE TypeInv
  OBVIOUS
<1>1. Up!TypeOK /\ Down!TypeOK /\ RingsOK
  BY ControlAssumption, EmptySeq
  DEF Init, Up!Init, Down!Init, RingsOK, Up!TypeOK, Down!TypeOK, Up!END,
      Down!END, Up!WrapsOnlyWhenFull, Down!WrapsOnlyWhenFull
<1>2. interval \in [States -> RelaxedInterval..RestrictedInterval]
  BY ControlAssumption DEF Init, States, RELAXED, ACTIVE1, RESTRICTED
<1>3. expiresAt \in [Timers -> Nat]
  BY ControlAssumption DEF Init, FirstExpiry, Timers
<1>4. ready \in Seq(Timers) /\ pending \subseteq Timers
  BY EmptySeq DEF Init
<1>5. state \in States /\ enteredFrom \in States
  BY DEF Init, States
<1>6. /\ now \in 0..MaxTime /\ since \in 0..DownSize
      /\ lastTokenAt \in Nat /\ tokens \in Nat
  BY ControlAssumption DEF Init
<1>7. addedFirstToken \in BOOLEAN
  BY Zenon DEF Init
<1>8. QED
  BY <1>1, <1>2, <1>3, <1>4, <1>5, <1>6, <1>7 DEF TypeInv, TypeOK

LEMMA NextTypeInv == TypeInv /\ [Next]_vars => TypeInv'
<1> SUFFICES ASSUME TypeInv, [Next]_vars PROVE TypeInv'
  OBVIOUS
<1> USE ControlAssumption DEF TypeInv, TypeOK
<1>0. "measure" \in Timers /\ "update" \in Timers /\ "token" \in Timers
  BY DEF Timers
<1>1. CASE Tick
  BY <1>1, RingsUnchanged DEF Tick, stateVars, tokenVars
<1>2. CASE Poll
  <2>1. ready' \in Seq(Timers)
    BY <1>2 DEF Poll
  <2>2. pending' \subseteq Timers
    BY <1>2 DEF Poll
  <2>3. QED
    BY <1>2, <2>1, <2>2, RingsUnchanged DEF Poll, stateVars, tokenVars
<1>3. CASE MeasureChannel
  <2>1. Up!TypeOK' /\ Down!TypeOK' /\ RingsOK'
    BY <1>3, UpInsert, DownInsert DEF MeasureChannel, RingsOK
  <2>2. ready' \in Seq(Timers)
    BY <1>0, <1>3, HandlesReady DEF MeasureChannel
  <2>3. expiresAt' \in [Timers -> Nat] /\ since' \in 0..DownSize
    BY <1>0, <1>3 DEF MeasureChannel
  <2>4. QED
    BY <1>0, <1>3, <2>1, <2>2, <2>3
    DEF MeasureChannel, Handles, stateVars, tokenVars
<1>4. CASE SwitchState
  <2>1. NextState \in States
    BY NextStateType
  <2>2. interval' \in [States -> RelaxedInterval..RestrictedInterval]
    BY <1>4, <2>1, InheritType DEF SwitchState
  <2>3. interval'[NextState] \in Nat
    BY <2>1, <2>2
  <2>4. ready' \in Seq(Timers)
    BY <1>0, <1>4, HandlesReady DEF SwitchState
  <2>5. expiresAt' \in [Timers -> Nat] /\ pending' \subseteq Timers
    <3>1. CASE addedFirstToken
      <4>1. lastTokenAt + interval'[NextState] \in Nat
        BY <2>3
      <4>2. expiresAt' = [[expiresAt EXCEPT !["update"] = @ + Sampling]
                            EXCEPT !["token"] = lastTokenAt + interval'[NextState]]
        BY <1>4, <3>1 DEF SwitchState, RescheduleAddToken
      <4>3. pending' = pending \cup {"update", "token"}
        BY <1>4, <3>1 DEF SwitchState, RescheduleAddToken
      <4>4. QED
        BY <1>0, <4>1, <4>2, <4>3
    <3>2. CASE ~ addedFirstToken
      BY <1>0, <1>4, <3>2 DEF SwitchState, RescheduleAddToken
    <3>3. QED
      BY <3>1, <3>2
  <2>6. QED
    BY <1>4, <2>1, <2>2, <2>4, <2>5, RingsUnchanged
    DEF SwitchState, Handles, tokenVars
<1>5. CASE KeepState
  <2>1. ready' \in Seq(Timers)
    BY <1>0, <1>5, HandlesReady DEF KeepState
  <2>2. expiresAt' \in [Timers -> Nat] /\ pending' \subseteq Timers
    BY <1>0, <1>5 DEF KeepState
  <2>3. QED
    BY <1>5, <2>1, <2>2, RingsUnchanged
    DEF KeepState, Handles, stateVars, tokenVars
<1>6. CASE AddToken
  <2>1. ready' \in Seq(Timers)
    BY <1>0, <1>6, HandlesReady DEF AddToken
  <2>2. expiresAt' \in [Timers -> Nat] /\ pending' \subseteq Timers
    BY <1>0, <1>6 DEF AddToken
  <2>3. tokens' \in Nat /\ lastTokenAt' \in Nat /\ addedFirstToken' \in BOOLEAN
    BY <1>0, <1>6 DEF AddToken
  <2>4. QED
    BY <1>6, <2>1, <2>2, <2>3, RingsUnchanged
    DEF AddToken, Handles, stateVars
<1>7. CASE UNCHANGED vars
  BY <1>7, RingsUnchanged DEF vars, stateVars, tokenVars
<1>8. QED
  BY <1>1, <1>2, <1>3, <1>4, <1>5, <1>6, <1>7 DEF Next

\* Type correctness for every configuration; both ring buffers stay within
\* their sizes and every token interval within those of the configuration.
THEOREM ControlTypeCorrect == Spec => []TypeOK
<1>1. TypeInv => TypeOK
  BY DEF TypeInv
<1>2. QED
  BY InitTypeInv, NextTypeInv, <1>1, PTL DEF Spec

-----------------------------------------------------------------------------
\* The handler that a poll does not post stays pending; the one a handler takes
\* from the posted ones is armed again before it returns.
LEMMA NextTimersStayArmed ==
  TypeInv /\ TimersStayArmed /\ [Next]_vars => TimersStayArmed'
<1> SUFFICES ASSUME TypeInv, TimersStayArmed, [Next]_vars
             PROVE  TimersStayArmed'
  OBVIOUS
<1> USE DEF TimersStayArmed
<1>0. /\ ready \in Seq(Timers)
      /\ "measure" \in Timers /\ "update" \in Timers /\ "token" \in Timers
  BY DEF TypeInv, TypeOK, Timers
<1>1. CASE Tick
  BY <1>1 DEF Tick
<1>2. CASE Poll
  <2>1. pending' = pending \ Range(ready') /\ ready = << >>
    BY <1>2 DEF Poll
  <2>2. Range(ready) = {}
    BY <2>1 DEF Range
  <2>3. QED
    BY <2>1, <2>2
<1>3. ASSUME NEW tm \in Timers, Handles(tm), pending \cup {tm} \subseteq pending'
      PROVE  TimersStayArmed'
  BY <1>0, <1>3, HandlesReady
<1>4. CASE MeasureChannel
  BY <1>0, <1>3, <1>4 DEF MeasureChannel
<1>5. CASE SwitchState
  <2>1. pending \cup {"update"} \subseteq pending'
    BY <1>5 DEF SwitchState, RescheduleAddToken
  <2>2. QED
    BY <1>0, <1>3, <1>5, <2>1 DEF SwitchState
<1>6. CASE KeepState
  BY <1>0, <1>3, <1>6 DEF KeepState
<1>7. CASE AddToken
  BY <1>0, <1>3, <1>7 DEF AddToken
<1>8. CASE UNCHANGED vars
  BY <1>8 DEF vars
<1>9. QED
  BY <1>1, <1>2, <1>4, <1>5, <1>6, <1>7, <1>8 DEF Next

\* The three timer chains never die, for every configuration: whatever a switch
\* of state cancels it arms again (rescheduleAddToken, addToken, updateState and
\* measureChannel in dcc.cpp).
THEOREM TimerChainsSurvive == Spec => []TimersStayArmed
<1>1. Init => TimersStayArmed
  BY DEF Init, TimersStayArmed
<1>2. QED
  BY InitTypeInv, NextTypeInv, NextTimersStayArmed, <1>1, PTL DEF Spec

-----------------------------------------------------------------------------
LEMMA NextTokenTimer ==
  TypeInv /\ TokenTimerFollowsState /\ [Next]_vars => TokenTimerFollowsState'
<1> SUFFICES ASSUME TypeInv, TokenTimerFollowsState, [Next]_vars
             PROVE  TokenTimerFollowsState'
  OBVIOUS
<1> USE DEF TokenTimerFollowsState
<1>0. /\ expiresAt \in [Timers -> Nat]
      /\ "measure" \in Timers /\ "update" \in Timers /\ "token" \in Timers
  BY DEF TypeInv, TypeOK, Timers
<1>1. CASE Tick
  BY <1>1 DEF Tick, stateVars, tokenVars
<1>2. CASE Poll
  <2>1. pending' \subseteq pending
    BY <1>2 DEF Poll
  <2>2. QED
    BY <1>2, <2>1 DEF Poll, stateVars, tokenVars
<1>3. CASE MeasureChannel
  <2>1. expiresAt'["token"] = expiresAt["token"]
    BY <1>0, <1>3 DEF MeasureChannel
  <2>2. "token" \in pending' => "token" \in pending
    BY <1>3 DEF MeasureChannel
  <2>3. QED
    BY <1>3, <2>1, <2>2 DEF MeasureChannel, stateVars, tokenVars
<1>4. CASE SwitchState
  <2>1. CASE addedFirstToken
    <3>1. expiresAt' = [[expiresAt EXCEPT !["update"] = @ + Sampling]
                          EXCEPT !["token"] = lastTokenAt + interval'[NextState]]
      BY <1>4, <2>1 DEF SwitchState, RescheduleAddToken
    <3>2. expiresAt'["token"] = lastTokenAt + interval'[NextState]
      BY <1>0, <3>1
    <3>3. QED
      BY <1>4, <3>2 DEF SwitchState, tokenVars
  <2>2. CASE ~ addedFirstToken
    BY <1>4, <2>2 DEF SwitchState, tokenVars
  <2>3. QED
    BY <2>1, <2>2
<1>5. CASE KeepState
  <2>1. expiresAt'["token"] = expiresAt["token"]
    BY <1>0, <1>5 DEF KeepState
  <2>2. "token" \in pending' => "token" \in pending
    BY <1>5 DEF KeepState
  <2>3. QED
    BY <1>5, <2>1, <2>2 DEF KeepState, stateVars, tokenVars
<1>6. CASE AddToken
  <2>1. expiresAt'["token"] = expiresAt["token"] + interval[state]
    BY <1>0, <1>6 DEF AddToken
  <2>2. QED
    BY <1>6, <2>1 DEF AddToken, stateVars
<1>7. CASE UNCHANGED vars
  BY <1>7 DEF vars, stateVars, tokenVars
<1>8. QED
  BY <1>1, <1>2, <1>3, <1>4, <1>5, <1>6, <1>7 DEF Next

\* For every configuration: a pending token is due one interval of the current
\* state after the last one, also when the switch of state met a token handler
\* that was already posted (rescheduleAddToken and addToken in dcc.cpp).
THEOREM TokenDueOneIntervalLater == Spec => []TokenTimerFollowsState
<1>1. Init => TokenTimerFollowsState
  BY DEF Init, TokenTimerFollowsState
<1>2. QED
  BY InitTypeInv, NextTypeInv, NextTokenTimer, <1>1, PTL DEF Spec

-----------------------------------------------------------------------------
\* An active state keeps the token interval of the state it was entered from,
\* for every configuration (the references setCurrentState resolves).
THEOREM ReferencesResolved == Spec => []ActiveKeepsReference
<1> USE DEF ActiveKeepsReference
<1>1. Init => ActiveKeepsReference
  BY DEF Init, RELAXED, ACTIVE1
<1>2. TypeInv /\ ActiveKeepsReference /\ [Next]_vars => ActiveKeepsReference'
  <2> SUFFICES ASSUME TypeInv, ActiveKeepsReference, [Next]_vars
               PROVE  ActiveKeepsReference'
    OBVIOUS
  <2>1. ASSUME UNCHANGED stateVars PROVE ActiveKeepsReference'
    BY <2>1 DEF stateVars
  <2>2. CASE SwitchState
    <3> SUFFICES ASSUME NextState = ACTIVE1, ActiveIsRef
                 PROVE  interval'[ACTIVE1] = interval'[state]
      BY <2>2 DEF SwitchState
    <3>1. interval' = [interval EXCEPT ![ACTIVE1] = interval[state]]
      BY <2>2 DEF SwitchState, Inherit
    <3>2. ACTIVE1 \in DOMAIN interval /\ state # ACTIVE1
      BY <2>2 DEF SwitchState, TypeInv, TypeOK, States
    <3>3. QED
      BY <3>1, <3>2
  <2>3. QED
    BY <2>1, <2>2
    DEF Next, Tick, Poll, MeasureChannel, KeepState, AddToken, vars, stateVars
<1>3. QED
  BY InitTypeInv, NextTypeInv, <1>1, <1>2, PTL DEF Spec

-----------------------------------------------------------------------------
\* Until both ring buffers hold a measurement, the wait of the measure timer
\* ends before that of the update timer, or the handler posted for it comes
\* before any other of updateState.
MeasuresFirst ==
  \/ upEntries # << >> /\ downEntries # << >>
  \/ /\ "measure" \in pending
     /\ "update" \notin Range(ready)
     /\ FiresBefore("measure", "update")
  \/ \E i \in 1..Len(ready) :
       ready[i] = "measure" /\ \A j \in 1..i : ready[j] # "update"

\* The index in a ring buffer, a list e with its iterator at n, of the entry
\* that was inserted k insertions ago.
Back(e, n, k) ==
  LET newest == IF n = 0 THEN Len(e) ELSE n - 1
  IN IF k < newest THEN newest - k ELSE newest - k + Len(e)

\* A ring buffer of size S, and an insertion of o into it.
RingOf(e, n, S, V) ==
  /\ e \in Seq(V) /\ n \in {0} \cup 2..S
  /\ Len(e) <= S
  /\ n # 0 => Len(e) = S

Inserted(e, n, f, m, S, o) ==
  LET p == IF n = 0 THEN 1 ELSE n
  IN \/ n = 0 /\ Len(e) < S /\ f = Append(e, o) /\ m = n
     \/ /\ n # 0 \/ Len(e) >= S
        /\ f = [e EXCEPT ![p] = o]
        /\ m = IF p = Len(e) THEN 0 ELSE p + 1

\* An insertion into a ring buffer of size S: the new entry is the newest, each
\* other one that stays is one insertion further back.
LEMMA InsertShifts ==
  ASSUME NEW V, NEW S \in Nat \ {0}, NEW e, NEW n, NEW f, NEW m, NEW o \in V,
         RingOf(e, n, S, V), Inserted(e, n, f, m, S, o)
  PROVE  /\ f # << >> /\ Len(f) > 0
         /\ Back(f, m, 0) \in 1..Len(f) /\ f[Back(f, m, 0)] = o
         /\ \A k \in Nat : k < Len(e) /\ k + 1 < S =>
              /\ k + 1 < Len(f)
              /\ f[Back(f, m, k + 1)] = e[Back(e, n, k)]
<1> DEFINE p == IF n = 0 THEN 1 ELSE n
<1>0. /\ e \in Seq(V) /\ n \in {0} \cup 2..S /\ Len(e) \in Nat
      /\ Len(e) <= S /\ (n # 0 => Len(e) = S)
  BY DEF RingOf
<1>1. CASE n = 0 /\ Len(e) < S /\ f = Append(e, o) /\ m = n
  <2>1. /\ Len(f) = Len(e) + 1 /\ f[Len(e) + 1] = o
        /\ \A i \in 1..Len(e) : f[i] = e[i]
    BY <1>0, <1>1, AppendProperties
  <2>2. Back(f, m, 0) = Len(e) + 1
    BY <1>0, <1>1, <2>1 DEF Back
  <2>3. ASSUME NEW k \in Nat, k < Len(e)
        PROVE  /\ Back(f, m, k + 1) = Len(e) - k /\ Back(e, n, k) = Len(e) - k
               /\ Len(e) - k \in 1..Len(e)
    BY <1>0, <1>1, <2>1, <2>3 DEF Back
  <2>4. f # << >> /\ Len(f) > 0 /\ f[Back(f, m, 0)] = o
    BY <1>0, <2>1, <2>2, EmptySeq
  <2>5. ASSUME NEW k \in Nat, k < Len(e)
        PROVE  k + 1 < Len(f) /\ f[Back(f, m, k + 1)] = e[Back(e, n, k)]
    <3>1. /\ Back(f, m, k + 1) = Len(e) - k /\ Back(e, n, k) = Len(e) - k
          /\ Len(e) - k \in 1..Len(e)
      BY <2>3, <2>5
    <3>2. k + 1 < Len(f)
      BY <1>0, <2>1, <2>5
    <3>3. QED
      BY <2>1, <3>1, <3>2
  <2>6. QED
    BY <1>0, <2>1, <2>2, <2>4, <2>5
<1>2. CASE /\ n # 0 \/ Len(e) >= S
           /\ f = [e EXCEPT ![p] = o]
           /\ m = IF p = Len(e) THEN 0 ELSE p + 1
  <2>1. Len(e) = S /\ p \in 1..S
    BY <1>0, <1>2
  <2>2. /\ Len(f) = S
        /\ \A i \in 1..S : f[i] = IF i = p THEN o ELSE e[i]
    BY <1>0, <1>2, <2>1, ExceptSeq
  <2>3. p = IF m = 0 THEN Len(f) ELSE m - 1
    BY <1>2, <2>1, <2>2
  <2> DEFINE q == IF n = 0 THEN Len(e) ELSE n - 1
  <2>4. q = IF p = 1 THEN S ELSE p - 1
    BY <1>0, <2>1
  <2>5. /\ \A k : Back(f, m, k) = IF k < p THEN p - k ELSE p - k + S
        /\ \A k : Back(e, n, k) = IF k < q THEN q - k ELSE q - k + S
    BY <2>1, <2>2, <2>3 DEF Back
  <2> HIDE DEF p, q
  <2>6. Back(f, m, 0) = p
    BY <2>1, <2>5
  <2>7. ASSUME NEW k \in Nat, k + 1 < S
        PROVE  /\ Back(f, m, k + 1) = Back(e, n, k)
               /\ Back(e, n, k) \in 1..S /\ Back(e, n, k) # p
    BY <2>1, <2>4, <2>5, <2>7
  <2>8. ASSUME NEW k \in Nat, k + 1 < S
        PROVE  k + 1 < Len(f) /\ f[Back(f, m, k + 1)] = e[Back(e, n, k)]
    BY <2>2, <2>7, <2>8
  <2>9. QED
    BY <2>1, <2>2, <2>6, <2>8, EmptySeq
<1>3. QED
  BY <1>1, <1>2 DEF Inserted

LEMMA BackInRing ==
  ASSUME NEW V, NEW S \in Nat \ {0}, NEW e, NEW n, RingOf(e, n, S, V),
         NEW k \in Nat, k < Len(e)
  PROVE  Back(e, n, k) \in 1..Len(e) /\ e[Back(e, n, k)] \in V
<1>1. /\ e \in Seq(V) /\ n \in {0} \cup 2..S /\ Len(e) \in Nat
      /\ Len(e) <= S /\ (n # 0 => Len(e) = S)
  BY DEF RingOf
<1>2. Back(e, n, k) \in 1..Len(e)
  BY <1>1 DEF Back
<1>3. QED
  BY <1>1, <1>2

LEMMA UpRing ==
  ASSUME Up!TypeOK, Up!WrapsOnlyWhenFull
  PROVE  RingOf(upEntries, upNext, UpSize, Loads) /\ UpSize \in Nat \ {0}
  BY ControlAssumption DEF RingOf, Up!TypeOK, Up!WrapsOnlyWhenFull, Up!END

LEMMA DownRing ==
  ASSUME Down!TypeOK, Down!WrapsOnlyWhenFull
  PROVE  RingOf(downEntries, downNext, DownSize, Loads) /\ DownSize \in Nat \ {0}
  BY ControlAssumption DEF RingOf, Down!TypeOK, Down!WrapsOnlyWhenFull, Down!END

LEMMA UpShifts ==
  ASSUME Up!TypeOK, Up!WrapsOnlyWhenFull, NEW o \in Loads, Up!Insert(o)
  PROVE  /\ upEntries' # << >>
         /\ Back(upEntries', upNext', 0) \in 1..Len(upEntries')
         /\ upEntries'[Back(upEntries', upNext', 0)] = o
<1>1. RingOf(upEntries, upNext, UpSize, Loads) /\ UpSize \in Nat \ {0}
  BY UpRing
<1>2. Inserted(upEntries, upNext, upEntries', upNext', UpSize, o)
  BY DEF Inserted, Up!Insert, Up!Grow, Up!Overwrite, Up!Position, Up!END
<1>3. QED
  <2>1. /\ upEntries' # << >> /\ Len(upEntries') > 0
        /\ Back(upEntries', upNext', 0) \in 1..Len(upEntries')
        /\ upEntries'[Back(upEntries', upNext', 0)] = o
        /\ \A k \in Nat : k < Len(upEntries) /\ k + 1 < UpSize =>
             /\ k + 1 < Len(upEntries')
             /\ upEntries'[Back(upEntries', upNext', k + 1)]
                  = upEntries[Back(upEntries, upNext, k)]
    BY <1>1, <1>2, InsertShifts
  <2>2. QED
    BY <2>1, Zenon

LEMMA DownShifts ==
  ASSUME Down!TypeOK, Down!WrapsOnlyWhenFull, NEW o \in Loads, Down!Insert(o)
  PROVE  /\ downEntries' # << >>
         /\ Len(downEntries') > 0
         /\ Back(downEntries', downNext', 0) \in 1..Len(downEntries')
         /\ downEntries'[Back(downEntries', downNext', 0)] = o
         /\ \A k \in Nat : k < Len(downEntries) /\ k + 1 < DownSize =>
              /\ k + 1 < Len(downEntries')
              /\ downEntries'[Back(downEntries', downNext', k + 1)]
                   = downEntries[Back(downEntries, downNext, k)]
<1>1. RingOf(downEntries, downNext, DownSize, Loads) /\ DownSize \in Nat \ {0}
  BY DownRing
<1>2. Inserted(downEntries, downNext, downEntries', downNext', DownSize, o)
  BY DEF Inserted, Down!Insert, Down!Grow, Down!Overwrite, Down!Position, Down!END
<1>3. QED
  BY <1>1, <1>2, InsertShifts

\* The order of expiry is strict and transitive.
LEMMA FiresBeforeOrder ==
  ASSUME expiresAt \in [Timers -> Nat],
         NEW a \in Timers, NEW b \in Timers, NEW c \in Timers,
         FiresBefore(a, b)
  PROVE  ~ FiresBefore(b, a) /\ (FiresBefore(b, c) => FiresBefore(a, c))
<1>1. /\ expiresAt[a] \in Nat /\ expiresAt[b] \in Nat /\ expiresAt[c] \in Nat
      /\ Rank[a] \in Nat /\ Rank[b] \in Nat /\ Rank[c] \in Nat
  BY DEF Rank, Timers
<1>2. QED
  BY <1>1 DEF FiresBefore

\* A poll posts a timer that fires before another no later than the other.
LEMMA PollInOrder ==
  ASSUME TypeInv, Poll, NEW a \in pending, NEW b \in Timers, FiresBefore(a, b),
         b \in Range(ready')
  PROVE  \E i \in 1..Len(ready') :
           ready'[i] = a /\ \A j \in 1..i : ready'[j] # b
<1>1. expiresAt \in [Timers -> Nat] /\ a \in Timers
  BY DEF TypeInv, TypeOK
<1>2. PICK n \in 1..Cardinality(Timers) :
        /\ ready' \in [1..n -> Timers]
        /\ \A i \in 1..n, j \in 1..n : i < j => FiresBefore(ready'[i], ready'[j])
        /\ \A tm \in pending \ Range(ready') : FiresBefore(ready'[n], tm)
  BY DEF Poll
<1>3. n \in Nat /\ n >= 1 /\ Len(ready') = n /\ DOMAIN ready' = 1..n
  BY <1>2, LenProperties
<1>4. PICK k \in 1..n : ready'[k] = b
  BY <1>3 DEF Range
<1>5. a \in Range(ready')
  <2> SUFFICES ASSUME a \notin Range(ready') PROVE FALSE
    OBVIOUS
  <2>1. n \in 1..n /\ ready'[n] \in Timers /\ FiresBefore(ready'[n], a)
    BY <1>2, <1>3
  <2>2. FiresBefore(ready'[n], b)
    BY <1>1, <2>1, FiresBeforeOrder
  <2>3. b = ready'[n] \/ FiresBefore(b, ready'[n])
    BY <1>2, <1>3, <1>4
  <2>4. QED
    BY <1>1, <2>1, <2>2, <2>3, FiresBeforeOrder
<1>6. PICK i \in 1..n : ready'[i] = a
  BY <1>3, <1>5 DEF Range
<1>7. ASSUME NEW j \in 1..i, ready'[j] = b PROVE FALSE
  <2>1. j \in 1..n /\ (j = i \/ j < i)
    BY <1>3, <1>6, <1>7
  <2>2. a # b /\ ~ FiresBefore(b, a)
    BY <1>1, FiresBeforeOrder
  <2>3. QED
    BY <1>2, <1>6, <1>7, <2>1, <2>2
<1>8. QED
  BY <1>3, <1>6, <1>7

LEMMA InitMeasuresFirst == Init => MeasuresFirst
<1> SUFFICES ASSUME Init PROVE MeasuresFirst
  OBVIOUS
<1>1. Range(ready) = {}
  BY DEF Init, Range
<1>2. FiresBefore("measure", "update")
  BY ControlAssumption DEF Init, FirstExpiry, FiresBefore, Rank
<1>3. QED
  BY <1>1, <1>2 DEF Init, MeasuresFirst, Timers

LEMMA NextMeasuresFirst == TypeInv /\ MeasuresFirst /\ [Next]_vars => MeasuresFirst'
<1> SUFFICES ASSUME TypeInv, MeasuresFirst, [Next]_vars PROVE MeasuresFirst'
  OBVIOUS
<1>0. /\ ready \in Seq(Timers) /\ expiresAt \in [Timers -> Nat]
      /\ "measure" \in Timers /\ "update" \in Timers /\ "token" \in Timers
  BY DEF TypeInv, TypeOK, Timers
<1>1. CASE MeasureChannel
  <2>1. PICK load \in Loads : Up!Insert(load) /\ Down!Insert(load)
    BY <1>1 DEF MeasureChannel
  <2>2. upEntries' # << >> /\ downEntries' # << >>
    BY <2>1, UpShifts, DownShifts DEF TypeInv, TypeOK, RingsOK
  <2>3. QED
    BY <2>2 DEF MeasuresFirst
<1>2. CASE upEntries # << >> /\ downEntries # << >> /\ ~ MeasureChannel
  <2>1. UNCHANGED ringVars
    BY <1>2 DEF Next, Tick, Poll, SwitchState, KeepState, AddToken, vars
  <2>2. QED
    BY <1>2, <2>1 DEF ringVars, MeasuresFirst
\* The first measurement is still to come: its wait is pending ...
<1>3. CASE /\ "measure" \in pending
           /\ "update" \notin Range(ready)
           /\ FiresBefore("measure", "update")
           /\ ~ MeasureChannel
  <2>1. CASE Tick \/ UNCHANGED vars
    BY <1>3, <2>1 DEF Tick, vars, MeasuresFirst, FiresBefore
  <2>2. CASE Poll
    <3>1. pending' = pending \ Range(ready') /\ UNCHANGED expiresAt
      BY <2>2 DEF Poll
    <3>2. FiresBefore("measure", "update")'
      BY <1>3, <3>1 DEF FiresBefore
    <3>3. CASE "update" \in Range(ready')
      <4>1. \E i \in 1..Len(ready') :
              ready'[i] = "measure" /\ \A j \in 1..i : ready'[j] # "update"
        BY <1>0, <1>3, <2>2, <3>3, PollInOrder
      <4>2. QED
        BY <4>1 DEF MeasuresFirst
    <3>4. CASE "update" \notin Range(ready') /\ "measure" \notin Range(ready')
      BY <1>3, <3>1, <3>2, <3>4 DEF MeasuresFirst
    <3>5. CASE "update" \notin Range(ready') /\ "measure" \in Range(ready')
      <4>1. ready' \in Seq(Timers)
        BY <2>2 DEF Poll
      <4>2. \A j \in 1..Len(ready') : ready'[j] # "update"
        BY <3>5, <4>1 DEF Range
      <4>3. PICK i \in 1..Len(ready') : ready'[i] = "measure"
        BY <3>5, <4>1 DEF Range
      <4>4. \A j \in 1..i : j \in 1..Len(ready')
        BY <4>1, <4>3, LenProperties
      <4>5. QED
        BY <4>2, <4>3, <4>4 DEF MeasuresFirst
    <3>6. QED
      BY <3>3, <3>4, <3>5
  <2>3. ~ SwitchState /\ ~ KeepState
    <3>1. ~ Handles("update")
      BY <1>0, <1>3, HandlesReady
    <3>2. QED
      BY <3>1 DEF SwitchState, KeepState
  <2>4. CASE AddToken
    <3>1. /\ expiresAt'["measure"] = expiresAt["measure"]
          /\ expiresAt'["update"] = expiresAt["update"]
      BY <1>0, <2>4 DEF AddToken
    <3>2. "update" \notin Range(ready')
      BY <1>0, <1>3, <2>4, HandlesReady DEF AddToken
    <3>3. FiresBefore("measure", "update")'
      BY <1>3, <3>1 DEF FiresBefore
    <3>4. QED
      BY <1>3, <2>4, <3>2, <3>3 DEF AddToken, MeasuresFirst
  <2>5. QED
    BY <1>3, <2>1, <2>2, <2>3, <2>4 DEF Next
\* ... or its handler has been posted and waits for one of addToken.
<1>4. ASSUME NEW i \in 1..Len(ready), ready[i] = "measure",
             \A j \in 1..i : ready[j] # "update",
             ~ MeasureChannel
      PROVE  MeasuresFirst'
  <2>1. Len(ready) \in Nat /\ i >= 1 /\ ready # << >>
    BY <1>0, <1>4, LenProperties, EmptySeq
  <2>2. 1 \in 1..i /\ ready[1] # "update"
    BY <1>4, <2>1
  <2>3. ~ Poll /\ ~ Tick /\ ~ SwitchState /\ ~ KeepState
    BY <2>1, <2>2 DEF Poll, Tick, SwitchState, KeepState, Handles
  <2>4. CASE UNCHANGED vars
    BY <1>4, <2>4 DEF vars, MeasuresFirst
  <2>5. CASE AddToken
    <3>1. ready' = Tail(ready) /\ ready[1] = "token"
      BY <2>5 DEF AddToken, Handles
    <3>2. i # 1
      BY <1>4, <3>1
    <3>3. /\ Len(ready') = Len(ready) - 1
          /\ \A j \in 1..Len(ready) - 1 : ready'[j] = ready[j + 1]
      BY <1>0, <2>1, <3>1, HeadTailProperties
    <3>4. /\ i - 1 \in 1..Len(ready') /\ ready'[i - 1] = "measure"
          /\ \A j \in 1..i - 1 : ready'[j] # "update"
      BY <1>4, <2>1, <3>2, <3>3
    <3>5. QED
      BY <3>4 DEF MeasuresFirst
  <2>6. QED
    BY <1>4, <2>3, <2>4, <2>5 DEF Next
<1>5. QED
  BY <1>1, <1>2, <1>3, <1>4 DEF MeasuresFirst

\* For every configuration with Sampling >= Tm, which loadParameters asserts:
\* updateState never takes the minimum or maximum of an empty ring buffer, also
\* when both timers are due in the same tick (the constructor's order of the
\* timers, updateState and measureChannel in dcc.cpp).
THEOREM JudgesMeasurements == Spec => []NeverJudgesEmptyWindow
<1>1. TypeInv /\ MeasuresFirst => NeverJudgesEmptyWindow
  <2> SUFFICES ASSUME TypeInv, MeasuresFirst, ready # << >>, Head(ready) = "update"
               PROVE  upEntries # << >> /\ downEntries # << >>
    BY DEF NeverJudgesEmptyWindow
  <2>1. ready \in Seq(Timers) /\ Len(ready) \in Nat /\ Len(ready) > 0
    BY EmptySeq, LenProperties DEF TypeInv, TypeOK
  <2>2. ready[1] = "update" /\ 1 \in 1..Len(ready) /\ DOMAIN ready = 1..Len(ready)
    BY <2>1, HeadTailProperties
  <2>3. "update" \in Range(ready)
    BY <2>2 DEF Range
  <2>4. \A i \in 1..Len(ready) : 1 \in 1..i
    BY <2>1
  <2>5. QED
    BY <2>2, <2>3, <2>4 DEF MeasuresFirst
<1>2. QED
  BY InitTypeInv, NextTypeInv, InitMeasuresFirst, NextMeasuresFirst, <1>1, PTL
  DEF Spec

-----------------------------------------------------------------------------
\* Each token is due at least a relaxed and at most a restricted interval after
\* the one before it.  A token handler is posted once, after the last token.
TokensPaced ==
  /\ lastTokenAt + RelaxedInterval <= expiresAt["token"]
  /\ expiresAt["token"] <= lastTokenAt + RestrictedInterval
  /\ tokens * RelaxedInterval <= lastTokenAt
  /\ lastTokenAt <= now + RestrictedInterval
  /\ "token" \in Range(ready) => lastTokenAt <= now
  /\ \A i, j \in 1..Len(ready) : ready[i] = ready[j] => i = j

LEMMA InitTokensPaced == Init => TokensPaced
<1> SUFFICES ASSUME Init PROVE TokensPaced
  OBVIOUS
<1>1. Range(ready) = {} /\ Len(ready) = 0
  BY EmptySeq DEF Init, Range
<1>2. expiresAt["token"] = RelaxedInterval
  BY DEF Init, FirstExpiry
<1>3. QED
  BY <1>1, <1>2, ControlAssumption DEF Init, TokensPaced

LEMMA NextTokensPaced == TypeInv /\ TokensPaced /\ [Next]_vars => TokensPaced'
<1> SUFFICES ASSUME TypeInv, TokensPaced, [Next]_vars PROVE TokensPaced'
  OBVIOUS
<1>0. /\ ready \in Seq(Timers) /\ expiresAt \in [Timers -> Nat]
      /\ "measure" \in Timers /\ "update" \in Timers /\ "token" \in Timers
      /\ now \in Nat /\ lastTokenAt \in Nat /\ tokens \in Nat
      /\ state \in States
      /\ interval \in [States -> RelaxedInterval..RestrictedInterval]
      /\ RelaxedInterval \in Nat \ {0} /\ RestrictedInterval \in Nat
  BY ControlAssumption DEF TypeInv, TypeOK, Timers
\* A handler leaves the posted ones different, and its own is not among them.
<1>1. ASSUME NEW tm \in Timers, Handles(tm)
      PROVE  /\ \A i, j \in 1..Len(ready') : ready'[i] = ready'[j] => i = j
             /\ tm \notin Range(ready')
             /\ Range(ready') \subseteq Range(ready)
  <2>1. ready # << >> /\ ready' = Tail(ready) /\ ready[1] = tm
    BY <1>1 DEF Handles
  <2>2. /\ ready' \in Seq(Timers) /\ Len(ready') = Len(ready) - 1
        /\ Len(ready) \in Nat \ {0}
        /\ \A i \in 1..Len(ready) - 1 : ready'[i] = ready[i + 1]
    BY <1>0, <2>1, HeadTailProperties, EmptySeq
  <2>3. ASSUME NEW i \in 1..Len(ready'), NEW j \in 1..Len(ready'),
               ready'[i] = ready'[j]
        PROVE  i = j
    <3>1. /\ i + 1 \in 1..Len(ready) /\ j + 1 \in 1..Len(ready)
          /\ ready[i + 1] = ready[j + 1]
      BY <2>2, <2>3
    <3>2. i + 1 = j + 1
      BY <3>1 DEF TokensPaced
    <3>3. QED
      BY <2>2, <3>2
  <2>4. ASSUME NEW i \in 1..Len(ready') PROVE ready'[i] # tm
    <3>1. /\ i + 1 \in 1..Len(ready) /\ 1 \in 1..Len(ready) /\ i + 1 # 1
          /\ ready'[i] = ready[i + 1]
      BY <2>2
    <3>2. QED
      BY <2>1, <3>1 DEF TokensPaced
  <2>5. DOMAIN ready' = 1..Len(ready')
    BY <2>2, LenProperties
  <2>6. tm \notin Range(ready')
    BY <2>4, <2>5 DEF Range
  <2>7. Range(ready') \subseteq Range(ready)
    BY <1>0, <1>1, HandlesReady
  <2>8. QED
    BY <2>3, <2>6, <2>7
<1>2. CASE Tick
  BY <1>0, <1>2 DEF Tick, TokensPaced, tokenVars
<1>3. CASE Poll
  <2>1. PICK n \in 1..Cardinality(Timers) :
          /\ ready' \in [1..n -> Timers]
          /\ \A i \in 1..n : Due(ready'[i])
          /\ \A i \in 1..n, j \in 1..n : i < j => FiresBefore(ready'[i], ready'[j])
    BY <1>3 DEF Poll
  <2>2. n \in Nat /\ Len(ready') = n /\ DOMAIN ready' = 1..n
    BY <1>3, <2>1, LenProperties DEF Poll
  <2>3. ASSUME NEW i \in 1..n, NEW j \in 1..n, i < j PROVE ready'[i] # ready'[j]
    <3>1. FiresBefore(ready'[i], ready'[j]) /\ ready'[i] \in Timers
      BY <2>1, <2>3
    <3>2. QED
      BY <1>0, <3>1, FiresBeforeOrder
  <2>4. \A i, j \in 1..n : ready'[i] = ready'[j] => i = j
    BY <2>2, <2>3
  <2>5. "token" \in Range(ready') => expiresAt["token"] <= now
    BY <2>1, <2>2 DEF Range, Due
  <2>6. UNCHANGED <<now, expiresAt, tokenVars>>
    BY <1>3 DEF Poll
  <2>7. QED
    BY <1>0, <2>2, <2>4, <2>5, <2>6 DEF TokensPaced, tokenVars
<1>4. ASSUME UNCHANGED <<now, tokenVars>>, expiresAt'["token"] = expiresAt["token"],
             NEW tm \in Timers, Handles(tm)
      PROVE  TokensPaced'
  BY <1>1, <1>4 DEF TokensPaced, tokenVars
<1>5. CASE MeasureChannel
  <2>1. expiresAt'["token"] = expiresAt["token"]
    BY <1>0, <1>5 DEF MeasureChannel
  <2>2. QED
    BY <1>0, <1>4, <1>5, <2>1 DEF MeasureChannel, Handles
<1>6. CASE KeepState
  <2>1. expiresAt'["token"] = expiresAt["token"]
    BY <1>0, <1>6 DEF KeepState
  <2>2. QED
    BY <1>0, <1>4, <1>6, <2>1 DEF KeepState, Handles
<1>7. CASE SwitchState
  <2>1. Handles("update") /\ UNCHANGED <<now, tokenVars>>
    BY <1>7 DEF SwitchState, Handles
  <2>2. CASE addedFirstToken
    <3>1. interval' \in [States -> RelaxedInterval..RestrictedInterval]
      BY <1>0, <1>7, NextStateType, InheritType DEF SwitchState
    <3>2. interval'[NextState] \in RelaxedInterval..RestrictedInterval
      BY <1>0, <3>1, NextStateType
    <3>3. expiresAt' = [[expiresAt EXCEPT !["update"] = @ + Sampling]
                          EXCEPT !["token"] = lastTokenAt + interval'[NextState]]
      BY <1>7, <2>2 DEF SwitchState, RescheduleAddToken
    <3>4. expiresAt'["token"] = lastTokenAt + interval'[NextState]
      BY <1>0, <3>3
    <3> DEFINE ivl == interval'[NextState]
    <3> HIDE DEF ivl
    <3>5. ivl \in Nat /\ RelaxedInterval <= ivl /\ ivl <= RestrictedInterval
          /\ expiresAt'["token"] = lastTokenAt + ivl
      BY <1>0, <3>2, <3>4 DEF ivl
    <3>6. /\ lastTokenAt + RelaxedInterval <= expiresAt'["token"]
          /\ expiresAt'["token"] <= lastTokenAt + RestrictedInterval
      BY <1>0, <3>5
    <3>7. QED
      BY <1>0, <1>1, <2>1, <3>6 DEF TokensPaced, tokenVars
  <2>3. CASE ~ addedFirstToken
    <3>1. expiresAt'["token"] = expiresAt["token"]
      BY <1>0, <1>7, <2>3 DEF SwitchState, RescheduleAddToken
    <3>2. QED
      BY <1>0, <1>4, <2>1, <3>1
  <2>4. QED
    BY <2>2, <2>3
\* The token handler was posted, so the token before it lies in the past and
\* this one at most one restricted interval after that.
<1>8. CASE AddToken
  <2> DEFINE due == expiresAt["token"]
             ivl == interval[state]
  <2>1. /\ Handles("token") /\ now' = now
        /\ tokens' = tokens + 1 /\ lastTokenAt' = due
        /\ expiresAt'["token"] = due + ivl
    BY <1>0, <1>8 DEF AddToken, Handles
  <2>2. due \in Nat /\ ivl \in RelaxedInterval..RestrictedInterval
    BY <1>0
  <2>3. "token" \in Range(ready)
    BY <1>0, <2>1, HandlesReady
  <2>4. /\ lastTokenAt + RelaxedInterval <= due
        /\ due <= lastTokenAt + RestrictedInterval
        /\ tokens * RelaxedInterval <= lastTokenAt
        /\ lastTokenAt <= now
    BY <2>3 DEF TokensPaced
  <2> HIDE DEF due, ivl
  <2>5. (tokens + 1) * RelaxedInterval = tokens * RelaxedInterval + RelaxedInterval
    BY <1>0
  <2>6. tokens * RelaxedInterval \in Nat
    BY <1>0
  <2>7. tokens' * RelaxedInterval <= lastTokenAt'
    BY <1>0, <2>1, <2>2, <2>4, <2>5, <2>6
  <2>8. /\ lastTokenAt' + RelaxedInterval <= expiresAt'["token"]
        /\ expiresAt'["token"] <= lastTokenAt' + RestrictedInterval
        /\ lastTokenAt' <= now' + RestrictedInterval
    BY <1>0, <2>1, <2>2, <2>4
  <2>9. QED
    BY <1>0, <1>1, <2>1, <2>7, <2>8 DEF TokensPaced
<1>9. CASE UNCHANGED vars
  BY <1>9 DEF vars, TokensPaced, tokenVars
<1>10. QED
  BY <1>2, <1>3, <1>5, <1>6, <1>7, <1>8, <1>9 DEF Next

\* For every configuration and however switches of state, tokens posted before
\* them and tokens that catch up interleave: never more tokens than the relaxed
\* rate allows, give or take one restricted interval (addToken and
\* rescheduleAddToken in dcc.cpp).
THEOREM RelaxedRateBounds == Spec => []LongRunRate
<1>1. TypeInv /\ TokensPaced => LongRunRate
  <2> SUFFICES ASSUME TypeInv, TokensPaced PROVE LongRunRate
    OBVIOUS
  <2>1. /\ tokens * RelaxedInterval \in Int /\ lastTokenAt \in Nat
        /\ now \in Nat /\ RestrictedInterval \in Nat
    BY ControlAssumption DEF TypeInv, TypeOK
  <2>2. QED
    BY <2>1 DEF TokensPaced, LongRunRate
<1>2. QED
  BY InitTypeInv, NextTypeInv, InitTokensPaced, NextTokensPaced, <1>1, PTL DEF Spec

-----------------------------------------------------------------------------
\* Both ring buffers got the same measurement last.
NewestAgree ==
  upEntries # << >> =>
    /\ Back(upEntries, upNext, 0) \in 1..Len(upEntries)
    /\ upEntries[Back(upEntries, upNext, 0)]
         = downEntries[Back(downEntries, downNext, 0)]

\* The measurement that was the newest at the last switch of state has at least
\* the load x, and it stays in the longer window for timeDown.
HoldsLoad(x) ==
  since < DownSize =>
    /\ since < Len(downEntries)
    /\ Back(downEntries, downNext, since) \in 1..Len(downEntries)
    /\ downEntries[Back(downEntries, downNext, since)] >= x

\* What put the station under its restriction.
RestrictedForLoad ==
  /\ state = RESTRICTED => HoldsLoad(MaxLoad)
  /\ state = ACTIVE1 /\ enteredFrom = RELAXED => HoldsLoad(MinLoad)

DwellInv == TypeInv /\ MeasuresFirst /\ NewestAgree /\ RestrictedForLoad

LEMMA InitDwellInv == Init => DwellInv
<1> SUFFICES ASSUME Init PROVE DwellInv
  OBVIOUS
<1>1. NewestAgree /\ RestrictedForLoad
  BY DEF Init, Up!Init, NewestAgree, RestrictedForLoad, RELAXED, ACTIVE1, RESTRICTED
<1>2. QED
  BY <1>1, InitTypeInv, InitMeasuresFirst DEF DwellInv

LEMMA NextDwellInv == DwellInv /\ [Next]_vars => DwellInv'
<1> SUFFICES ASSUME DwellInv, [Next]_vars PROVE DwellInv'
  OBVIOUS
<1>1. TypeInv /\ TypeInv' /\ MeasuresFirst /\ MeasuresFirst'
  BY NextTypeInv, NextMeasuresFirst DEF DwellInv
<1> SUFFICES NewestAgree' /\ RestrictedForLoad'
  BY <1>1 DEF DwellInv
<1>2. ASSUME UNCHANGED <<ringVars, state, enteredFrom, since>>
      PROVE  NewestAgree' /\ RestrictedForLoad'
  BY <1>2 DEF DwellInv, NewestAgree, RestrictedForLoad, HoldsLoad, ringVars
<1>3. CASE MeasureChannel
  <2>1. PICK load \in Loads : Up!Insert(load) /\ Down!Insert(load)
    BY <1>3 DEF MeasureChannel
  <2>2. NewestAgree'
    BY <1>1, <2>1, UpShifts, DownShifts DEF TypeInv, TypeOK, RingsOK, NewestAgree
  <2>3. ASSUME NEW x, HoldsLoad(x) PROVE HoldsLoad(x)'
    <3> SUFFICES ASSUME since' < DownSize
                 PROVE  /\ since' < Len(downEntries')
                        /\ Back(downEntries', downNext', since') \in 1..Len(downEntries')
                        /\ downEntries'[Back(downEntries', downNext', since')] >= x
      BY DEF HoldsLoad
    <3>1. since \in Nat /\ DownSize \in Nat /\ since' = since + 1 /\ since < DownSize
      BY <1>1, <1>3, ControlAssumption DEF MeasureChannel, TypeInv, TypeOK
    <3>2. /\ since < Len(downEntries)
          /\ downEntries[Back(downEntries, downNext, since)] >= x
      BY <2>3, <3>1 DEF HoldsLoad
    <3>3. /\ since + 1 < Len(downEntries')
          /\ downEntries'[Back(downEntries', downNext', since + 1)]
               = downEntries[Back(downEntries, downNext, since)]
      BY <1>1, <2>1, <3>1, <3>2, DownShifts DEF TypeInv, TypeOK, RingsOK
    <3>4. Back(downEntries', downNext', since + 1) \in 1..Len(downEntries')
      <4>1. Down!TypeOK' /\ Down!WrapsOnlyWhenFull' /\ DownSize \in Nat \ {0}
        BY <1>1, ControlAssumption DEF TypeInv, TypeOK, RingsOK
      <4>2. RingOf(downEntries', downNext', DownSize, Loads)
        BY <4>1 DEF RingOf, Down!TypeOK, Down!WrapsOnlyWhenFull, Down!END
      <4>3. since + 1 \in Nat /\ since + 1 < Len(downEntries')
        BY <3>1, <3>3
      <4>4. Back(downEntries', downNext', since + 1) \in 1..Len(downEntries')
        BY <4>1, <4>2, <4>3, BackInRing
      <4>5. QED
        BY <4>4
    <3>5. QED
      BY <3>1, <3>2, <3>3, <3>4
  <2>4. RestrictedForLoad'
    BY <1>3, <2>3 DEF MeasureChannel, stateVars, DwellInv, RestrictedForLoad
  <2>5. QED
    BY <2>2, <2>4
\* The load that asks for more restriction is the newest of the shorter window,
\* which the longer one has just got as well.
<1>4. CASE SwitchState
  <2>1. /\ upEntries # << >> /\ downEntries # << >>
    <3>1. ready # << >> /\ ready[1] = "update" /\ ready \in Seq(Timers)
      BY <1>1, <1>4 DEF SwitchState, Handles, TypeInv, TypeOK
    <3>2. 1 \in 1..Len(ready) /\ DOMAIN ready = 1..Len(ready)
          /\ \A i \in 1..Len(ready) : 1 \in 1..i
      BY <3>1, LenProperties, EmptySeq
    <3>3. "update" \in Range(ready)
      BY <3>1, <3>2 DEF Range
    <3>4. QED
      BY <1>1, <3>1, <3>2, <3>3 DEF MeasuresFirst
  <2>2. /\ upEntries \in Seq(Loads) /\ downEntries \in Seq(Loads)
        /\ DOMAIN upEntries = 1..Len(upEntries)
        /\ Len(downEntries) \in Nat /\ Len(downEntries) > 0
    BY <1>1, <2>1, LenProperties, EmptySeq
    DEF TypeInv, TypeOK, Up!TypeOK, Down!TypeOK
  <2> DEFINE newest == downEntries[Back(downEntries, downNext, 0)]
  <2>3. newest \in Range(upEntries)
    BY <2>1, <2>2 DEF DwellInv, NewestAgree, Range
  <2>4. Back(downEntries, downNext, 0) \in 1..Len(downEntries) /\ newest \in Loads
    BY <1>1, <2>2, DownRing, BackInRing DEF TypeInv, TypeOK, RingsOK
  <2>5. newest \in Int
    BY <2>4, ControlAssumption
  <2>6. UNCHANGED ringVars /\ since' = 0 /\ enteredFrom' = state /\ state' = NextState
    BY <1>4 DEF SwitchState
  <2>7. ASSUME NEW x \in Int, x <= newest PROVE HoldsLoad(x)'
    BY <2>2, <2>4, <2>5, <2>6, <2>7 DEF HoldsLoad, ringVars
  <2>8. /\ NextState = RESTRICTED => MaxLoad <= newest
        /\ NextState = ACTIVE1 /\ state = RELAXED => MinLoad <= newest
    <3>1. NextState = RESTRICTED => Up!AllAtLeast(MaxLoad)
      BY <1>4 DEF SwitchState, NextState, RELAXED, ACTIVE1, RESTRICTED
    <3>2. NextState = ACTIVE1 /\ state = RELAXED => Up!AllAtLeast(MinLoad)
      BY <1>4 DEF SwitchState, NextState, RELAXED, ACTIVE1, RESTRICTED
    <3>3. QED
      BY <2>3, <3>1, <3>2 DEF Up!AllAtLeast, Up!Range, Range
  <2>9. RestrictedForLoad'
    BY <2>6, <2>7, <2>8, ControlAssumption DEF RestrictedForLoad
  <2>10. NewestAgree'
    BY <2>6 DEF DwellInv, NewestAgree, ringVars
  <2>11. QED
    BY <2>9, <2>10
<1>5. QED
  BY <1>2, <1>3, <1>4
  DEF Next, Tick, Poll, KeepState, AddToken, vars, stateVars, ringVars

\* For every configuration, with windows of any size and any order of the two
\* timers: a station leaves its restriction only after a full timeDown of
\* measurements since it took it up (updateState and RingBuffer in dcc/src).
THEOREM RestrictionDwells == Spec => DwellsTimeDown
<1>1. ASSUME DwellInv, SwitchState, Relaxes PROVE since = DownSize
  <2>1. /\ since \in 0..DownSize /\ DownSize \in Nat
        /\ downEntries \in Seq(Loads) /\ DOMAIN downEntries = 1..Len(downEntries)
    BY <1>1, ControlAssumption, LenProperties
    DEF DwellInv, TypeInv, TypeOK, Down!TypeOK
  <2> SUFFICES ASSUME since < DownSize PROVE FALSE
    BY <2>1
  <2> DEFINE held == downEntries[Back(downEntries, downNext, since)]
  <2>2. ASSUME NEW x \in Int, HoldsLoad(x) PROVE ~ Down!AllBelow(x)
    <3>1. /\ held \in Range(downEntries) /\ held \in Loads /\ held >= x
      BY <2>1, <2>2 DEF HoldsLoad, Range
    <3>2. held \in Int
      BY <3>1, ControlAssumption
    <3> HIDE DEF held
    <3>3. QED
      BY <2>2, <3>1, <3>2 DEF Down!AllBelow, Down!Range, Range
  <2>3. CASE state = RESTRICTED
    <3>1. Down!AllBelow(MaxLoad)
      BY <1>1, <2>3 DEF SwitchState, NextState, RELAXED, ACTIVE1, RESTRICTED
    <3>2. QED
      BY <1>1, <2>2, <2>3, <3>1, ControlAssumption DEF DwellInv, RestrictedForLoad
  <2>4. CASE state = ACTIVE1 /\ state' = RELAXED /\ enteredFrom = RELAXED
    <3>1. Down!AllBelow(MinLoad)
      BY <1>1, <2>4 DEF SwitchState, NextState, RELAXED, ACTIVE1, RESTRICTED
    <3>2. QED
      BY <1>1, <2>2, <2>4, <3>1, ControlAssumption DEF DwellInv, RestrictedForLoad
  <2>5. QED
    BY <1>1, <2>3, <2>4 DEF Relaxes
<1>2. ASSUME [Next]_vars, ~ SwitchState PROVE ~ Relaxes
  <2>1. state' = state
    BY <1>2
    DEF Next, Tick, Poll, MeasureChannel, KeepState, AddToken, vars, stateVars
  <2>2. QED
    BY <2>1 DEF Relaxes, RELAXED, ACTIVE1, RESTRICTED
<1>3. DwellInv /\ [Next]_vars => [Relaxes => since = DownSize]_vars
  BY <1>1, <1>2
<1>4. QED
  BY InitDwellInv, NextDwellInv, <1>3, PTL DEF Spec, DwellsTimeDown

=============================================================================
