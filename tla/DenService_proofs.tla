-------------------------- MODULE DenService_proofs --------------------------
(***************************************************************************)
(* For any number of workers, triggers, DENMs and restarts of the LDM:     *)
(* what the frames of port 1111 amount to however the sends mix, and that  *)
(* the LDM takes the right frames for DENMs until two sends overlap.       *)
(***************************************************************************)
EXTENDS DenService, SequenceTheorems, TLAPS

\* A message the LDM is to get has one envelope, unless sends have overlapped.
OneEnvelope == ~torn9 /\ attached => Len(part9) <= 1

DenInv == TypeOK /\ TriggersAccounted /\ AlignedUnlessTorn /\ OneEnvelope

-----------------------------------------------------------------------------
LEMMA EnvelopeIsFrame == Envelope \in Frame /\ Envelope.of = "envelope"
  BY DEF Envelope, Frame

LEMMA BodyIsFrame ==
  ASSUME TypeOK, NEW t \in Thread
  PROVE  Body(t) \in Frame /\ Body(t) # Envelope
  BY DEF TypeOK, Body, Denm, Frame, Envelope

\* A message of one envelope and a body keeps the frames in turn.
LEMMA MessageAppended ==
  ASSUME NEW wire \in Seq(Frame), NEW part \in Seq({Envelope}), NEW b \in Frame,
         b # Envelope, part # <<>>, Len(part) <= 1,
         Len(wire) % 2 = 0,
         \A i \in DOMAIN wire : wire[i] = Envelope <=> i % 2 = 1
  PROVE  LET w == Append(wire \o part, b)
         IN /\ Len(w) % 2 = 0
            /\ \A i \in DOMAIN w : w[i] = Envelope <=> i % 2 = 1
<1> DEFINE w == Append(wire \o part, b)
<1>0. Len(wire) \in Nat /\ DOMAIN wire = 1..Len(wire)
  BY LenProperties
<1>1. Len(part) = 1 /\ part[1] = Envelope /\ part \in Seq(Frame)
  <2>1. Len(part) \in Nat \ {0}
    BY EmptySeq
  <2>2. Len(part) = 1
    <3>1. \A n \in Nat \ {0} : n <= 1 => n = 1
      OBVIOUS
    <3> QED
      BY <2>1, <3>1
  <2>3. part[1] \in {Envelope}
    BY <2>2, ElementOfSeq
  <2>4. part \in Seq(Frame)
    BY EnvelopeIsFrame, SeqMonotonic
  <2> QED
    BY <2>2, <2>3, <2>4
<1>2. /\ wire \o part \in Seq(Frame) /\ Len(wire \o part) = Len(wire) + 1
      /\ \A i \in 1..(Len(wire) + 1) :
           (wire \o part)[i] = IF i <= Len(wire) THEN wire[i] ELSE part[i - Len(wire)]
  <2>1. /\ wire \o part \in Seq(Frame) /\ Len(wire \o part) = Len(wire) + Len(part)
        /\ \A i \in 1..(Len(wire) + Len(part)) :
             (wire \o part)[i] = IF i <= Len(wire) THEN wire[i] ELSE part[i - Len(wire)]
    BY <1>1, ConcatProperties, Zenon
  <2>2. Len(part) = 1
    BY <1>1
  <2> QED
    BY <2>1, <2>2, Zenon
<1>3. w \in Seq(Frame) /\ Len(w) = Len(wire) + 2 /\ DOMAIN w = 1..(Len(wire) + 2)
  BY <1>0, <1>2
<1>4. /\ \A i \in 1..Len(wire) : w[i] = wire[i]
      /\ w[Len(wire) + 1] = Envelope
      /\ w[Len(wire) + 2] = b
  BY <1>0, <1>1, <1>2
<1>5. Len(w) % 2 = 0
  BY <1>0, <1>3
<1>6. ASSUME NEW i \in DOMAIN w PROVE w[i] = Envelope <=> i % 2 = 1
  <2>1. i \in 1..Len(wire) \/ i = Len(wire) + 1 \/ i = Len(wire) + 2
    BY <1>0, <1>3
  <2>2. CASE i \in 1..Len(wire)
    BY <2>2, <1>0, <1>4
  <2>3. CASE i = Len(wire) + 1
    <3>1. i % 2 = 1
      BY <2>3, <1>0
    <3> QED
      BY <2>3, <3>1, <1>4
  <2>4. CASE i = Len(wire) + 2
    <3>1. i % 2 # 1
      BY <2>4, <1>0
    <3> QED
      BY <2>4, <3>1, <1>4
  <2> QED
    BY <2>1, <2>2, <2>3, <2>4
<1> QED
  BY <1>5, <1>6

\* What is left after a message of two frames still has them in turn.
LEMMA MessageTaken ==
  ASSUME NEW wire \in Seq(Frame), Len(wire) >= 2, Len(wire) % 2 = 0,
         \A i \in DOMAIN wire : wire[i] = Envelope <=> i % 2 = 1
  PROVE  LET w == SubSeq(wire, 3, Len(wire))
         IN /\ Len(w) % 2 = 0
            /\ \A i \in DOMAIN w : w[i] = Envelope <=> i % 2 = 1
<1> DEFINE w == SubSeq(wire, 3, Len(wire))
<1>0. Len(wire) \in Nat /\ DOMAIN wire = 1..Len(wire)
  BY LenProperties
<1>1. /\ w \in Seq(Frame) /\ Len(w) = Len(wire) - 2
      /\ \A i \in 1..Len(w) : w[i] = wire[i + 2]
  <2>1. \A i \in 3..Len(wire) : wire[i] \in Frame
    BY <1>0, ElementOfSeq
  <2>2. /\ SubSeq(wire, 3, Len(wire)) \in Seq(Frame)
        /\ Len(SubSeq(wire, 3, Len(wire))) = IF 3 <= Len(wire) THEN Len(wire) - 3 + 1 ELSE 0
        /\ \A i \in 1..(Len(wire) - 3 + 1) : SubSeq(wire, 3, Len(wire))[i] = wire[3 + i - 1]
    BY <1>0, <2>1, SubSeqProperties
  <2> QED
    BY <1>0, <2>2
<1>2. DOMAIN w = 1..Len(w)
  BY <1>1, LenProperties
<1>3. ASSUME NEW i \in 1..Len(w) PROVE w[i] = Envelope <=> i % 2 = 1
  <2>1. i + 2 \in DOMAIN wire /\ (i + 2) % 2 = i % 2
    BY <1>0, <1>1
  <2> QED
    BY <1>1, <2>1
<1>4. Len(w) % 2 = 0
  <2>1. \A n \in Nat : n >= 2 /\ n % 2 = 0 => (n - 2) % 2 = 0
    OBVIOUS
  <2> QED
    BY <1>0, <1>1, <2>1
<1> QED
  BY <1>2, <1>3, <1>4

-----------------------------------------------------------------------------
LEMMA InitDen == Init => DenInv
<1> SUFFICES ASSUME Init PROVE DenInv
  OBVIOUS
<1>1. TypeOK
  BY EmptySeq DEF Init, TypeOK
<1>2. TriggersAccounted
  BY DEF Init, TriggersAccounted, Taken, Thread
<1>3. Len(wire9) = 0 /\ DOMAIN wire9 = {} /\ Len(part9) = 0
  BY EmptySeq DEF Init
<1>4. AlignedUnlessTorn /\ OneEnvelope
  BY <1>3 DEF AlignedUnlessTorn, OneEnvelope
<1> QED
  BY <1>1, <1>2, <1>4 DEF DenInv

LEMMA TriggerStep ==
  ASSUME DenInv, NEW w \in Worker, BeginTrigger(w) \/ EndTrigger(w)
  PROVE  DenInv'
<1> USE DEF DenInv, trigVars, ldmVars
<1>1. TypeOK'
  <2>1. CASE BeginTrigger(w)
    <3>1. overlaps' \in Nat
      BY <2>1 DEF BeginTrigger, TypeOK
    <3> QED
      BY <2>1, <3>1 DEF BeginTrigger, TypeOK
  <2>2. CASE EndTrigger(w)
    <3>1. wire1' \in Nat
      BY <2>2 DEF EndTrigger, TypeOK
    <3> QED
      BY <2>2, <3>1 DEF EndTrigger, TypeOK
  <2> QED
    BY <2>1, <2>2
<1>2. CASE BeginTrigger(w)
  <2>1. TriggersAccounted'
    BY <1>2 DEF BeginTrigger, TypeOK, TriggersAccounted, Taken
  <2> QED
    BY <1>1, <1>2, <2>1 DEF BeginTrigger, AlignedUnlessTorn, OneEnvelope
<1>3. CASE EndTrigger(w)
  <2>1. TriggersAccounted'
    BY <1>3 DEF EndTrigger, TypeOK, TriggersAccounted, Taken
  <2> QED
    BY <1>1, <1>3, <2>1 DEF EndTrigger, AlignedUnlessTorn, OneEnvelope
<1> QED
  BY <1>2, <1>3

LEMMA DenStep ==
  ASSUME DenInv, TakeTrigger \/ SendToDcc \/ TakeDenm
  PROVE  DenInv'
<1> USE DEF DenInv, trigVars, ldmVars
<1>1. CASE TakeTrigger
  <2>1. TypeOK'
    BY <1>1 DEF TakeTrigger, TypeOK, Thread
  <2>2. TriggersAccounted'
    BY <1>1 DEF TakeTrigger, TypeOK, TriggersAccounted, Taken, Thread
  <2> QED
    BY <1>1, <2>1, <2>2 DEF TakeTrigger, AlignedUnlessTorn, OneEnvelope
<1>2. CASE SendToDcc
  <2>1. TypeOK'
    BY <1>2 DEF SendToDcc, TypeOK, Thread
  <2>2. TriggersAccounted'
    BY <1>2 DEF SendToDcc, TypeOK, TriggersAccounted, Taken, Thread
  <2> QED
    BY <1>2, <2>1, <2>2 DEF SendToDcc, AlignedUnlessTorn, OneEnvelope
<1>3. CASE TakeDenm
  <2>1. TypeOK'
    BY <1>3 DEF TakeDenm, TypeOK, Thread
  <2>2. pc'["trigger"] = pc["trigger"]
    BY <1>3 DEF TakeDenm, TypeOK, Thread
  <2>3. TriggersAccounted'
    BY <1>3, <2>2 DEF TakeDenm, TriggersAccounted, Taken
  <2> QED
    BY <1>3, <2>1, <2>3 DEF TakeDenm, AlignedUnlessTorn, OneEnvelope
<1> QED
  BY <1>1, <1>2, <1>3

LEMMA SendStep ==
  ASSUME DenInv, NEW t \in Thread, SendEnvelope(t) \/ SendBody(t)
  PROVE  DenInv'
<1> USE DEF DenInv, trigVars, ldmVars
<1>1. CASE SendEnvelope(t)
  <2>1. part9' \in Seq({Envelope}) /\ Len(part9') = Len(part9) + 1
    BY <1>1 DEF SendEnvelope, TypeOK
  <2>2. torn9' \in BOOLEAN
    BY <1>1 DEF SendEnvelope, TypeOK
  <2>3. TypeOK'
    BY <1>1, <2>1, <2>2 DEF SendEnvelope, TypeOK
  <2>4. TriggersAccounted'
    BY <1>1 DEF SendEnvelope, TypeOK, TriggersAccounted, Taken, Thread
  <2>5. ~torn9' => ~torn9 /\ part9 = <<>>
    BY <1>1 DEF SendEnvelope
  <2>6. AlignedUnlessTorn'
    BY <1>1, <2>5 DEF SendEnvelope, AlignedUnlessTorn
  <2>7. OneEnvelope'
    BY <2>1, <2>5 DEF TypeOK, OneEnvelope
  <2> QED
    BY <2>3, <2>4, <2>6, <2>7
<1>2. CASE SendBody(t)
  <2>1. Body(t) \in Frame /\ Body(t) # Envelope
    BY BodyIsFrame
  <2>2. wire9 \o part9 \in Seq(Frame)
    BY EnvelopeIsFrame DEF TypeOK
  <2>3. wire9' \in Seq(Frame) /\ part9' = <<>>
    BY <1>2, <2>1, <2>2 DEF SendBody, TypeOK
  <2>4. TypeOK'
    BY <1>2, <2>3 DEF SendBody, TypeOK
  <2>5. TriggersAccounted'
    BY <1>2 DEF SendBody, TypeOK, TriggersAccounted, Taken, Thread
  <2>6. AlignedUnlessTorn'
    <3>1. CASE part9 # <<>> /\ attached /\ ~torn9
      <4>1. Len(part9) <= 1
        BY <3>1 DEF OneEnvelope
      <4>2. wire9' = Append(wire9 \o part9, Body(t))
        BY <1>2, <3>1 DEF SendBody
      <4>3. wire9 \in Seq(Frame) /\ part9 \in Seq({Envelope})
        BY DEF TypeOK
      <4>4. /\ Len(wire9) % 2 = 0
            /\ \A i \in DOMAIN wire9 : wire9[i] = Envelope <=> i % 2 = 1
        BY <3>1 DEF AlignedUnlessTorn
      <4> QED
        BY <2>1, <3>1, <4>1, <4>2, <4>3, <4>4, MessageAppended DEF AlignedUnlessTorn
    <3>2. CASE ~(part9 # <<>> /\ attached) \/ torn9
      BY <1>2, <3>2 DEF SendBody, AlignedUnlessTorn
    <3> QED
      BY <3>1, <3>2
  <2>7. OneEnvelope'
    BY <2>3 DEF OneEnvelope
  <2> QED
    BY <2>4, <2>5, <2>6, <2>7
<1> QED
  BY <1>1, <1>2

LEMMA LdmStep ==
  ASSUME DenInv, LdmReceive \/ LdmRestart
  PROVE  DenInv'
<1> USE DEF DenInv, trigVars, ldmVars
<1>1. CASE LdmReceive
  <2>1. wire9[2] \in Frame /\ wire9' \in Seq(Frame)
    BY <1>1 DEF LdmReceive, TypeOK
  <2>2. stored' \subseteq Frame
    BY <1>1, <2>1 DEF LdmReceive, TypeOK
  <2>3. blank' \in BOOLEAN
    BY <1>1 DEF LdmReceive, TypeOK
  <2>4. TypeOK'
    BY <1>1, <2>1, <2>2, <2>3 DEF LdmReceive, TypeOK
  <2>5. AlignedUnlessTorn'
    <3>1. wire9 \in Seq(Frame)
      BY DEF TypeOK
    <3> QED
      BY <1>1, <3>1, MessageTaken DEF LdmReceive, AlignedUnlessTorn
  <2> QED
    BY <1>1, <2>4, <2>5 DEF LdmReceive, TriggersAccounted, Taken, OneEnvelope
<1>2. CASE LdmRestart
  <2>1. attached' \in BOOLEAN
    BY <1>2 DEF LdmRestart
  <2>0. wire9' \in Seq(Frame)
    BY <1>2, EmptySeq DEF LdmRestart
  <2>2. TypeOK'
    <3>1. restarts' \in Nat
      <4>1. restarts' = restarts + 1
        BY <1>2 DEF LdmRestart
      <4>2. restarts \in Nat
        BY DEF TypeOK
      <4> QED
        BY <4>1, <4>2
    <3>2. torn9' \in BOOLEAN
      BY <1>2 DEF LdmRestart
    <3>3. UNCHANGED <<trigVars, part9, stored, blank, pc, down, generated, others>>
      BY <1>2 DEF LdmRestart
    <3> QED
      BY <2>0, <2>1, <3>1, <3>2, <3>3 DEF TypeOK
  <2>3. AlignedUnlessTorn'
    BY <1>2 DEF LdmRestart, AlignedUnlessTorn
  <2>4. OneEnvelope'
    <3>1. part9' = part9 /\ (attached' => Len(part9) = 0)
      BY <1>2, EmptySeq DEF LdmRestart
    <3> QED
      BY <3>1 DEF OneEnvelope
  <2> QED
    BY <1>2, <2>2, <2>3, <2>4 DEF LdmRestart, TriggersAccounted, Taken
<1> QED
  BY <1>1, <1>2

LEMMA AbortStep ==
  ASSUME DenInv, HttpAborts \/ DenAborts
  PROVE  DenInv'
<1>1. /\ UNCHANGED <<trigVars, ldmVars, pc, generated, others>>
      /\ down' \subseteq {"http", "den"}
  BY DEF DenInv, TypeOK, HttpAborts, DenAborts
<1>2. TypeOK'
  BY <1>1 DEF DenInv, TypeOK, trigVars, ldmVars
<1> QED
  BY <1>1, <1>2 DEF DenInv, trigVars, ldmVars, TriggersAccounted, Taken,
         AlignedUnlessTorn, OneEnvelope

LEMMA StutterStep ==
  ASSUME DenInv, UNCHANGED vars
  PROVE  DenInv'
  BY DEF DenInv, vars, trigVars, ldmVars, TypeOK, TriggersAccounted, Taken,
         AlignedUnlessTorn, OneEnvelope

\* The inductive invariant: an overlap shows in torn9 as long as its frames can
\* reach the LDM.
LEMMA DenInvariant == Spec => []DenInv
<1>1. DenInv /\ [Next]_vars => DenInv'
  BY TriggerStep, DenStep, SendStep, LdmStep, AbortStep, StutterStep DEF Next
<1> QED
  BY <1>1, InitDen, PTL DEF Spec

-----------------------------------------------------------------------------
\* The types of the ports, the threads and the LDM of the DENM path.
THEOREM DenTypeCorrect == Spec => []TypeOK
<1>1. DenInv => TypeOK
  BY DEF DenInv
<1> QED
  BY <1>1, DenInvariant, PTL

\* Two sends of trigger_denm that overlap cost one frame and no more.
THEOREM OverlapCostsOneFrame == Spec => []TriggersAccounted
<1>1. DenInv => TriggersAccounted
  BY DEF DenInv
<1> QED
  BY <1>1, DenInvariant, PTL

\* DenService::send is never run without a trigger, whatever the frames do.
THEOREM NoDenmWithoutTrigger == Spec => [](generated <= triggers)
<1>1. DenInv => generated <= triggers
  BY DEF DenInv, TypeOK, TriggersAccounted, Taken
<1> QED
  BY <1>1, DenInvariant, PTL

\* CommunicationReceiver::receive pairs the frames of port 9999 rightly until
\* two sends overlap, and again after a restart of the LDM.
THEOREM LdmAligned == Spec => []AlignedUnlessTorn
<1>1. DenInv => AlignedUnlessTorn
  BY DEF DenInv
<1> QED
  BY <1>1, DenInvariant, PTL

\* As long as no two sends overlap the LDM stores no row without a DENM.
THEOREM NoBlankRow == Spec => [][blank' # blank => torn9]_vars
<1>1. ASSUME DenInv, [Next]_vars, ~torn9
      PROVE  blank' = blank
  <2>1. CASE LdmReceive
    <3>1. 2 \in DOMAIN wire9
      BY <2>1 DEF LdmReceive, DenInv, TypeOK
    <3>2. wire9[2] # Envelope
      BY <1>1, <3>1 DEF DenInv, AlignedUnlessTorn
    <3> QED
      BY <2>1, <3>2 DEF LdmReceive
  <2>2. CASE ~LdmReceive
    BY <1>1, <2>2 DEF Next, vars, ldmVars, BeginTrigger, EndTrigger, TakeTrigger, SendToDcc,
           TakeDenm, SendEnvelope, SendBody, LdmRestart, HttpAborts, DenAborts
  <2> QED
    BY <2>1, <2>2
<1>2. DenInv /\ [Next]_vars => [blank' # blank => torn9]_vars
  BY <1>1
<1> QED
  BY <1>2, DenInvariant, PTL DEF Spec
=============================================================================
