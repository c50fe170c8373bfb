------------------------------ MODULE DenService ------------------------------
(***************************************************************************)
(* The way of a DENM: POST trigger_denm (httpServer.cpp), the DEN service  *)
(* (denservice.cpp) with one thread for triggers and one for DENMs from    *)
(* the DCC, and the LDM, over ZeroMQ publishers that send an envelope and  *)
(* a body as two frames (CommunicationSender.cpp) and receivers that take  *)
(* two frames, whatever message they belong to (CommunicationReceiver.cpp).*)
(*                                                                         *)
(* Two sockets are used by several threads without a lock: port 1111 by    *)
(* the workers of the HTTP server, port 9999 by the two threads of the DEN *)
(* service.  ZeroMQ does not allow it; what is modelled of it is that the  *)
(* frames of the threads mix and that the process aborts.                  *)
(*                                                                         *)
(* The DEN service never looks into a trigger, so port 1111 carries plain  *)
(* frames.  On port 9999 a frame is the envelope or a DENM.                *)
(***************************************************************************)
EXTENDS Integers, Sequences, FiniteSets

CONSTANTS NumWorkers,   \* threads of the HTTP server
          MaxTriggers,  \* bound: POSTs of trigger_denm
          MaxOthers,    \* bound: DENMs from other stations
          MaxRestarts   \* bound: restarts of the LDM

ASSUME DenAssumption ==
  /\ NumWorkers \in Nat /\ MaxTriggers \in Nat
  /\ MaxOthers \in Nat /\ MaxRestarts \in Nat

VARIABLES http,       \* where each worker is in senderToDenm->send
          part1,      \* frames of the unfinished message of port 1111
          wire1,      \* frames of port 1111 at the DEN service
          pc,         \* where each thread of the DEN service is
          part9,      \* frames of the unfinished message of port 9999
          attached,   \* does the LDM get that message?
          wire9,      \* frames of port 9999 at the LDM
          stored,     \* DENMs that the LDM has cached and handed to SQLite
          blank,      \* has the LDM stored a DENM without contents?
          down,       \* aborted processes
          triggers, generated, others, restarts,  \* counters
          overlaps,   \* history: sends on port 1111 begun within another
          torn9       \* history: has a send on port 9999 been begun within
                      \* another since the LDM started?

trigVars == <<http, part1, wire1, triggers, overlaps>>
ldmVars == <<part9, attached, wire9, stored, blank, restarts, torn9>>
vars == <<trigVars, ldmVars, pc, down, generated, others>>

Worker == 1..NumWorkers
Thread == {"trigger", "forward"}
Envelope == [of |-> "envelope", n |-> 0]
Denm(of, n) == [of |-> of, n |-> n]

Init ==
  /\ http = [w \in Worker |-> "idle"]
  /\ part1 = 0 /\ wire1 = 0
  /\ pc = [t \in Thread |-> "receive"]
  /\ part9 = <<>> /\ attached = TRUE /\ wire9 = <<>>
  /\ stored = {} /\ blank = FALSE
  /\ down = {}
  /\ triggers = 0 /\ generated = 0 /\ others = 0 /\ restarts = 0
  /\ overlaps = 0 /\ torn9 = FALSE

-----------------------------------------------------------------------------
\* The HTTP server.

\* Mutant of BeginTrigger: the envelope is a message of its own.
BeginTriggerSent(w) ==
  /\ "http" \notin down
  /\ http[w] = "idle"
  /\ triggers < MaxTriggers
  /\ http' = [http EXCEPT ![w] = "sending"]
  /\ triggers' = triggers + 1
  /\ wire1' = wire1 + 1
  /\ UNCHANGED <<part1, overlaps, ldmVars, pc, down, generated, others>>

\* s_sendmore of the envelope.
BeginTrigger(w) ==
  /\ "http" \notin down
  /\ http[w] = "idle"
  /\ triggers < MaxTriggers
  /\ http' = [http EXCEPT ![w] = "sending"]
  /\ triggers' = triggers + 1
  /\ part1' = part1 + 1
  /\ overlaps' = overlaps + (IF part1 # 0 THEN 1 ELSE 0)
  /\ UNCHANGED <<wire1, ldmVars, pc, down, generated, others>>

\* Mutant of EndTrigger: the DEN service subscribes to everything.
EndTriggerAll(w) ==
  /\ "http" \notin down
  /\ http[w] = "sending"
  /\ http' = [http EXCEPT ![w] = "idle"]
  /\ wire1' = wire1 + part1 + 1
  /\ part1' = 0
  /\ UNCHANGED <<triggers, overlaps, ldmVars, pc, down, generated, others>>

\* s_send of the body ends the message and hands it over.  A body that is a
\* message of its own does not begin as the subscription asks and is dropped.
EndTrigger(w) ==
  /\ "http" \notin down
  /\ http[w] = "sending"
  /\ http' = [http EXCEPT ![w] = "idle"]
  /\ wire1' = IF part1 = 0 THEN wire1 ELSE wire1 + part1 + 1
  /\ part1' = 0
  /\ UNCHANGED <<triggers, overlaps, ldmVars, pc, down, generated, others>>

-----------------------------------------------------------------------------
\* The DEN service.

\* Mutant of TakeTrigger: nothing is waited for.
TakeAtOnce ==
  /\ "den" \notin down
  /\ pc["trigger"] = "receive"
  /\ wire1' = wire1 - 2
  /\ pc' = [pc EXCEPT !["trigger"] = "toDcc"]
  /\ UNCHANGED <<http, part1, triggers, overlaps, ldmVars, down, generated, others>>

\* Two frames are taken for a trigger; send generates the DENM.
TakeTrigger ==
  /\ "den" \notin down
  /\ pc["trigger"] = "receive"
  /\ wire1 >= 2
  /\ wire1' = wire1 - 2
  /\ pc' = [pc EXCEPT !["trigger"] = "toDcc"]
  /\ UNCHANGED <<http, part1, triggers, overlaps, ldmVars, down, generated, others>>

\* The port to the DCC is used by this thread only: both frames at once.
SendToDcc ==
  /\ "den" \notin down
  /\ pc["trigger"] = "toDcc"
  /\ generated' = generated + 1
  /\ pc' = [pc EXCEPT !["trigger"] = "toLdm"]
  /\ UNCHANGED <<trigVars, ldmVars, down, others>>

\* A DENM from the DCC; one that cannot be decoded is dropped.
TakeDenm ==
  /\ "den" \notin down
  /\ pc["forward"] = "receive"
  /\ others < MaxOthers
  /\ others' = others + 1
  /\ \E decoded \in BOOLEAN :
       pc' = [pc EXCEPT !["forward"] = IF decoded THEN "toLdm" ELSE "receive"]
  /\ UNCHANGED <<trigVars, ldmVars, down, generated>>

\* Mutant of SendEnvelope: the envelope is a message of its own.
SendEnvelopeAlone(t) ==
  /\ "den" \notin down
  /\ pc[t] = "toLdm"
  /\ pc' = [pc EXCEPT ![t] = "sending"]
  /\ wire9' = Append(wire9, Envelope)
  /\ torn9' = (torn9 \/ part9 # <<>>)
  /\ UNCHANGED <<trigVars, part9, attached, stored, blank, restarts, down, generated,
                 others>>

SendEnvelope(t) ==
  /\ "den" \notin down
  /\ pc[t] = "toLdm"
  /\ pc' = [pc EXCEPT ![t] = "sending"]
  /\ part9' = Append(part9, Envelope)
  /\ torn9' = (torn9 \/ part9 # <<>>)
  /\ UNCHANGED <<trigVars, attached, wire9, stored, blank, restarts, down, generated,
                 others>>

Body(t) == IF t = "trigger" THEN Denm("own", generated) ELSE Denm("other", others)

\* As in EndTrigger; a message begun before the LDM came back is not for it.
SendBody(t) ==
  /\ "den" \notin down
  /\ pc[t] = "sending"
  /\ pc' = [pc EXCEPT ![t] = "receive"]
  /\ wire9' = IF part9 # <<>> /\ attached THEN Append(wire9 \o part9, Body(t)) ELSE wire9
  /\ part9' = <<>>
  /\ attached' = TRUE
  /\ UNCHANGED <<trigVars, stored, blank, restarts, torn9, down, generated, others>>

-----------------------------------------------------------------------------
\* The LDM: two frames are taken for a DENM.  The text of an envelope does not
\* parse, and what is left, a DENM of station 0, is stored.  Storing is caching
\* and inserting; what fails there and in a crash is LdmTable's matter.
LdmReceive ==
  /\ Len(wire9) >= 2
  /\ wire9' = SubSeq(wire9, 3, Len(wire9))
  /\ IF wire9[2] = Envelope THEN blank' = TRUE /\ UNCHANGED stored
     ELSE stored' = stored \cup {wire9[2]} /\ UNCHANGED blank
  /\ UNCHANGED <<trigVars, part9, attached, restarts, torn9, pc, down, generated, others>>

\* Mutant of LdmRestart: the receiver comes back at the frame where it was.
LdmRestartAtFrame ==
  /\ restarts < MaxRestarts
  /\ restarts' = restarts + 1
  /\ torn9' = FALSE
  /\ UNCHANGED <<attached, wire9, trigVars, part9, stored, blank, pc, down, generated,
                 others>>

\* The LDM is started anew: what waited for it is lost, the database stays.
LdmRestart ==
  /\ restarts < MaxRestarts
  /\ restarts' = restarts + 1
  /\ wire9' = <<>>
  /\ attached' = (part9 = <<>>)
  /\ torn9' = FALSE
  /\ UNCHANGED <<trigVars, part9, stored, blank, pc, down, generated, others>>

-----------------------------------------------------------------------------
\* Two threads in one socket can make libzmq abort the process.
HttpAborts ==
  /\ "http" \notin down
  /\ Cardinality({w \in Worker : http[w] = "sending"}) >= 2
  /\ down' = down \cup {"http"}
  /\ UNCHANGED <<trigVars, ldmVars, pc, generated, others>>

DenAborts ==
  /\ "den" \notin down
  /\ \A t \in Thread : pc[t] = "sending"
  /\ down' = down \cup {"den"}
  /\ UNCHANGED <<trigVars, ldmVars, pc, generated, others>>

Next ==
  \/ \E w \in Worker : BeginTrigger(w) \/ EndTrigger(w)
  \/ TakeTrigger \/ SendToDcc \/ TakeDenm
  \/ \E t \in Thread : SendEnvelope(t) \/ SendBody(t)
  \/ LdmReceive \/ LdmRestart
  \/ HttpAborts \/ DenAborts

\* Every thread goes on with what it has begun; nobody has to trigger anything.
Spec ==
  /\ Init /\ [][Next]_vars
  /\ \A w \in Worker : WF_vars(EndTrigger(w))
  /\ WF_vars(TakeTrigger) /\ WF_vars(SendToDcc)
  /\ \A t \in Thread : WF_vars(SendEnvelope(t)) /\ WF_vars(SendBody(t))
  /\ WF_vars(LdmReceive)

-----------------------------------------------------------------------------
Frame == [of : {"envelope", "own", "other"}, n : Nat]

TypeOK ==
  /\ http \in [Worker -> {"idle", "sending"}]
  /\ part1 \in Nat /\ wire1 \in Nat
  /\ pc \in [Thread -> {"receive", "toDcc", "toLdm", "sending"}]
  /\ part9 \in Seq({Envelope}) /\ attached \in BOOLEAN /\ wire9 \in Seq(Frame)
  /\ stored \subseteq Frame /\ blank \in BOOLEAN
  /\ down \subseteq {"http", "den"}
  /\ triggers \in Nat /\ generated \in Nat /\ others \in Nat /\ restarts \in Nat
  /\ overlaps \in Nat /\ torn9 \in BOOLEAN

\* Triggers that the DEN service has taken.
Taken == generated + (IF pc["trigger"] = "toDcc" THEN 1 ELSE 0)

\* However the workers' sends mix on port 1111, no frame is invented, and each
\* send that began within another costs exactly one: two overlaps cost a trigger,
\* and no DENM goes out without one.
TriggersAccounted ==
  2 * Taken + wire1 + (IF part1 # 0 THEN part1 + 1 ELSE 0) + overlaps = 2 * triggers

\* Envelopes and DENMs alternate at the LDM, so that every DENM is taken for
\* one, unless its sends have overlapped; a restart of the LDM heals that.
AlignedUnlessTorn ==
  ~torn9 => /\ Len(wire9) % 2 = 0
            /\ \A i \in DOMAIN wire9 : wire9[i] = Envelope <=> i % 2 = 1

\* Triggers lead to DENMs, but for those that overlaps have cost.
TriggersFire ==
  \A n \in 1..MaxTriggers :
    triggers >= n ~> generated + overlaps >= n \/ down # {}

\* A DENM that is sent over the air or taken for forwarding is stored by the
\* station's own LDM, but for overlaps and restarts of the LDM.
DenmsStored ==
  /\ \A n \in 1..MaxTriggers :
       generated >= n ~> Denm("own", n) \in stored \/ torn9 \/ restarts > 0
  /\ \A n \in 1..MaxOthers :
       pc["forward"] = "toLdm" /\ others = n ~>
         Denm("other", n) \in stored \/ torn9 \/ restarts > 0
=============================================================================
