------------------------------ MODULE WebQuery ------------------------------
(***************************************************************************)
(* The way of the CAMs from the LDM to the web page: camData polls         *)
(* (webSite/script/main.js), the HTTP server asks the LDM for each poll    *)
(* over a socket of its own and gives up after a timeout                   *)
(* (httpServer.cpp, CommunicationClient.cpp), the LDM answers one request  *)
(* after the other (LdmTable, here for the table CAM).                     *)
(*                                                                         *)
(* A request is its number in the order of issue; it is also the name of   *)
(* the REQ socket made for it.  A body is what the LDM answered, with the  *)
(* life of the LDM it comes from.  The markers on the map are drawn from   *)
(* cams and left out.                                                      *)
(***************************************************************************)
EXTENDS LdmTable

CONSTANTS MaxRequests,  \* bound: polls of camData
          NumWorkers    \* threads of the HTTP server

ASSUME WebAssumption == MaxRequests \in Nat /\ NumWorkers \in Nat \ {0}

VARIABLES web,         \* where each request is
          body,        \* the body of its response
          client,      \* mClient: the request whose socket is open, or 0
          inbox,       \* the reply waiting at that socket
          queue,       \* requests that have reached the LDM
          serving,     \* the request the LDM works on, or 0
          known,       \* camData.mymac # ""
          macAsked,    \* is a my_mac request on its way?
          cams,        \* camData.cams
          overtaken,   \* history: requests under way while another was digested
          shownLife    \* history: the life of the LDM each entry of cams is from

webVars == <<web, body, client, inbox, queue, serving, known, macAsked, cams,
             overtaken, shownLife>>
pageVars == <<known, macAsked, cams, overtaken, shownLife>>
allVars == <<vars, webVars>>

Request == 1..MaxRequests
NoReply == [for |-> 0, life |-> 0, cams |-> Nothing]
Empty == NoReply  \* the body "": no reply from the LDM

WebInit ==
  /\ Init /\ table = "CAM"
  /\ web = [r \in Request |-> "unused"]
  /\ body = [r \in Request |-> Empty]
  /\ client = 0
  /\ inbox = NoReply
  /\ queue = {}
  /\ serving = 0
  /\ known = FALSE
  /\ macAsked = FALSE
  /\ cams = Nothing
  /\ overtaken = {}
  /\ shownLife = Nothing

-----------------------------------------------------------------------------
\* The page.  Each handler runs to its end before the next.

\* The interval of camData.  lastUpdate is never set, so its guard never holds
\* a poll back.
UpdateCams(r) ==
  /\ web[r] = "unused"
  /\ \A q \in Request : q < r => web[q] # "unused"
  /\ web' = [web EXCEPT ![r] = "sent"]
  /\ UNCHANGED <<vars, body, client, inbox, queue, serving, pageVars>>

UnderWay == {r \in Request : web[r] \in {"sent", "handler", "polling", "response"}}

\* The entries of cams that the answer has are replaced, the others stay.
Digested(answer) == [k \in Key |-> IF answer[k] # 0 THEN answer[k] ELSE cams[k]]

\* The response of r: digestCams, which before the own address is known drops
\* it and asks for the address.  jQuery calls it for a body that is JSON.
DigestCams(r) ==
  /\ web[r] = "response"
  /\ body[r] # Empty
  /\ web' = [web EXCEPT ![r] = "done"]
  /\ body' = [body EXCEPT ![r] = Empty]
  /\ IF known
     THEN /\ cams' = Digested(body[r].cams)
          /\ overtaken' = (overtaken \cup UnderWay) \ {r}
          /\ shownLife' = [k \in Key |-> IF body[r].cams[k] # 0
                                       THEN body[r].life ELSE shownLife[k]]
          /\ UNCHANGED macAsked
     ELSE /\ macAsked' = TRUE
          /\ UNCHANGED <<cams, overtaken, shownLife>>
  /\ UNCHANGED <<vars, client, inbox, queue, serving, known>>

\* An empty body is a parse error, a broken connection an error: no callback.
RequestFails(r) ==
  /\ web[r] \in {"sent", "response"}
  /\ web' = [web EXCEPT ![r] = "done"]
  /\ body' = [body EXCEPT ![r] = Empty]
  /\ overtaken' = overtaken \ {r}
  /\ UNCHANGED <<vars, client, inbox, queue, serving, known, macAsked, cams,
                 shownLife>>

\* The interval of the map: init asks for the address while it is not known.
RefreshMap ==
  /\ macAsked' = (macAsked \/ ~ known)
  /\ UNCHANGED <<vars, web, body, client, inbox, queue, serving, known, cams,
                 overtaken, shownLife>>

MacAnswered ==
  /\ macAsked
  /\ macAsked' = FALSE
  /\ known' \in {known, TRUE}
  /\ UNCHANGED <<vars, web, body, client, inbox, queue, serving, cams,
                 overtaken, shownLife>>

-----------------------------------------------------------------------------
\* The HTTP server: a worker runs requestCam for r.
EnterHandler(r) ==
  /\ web[r] = "sent"
  /\ Cardinality({q \in Request : web[q] \in {"handler", "polling"}}) < NumWorkers
  /\ web' = [web EXCEPT ![r] = "handler"]
  /\ UNCHANGED <<vars, body, client, inbox, queue, serving, pageVars>>

\* Mutant of SendRequest: no mutex is locked, neither mMutexCam nor mMutex.
SendUnlocked(r) ==
  /\ web[r] = "handler"
  /\ web' = [web EXCEPT ![r] = "polling"]
  /\ client' = r
  /\ queue' = queue \cup {r}
  /\ UNCHANGED <<vars, body, inbox, serving, pageVars>>

\* mMutexCam, and with it the client's own mMutex, is free and taken; a new
\* socket is opened and asks the LDM.
SendRequest(r) ==
  /\ web[r] = "handler"
  /\ \A q \in Request : web[q] # "polling"
  /\ web' = [web EXCEPT ![r] = "polling"]
  /\ client' = r
  /\ queue' = queue \cup {r}
  /\ UNCHANGED <<vars, body, inbox, serving, pageVars>>

\* The poll returns with a reply; the socket is deleted, the mutex released.
TakeReply(r) ==
  /\ web[r] = "polling"
  /\ inbox # NoReply
  /\ web' = [web EXCEPT ![r] = "response"]
  /\ body' = [body EXCEPT ![r] = inbox]
  /\ client' = 0
  /\ inbox' = NoReply
  /\ UNCHANGED <<vars, queue, serving, pageVars>>

\* Mutant of TimeOut: zmq::poll waits for as long as the LDM has the request.
TimeOutNever(r) ==
  /\ web[r] = "polling"
  /\ inbox = NoReply
  /\ r \notin queue \cup {serving}
  /\ web' = [web EXCEPT ![r] = "response"]
  /\ body' = [body EXCEPT ![r] = Empty]
  /\ client' = 0
  /\ UNCHANGED <<vars, inbox, queue, serving, pageVars>>

\* The poll times out.  Without linger the request is dropped if it has not
\* left yet; otherwise the LDM will answer it.
TimeOut(r) ==
  /\ web[r] = "polling"
  /\ inbox = NoReply
  /\ web' = [web EXCEPT ![r] = "response"]
  /\ body' = [body EXCEPT ![r] = Empty]
  /\ client' = 0
  /\ queue' \in {queue, queue \ {r}}
  /\ UNCHANGED <<vars, inbox, serving, pageVars>>

-----------------------------------------------------------------------------
\* The LDM.
TakeRequest(r) ==
  /\ ReceiveRequest
  /\ r \in queue
  /\ queue' = queue \ {r}
  /\ serving' = r
  /\ UNCHANGED <<web, body, client, inbox, pageVars>>

\* The identity ZeroMQ routes the reply to r by: that of a socket of its own.
Socket(r) == r

\* The reply to a socket that is gone is dropped.
Reply ==
  /\ SendReply
  /\ serving # 0
  /\ inbox' = IF client # 0 /\ Socket(client) = Socket(serving)
              THEN [for |-> serving, life |-> crashes, cams |-> reply] ELSE inbox
  /\ serving' = 0
  /\ UNCHANGED <<web, body, client, queue, pageVars>>

\* Requests that had reached the LDM die with it.
LdmCrash ==
  /\ Crash
  /\ queue' = {}
  /\ serving' = 0
  /\ UNCHANGED <<web, body, client, inbox, pageVars>>

ServeStep ==
  /\ TestCache \/ Query \/ EndFill \/ \E k \in Key : FillFrom(k) \/ Copy(k)
  /\ UNCHANGED webVars

ReceiverStep == Receiver /\ UNCHANGED webVars

-----------------------------------------------------------------------------
Handler(r) == EnterHandler(r) \/ SendRequest(r) \/ TakeReply(r) \/ TimeOut(r)

WebNext ==
  \/ \E r \in Request : \/ UpdateCams(r) \/ DigestCams(r) \/ RequestFails(r)
                        \/ Handler(r) \/ TakeRequest(r)
  \/ RefreshMap \/ MacAnswered
  \/ Reply \/ LdmCrash \/ ServeStep \/ ReceiverStep

\* The workers run and zmq::poll times out.  Nothing is expected of the LDM, of
\* the network or of the page.
WebSpec ==
  /\ WebInit /\ [][WebNext]_allVars
  /\ \A r \in Request : WF_allVars(Handler(r))

-----------------------------------------------------------------------------
Body == [for : {0} \cup Request, life : Nat, cams : [Key -> Nat]]

WebTypeOK ==
  /\ TypeOK
  /\ web \in [Request -> {"unused", "sent", "handler", "polling", "response", "done"}]
  /\ body \in [Request -> Body]
  /\ client \in {0} \cup Request
  /\ inbox \in Body
  /\ queue \subseteq Request
  /\ serving \in {0} \cup Request
  /\ known \in BOOLEAN /\ macAsked \in BOOLEAN
  /\ cams \in [Key -> Nat]
  /\ overtaken \subseteq Request
  /\ shownLife \in [Key -> Nat]

\* A reply that comes after its requester has given up is never taken for the
\* reply to a later request, by the socket or in the response.
AnswersItsRequest ==
  /\ inbox # NoReply => inbox.for = client
  /\ \A r \in Request : body[r] # Empty => body[r].for = r

\* camData "holds and updates most recent cam data" (main.js:107) as far as
\* this goes: a CAM on the page gives way to an older one of its station only
\* if the response of another request was digested while this one was under
\* way, or if the LDM was started again since it answered with that CAM.
BackOnlyIfOvertaken ==
  [][\A r \in Request : DigestCams(r) =>
       \/ r \in overtaken
       \/ \A k \in Key : cams'[k] >= cams[k] \/ shownLife[k] < body[r].life
    ]_allVars

\* A dead LDM does not block the HTTP server: a worker that waits for the LDM
\* releases the mutex that every other request for CAMs needs.
MutexReleased ==
  \A r \in Request : web[r] = "polling" ~> web[r] = "response"
=============================================================================
