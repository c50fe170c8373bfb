--------------------------- MODULE WebQuery_proofs ---------------------------
(***************************************************************************)
(* For any number of requests, workers, keys, messages, crashes and SQL    *)
(* errors: in the composition with HTTP server and page the LDM's table    *)
(* keeps what LdmTable_proofs shows of it, every response belongs to its   *)
(* request, and the page goes back only if responses overtake each other   *)
(* or the LDM was started again in between.                                *)
(***************************************************************************)
EXTENDS WebQuery, LdmTable_proofs

\* The only open socket is that of the request that holds the mutex.
OneSocket ==
  /\ \A r \in Request : web[r] = "polling" => client = r
  /\ client # 0 => web[client] = "polling"
  /\ inbox # NoReply => client # 0

WebInv == LdmInv /\ WebTypeOK /\ OneSocket /\ AnswersItsRequest

-----------------------------------------------------------------------------
LEMMA NoReplyType == NoReply \in Body /\ Empty = NoReply
  BY IdleType DEF NoReply, Empty, Body

LEMMA RequestIsNat == Request \subseteq Nat /\ 0 \notin Request
  BY WebAssumption DEF Request

LEMMA InitWeb == WebInit => WebInv
<1> SUFFICES ASSUME WebInit PROVE WebInv
  OBVIOUS
<1>1. LdmInv
  BY InitLdm DEF WebInit
<1>2. WebTypeOK
  BY <1>1, NoReplyType, IdleType DEF WebInit, WebTypeOK, LdmInv
<1> QED
  BY <1>1, <1>2, NoReplyType DEF WebInit, WebInv, OneSocket, AnswersItsRequest

\* Every step of the composition is a step of the table or leaves it alone.
LEMMA WebStepOfTable ==
  ASSUME [WebNext]_allVars
  PROVE  [Next]_vars
  BY DEF WebNext, allVars, UpdateCams, DigestCams, RequestFails, RefreshMap, MacAnswered,
         Handler, EnterHandler, SendRequest, TakeReply, TimeOut, TakeRequest, Reply,
         LdmCrash, ServeStep, ReceiverStep, Next, Server

LEMMA TableKept ==
  ASSUME WebInv, [WebNext]_allVars
  PROVE  LdmInv'
  BY WebStepOfTable, LdmStep DEF WebInv

-----------------------------------------------------------------------------
LEMMA PageStep ==
  ASSUME WebInv, LdmInv',
         NEW r \in Request, UpdateCams(r) \/ DigestCams(r) \/ RequestFails(r)
  PROVE  WebInv'
<1> USE DEF WebInv, LdmInv
<1>1. CASE UpdateCams(r)
  <2>1. WebTypeOK'
    BY <1>1 DEF UpdateCams, WebTypeOK, pageVars
  <2>2. OneSocket' /\ AnswersItsRequest'
    BY <1>1 DEF UpdateCams, WebTypeOK, OneSocket, AnswersItsRequest
  <2> QED
    BY <2>1, <2>2
<1>2. CASE DigestCams(r)
  <2>1. body[r] \in Body /\ Digested(body[r].cams) \in [Key -> Nat] /\ body[r].life \in Nat
    BY DEF WebTypeOK, Body, Digested
  <2>2. WebTypeOK'
    <3>1. /\ cams' \in [Key -> Nat] /\ macAsked' \in BOOLEAN
          /\ overtaken' \subseteq Request /\ shownLife' \in [Key -> Nat]
      BY <1>2, <2>1 DEF DigestCams, WebTypeOK, UnderWay
    <3> QED
      BY <1>2, <3>1, NoReplyType DEF DigestCams, WebTypeOK
  <2>3. OneSocket' /\ AnswersItsRequest'
    BY <1>2, NoReplyType DEF DigestCams, WebTypeOK, OneSocket, AnswersItsRequest
  <2> QED
    BY <2>2, <2>3
<1>3. CASE RequestFails(r)
  <2>1. WebTypeOK'
    BY <1>3, NoReplyType DEF RequestFails, WebTypeOK
  <2>2. OneSocket' /\ AnswersItsRequest'
    BY <1>3, NoReplyType DEF RequestFails, WebTypeOK, OneSocket, AnswersItsRequest
  <2> QED
    BY <2>1, <2>2
<1> QED
  BY <1>1, <1>2, <1>3

LEMMA IntervalStep ==
  ASSUME WebInv, LdmInv', RefreshMap \/ MacAnswered
  PROVE  WebInv'
<1> USE DEF WebInv, LdmInv
<1>1. CASE RefreshMap
  <2>1. macAsked' \in BOOLEAN
    BY <1>1 DEF RefreshMap, WebTypeOK
  <2> QED
    BY <1>1, <2>1 DEF RefreshMap, WebTypeOK, OneSocket, AnswersItsRequest
<1>2. CASE MacAnswered
  <2>1. macAsked' \in BOOLEAN /\ known' \in BOOLEAN
    BY <1>2 DEF MacAnswered, WebTypeOK
  <2> QED
    BY <1>2, <2>1 DEF MacAnswered, WebTypeOK, OneSocket, AnswersItsRequest
<1> QED
  BY <1>1, <1>2

LEMMA HandlerStep ==
  ASSUME WebInv, LdmInv', NEW r \in Request, Handler(r)
  PROVE  WebInv'
<1> USE DEF WebInv, LdmInv
<1>1. CASE EnterHandler(r)
  <2>1. WebTypeOK'
    BY <1>1 DEF EnterHandler, WebTypeOK, pageVars
  <2>2. OneSocket' /\ AnswersItsRequest'
    BY <1>1 DEF EnterHandler, WebTypeOK, OneSocket, AnswersItsRequest
  <2> QED
    BY <2>1, <2>2
<1>2. CASE SendRequest(r)
  <2>1. WebTypeOK'
    BY <1>2 DEF SendRequest, WebTypeOK, pageVars
  <2>2. inbox = NoReply
    \* The mutex is free, so no socket is open.
    BY <1>2 DEF SendRequest, OneSocket, AnswersItsRequest, WebTypeOK
  <2>3. OneSocket' /\ AnswersItsRequest'
    BY <1>2, <2>2 DEF SendRequest, WebTypeOK, OneSocket, AnswersItsRequest
  <2> QED
    BY <2>1, <2>3
<1>3. CASE TakeReply(r)
  <2>1. WebTypeOK'
    BY <1>3, NoReplyType DEF TakeReply, WebTypeOK, pageVars
  <2>2. client = r /\ inbox.for = r
    BY <1>3 DEF TakeReply, OneSocket, AnswersItsRequest
  <2>3. AnswersItsRequest'
    BY <1>3, <2>2 DEF TakeReply, WebTypeOK, AnswersItsRequest
  <2>4. OneSocket'
    BY <1>3, <2>2 DEF TakeReply, WebTypeOK, OneSocket
  <2> QED
    BY <2>1, <2>3, <2>4
<1>4. CASE TimeOut(r)
  <2>1. WebTypeOK'
    BY <1>4, NoReplyType DEF TimeOut, WebTypeOK, pageVars
  <2>2. OneSocket' /\ AnswersItsRequest'
    BY <1>4, NoReplyType DEF TimeOut, WebTypeOK, OneSocket, AnswersItsRequest
  <2> QED
    BY <2>1, <2>2
<1> QED
  BY <1>1, <1>2, <1>3, <1>4 DEF Handler

LEMMA LdmSideStep ==
  ASSUME WebInv, LdmInv',
         \/ \E r \in Request : TakeRequest(r)
         \/ Reply \/ LdmCrash \/ ServeStep \/ ReceiverStep
  PROVE  WebInv'
<1> USE DEF WebInv, LdmInv
<1>1. ASSUME NEW r \in Request, TakeRequest(r) PROVE WebInv'
  BY <1>1 DEF TakeRequest, WebTypeOK, pageVars, OneSocket, AnswersItsRequest
<1>2. CASE Reply
  <2>1. crashes \in Nat /\ reply \in [Key -> Nat]
    BY LdmAssumption DEF TypeOK
  <2>2. [for |-> serving, life |-> crashes, cams |-> reply] \in Body
    BY <2>1 DEF WebTypeOK, Body
  <2>3. WebTypeOK'
    BY <1>2, <2>2 DEF Reply, WebTypeOK, pageVars
  <2>4. OneSocket' /\ AnswersItsRequest'
    BY <1>2 DEF Reply, OneSocket, AnswersItsRequest, Socket
  <2> QED
    BY <2>3, <2>4
<1>3. CASE LdmCrash
  BY <1>3 DEF LdmCrash, WebTypeOK, pageVars, OneSocket, AnswersItsRequest
<1>4. CASE ServeStep \/ ReceiverStep
  BY <1>4 DEF ServeStep, ReceiverStep, webVars, WebTypeOK, OneSocket, AnswersItsRequest
<1> QED
  BY <1>1, <1>2, <1>3, <1>4

LEMMA WebStep ==
  ASSUME WebInv, [WebNext]_allVars
  PROVE  WebInv'
<1>1. LdmInv'
  BY TableKept
<1>2. CASE UNCHANGED allVars
  BY <1>1, <1>2 DEF allVars, webVars, WebInv, LdmInv, WebTypeOK, OneSocket, AnswersItsRequest
<1>3. CASE WebNext
  BY <1>1, <1>3, PageStep, IntervalStep, HandlerStep, LdmSideStep DEF WebNext
<1> QED
  BY <1>2, <1>3

LEMMA WebInvariant == WebSpec => []WebInv
<1>1. WebInv /\ [WebNext]_allVars => WebInv'
  BY WebStep
<1> QED
  BY <1>1, InitWeb, PTL DEF WebSpec

-----------------------------------------------------------------------------
\* Every variable of the page, the HTTP server and the LDM keeps its type.
THEOREM WebTypeCorrect == WebSpec => []WebTypeOK
<1>1. WebInv => WebTypeOK
  BY DEF WebInv
<1> QED
  BY <1>1, WebInvariant, PTL

\* A reply that was sent after its requester gave up reaches no other request.
THEOREM ResponsesAreOwn == WebSpec => []AnswersItsRequest
<1>1. WebInv => AnswersItsRequest
  BY DEF WebInv
<1> QED
  BY <1>1, WebInvariant, PTL

\* Page and HTTP server use the LDM as LdmTable has it: the composition takes
\* the table through steps of its own only, so what holds of the table alone
\* holds here: its cache is at most one message behind its database.
THEOREM CompositionKeepsTable == WebSpec => [][Next]_vars /\ []CacheKeepsUp
<1>1. [WebNext]_allVars => [Next]_vars
  BY WebStepOfTable
<1>2. WebInv => CacheKeepsUp
  BY DEF WebInv, LdmInv, CacheKeepsUp
<1> QED
  BY <1>1, <1>2, WebInvariant, PTL DEF WebSpec

-----------------------------------------------------------------------------
\* No answer of this life of the LDM will take message v of k back: the cache has
\* it or a newer one, is not filled again, and the answer being copied has it once
\* it has passed k.
NothingOlder(k, v) ==
  v = 0 \/ /\ v <= cache[k]
           /\ pc \notin {"lock", "fill"}
           /\ pc = "copy" /\ k <= pos => v <= reply[k]

\* The answers on their way to the page.
Answers == ({inbox} \cup {body[r] : r \in Request}) \ {NoReply}

NotFromFuture ==
  /\ \A k \in Key : shownLife[k] <= crashes
  /\ \A b \in Answers : b.life <= crashes
  /\ \A r \in Request : body[r] # Empty => web[r] = "response"

\* What this life of the LDM has reported it does not take back.
LifeMovesForward ==
  /\ \A k \in Key : shownLife[k] = crashes => NothingOlder(k, cams[k])
  /\ \A b \in Answers : b.life = crashes => \A k \in Key : NothingOlder(k, b.cams[k])

\* The answer b has nothing older than the page, unless that is of an earlier life.
Forward(b) ==
  \A k \in Key : b.cams[k] = 0 \/ shownLife[k] < b.life \/ cams[k] <= b.cams[k]

OnTimeIsForward ==
  \A r \in Request \ overtaken :
    /\ body[r] # Empty => Forward(body[r])
    /\ inbox # NoReply /\ inbox.for = r => Forward(inbox)

PageInv == WebInv /\ NotFromFuture /\ LifeMovesForward /\ OnTimeIsForward

LEMMA NothingAt == \A k \in Key : Nothing[k] = 0
  BY DEF Nothing

\* What an answer of this life has reported stays reported until the LDM crashes.
LEMMA NothingOlderStep ==
  ASSUME LdmInv, [Next]_vars, ~ Crash,
         NEW k \in Key, NEW v \in Nat, NothingOlder(k, v)
  PROVE  NothingOlder(k, v)'
<1>0. /\ rx.key \in Key /\ rx.message \in Nat /\ k \in Nat /\ k > 0 /\ pos \in Nat
      /\ cache \in [Key -> Nat] /\ reply \in [Key -> Nat]
  <2>1. k \in Nat /\ k > 0
    BY LdmAssumption DEF Key
  <2>2. pos \in Nat
    BY LdmAssumption DEF LdmInv, TypeOK
  <2> QED
    BY <2>1, <2>2, RxFields DEF LdmInv, TypeOK
<1> SUFFICES ASSUME v # 0, v <= cache[k], pc \notin {"lock", "fill"},
                    pc = "copy" /\ k <= pos => v <= reply[k]
             PROVE  NothingOlder(k, v)'
  BY DEF NothingOlder
<1>1. CASE WriteCache
  <2>1. cache[rx.key] <= rx.message
    BY <1>0, <1>1 DEF WriteCache, LdmInv, Numbered
  <2>2. cache'[k] = (IF k = rx.key THEN rx.message ELSE cache[k])
    BY <1>0, <1>1 DEF WriteCache
  <2> QED
    BY <1>0, <1>1, <2>1, <2>2 DEF WriteCache, NothingOlder
<1>2. CASE TestCache
  <2>1. cache # Nothing
    BY <1>0, NothingAt
  <2> QED
    BY <1>0, <1>2, <2>1 DEF TestCache, NothingOlder
<1>3. ASSUME NEW j \in Key, Copy(j) PROVE NothingOlder(k, v)'
  <2>1. /\ pc = "copy" /\ j \in Nat /\ j > pos /\ pos' = j /\ cache' = cache /\ pc' = pc
        /\ reply'[k] = (IF k = j THEN cache[k] ELSE reply[k])
    BY <1>0, <1>3 DEF Copy, Key
  <2>2. ~ (pos < k /\ k < j)
    BY <1>0, <1>3 DEF Copy
  <2> QED
    BY <1>0, <2>1, <2>2 DEF NothingOlder
<1>4. CASE Query \/ EndFill \/ \E j \in Key : FillFrom(j)
  BY <1>4 DEF Query, EndFill, FillFrom
<1>5. CASE SendReply \/ ReceiveRequest \/ UNCHANGED vars
  BY <1>5 DEF SendReply, ReceiveRequest, vars, NothingOlder
<1>6. CASE Insert \/ InsertFails \/ \E j \in Key : Receive(j)
  BY <1>6 DEF Insert, InsertFails, Receive, NothingOlder
<1> QED
  BY <1>1, <1>2, <1>3, <1>4, <1>5, <1>6 DEF Next, Receiver, Server

-----------------------------------------------------------------------------
LEMMA AnswerType ==
  ASSUME WebTypeOK, NEW b \in Answers
  PROVE  b \in Body /\ b.life \in Nat /\ \A k \in Key : b.cams[k] \in Nat
<1>1. b \in Body
  BY DEF Answers, WebTypeOK
<1> QED
  BY <1>1 DEF Body

\* As long as the page digests nothing and the LDM does not crash, what was
\* said of its answers stands.
LEMMA LifeGoesOn ==
  ASSUME PageInv, [Next]_vars, UNCHANGED <<cams, shownLife, crashes>>
  PROVE  /\ \A k \in Key : shownLife[k] = crashes => NothingOlder(k, cams[k])'
         /\ \A b \in Answers : b.life = crashes =>
              \A k \in Key : NothingOlder(k, b.cams[k])'
<1>0. LdmInv /\ WebTypeOK /\ ~ Crash
  BY LdmAssumption DEF PageInv, WebInv, LdmInv, TypeOK, Crash
<1>1. ASSUME NEW k \in Key, shownLife[k] = crashes PROVE NothingOlder(k, cams[k])'
  <2>1. cams[k] \in Nat /\ NothingOlder(k, cams[k])
    BY <1>0, <1>1 DEF WebTypeOK, PageInv, LifeMovesForward
  <2> QED
    BY <1>0, <2>1, NothingOlderStep DEF NothingOlder
<1>2. ASSUME NEW b \in Answers, b.life = crashes, NEW k \in Key
      PROVE  NothingOlder(k, b.cams[k])'
  <2>1. b.cams[k] \in Nat /\ NothingOlder(k, b.cams[k])
    BY <1>0, <1>2, AnswerType DEF PageInv, LifeMovesForward
  <2> QED
    BY <1>0, <2>1, NothingOlderStep
<1> QED
  BY <1>1, <1>2

LEMMA InitPageInv == WebInit => PageInv
<1> SUFFICES ASSUME WebInit PROVE PageInv
  OBVIOUS
<1>1. /\ WebInv /\ crashes = 0 /\ shownLife = Nothing /\ cams = Nothing
      /\ inbox = NoReply /\ body = [r \in Request |-> NoReply]
  BY InitWeb DEF WebInit, Init, Empty
<1>2. Answers = {}
  BY <1>1 DEF Answers
<1>3. NotFromFuture
  BY <1>1, <1>2, NothingAt DEF NotFromFuture, Empty
<1>4. LifeMovesForward
  BY <1>1, <1>2, NothingAt DEF LifeMovesForward, NothingOlder
<1>5. OnTimeIsForward
  BY <1>1 DEF OnTimeIsForward, Empty
<1> QED
  BY <1>1, <1>3, <1>4, <1>5 DEF PageInv

\* A step that hands answers on or drops them.
LEMMA HandedOn ==
  ASSUME PageInv, WebInv', [Next]_vars, UNCHANGED <<cams, shownLife, crashes>>,
         Answers' \subseteq Answers,
         \A r \in Request : body'[r] # Empty => web'[r] = "response",
         OnTimeIsForward'
  PROVE  PageInv'
<1>1. LifeMovesForward'
  BY LifeGoesOn DEF LifeMovesForward, NothingOlder
<1>2. NotFromFuture'
  BY DEF PageInv, NotFromFuture
<1> QED
  BY <1>1, <1>2 DEF PageInv

-----------------------------------------------------------------------------
\* The steps that concern neither an answer nor what the page shows of one.
LEMMA ElsewhereKeepsPage ==
  ASSUME PageInv, WebInv', [Next]_vars,
         UNCHANGED <<inbox, body, cams, shownLife, crashes, overtaken>>,
         \A r \in Request : web[r] = "response" => web'[r] = "response"
  PROVE  PageInv'
<1>1. Answers' = Answers
  BY DEF Answers
<1>2. OnTimeIsForward'
  BY DEF PageInv, OnTimeIsForward, Forward
<1>3. \A r \in Request : body'[r] # Empty => web'[r] = "response"
  BY DEF PageInv, NotFromFuture
<1> QED
  BY <1>1, <1>2, <1>3, HandedOn

LEMMA RequestKeepsPage ==
  ASSUME PageInv, WebInv', [WebNext]_allVars, NEW r \in Request,
         UpdateCams(r) \/ EnterHandler(r) \/ SendRequest(r) \/ TakeRequest(r)
  PROVE  PageInv'
<1>1. [Next]_vars
  BY WebStepOfTable
<1>2. UNCHANGED <<inbox, body, cams, shownLife, crashes, overtaken>>
  BY DEF UpdateCams, EnterHandler, SendRequest, TakeRequest, ReceiveRequest, vars, pageVars
<1>3. \A q \in Request : web[q] = "response" => web'[q] = "response"
  BY DEF UpdateCams, EnterHandler, SendRequest, TakeRequest, PageInv, WebInv, WebTypeOK
<1> QED
  BY <1>1, <1>2, <1>3, ElsewhereKeepsPage

\* The reply is handed to the response of the request that it was made for.
LEMMA TakeReplyKeepsPage ==
  ASSUME PageInv, WebInv', NEW r \in Request, TakeReply(r)
  PROVE  PageInv'
<1> USE DEF PageInv
<1>1. /\ UNCHANGED <<vars, cams, shownLife, crashes, overtaken>>
      /\ web' = [web EXCEPT ![r] = "response"] /\ body' = [body EXCEPT ![r] = inbox]
      /\ inbox # NoReply /\ inbox' = NoReply
      /\ web \in [Request -> {"unused", "sent", "handler", "polling", "response", "done"}]
      /\ body \in [Request -> Body]
  BY DEF TakeReply, pageVars, vars, WebInv, WebTypeOK
<1>2. inbox.for = r
  BY DEF TakeReply, WebInv, OneSocket, AnswersItsRequest
<1>3. Answers' \subseteq Answers
  BY <1>1 DEF Answers
<1>4. \A q \in Request : body'[q] # Empty => web'[q] = "response"
  BY <1>1 DEF NotFromFuture
<1>5. OnTimeIsForward'
  BY <1>1, <1>2 DEF OnTimeIsForward, Forward
<1> QED
  BY <1>1, <1>3, <1>4, <1>5, HandedOn

\* An empty body takes the place of an answer.
LEMMA GivenUpKeepsPage ==
  ASSUME PageInv, WebInv', NEW r \in Request, TimeOut(r) \/ RequestFails(r)
  PROVE  PageInv'
<1> USE DEF PageInv
<1>1. /\ UNCHANGED <<vars, cams, shownLife, crashes, inbox>>
      /\ overtaken \ {r} \subseteq overtaken'
      /\ web' = [web EXCEPT ![r] = "response"] \/ web' = [web EXCEPT ![r] = "done"]
      /\ body' = [body EXCEPT ![r] = Empty]
      /\ web \in [Request -> {"unused", "sent", "handler", "polling", "response", "done"}]
      /\ body \in [Request -> Body]
  BY DEF TimeOut, RequestFails, pageVars, vars, WebInv, WebTypeOK
<1>2. inbox # NoReply => inbox.for # r
  BY DEF TimeOut, RequestFails, WebInv, WebTypeOK, OneSocket, AnswersItsRequest
<1>3. Answers' \subseteq Answers
  BY <1>1, NoReplyType DEF Answers
<1>4. \A q \in Request : body'[q] # Empty => web'[q] = "response"
  BY <1>1 DEF NotFromFuture
<1>5. OnTimeIsForward'
  BY <1>1, <1>2 DEF OnTimeIsForward, Forward
<1> QED
  BY <1>1, <1>3, <1>4, <1>5, HandedOn

\* With the LDM everything that is known of its present life begins anew.
LEMMA CrashKeepsPage ==
  ASSUME PageInv, WebInv', LdmCrash
  PROVE  PageInv'
<1> USE DEF PageInv
<1>1. /\ WebTypeOK /\ crashes \in Nat /\ crashes' = crashes + 1
      /\ UNCHANGED <<inbox, body, web, cams, shownLife, overtaken>>
  BY LdmAssumption DEF WebInv, LdmInv, TypeOK, LdmCrash, Crash, pageVars
<1>2. Answers' = Answers
  BY <1>1 DEF Answers
<1>3. /\ \A b \in Answers : b.life <= crashes' /\ b.life # crashes'
      /\ \A k \in Key : shownLife[k] <= crashes' /\ shownLife[k] # crashes'
  BY <1>1, AnswerType DEF NotFromFuture, WebTypeOK
<1>4. NotFromFuture' /\ LifeMovesForward'
  BY <1>1, <1>2, <1>3 DEF NotFromFuture, LifeMovesForward
<1>5. OnTimeIsForward'
  BY <1>1 DEF OnTimeIsForward, Forward
<1> QED
  BY <1>4, <1>5

\* A new answer has what the page has from this life of the LDM, or newer.
LEMMA ReplyKeepsPage ==
  ASSUME PageInv, WebInv', Reply
  PROVE  PageInv'
<1> USE DEF PageInv
<1> DEFINE new == [for |-> serving, life |-> crashes, cams |-> reply]
<1>1. /\ LdmInv /\ WebTypeOK /\ crashes \in Nat /\ reply \in [Key -> Nat]
      /\ pc = "copy" /\ pc' = "receive" /\ SendReply
      /\ UNCHANGED <<web, body, cams, shownLife, crashes, overtaken, cache, reply>>
      /\ inbox' = inbox \/ inbox' = new
  BY LdmAssumption DEF WebInv, LdmInv, TypeOK, Reply, SendReply, pageVars
<1>2. [Next]_vars
  BY <1>1 DEF Next, Server
<1>3. \A b \in Answers' : b \in Answers \/ b = new
  BY <1>1 DEF Answers
<1>4. new.life = crashes /\ new.cams = reply
  OBVIOUS
<1> HIDE DEF new
<1>5. /\ \A k \in Key : shownLife[k] = crashes => NothingOlder(k, cams[k])'
      /\ \A b \in Answers : b.life = crashes =>
           \A k \in Key : NothingOlder(k, b.cams[k])'
  BY <1>1, <1>2, LifeGoesOn
<1>6. \A k \in Key : reply[k] <= cache[k]
  BY <1>1 DEF LdmInv, AnswersKept
<1>7. LifeMovesForward'
  <2>1. ASSUME NEW b \in Answers', b.life = crashes', NEW k \in Key
        PROVE  NothingOlder(k, b.cams[k])'
    <3>1. CASE b \in Answers
      BY <1>1, <1>5, <2>1, <3>1
    <3>2. CASE b = new
      BY <1>1, <1>4, <1>6, <3>2 DEF NothingOlder
    <3> QED
      BY <1>3, <3>1, <3>2
  <2>2. \A k \in Key : shownLife'[k] = crashes' => NothingOlder(k, cams[k])'
    BY <1>1, <1>5
  <2> QED
    BY <2>1, <2>2 DEF LifeMovesForward
<1>8. NotFromFuture'
  BY <1>1, <1>3, <1>4 DEF NotFromFuture
<1>9. ASSUME NEW k \in Key
      PROVE  reply[k] = 0 \/ shownLife[k] < crashes \/ cams[k] <= reply[k]
  <2>0. /\ cams[k] \in Nat /\ shownLife[k] \in Nat /\ shownLife[k] <= crashes
        /\ cache[k] \in Nat /\ k \in Nat /\ pos \in Nat
    BY <1>1, LdmAssumption DEF WebTypeOK, NotFromFuture, LdmInv, TypeOK, Key
  <2>1. CASE shownLife[k] = crashes /\ cams[k] # 0
    <3>1. cams[k] <= cache[k] /\ (k <= pos => cams[k] <= reply[k])
      BY <1>1, <2>1 DEF LifeMovesForward, NothingOlder
    \* The iteration ends where no entry is left.
    <3>2. pos < k => cache[k] = 0
      BY <1>1 DEF SendReply
    <3> QED
      BY <2>0, <2>1, <3>1, <3>2
  <2> QED
    BY <1>1, <2>0, <2>1
<1>10. OnTimeIsForward'
  BY <1>1, <1>4, <1>9 DEF OnTimeIsForward, Forward, Reply, Socket, new
<1> QED
  BY <1>7, <1>8, <1>10

\* The page takes the life of each message it takes, and every other answer on its
\* way is overtaken.
LEMMA DigestKeepsPage ==
  ASSUME PageInv, WebInv', NEW r \in Request, DigestCams(r)
  PROVE  PageInv'
<1> USE DEF PageInv
<1>1. /\ WebTypeOK /\ web[r] = "response" /\ body[r] # Empty
      /\ UNCHANGED <<vars, inbox, client>>
      /\ web' = [web EXCEPT ![r] = "done"] /\ body' = [body EXCEPT ![r] = Empty]
      /\ web \in [Request -> {"unused", "sent", "handler", "polling", "response", "done"}]
      /\ body \in [Request -> Body] /\ body[r] \in Answers
  BY NoReplyType DEF DigestCams, WebInv, WebTypeOK, Answers
<1>2. Answers' \subseteq Answers
  BY <1>1, NoReplyType DEF Answers
<1>3. \A q \in Request : body'[q] # Empty => web'[q] = "response" /\ q # r /\ body'[q] = body[q]
  BY <1>1 DEF NotFromFuture
<1>4. inbox # NoReply => inbox.for \in Request /\ inbox.for # r /\ web[inbox.for] = "polling"
  BY <1>1 DEF WebInv, WebTypeOK, OneSocket, AnswersItsRequest
<1>5. CASE ~ known
  <2>1. UNCHANGED <<cams, shownLife, crashes, overtaken>>
    BY <1>1, <1>5 DEF DigestCams, vars
  <2>2. OnTimeIsForward'
    BY <1>1, <1>3, <2>1 DEF OnTimeIsForward, Forward, NotFromFuture
  <2> QED
    BY <1>1, <1>2, <1>3, <2>1, <2>2, HandedOn
<1>6. CASE known
  <2>1. ASSUME NEW k \in Key
        PROVE  \/ cams'[k] = body[r].cams[k] /\ shownLife'[k] = body[r].life
               \/ cams'[k] = cams[k] /\ shownLife'[k] = shownLife[k]
    BY <1>6 DEF DigestCams, Digested
  <2>2. overtaken' = (overtaken \cup UnderWay) \ {r}
    BY <1>6 DEF DigestCams
  <2>3. /\ UNCHANGED <<cache, pc, reply, pos, crashes>>
        /\ \A k \in Key : \A v : NothingOlder(k, v)' <=> NothingOlder(k, v)
    BY <1>1 DEF vars, NothingOlder
  <2>4. ASSUME NEW k \in Key, shownLife'[k] = crashes' PROVE NothingOlder(k, cams[k])'
    <3>1. NothingOlder(k, cams'[k])
      BY <1>1, <2>1, <2>3, <2>4 DEF LifeMovesForward
    <3> QED
      BY <2>3, <3>1 DEF NothingOlder
  <2>5. LifeMovesForward'
    BY <1>2, <2>3, <2>4 DEF LifeMovesForward
  <2>6. NotFromFuture'
    BY <1>1, <1>2, <1>3, <2>1, <2>3 DEF NotFromFuture
  <2>7. OnTimeIsForward'
    <3>1. \A q \in Request : q # r /\ web[q] \in {"response", "polling"} => q \in overtaken'
      BY <2>2 DEF UnderWay
    <3> QED
      BY <1>1, <1>3, <1>4, <3>1 DEF OnTimeIsForward, NotFromFuture
  <2> QED
    BY <2>5, <2>6, <2>7
<1> QED
  BY <1>5, <1>6

-----------------------------------------------------------------------------
LEMMA PageInvStep ==
  ASSUME PageInv, [WebNext]_allVars
  PROVE  PageInv'
<1>1. WebInv'
  BY WebStep DEF PageInv
<1>2. CASE UNCHANGED allVars
  <2>1. [Next]_vars /\ UNCHANGED <<inbox, body, web, cams, shownLife, crashes, overtaken>>
    BY <1>2 DEF allVars, webVars, vars
  <2> QED
    BY <1>1, <2>1, ElsewhereKeepsPage
<1>3. ASSUME NEW r \in Request,
             UpdateCams(r) \/ DigestCams(r) \/ RequestFails(r) \/ Handler(r) \/ TakeRequest(r)
      PROVE  PageInv'
  BY <1>1, <1>3, RequestKeepsPage, DigestKeepsPage, GivenUpKeepsPage, TakeReplyKeepsPage
  DEF Handler
<1>4. CASE Reply \/ LdmCrash
  BY <1>1, <1>4, ReplyKeepsPage, CrashKeepsPage
<1>5. CASE RefreshMap \/ MacAnswered \/ ServeStep \/ ReceiverStep
  <2>1. [Next]_vars /\ UNCHANGED <<inbox, body, web, cams, shownLife, crashes, overtaken>>
    BY <1>5, WebStepOfTable
    DEF RefreshMap, MacAnswered, ServeStep, TestCache, Query, EndFill, FillFrom, Copy,
        ReceiverStep, Receiver, WriteCache, Insert, InsertFails, Receive, vars, webVars
  <2> QED
    BY <1>1, <2>1, ElsewhereKeepsPage
<1> QED
  BY <1>2, <1>3, <1>4, <1>5 DEF WebNext

\* Whatever the number of stations, polls, crashes and SQL errors: a CAM on the
\* page gives way to an older one only where responses overtake each other or the
\* LDM has been started again in between; neither the fill of the cache, whole or
\* broken off, nor a key that an answer leaves out takes the page back.
THEOREM PageMovesForward == WebSpec => BackOnlyIfOvertaken
<1>1. ASSUME PageInv, NEW r \in Request, DigestCams(r), r \notin overtaken, NEW k \in Key
      PROVE  cams'[k] >= cams[k] \/ shownLife[k] < body[r].life
  <2>1. body[r] # Empty /\ cams' \in {cams, Digested(body[r].cams)}
    BY <1>1 DEF DigestCams
  <2>2. \/ body[r].cams[k] = 0 \/ cams[k] <= body[r].cams[k]
        \/ shownLife[k] < body[r].life
    BY <1>1, <2>1 DEF PageInv, OnTimeIsForward, Forward
  <2>3. cams[k] \in Nat /\ body[r] \in Body
    BY <1>1 DEF PageInv, WebInv, WebTypeOK
  <2> QED
    BY <2>1, <2>2, <2>3 DEF Digested, Body
<1>2. PageInv => [\A r \in Request : DigestCams(r) =>
                    \/ r \in overtaken
                    \/ \A k \in Key : cams'[k] >= cams[k] \/ shownLife[k] < body[r].life
                 ]_allVars
  BY <1>1
<1>3. PageInv /\ [WebNext]_allVars => PageInv'
  BY PageInvStep
<1> QED
  BY <1>2, <1>3, InitPageInv, PTL DEF WebSpec, BackOnlyIfOvertaken
=============================================================================
