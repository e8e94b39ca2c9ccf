--------------------------- MODULE LuaConsoleProofs ---------------------------
(***************************************************************************)
(* Proofs about LuaConsole: it implements Snippets, for any number of      *)
(* requests and connections.  The inductive invariant follows the snippet  *)
(* that is on its way through the places it can be in.                     *)
(***************************************************************************)
EXTENDS LuaConsole, TLAPS

\* connLock is held by the request that has been handed over or is about to be.
LockOK ==
    \A r \in Request : connLock = r <=> request[r] \in {"offer", "await"}

\* What the snippet, and what the answer of r is in.
SnippetIsIn(r, c) == writer[c] = r \/ toDcs[c] = r
AnswerIsIn(r, c) == toHub[c] = r \/ reader[c] = r

\* Only the request that waits for its answer is on its way, ...
WayOK ==
    \A r \in Request :
        /\ txbuf = r => request[r] = "await"
        /\ \A c \in Conn : SnippetIsIn(r, c) \/ AnswerIsIn(r, c) => request[r] = "await"

\* ... before it has been executed as a snippet, then as an answer, ...
ExecutedOK ==
    \A r \in Request :
        /\ txbuf = r => r \in executed
        /\ \A c \in Conn : /\ SnippetIsIn(r, c) => r \notin executed
                           /\ AnswerIsIn(r, c) => r \in executed

\* ... and in one place at a time.
OnePlace ==
    \A r \in Request, c \in Conn, d \in Conn :
        /\ SnippetIsIn(r, c) /\ SnippetIsIn(r, d) => c = d
        /\ AnswerIsIn(r, c) /\ AnswerIsIn(r, d) => c = d
        /\ ~(writer[c] = r /\ toDcs[c] = r)
        /\ ~(toHub[c] = r /\ reader[c] = r)
        /\ ~(txbuf = r /\ AnswerIsIn(r, c))

\* A request that has ended has its answer, and only then.
AnswersOK ==
    \A r \in Request :
        /\ answer[r] = NoAnswer <=> request[r] # "ended"
        /\ r \in executed =>
              \/ request[r] = "await"
              \/ request[r] = "ended" /\ answer[r] = r

IInv == TypeOK /\ LockOK /\ WayOK /\ ExecutedOK /\ OnePlace /\ AnswersOK

LEMMA InitEstablishes == Init => IInv
<1> SUFFICES ASSUME Init PROVE IInv
  OBVIOUS
<1>1. TypeOK
  BY DEF Init, TypeOK
<1>2. /\ \A r \in Request : r # None /\ r \notin {"none", "receive", "ended"}
      /\ NoAnswer \notin Request /\ Refused # NoAnswer
  BY LuaConsoleAssumption
<1>3. LockOK /\ AnswersOK
  BY <1>2 DEF Init, LockOK, AnswersOK
<1>4. /\ \A r \in Request : txbuf # r
      /\ \A r \in Request, c \in Conn : ~SnippetIsIn(r, c) /\ ~AnswerIsIn(r, c)
  BY <1>2 DEF Init, SnippetIsIn, AnswerIsIn
<1>5. WayOK /\ ExecutedOK
  BY <1>4 DEF WayOK, ExecutedOK
<1>6. OnePlace
  BY <1>4 DEF OnePlace, SnippetIsIn, AnswerIsIn
<1> QED
  BY <1>1, <1>3, <1>5, <1>6 DEF IInv

-----------------------------------------------------------------------------
(***************************************************************************)
(* Types.                                                                  *)
(***************************************************************************)
LEMMA ConnectionKeepsTypes ==
    ASSUME TypeOK, NEW c \in Conn, Connection(c)
    PROVE  TypeOK'
<1> USE DEF TypeOK, snippetVars, hubVars, hookVars, linkVars
<1>1. CASE Accept(c)
  BY <1>1 DEF Accept, HubCloses
<1>2. CASE HandleConnection(c)
  BY <1>2 DEF HandleConnection
<1>3. CASE Send(c)
  BY <1>3 DEF Send, HubCloses
<1>4. CASE Decode(c)
  BY <1>4 DEF Decode, HubCloses
<1>5. CASE EndReading(c)
  BY <1>5 DEF EndReading
<1> QED
  BY <1>1, <1>2, <1>3, <1>4, <1>5 DEF Connection

LEMMA RequestKeepsTypes ==
    ASSUME TypeOK, NEW r \in Request, Ask(r) \/ HandleExecuteSnippetRequest(r)
    PROVE  TypeOK'
<1> USE DEF TypeOK, hookVars, linkVars
<1>1. CASE Ask(r)
  BY <1>1 DEF Ask
<1>2. CASE LockConn(r)
  BY <1>2 DEF LockConn
<1>3. ASSUME NEW c \in Conn, HandOver(r, c)
      PROVE  TypeOK'
  BY <1>3 DEF HandOver
<1>4. ASSUME NEW c \in Conn, Receive(r, c)
      PROVE  TypeOK'
  BY <1>4 DEF Receive, End
<1>5. CASE Timeout(r)
  BY <1>5 DEF Timeout, End
<1> QED
  BY <1>1, <1>2, <1>3, <1>4, <1>5 DEF HandleExecuteSnippetRequest

LEMMA HookKeepsTypes ==
    ASSUME TypeOK, (\E c \in Conn : Connect(c)) \/ HookSend \/ HookReceive \/ StartDcs \/ StopDcs
    PROVE  TypeOK'
<1> USE DEF TypeOK, snippetVars, hubVars, hookVars, linkVars
<1>1. ASSUME NEW c \in Conn, Connect(c)
      PROVE  TypeOK'
  BY <1>1 DEF Connect
<1>2. CASE HookSend
  BY <1>2 DEF HookSend, DcsCloses
<1>3. CASE HookReceive
  BY <1>3 DEF HookReceive
<1>4. CASE StartDcs
  BY <1>4 DEF StartDcs
<1>5. CASE StopDcs
  BY <1>5 DEF StopDcs, DcsCloses
<1> QED
  BY <1>1, <1>2, <1>3, <1>4, <1>5

LEMMA NextKeepsTypes == TypeOK /\ [Next]_vars => TypeOK'
<1> SUFFICES ASSUME TypeOK, [Next]_vars
             PROVE  TypeOK'
  OBVIOUS
<1>1. CASE UNCHANGED vars
  BY <1>1 DEF TypeOK, vars, snippetVars, hubVars, hookVars, linkVars
<1> QED
  BY <1>1, ConnectionKeepsTypes, RequestKeepsTypes, HookKeepsTypes DEF Next

-----------------------------------------------------------------------------
(***************************************************************************)
(* Where snippets and answers are.                                         *)
(***************************************************************************)
IsRequest(x) == x \in Request

\* The values of variables that are no requests.
LEMMA OtherValues ==
    /\ ~IsRequest(None) /\ ~IsRequest(NoAnswer) /\ ~IsRequest(Refused)
    /\ ~IsRequest("none") /\ ~IsRequest("receive") /\ ~IsRequest("ended")
    /\ ~IsRequest("decode") /\ ~IsRequest("report")
    /\ NoAnswer # Refused
BY LuaConsoleAssumption DEF IsRequest

\* A step that at most loses what is on its way, and leaves requests alone.
LEMMA LosingKeeps ==
    ASSUME IInv, TypeOK', UNCHANGED <<request, connLock, answer, executed>>,
           \A r \in Request : txbuf' = r => txbuf = r,
           \A r \in Request, c \in Conn :
              /\ writer'[c] = r => writer[c] = r
              /\ reader'[c] = r => reader[c] = r
              /\ toDcs'[c] = r => toDcs[c] = r
              /\ toHub'[c] = r => toHub[c] = r
    PROVE  IInv'
<1>1. LockOK' /\ AnswersOK'
  BY DEF IInv, LockOK, AnswersOK
<1>2. WayOK' /\ ExecutedOK'
  BY DEF IInv, WayOK, ExecutedOK, SnippetIsIn, AnswerIsIn
<1>3. OnePlace'
  BY DEF IInv, OnePlace, SnippetIsIn, AnswerIsIn
<1> QED
  BY <1>1, <1>2, <1>3 DEF IInv

LEMMA OthersLose ==
    ASSUME IInv, TypeOK',
           \/ \E c \in Conn : Accept(c) \/ HandleConnection(c) \/ EndReading(c) \/ Connect(c)
           \/ StartDcs \/ StopDcs \/ UNCHANGED vars
    PROVE  IInv'
<1> USE OtherValues DEF IsRequest, IInv, TypeOK, snippetVars, hubVars, hookVars, linkVars
<1>1. ASSUME NEW c \in Conn, Accept(c)
      PROVE  IInv'
  BY <1>1, LosingKeeps DEF Accept, HubCloses
<1>2. ASSUME NEW c \in Conn, HandleConnection(c)
      PROVE  IInv'
  BY <1>2, LosingKeeps DEF HandleConnection
<1>3. ASSUME NEW c \in Conn, EndReading(c)
      PROVE  IInv'
  BY <1>3, LosingKeeps DEF EndReading
<1>4. ASSUME NEW c \in Conn, Connect(c)
      PROVE  IInv'
  BY <1>4, LosingKeeps DEF Connect
<1>5. CASE StartDcs
  BY <1>5, LosingKeeps DEF StartDcs
<1>6. CASE StopDcs
  BY <1>6, LosingKeeps DEF StopDcs, DcsCloses
<1>7. CASE UNCHANGED vars
  BY <1>7, LosingKeeps DEF vars
<1> QED
  BY <1>1, <1>2, <1>3, <1>4, <1>5, <1>6, <1>7

-----------------------------------------------------------------------------
(***************************************************************************)
(* Steps that carry a snippet or an answer on.                             *)
(***************************************************************************)
LEMMA SendKeeps ==
    ASSUME IInv, TypeOK', NEW c \in Conn, Send(c)
    PROVE  IInv'
<1> USE OtherValues DEF IsRequest, IInv, TypeOK, snippetVars, hookVars, Send, HubCloses
<1>1. CASE writer'[c] = "ended" \/ c \notin dcsOpen
  BY <1>1, LosingKeeps
<1>2. CASE writer'[c] # "ended" /\ c \in dcsOpen
  <2>1. /\ toDcs' = [toDcs EXCEPT ![c] = writer[c]]
        /\ writer' = [writer EXCEPT ![c] = "receive"]
        /\ UNCHANGED <<request, connLock, answer, executed, reader, toHub, txbuf>>
    BY <1>2
  <2>2. LockOK' /\ AnswersOK'
    BY <2>1 DEF LockOK, AnswersOK
  <2>3. WayOK' /\ ExecutedOK'
    BY <2>1 DEF WayOK, ExecutedOK, SnippetIsIn, AnswerIsIn
  <2>4. OnePlace'
    BY <2>1 DEF OnePlace, SnippetIsIn, AnswerIsIn
  <2> QED
    BY <2>2, <2>3, <2>4
<1> QED
  BY <1>1, <1>2

LEMMA DecodeKeeps ==
    ASSUME IInv, TypeOK', NEW c \in Conn, Decode(c)
    PROVE  IInv'
<1> USE OtherValues DEF IsRequest, IInv, TypeOK, snippetVars, hookVars, Decode, HubCloses
<1>1. CASE reader'[c] = "report"
  BY <1>1, LosingKeeps
<1>2. CASE reader'[c] # "report"
  <2>1. /\ reader' = [reader EXCEPT ![c] = toHub[c]]
        /\ toHub' = [toHub EXCEPT ![c] = None]
        /\ UNCHANGED <<request, connLock, answer, executed, writer, toDcs, txbuf>>
    BY <1>2
  <2>2. LockOK' /\ AnswersOK'
    BY <2>1 DEF LockOK, AnswersOK
  <2>3. WayOK' /\ ExecutedOK'
    BY <2>1 DEF WayOK, ExecutedOK, SnippetIsIn, AnswerIsIn
  <2>4. OnePlace'
    BY <2>1 DEF OnePlace, SnippetIsIn, AnswerIsIn
  <2> QED
    BY <2>2, <2>3, <2>4
<1> QED
  BY <1>1, <1>2

LEMMA HookSendKeeps ==
    ASSUME IInv, TypeOK', HookSend
    PROVE  IInv'
<1> USE OtherValues DEF IsRequest, IInv, TypeOK, snippetVars, hubVars, HookSend, DcsCloses
<1>1. CASE toHub' = toHub
  BY <1>1, LosingKeeps
<1>2. CASE toHub' # toHub
  <2>1. /\ hook \in Conn
        /\ toHub' = [toHub EXCEPT ![hook] = txbuf]
        /\ txbuf' = None
        /\ UNCHANGED <<request, connLock, answer, executed, writer, reader, toDcs>>
    BY <1>2
  <2>2. LockOK' /\ AnswersOK'
    BY <2>1 DEF LockOK, AnswersOK
  <2>3. WayOK' /\ ExecutedOK'
    BY <2>1 DEF WayOK, ExecutedOK, SnippetIsIn, AnswerIsIn
  <2>4. OnePlace'
    BY <2>1 DEF OnePlace, SnippetIsIn, AnswerIsIn
  <2> QED
    BY <2>2, <2>3, <2>4
<1> QED
  BY <1>1, <1>2

\* The snippet is executed: by then it is nowhere but in toDcs[hook].
LEMMA HookReceiveKeeps ==
    ASSUME IInv, TypeOK', HookReceive
    PROVE  IInv'
<1> USE OtherValues DEF IsRequest, IInv, TypeOK, snippetVars, hubVars, HookReceive
<1>1. CASE executed' = executed /\ txbuf' = txbuf
  BY <1>1, LosingKeeps
<1>2. CASE ~(executed' = executed /\ txbuf' = txbuf)
  <2> DEFINE q == toDcs[hook]
  <2>1. /\ hook \in Conn /\ q \in Request /\ txbuf = None
        /\ toDcs' = [toDcs EXCEPT ![hook] = None]
        /\ txbuf' = q
        /\ executed' = executed \cup {q}
        /\ UNCHANGED <<request, connLock, answer, writer, reader, toHub>>
    BY <1>2
  <2>2. /\ SnippetIsIn(q, hook) /\ request[q] = "await" /\ q \notin executed
        /\ \A d \in Conn : SnippetIsIn(q, d) => d = hook
        /\ writer[hook] # q
        /\ \A d \in Conn : ~AnswerIsIn(q, d)
    BY <2>1 DEF SnippetIsIn, WayOK, ExecutedOK, OnePlace
  <2> HIDE DEF q
  <2>3. LockOK'
    BY <2>1 DEF LockOK
  <2>4. AnswersOK'
    BY <2>1, <2>2 DEF AnswersOK
  <2>5. WayOK' /\ ExecutedOK'
    BY <2>1, <2>2 DEF WayOK, ExecutedOK, SnippetIsIn, AnswerIsIn, q
  <2>6. OnePlace'
    BY <2>1, <2>2 DEF OnePlace, SnippetIsIn, AnswerIsIn, q
  <2> QED
    BY <2>3, <2>4, <2>5, <2>6
<1> QED
  BY <1>1, <1>2

-----------------------------------------------------------------------------
(***************************************************************************)
(* The steps of a request.                                                 *)
(***************************************************************************)
LEMMA AskKeeps ==
    ASSUME IInv, TypeOK', NEW r \in Request, Ask(r)
    PROVE  IInv'
<1> USE OtherValues DEF IsRequest, IInv, TypeOK, hookVars, linkVars
<1>1. /\ request[r] = "none"
      /\ UNCHANGED <<connLock, executed, writer, reader, toDcs, toHub, txbuf>>
      /\ \A q \in Request : q # r => request'[q] = request[q] /\ answer'[q] = answer[q]
      /\ \/ request'[r] = "lock" /\ answer'[r] = answer[r]
         \/ request'[r] = "ended" /\ answer'[r] = Refused
  BY DEF Ask
<1>2. LockOK' /\ AnswersOK'
  BY <1>1 DEF LockOK, AnswersOK
<1>3. WayOK' /\ ExecutedOK'
  BY <1>1 DEF WayOK, ExecutedOK, SnippetIsIn, AnswerIsIn
<1>4. OnePlace'
  BY <1>1 DEF OnePlace, SnippetIsIn, AnswerIsIn
<1> QED
  BY <1>2, <1>3, <1>4

LEMMA LockConnKeeps ==
    ASSUME IInv, TypeOK', NEW r \in Request, LockConn(r)
    PROVE  IInv'
<1> USE OtherValues DEF IsRequest, IInv, TypeOK, hookVars, linkVars
<1>1. /\ request[r] = "lock" /\ connLock = None /\ connLock' = r
      /\ UNCHANGED <<answer, executed, writer, reader, toDcs, toHub, txbuf>>
      /\ request' = [request EXCEPT ![r] = "offer"]
  BY DEF LockConn
<1>2. LockOK' /\ AnswersOK'
  BY <1>1 DEF LockOK, AnswersOK
<1>3. WayOK' /\ ExecutedOK'
  BY <1>1 DEF WayOK, ExecutedOK, SnippetIsIn, AnswerIsIn
<1>4. OnePlace'
  BY <1>1 DEF OnePlace, SnippetIsIn, AnswerIsIn
<1> QED
  BY <1>2, <1>3, <1>4

\* A request that is offered is not on its way yet, nor has it been executed.
LEMMA OfferedIsNowhere ==
    ASSUME IInv, NEW r \in Request, request[r] = "offer"
    PROVE  /\ r \notin executed /\ txbuf # r
           /\ \A c \in Conn : ~SnippetIsIn(r, c) /\ ~AnswerIsIn(r, c)
<1>1. r \notin executed
  BY DEF IInv, AnswersOK
<1>2. \A c \in Conn : ~SnippetIsIn(r, c) /\ ~AnswerIsIn(r, c)
  BY DEF IInv, WayOK
<1>3. txbuf # r
  BY <1>1 DEF IInv, WayOK, ExecutedOK
<1> QED
  BY <1>1, <1>2, <1>3

LEMMA HandOverKeeps ==
    ASSUME IInv, TypeOK', NEW r \in Request, NEW c \in Conn, HandOver(r, c)
    PROVE  IInv'
<1> USE OtherValues DEF IsRequest, IInv, TypeOK, hookVars, linkVars
<1>1. /\ request[r] = "offer"
      /\ request' = [request EXCEPT ![r] = "await"]
      /\ writer' = [writer EXCEPT ![c] = r]
      /\ UNCHANGED <<connLock, answer, executed, reader, toDcs, toHub, txbuf>>
  BY DEF HandOver
<1>2. /\ r \notin executed /\ txbuf # r
      /\ \A d \in Conn : ~SnippetIsIn(r, d) /\ ~AnswerIsIn(r, d)
  BY <1>1, OfferedIsNowhere
<1>3. LockOK' /\ AnswersOK'
  BY <1>1, <1>2 DEF LockOK, AnswersOK
<1>4. WayOK' /\ ExecutedOK'
  BY <1>1, <1>2 DEF WayOK, ExecutedOK, SnippetIsIn, AnswerIsIn
<1>5. OnePlace'
  BY <1>1, <1>2 DEF OnePlace, SnippetIsIn, AnswerIsIn
<1> QED
  BY <1>3, <1>4, <1>5

\* The answer a request receives is its own.
LEMMA OwnAnswer ==
    ASSUME IInv, NEW r \in Request, NEW c \in Conn, Receive(r, c)
    PROVE  reader[c] = r /\ r \in executed
<1>1. reader[c] \in Request /\ request[r] = "await"
  BY DEF Receive
<1>2. request[reader[c]] = "await" /\ reader[c] \in executed
  BY <1>1 DEF IInv, WayOK, ExecutedOK, AnswerIsIn
<1>3. reader[c] = r
  BY <1>1, <1>2 DEF IInv, LockOK
<1> QED
  BY <1>2, <1>3

LEMMA ReceiveKeeps ==
    ASSUME IInv, TypeOK', NEW r \in Request, NEW c \in Conn, Receive(r, c)
    PROVE  IInv'
<1> USE OtherValues DEF IsRequest, IInv, TypeOK, hookVars, linkVars
<1>1. /\ reader[c] = r /\ request[r] = "await"
      /\ request' = [request EXCEPT ![r] = "ended"]
      /\ answer' = [answer EXCEPT ![r] = r]
      /\ connLock' = None
      /\ reader' = [reader EXCEPT ![c] = "decode"]
      /\ UNCHANGED <<executed, writer, toDcs, toHub, txbuf>>
  BY OwnAnswer DEF Receive, End
<1>2. connLock = r /\ \A q \in Request : q # r => request[q] \notin {"offer", "await"}
  BY <1>1 DEF LockOK
<1>3. LockOK'
  BY <1>1, <1>2 DEF LockOK
<1>4. AnswersOK'
  BY <1>1, <1>2 DEF AnswersOK
<1>5. /\ txbuf # r /\ toHub[c] # r
      /\ \A d \in Conn : ~SnippetIsIn(r, d) /\ (AnswerIsIn(r, d) => d = c)
  BY <1>1 DEF OnePlace, ExecutedOK, AnswerIsIn
<1>6. WayOK' /\ ExecutedOK'
  BY <1>1, <1>5 DEF WayOK, ExecutedOK, SnippetIsIn, AnswerIsIn
<1>7. OnePlace'
  BY <1>1, <1>5 DEF OnePlace, SnippetIsIn, AnswerIsIn
<1> QED
  BY <1>3, <1>4, <1>6, <1>7

LEMMA TimeoutKeeps ==
    ASSUME IInv, TypeOK', NEW r \in Request, Timeout(r)
    PROVE  IInv'
<1> USE OtherValues DEF IsRequest, IInv, TypeOK, hookVars, linkVars
<1>1. /\ request[r] = "offer"
      /\ request' = [request EXCEPT ![r] = "ended"]
      /\ answer' = [answer EXCEPT ![r] = Refused]
      /\ connLock' = None
      /\ UNCHANGED <<executed, writer, reader, toDcs, toHub, txbuf>>
  BY DEF Timeout, End
<1>2. /\ r \notin executed /\ txbuf # r
      /\ \A d \in Conn : ~SnippetIsIn(r, d) /\ ~AnswerIsIn(r, d)
  BY <1>1, OfferedIsNowhere
<1>3. connLock = r /\ \A q \in Request : q # r => request[q] \notin {"offer", "await"}
  BY <1>1 DEF LockOK
<1>4. LockOK' /\ AnswersOK'
  BY <1>1, <1>2, <1>3 DEF LockOK, AnswersOK
<1>5. WayOK' /\ ExecutedOK'
  BY <1>1, <1>2 DEF WayOK, ExecutedOK, SnippetIsIn, AnswerIsIn
<1>6. OnePlace'
  BY <1>1 DEF OnePlace, SnippetIsIn, AnswerIsIn
<1> QED
  BY <1>4, <1>5, <1>6

LEMMA NextKeeps == IInv /\ [Next]_vars => IInv'
<1> SUFFICES ASSUME IInv, [Next]_vars
             PROVE  IInv'
  OBVIOUS
<1>1. TypeOK'
  BY NextKeepsTypes DEF IInv
<1>2. ASSUME NEW c \in Conn, Connection(c)
      PROVE  IInv'
  BY <1>1, <1>2, SendKeeps, DecodeKeeps, OthersLose DEF Connection
<1>3. ASSUME NEW r \in Request, Ask(r) \/ HandleExecuteSnippetRequest(r)
      PROVE  IInv'
  BY <1>1, <1>3, AskKeeps, LockConnKeeps, HandOverKeeps, ReceiveKeeps, TimeoutKeeps
  DEF HandleExecuteSnippetRequest
<1>4. CASE (\E c \in Conn : Connect(c)) \/ StartDcs \/ StopDcs \/ UNCHANGED vars
  BY <1>1, <1>4, OthersLose
<1>5. CASE HookSend \/ HookReceive
  BY <1>1, <1>5, HookSendKeeps, HookReceiveKeeps
<1> QED
  BY <1>2, <1>3, <1>4, <1>5 DEF Next

LEMMA Invariance == Spec => []IInv
BY InitEstablishes, NextKeeps, PTL DEF Spec

-----------------------------------------------------------------------------
(***************************************************************************)
(* Every step is one of Snippets, or changes neither what has been         *)
(* executed nor what has been answered.                                    *)
(***************************************************************************)
\* The snippet that the hook executes is the only one without an answer.
LEMMA HookReceiveExecutes ==
    ASSUME IInv, HookReceive
    PROVE  (\E r \in Request : Promised!Execute(r)) \/ UNCHANGED <<executed, answer>>
<1> SUFFICES ASSUME ~UNCHANGED <<executed, answer>>
             PROVE  \E r \in Request : Promised!Execute(r)
  OBVIOUS
<1> DEFINE q == toDcs[hook]
<1>1. /\ hook \in Conn /\ q \in Request
      /\ executed' = executed \cup {q} /\ answer' = answer
  BY OtherValues DEF IsRequest, IInv, TypeOK, HookReceive, hubVars, snippetVars
<1>2. request[q] = "await" /\ q \notin executed
  BY <1>1 DEF IInv, WayOK, ExecutedOK, SnippetIsIn
<1> HIDE DEF q
<1>3. answer[q] = NoAnswer
  BY <1>1, <1>2 DEF IInv, AnswersOK
<1>4. ASSUME NEW s \in executed
      PROVE  answer[s] = s
  <2>1. s \in Request
    BY DEF IInv, TypeOK
  <2>2. request[s] # "await"
    BY <1>1, <1>2, <2>1 DEF IInv, LockOK
  <2> QED
    BY <2>1, <2>2 DEF IInv, AnswersOK
<1>5. Promised!Execute(q)
  BY <1>1, <1>2, <1>3, <1>4 DEF Promised!Execute
<1> QED
  BY <1>1, <1>5

LEMMA RequestAnswers ==
    ASSUME IInv, NEW r \in Request, Ask(r) \/ HandleExecuteSnippetRequest(r)
    PROVE  Promised!Answer(r) \/ Promised!Refuse(r) \/ UNCHANGED <<executed, answer>>
<1> USE DEF hookVars
<1>1. CASE Ask(r)
  <2>1. r \notin executed /\ answer[r] = NoAnswer
    BY <1>1 DEF Ask, IInv, AnswersOK
  <2> QED
    BY <1>1, <2>1 DEF Ask, Promised!Refuse
<1>2. CASE Timeout(r)
  <2>1. r \notin executed /\ answer[r] = NoAnswer
    BY <1>2 DEF Timeout, IInv, AnswersOK
  <2> QED
    BY <1>2, <2>1 DEF Timeout, End, Promised!Refuse
<1>3. ASSUME NEW c \in Conn, Receive(r, c)
      PROVE  Promised!Answer(r)
  <2>1. reader[c] = r /\ r \in executed
    BY <1>3, OwnAnswer
  <2>2. answer[r] = NoAnswer
    BY <1>3 DEF Receive, IInv, AnswersOK
  <2> QED
    BY <1>3, <2>1, <2>2 DEF Receive, End, Promised!Answer
<1>4. CASE LockConn(r) \/ \E c \in Conn : HandOver(r, c)
  BY <1>4 DEF LockConn, HandOver
<1> QED
  BY <1>1, <1>2, <1>3, <1>4 DEF HandleExecuteSnippetRequest

LEMMA OthersStutter ==
    ASSUME \/ \E c \in Conn : Connection(c) \/ Connect(c)
           \/ HookSend \/ StartDcs \/ StopDcs \/ UNCHANGED vars
    PROVE  UNCHANGED <<executed, answer>>
BY DEF Connection, Accept, HandleConnection, Send, Decode, EndReading, Connect, HookSend,
       StartDcs, StopDcs, vars, snippetVars, hubVars, hookVars

\* The Lua console executes snippets one at a time, each at most once, answers a
\* request with the answer to its own snippet, and executes none that it refuses.
THEOREM ImplementsSnippets == Spec => ExecutesSnippets
<1>1. Init => Promised!Init
  BY DEF Init, Promised!Init
<1>2. IInv /\ [Next]_vars => [Promised!Next]_<<executed, answer>>
  <2> SUFFICES ASSUME IInv, [Next]_vars
               PROVE  Promised!Next \/ UNCHANGED <<executed, answer>>
    OBVIOUS
  <2>1. CASE HookReceive
    BY <2>1, HookReceiveExecutes DEF Promised!Next
  <2>2. ASSUME NEW r \in Request, Ask(r) \/ HandleExecuteSnippetRequest(r)
        PROVE  Promised!Next \/ UNCHANGED <<executed, answer>>
    BY <2>2, RequestAnswers DEF Promised!Next
  <2> QED
    BY <2>1, <2>2, OthersStutter DEF Next
<1> QED
  BY <1>1, <1>2, Invariance, PTL DEF Spec, ExecutesSnippets, Promised!Spec

\* For any requests and connections every variable has its type.
THEOREM ConsoleTypeCorrect == Spec => []TypeOK
<1>1. IInv => TypeOK
  BY DEF IInv
<1> QED
  BY <1>1, Invariance, PTL

LEMMA ShownStep ==
    ASSUME TypeOK, ShownIsConnected, [Next]_vars
    PROVE  ShownIsConnected'
<1>1. \A r \in Request : r \notin {"none", "ended"}
  BY LuaConsoleAssumption
<1> USE DEF ShownIsConnected
<1>2. ASSUME NEW c \in Conn, HandleConnection(c)
      PROVE  ShownIsConnected'
  BY <1>2 DEF HandleConnection, TypeOK
<1>3. ASSUME NEW c \in Conn, Decode(c)
      PROVE  ShownIsConnected'
  <2>1. isLuaConsoleConnected' = isLuaConsoleConnected
    BY <1>3 DEF Decode
  <2>2. \A d \in Conn : reader[d] \notin {"none", "ended"} => reader'[d] \notin {"none", "ended"}
    BY <1>1, <1>3 DEF Decode, TypeOK
  <2> QED
    BY <2>1, <2>2
<1>4. ASSUME NEW c \in Conn, EndReading(c)
      PROVE  ShownIsConnected'
  BY <1>4 DEF EndReading
<1>5. ASSUME NEW r \in Request, NEW c \in Conn, Receive(r, c)
      PROVE  ShownIsConnected'
  BY <1>5 DEF Receive, TypeOK
<1>6. CASE UNCHANGED <<isLuaConsoleConnected, reader>>
  BY <1>6
<1>7. ASSUME NEW c \in Conn, Accept(c) \/ Send(c) \/ Connect(c)
      PROVE  ShownIsConnected'
  BY <1>6, <1>7 DEF Accept, Send, Connect
<1>8. ASSUME NEW r \in Request, \/ Ask(r) \/ LockConn(r) \/ Timeout(r)
                                \/ \E c \in Conn : HandOver(r, c)
      PROVE  ShownIsConnected'
  BY <1>6, <1>8 DEF Ask, LockConn, Timeout, HandOver
<1>9. CASE HookSend \/ HookReceive \/ StartDcs \/ StopDcs \/ UNCHANGED vars
  BY <1>6, <1>9 DEF HookSend, HookReceive, StartDcs, StopDcs, vars, hubVars
<1> QED
  BY <1>2, <1>3, <1>4, <1>5, <1>7, <1>8, <1>9
     DEF Next, Connection, HandleExecuteSnippetRequest

\* The console is never shown as connected when no connection is read from.
THEOREM ShownIsConnectedAlways == Spec => []ShownIsConnected
<1>1. Init => ShownIsConnected
  BY DEF Init, ShownIsConnected
<1> QED
  BY <1>1, ShownStep, ConsoleTypeCorrect, PTL DEF Spec
=============================================================================
