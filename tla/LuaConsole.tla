----------------------------- MODULE LuaConsole -----------------------------
(***************************************************************************)
(* luaconsole.LuaConsoleServer: the hook script in DCS connects to port    *)
(* 3001, and clients ask for snippets to be executed by it.  Each          *)
(* connection has two goroutines: one takes a request from the channel     *)
(* requestToDcs and sends it, the other sends what DCS answers to the      *)
(* channel responseFromDcs.  A request keeps connLock until it is answered,*)
(* and so at most one snippet is on its way.                               *)
(*                                                                         *)
(* The hook (gethookdefinition.go) sends, then receives, once per frame.   *)
(* It finds that the hub has closed its connection when it sends, at the   *)
(* latest with the next ping, and connects again.  What telling the status *)
(* involves is in StatusApi; here it is a step.                            *)
(***************************************************************************)
CONSTANTS
    Request,     \* requests to execute a snippet, each made once
    Conn,        \* bound: connections the hook makes
    None,        \* no request, no connection
    NoAnswer,
    Refused      \* an error result

ASSUME LuaConsoleAssumption ==
    /\ None \notin Request \cup Conn
    /\ {NoAnswer, Refused} \cap Request = {} /\ NoAnswer # Refused
    /\ Request \cap {"none", "receive", "ended", "decode", "report"} = {}

VARIABLES
    \* the hub
    current,     \* lcs.conn
    hubOpen,     \* connections that the hub has not closed
    handler,     \* [Conn -> where handleConnection is]
    writer,      \* [Conn -> "none", "receive", "ended" or the request that is sent]
    reader,      \* [Conn -> "none", "decode", "report", "ended" or an answer]
    request,     \* [Request -> where HandleExecuteSnippetRequest is]
    connLock,
    answer,      \* what the request was answered
    isLuaConsoleConnected, \* in the status
    \* DCS
    dcs,         \* it runs
    dcsOpen,     \* connections that DCS has not closed
    hook,        \* the connection of the hook, or None while it is closed
    txbuf,       \* the answer in it, or None
    executed,    \* requests whose snippet has been executed
    \* in between
    toDcs,       \* [Conn -> Request \cup {None}]
    toHub        \* [Conn -> Request \cup {None}], answers

snippetVars == <<request, connLock, answer>>
hubVars == <<current, isLuaConsoleConnected, handler, writer, reader, snippetVars>>
hookVars == <<dcsOpen, hook, txbuf, executed>>
linkVars == <<toDcs, toHub>>
vars == <<hubVars, hubOpen, hookVars, dcs, linkVars>>

Init ==
    /\ current = None
    /\ hubOpen = {}
    /\ handler = [c \in Conn |-> "none"]
    /\ writer = [c \in Conn |-> "none"]
    /\ reader = [c \in Conn |-> "none"]
    /\ request = [r \in Request |-> "none"]
    /\ connLock = None
    /\ answer = [r \in Request |-> NoAnswer]
    /\ isLuaConsoleConnected = FALSE
    /\ dcs = FALSE
    /\ dcsOpen = {}
    /\ hook = None
    /\ txbuf = None
    /\ executed = {}
    /\ toDcs = [c \in Conn |-> None]
    /\ toHub = [c \in Conn |-> None]

\* Nothing that has been sent on it is received any more.
HubCloses(cs) ==
    /\ hubOpen' = hubOpen \ cs
    /\ toHub' = [c \in Conn |-> IF c \in cs THEN None ELSE toHub[c]]

DcsCloses(cs) ==
    /\ dcsOpen' = dcsOpen \ cs
    /\ toDcs' = [c \in Conn |-> IF c \in cs THEN None ELSE toDcs[c]]

-----------------------------------------------------------------------------
(***************************************************************************)
(* Connections, in the hub.                                                *)
(***************************************************************************)
\* Run accepts a connection and closes the one before.
Accept(c) ==
    /\ handler[c] = "backlog"
    /\ current' = c
    /\ HubCloses({current})
    /\ handler' = [handler EXCEPT ![c] = "tell"]
    /\ UNCHANGED <<dcs, isLuaConsoleConnected, writer, reader, snippetVars, hookVars,
                   toDcs>>

\* The status is told, and the goroutines begin.
HandleConnection(c) ==
    /\ handler[c] = "tell"
    /\ isLuaConsoleConnected' = TRUE
    /\ handler' = [handler EXCEPT ![c] = "ended"]
    /\ writer' = [writer EXCEPT ![c] = "receive"]
    /\ reader' = [reader EXCEPT ![c] = "decode"]
    /\ UNCHANGED <<dcs, current, hubOpen, snippetVars, hookVars, linkVars>>

\* The request goes to DCS, or is lost with the connection; writing need not
\* fail at once if DCS has closed it.
Send(c) ==
    /\ writer[c] \in Request
    /\ \/ /\ c \in hubOpen
          /\ toDcs' = IF c \in dcsOpen THEN [toDcs EXCEPT ![c] = writer[c]] ELSE toDcs
          /\ writer' = [writer EXCEPT ![c] = "receive"]
          /\ UNCHANGED <<hubOpen, toHub>>
       \/ /\ c \notin hubOpen \cap dcsOpen
          /\ HubCloses({c})
          /\ writer' = [writer EXCEPT ![c] = "ended"]
          /\ UNCHANGED toDcs
    /\ UNCHANGED <<dcs, isLuaConsoleConnected, current, handler, reader, snippetVars,
                   hookVars>>

Decode(c) ==
    /\ reader[c] = "decode"
    /\ \/ /\ c \in hubOpen /\ toHub[c] # None
          /\ reader' = [reader EXCEPT ![c] = toHub[c]]
          /\ toHub' = [toHub EXCEPT ![c] = None]
          /\ UNCHANGED hubOpen
       \/ /\ c \notin hubOpen \cap dcsOpen
          /\ HubCloses({c})
          /\ reader' = [reader EXCEPT ![c] = "report"]
    /\ UNCHANGED <<dcs, isLuaConsoleConnected, current, handler, writer, snippetVars,
                   hookVars, toDcs>>

\* Faulty variant: the connection is closed and the status stays.
EndReadingOnly(c) ==
    /\ reader[c] = "report"
    /\ reader' = [reader EXCEPT ![c] = "ended"]
    /\ UNCHANGED <<dcs, isLuaConsoleConnected, current, hubOpen, handler, writer,
                   snippetVars, hookVars, linkVars>>

EndReading(c) ==
    /\ reader[c] = "report"
    /\ isLuaConsoleConnected' = FALSE
    /\ reader' = [reader EXCEPT ![c] = "ended"]
    /\ UNCHANGED <<dcs, current, hubOpen, handler, writer, snippetVars, hookVars, linkVars>>

Connection(c) ==
    Accept(c) \/ HandleConnection(c) \/ Send(c) \/ Decode(c) \/ EndReading(c)

-----------------------------------------------------------------------------
(***************************************************************************)
(* HandleExecuteSnippetRequest.                                            *)
(***************************************************************************)
\* The console may be disabled in the tray menu.
Ask(r) ==
    /\ request[r] = "none" /\ r = CHOOSE q \in Request : request[q] = "none"
    /\ \/ /\ request' = [request EXCEPT ![r] = "lock"]
          /\ UNCHANGED answer
       \/ /\ request' = [request EXCEPT ![r] = "ended"]
          /\ answer' = [answer EXCEPT ![r] = Refused]
    /\ UNCHANGED <<dcs, isLuaConsoleConnected, current, hubOpen, handler, writer, reader,
                   connLock, hookVars, linkVars>>

LockConn(r) ==
    /\ request[r] = "lock" /\ connLock = None
    /\ connLock' = r
    /\ request' = [request EXCEPT ![r] = "offer"]
    /\ UNCHANGED <<dcs, isLuaConsoleConnected, current, hubOpen, handler, writer, reader,
                   answer, hookVars, linkVars>>

\* The writer of some connection, perhaps an old one, receives the request.
HandOver(r, c) ==
    /\ request[r] = "offer" /\ writer[c] = "receive"
    /\ request' = [request EXCEPT ![r] = "await"]
    /\ writer' = [writer EXCEPT ![c] = r]
    /\ UNCHANGED <<dcs, isLuaConsoleConnected, current, hubOpen, handler, reader,
                   connLock, answer, hookVars, linkVars>>

End(r, a) ==
    /\ request' = [request EXCEPT ![r] = "ended"]
    /\ answer' = [answer EXCEPT ![r] = a]
    /\ connLock' = None

Receive(r, c) ==
    /\ request[r] = "await" /\ reader[c] \in Request
    /\ End(r, reader[c])
    /\ reader' = [reader EXCEPT ![c] = "decode"]
    /\ UNCHANGED <<dcs, isLuaConsoleConnected, current, hubOpen, handler, writer,
                   hookVars, linkVars>>

\* Faulty variant: the answer, too, is only waited for for a second.
TimeoutAlways(r) ==
    /\ request[r] \in {"offer", "await"}
    /\ End(r, Refused)
    /\ UNCHANGED <<dcs, isLuaConsoleConnected, current, hubOpen, handler, writer, reader,
                   hookVars, linkVars>>

\* Faulty variant: connLock is kept.
TimeoutLocked(r) ==
    /\ request[r] = "offer"
    /\ request' = [request EXCEPT ![r] = "ended"]
    /\ answer' = [answer EXCEPT ![r] = Refused]
    /\ UNCHANGED <<dcs, isLuaConsoleConnected, current, hubOpen, handler, writer, reader,
                   connLock, hookVars, linkVars>>

Timeout(r) ==
    /\ request[r] = "offer"
    /\ End(r, Refused)
    /\ UNCHANGED <<dcs, isLuaConsoleConnected, current, hubOpen, handler, writer, reader,
                   hookVars, linkVars>>

HandleExecuteSnippetRequest(r) ==
    \/ LockConn(r)
    \/ \E c \in Conn : HandOver(r, c) \/ Receive(r, c)
    \/ Timeout(r)

-----------------------------------------------------------------------------
(***************************************************************************)
(* The hook, and DCS.                                                      *)
(***************************************************************************)
Connect(c) ==
    /\ dcs /\ hook = None
    /\ handler[c] = "none" /\ c = CHOOSE d \in Conn : handler[d] = "none"
    /\ hook' = c
    /\ dcsOpen' = dcsOpen \cup {c}
    /\ hubOpen' = hubOpen \cup {c}
    /\ handler' = [handler EXCEPT ![c] = "backlog"]
    /\ UNCHANGED <<dcs, isLuaConsoleConnected, current, writer, reader, snippetVars,
                   txbuf, executed, linkVars>>

\* Sending works, works without effect, or finds the connection closed.
HookSend ==
    /\ hook # None
    /\ \/ /\ txbuf # None
          /\ toHub' = IF hook \in hubOpen THEN [toHub EXCEPT ![hook] = txbuf] ELSE toHub
          /\ UNCHANGED <<hook, dcsOpen, toDcs>>
       \/ /\ hook \notin hubOpen
          /\ DcsCloses({hook})
          /\ hook' = None
          /\ UNCHANGED toHub
    /\ txbuf' = None
    /\ UNCHANGED <<dcs, hubVars, hubOpen, executed>>

\* A line that has not arrived completely is lost, for receive returns what
\* there is of it as a third result.
HookReceive ==
    /\ hook # None /\ txbuf = None /\ toDcs[hook] # None
    /\ toDcs' = [toDcs EXCEPT ![hook] = None]
    /\ \/ txbuf' = toDcs[hook] /\ executed' = executed \cup {toDcs[hook]}
       \/ UNCHANGED <<txbuf, executed>>
    /\ UNCHANGED <<dcs, hubVars, hubOpen, dcsOpen, hook, toHub>>

StartDcs ==
    /\ ~dcs
    /\ dcs' = TRUE
    /\ UNCHANGED <<hubVars, hubOpen, hookVars, linkVars>>

\* What DCS has sent may still arrive.
StopDcs ==
    /\ dcs
    /\ dcs' = FALSE
    /\ DcsCloses(Conn)
    /\ hook' = None
    /\ txbuf' = None
    /\ UNCHANGED <<hubVars, hubOpen, executed, toHub>>

Next ==
    \/ \E c \in Conn : Connection(c) \/ Connect(c)
    \/ \E r \in Request : Ask(r) \/ HandleExecuteSnippetRequest(r)
    \/ HookSend \/ HookReceive \/ StartDcs \/ StopDcs

Spec == Init /\ [][Next]_vars

\* Goroutines that can go on do, connLock is given to those that wait for it,
\* and the hook is called in every frame while DCS runs.
FairSpec ==
    /\ Spec
    /\ \A c \in Conn : WF_vars(Connection(c))
    /\ \A r \in Request : SF_vars(HandleExecuteSnippetRequest(r))
    /\ WF_vars(HookSend \/ HookReceive)

-----------------------------------------------------------------------------
(***************************************************************************)
(* A type invariant.                                                       *)
(***************************************************************************)
TypeOK ==
    /\ isLuaConsoleConnected \in BOOLEAN /\ dcs \in BOOLEAN
    /\ current \in Conn \cup {None}
    /\ hubOpen \subseteq Conn /\ dcsOpen \subseteq Conn
    /\ handler \in [Conn -> {"none", "backlog", "tell", "ended"}]
    /\ writer \in [Conn -> {"none", "receive", "ended"} \cup Request]
    /\ reader \in [Conn -> {"none", "decode", "report", "ended"} \cup Request]
    /\ request \in [Request -> {"none", "lock", "offer", "await", "ended"}]
    /\ connLock \in Request \cup {None}
    /\ answer \in [Request -> Request \cup {NoAnswer, Refused}]
    /\ hook \in Conn \cup {None}
    /\ txbuf \in Request \cup {None}
    /\ executed \subseteq Request
    /\ toDcs \in [Conn -> Request \cup {None}]
    /\ toHub \in [Conn -> Request \cup {None}]

(***************************************************************************)
(* The console is shown as connected only while a connection is read from. *)
(* (The converse fails: a connection that has been replaced may end after  *)
(* the new one was shown.)                                                 *)
(***************************************************************************)
ShownIsConnected ==
    isLuaConsoleConnected => \E c \in Conn : reader[c] \notin {"none", "ended"}

\* Where the snippet of r, or its answer, is on its way.
OnItsWay(r) ==
    \/ txbuf = r
    \/ \E c \in Conn : r \in {writer[c], reader[c], toDcs[c], toHub[c]}

(***************************************************************************)
(* A snippet that has been given to the console is answered and one that   *)
(* has not ends in time, unless some snippet is lost on its way, with the  *)
(* connection or because the hook reads a part of it only: then no other   *)
(* is ever executed.                                                       *)
(***************************************************************************)
SnippetsEnd ==
    [](\A r \in Request : request[r] = "await" => OnItsWay(r)) =>
        \A r \in Request : request[r] = "lock" ~> request[r] = "ended"

(***************************************************************************)
(* The console executes snippets as Snippets has it.                       *)
(***************************************************************************)
Promised == INSTANCE Snippets WITH executed <- executed, answer <- answer
ExecutesSnippets == Promised!Spec
=============================================================================
