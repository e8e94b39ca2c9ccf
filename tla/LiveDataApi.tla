----------------------------- MODULE LiveDataApi -----------------------------
(***************************************************************************)
(* livedataapi.LiveDataApi: WebSocket sessions that are sent every update  *)
(* packet and may send input commands.  Each session has a handler         *)
(* (HandleLiveDataRequest), a goroutine that takes the commands out of the *)
(* followup channel, and the goroutines of jsonapi and websocketapi that   *)
(* carry the responses to the client; those are one buffer place here.     *)
(*                                                                         *)
(* All channels are unbuffered.  A packet, like a command, has no content. *)
(***************************************************************************)
EXTENDS FiniteSets

CONSTANTS
    Session,        \* WebSocket sessions at a time
    MayClose,       \* those whose client may close them
    Nobody          \* the mutex listenerLock is free

ASSUME LiveDataAssumption == MayClose \subseteq Session /\ Nobody \notin Session

VARIABLES
    socket,              \* [Session -> {"none", "open", "closed"}]
    handler,             \* where HandleLiveDataRequest is
    commandListener,     \* where the goroutine that reads commands is
    responding,          \* sessions with a response on its way to the client
    exportDataListeners, \* sessions whose channel is registered
    listenerLock,        \* who holds the mutex
    receivers            \* channels that WriteExportData has yet to send to

liveVars == <<socket, handler, commandListener, responding,
              exportDataListeners, listenerLock, receivers>>

LiveInit ==
    /\ socket = [s \in Session |-> "none"]
    /\ handler = [s \in Session |-> "none"]
    /\ commandListener = [s \in Session |-> "none"]
    /\ responding = {}
    /\ exportDataListeners = {}
    /\ listenerLock = Nobody
    /\ receivers = {}

-----------------------------------------------------------------------------
\* A client asks for live data.  The place of a session that has ended is free
\* for another.
OpenSession(s) ==
    /\ handler[s] \in {"none", "ended"} /\ s \notin responding
    /\ socket' = [socket EXCEPT ![s] = "open"]
    /\ handler' = [handler EXCEPT ![s] = "subscribe"]
    /\ commandListener' = [commandListener EXCEPT ![s] = "receive"]
    /\ UNCHANGED <<responding, exportDataListeners, listenerLock, receivers>>

CloseSession(s) ==
    /\ s \in MayClose
    /\ socket[s] = "open"
    /\ socket' = [socket EXCEPT ![s] = "closed"]
    /\ UNCHANGED <<handler, commandListener, responding, exportDataListeners,
                   listenerLock, receivers>>

\* The client sends a command, which the goroutine takes to lda.InputCommands.
SendCommand(s) ==
    /\ socket[s] = "open" /\ commandListener[s] = "receive"
    /\ commandListener' = [commandListener EXCEPT ![s] = "send"]
    /\ UNCHANGED <<socket, handler, responding, exportDataListeners, listenerLock, receivers>>

\* The transmit loop receives it.
TakeCommand(s) ==
    /\ commandListener[s] = "send"
    /\ commandListener' = [commandListener EXCEPT ![s] = "receive"]
    /\ UNCHANGED <<socket, handler, responding, exportDataListeners, listenerLock, receivers>>

\* The followup channel is closed: the goroutine closes onClose and ends.
CommandsEnd(s) ==
    /\ socket[s] = "closed" /\ commandListener[s] = "receive"
    /\ commandListener' = [commandListener EXCEPT ![s] = "ended"]
    /\ UNCHANGED <<socket, handler, responding, exportDataListeners, listenerLock, receivers>>

-----------------------------------------------------------------------------
\* The handler registers its channel; nothing blocks while it has the lock.
Subscribe(s) ==
    /\ handler[s] = "subscribe"
    /\ listenerLock = Nobody
    /\ exportDataListeners' = exportDataListeners \cup {s}
    /\ handler' = [handler EXCEPT ![s] = "select"]
    /\ UNCHANGED <<socket, commandListener, responding, listenerLock, receivers>>

\* It has received a packet and sends it to responseCh.
Respond(s) ==
    /\ handler[s] = "respond"
    /\ s \notin responding
    /\ responding' = responding \cup {s}
    /\ handler' = [handler EXCEPT ![s] = "select"]
    /\ UNCHANGED <<socket, commandListener, exportDataListeners, listenerLock, receivers>>

\* The packet is written to the WebSocket, or that fails because it is closed.
Write(s) ==
    /\ s \in responding
    /\ responding' = responding \ {s}
    /\ UNCHANGED <<socket, handler, commandListener, exportDataListeners, listenerLock, receivers>>

\* The select statement of the handler takes the case of onClose.
SeeClosed(s) ==
    /\ handler[s] = "select" /\ commandListener[s] = "ended"
    /\ handler' = [handler EXCEPT ![s] = "unsubscribe"]
    /\ UNCHANGED <<socket, commandListener, responding, exportDataListeners,
                   listenerLock, receivers>>

\* Faulty variant: the channel is removed without taking the lock.
UnsubscribeUnlocked(s) ==
    /\ handler[s] = "unsubscribe"
    /\ exportDataListeners' = exportDataListeners \ {s}
    /\ handler' = [handler EXCEPT ![s] = "ended"]
    /\ UNCHANGED <<socket, commandListener, responding, listenerLock, receivers>>

Unsubscribe(s) ==
    /\ handler[s] = "unsubscribe"
    /\ listenerLock = Nobody
    /\ exportDataListeners' = exportDataListeners \ {s}
    /\ handler' = [handler EXCEPT ![s] = "ended"]
    /\ UNCHANGED <<socket, commandListener, responding, listenerLock, receivers>>

Handler(s) == Subscribe(s) \/ Respond(s) \/ SeeClosed(s) \/ Unsubscribe(s)

-----------------------------------------------------------------------------
(***************************************************************************)
(* WriteExportData, called by the goroutine me: it keeps the lock while it *)
(* sends to one listener after the other.                                  *)
(***************************************************************************)
BeginWrite(me) ==
    /\ listenerLock = Nobody
    /\ listenerLock' = me
    /\ receivers' = exportDataListeners
    /\ UNCHANGED <<socket, handler, commandListener, responding, exportDataListeners>>

SendTo(s) ==
    /\ s \in receivers
    /\ handler[s] = "select"
    /\ handler' = [handler EXCEPT ![s] = "respond"]
    /\ receivers' = receivers \ {s}
    /\ UNCHANGED <<socket, commandListener, responding, exportDataListeners, listenerLock>>

\* Faulty variant: the lock is not released.
EndWriteLocked ==
    /\ receivers = {}
    /\ UNCHANGED liveVars

EndWrite ==
    /\ receivers = {}
    /\ listenerLock' = Nobody
    /\ UNCHANGED <<socket, handler, commandListener, responding, exportDataListeners, receivers>>
=============================================================================
