------------------------------ MODULE StatusApi ------------------------------
(***************************************************************************)
(* statusapi: what the user interface shows about the hub.  A mutator      *)
(* (WithStatusInfoDo) keeps statusLock while it sends the new status to    *)
(* one session after the other, through channels without a buffer.         *)
(*                                                                         *)
(* What a session responds with always leaves its handler, as jsonapi      *)
(* drains the responses even of a WebSocket that is closed: receiving a    *)
(* status and responding with it is one step.                              *)
(***************************************************************************)
CONSTANTS
    Session,     \* get_status_updates requests at a time
    Nobody       \* statusLock is free

VARIABLES
    currentStatus,   \* [Field -> BOOLEAN]
    statusLock,      \* who mutates the status
    unsent,          \* sessions that the mutator has yet to send to
    session,         \* where HandleGetStatusUpdatesRequest is
    statusChannels,  \* the sessions that have subscribed
    shown            \* [Session -> [Field -> BOOLEAN]], the last response

statusVars == <<currentStatus, statusLock, unsent, session, statusChannels, shown>>

\* isDcsConnected, isLuaConsoleConnected and isLuaConsoleEnabled
Field == {"dcs", "console", "enabled"}

StatusInit ==
    /\ currentStatus = [f \in Field |-> FALSE]
    /\ statusLock = Nobody
    /\ unsent = {}
    /\ session = [s \in Session |-> "none"]
    /\ statusChannels = {}
    /\ shown = [s \in Session |-> currentStatus]

-----------------------------------------------------------------------------
\* WithStatusInfoDo, called by me.
BeginMutation(me, field, value) ==
    /\ statusLock = Nobody
    /\ statusLock' = me
    /\ currentStatus' = [currentStatus EXCEPT ![field] = value]
    /\ unsent' = statusChannels
    /\ UNCHANGED <<session, statusChannels, shown>>

\* Faulty variant: it does not wait for sessions that are not receiving.
SendStatusOrSkip(s) ==
    /\ s \in unsent
    /\ shown' \in {shown, [shown EXCEPT ![s] = currentStatus]}
    /\ unsent' = unsent \ {s}
    /\ UNCHANGED <<currentStatus, statusLock, session, statusChannels>>

SendStatus(s) ==
    /\ s \in unsent /\ session[s] = "select"
    /\ shown' = [shown EXCEPT ![s] = currentStatus]
    /\ unsent' = unsent \ {s}
    /\ UNCHANGED <<currentStatus, statusLock, session, statusChannels>>

EndMutation ==
    /\ unsent = {}
    /\ statusLock' = Nobody
    /\ UNCHANGED <<currentStatus, unsent, session, statusChannels, shown>>

-----------------------------------------------------------------------------
\* HandleGetStatusUpdatesRequest
Subscribe(s) ==
    /\ session[s] = "none" /\ statusLock = Nobody
    /\ session' = [session EXCEPT ![s] = "select"]
    /\ statusChannels' = statusChannels \cup {s}
    /\ shown' = [shown EXCEPT ![s] = currentStatus]
    /\ UNCHANGED <<currentStatus, statusLock, unsent>>

\* The followup channel is closed, or the client sends something on it.
Leave(s) ==
    /\ session[s] = "select"
    /\ session' = [session EXCEPT ![s] = "leaving"]
    /\ UNCHANGED <<currentStatus, statusLock, unsent, statusChannels, shown>>

Unsubscribe(s) ==
    /\ session[s] = "leaving" /\ statusLock = Nobody
    /\ session' = [session EXCEPT ![s] = "none"]
    /\ statusChannels' = statusChannels \ {s}
    /\ UNCHANGED <<currentStatus, statusLock, unsent, shown>>

\* statusLock is held for ever: the mutator waits for the session to receive,
\* which waits for the lock.
LeftWhileSent == \E s \in unsent : session[s] = "leaving"
=============================================================================
