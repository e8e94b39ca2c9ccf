------------------------------ MODULE Monitors ------------------------------
(***************************************************************************)
(* The requests of the user interface that are answered again whenever     *)
(* something changes: monitor_script_list (luastate), monitor_plugin_list  *)
(* (pluginmanager) and monitor_serial_ports (PortManager).  They share no  *)
(* state, and so a behaviour looks at one of them, its topic.              *)
(*                                                                         *)
(* A list is a number that grows with each change.  The three differ in    *)
(* how a session gets the list there is when it subscribes, and the later  *)
(* ones.  Responses always leave a handler (see StatusApi).                *)
(***************************************************************************)
EXTENDS Naturals

CONSTANTS
    Watcher,     \* sessions at a time
    MaxVersion   \* bound: changes

ASSUME MonitorsAssumption == MaxVersion \in Nat

VARIABLES
    topic,       \* "scripts", "plugins" or "ports", or "status" for none of them
    version,     \* of the list
    locked,      \* luaLock or stateLock is held while a change is sent;
                 \* portStateLock never is
    waiting,     \* subscribers it has yet to be sent to
    subscribers,
    watcher,     \* where the goroutine is that receives lists and responds
    socket,      \* "open" or "closed"
    held,        \* the list that is the next response
    copies,      \* lists that another goroutine is about to send to it
    newest,      \* the newest list that the user has been shown
    latest,      \* the last one
    missed       \* sessions that the last list was not sent to, or that dropped it

monitorVars == <<topic, version, locked, waiting, subscribers, watcher, socket, held,
                 copies, newest, latest, missed>>

MonitorInit ==
    /\ topic \in {"status", "scripts", "plugins", "ports"}
    /\ version = 0
    /\ locked = FALSE
    /\ waiting = {}
    /\ subscribers = {}
    /\ watcher = [s \in Watcher |-> "none"]
    /\ socket = [s \in Watcher |-> "open"]
    /\ held = [s \in Watcher |-> 0]
    /\ copies = [s \in Watcher |-> {}]
    /\ newest = [s \in Watcher |-> 0]
    /\ latest = [s \in Watcher |-> 0]
    /\ missed = {}

-----------------------------------------------------------------------------
(***************************************************************************)
(* A session.                                                              *)
(***************************************************************************)
Open(s) ==
    /\ watcher[s] = "none" /\ copies[s] = {}
    /\ watcher' = [watcher EXCEPT ![s] = "subscribe"]
    /\ socket' = [socket EXCEPT ![s] = "open"]
    /\ newest' = [newest EXCEPT ![s] = 0]
    /\ latest' = [latest EXCEPT ![s] = 0]
    /\ missed' = missed \ {s}
    /\ UNCHANGED <<topic, version, locked, waiting, subscribers, held, copies>>

\* Faulty variant: the list is copied, then the lock is taken to subscribe.
WatchUnlocked(s) ==
    /\ watcher[s] = "subscribe" /\ ~locked
    /\ subscribers' = subscribers \cup {s}
    /\ watcher' = [watcher EXCEPT ![s] = "receive"]
    /\ \E v \in {n \in 0..version : n + 1 >= version} : copies' = [copies EXCEPT ![s] = {v}]
    /\ UNCHANGED <<topic, version, locked, waiting, socket, held, newest, latest, missed>>

\* Faulty variant: scripts, too, are sent after unlocking.
WatchLater(s) ==
    /\ watcher[s] = "subscribe" /\ ~locked
    /\ subscribers' = subscribers \cup {s}
    /\ watcher' = [watcher EXCEPT ![s] = "receive"]
    /\ copies' = [copies EXCEPT ![s] = {version}]
    /\ UNCHANGED <<topic, version, locked, waiting, socket, held, newest, latest, missed>>

\* The list is copied under the lock.  That of scripts is also sent under it,
\* the others are sent afterwards.
Watch(s) ==
    /\ watcher[s] = "subscribe" /\ ~locked
    /\ subscribers' = subscribers \cup {s}
    /\ IF topic = "scripts"
       THEN /\ watcher' = [watcher EXCEPT ![s] = "respond"]
            /\ held' = [held EXCEPT ![s] = version]
            /\ UNCHANGED copies
       ELSE /\ watcher' = [watcher EXCEPT ![s] = "receive"]
            /\ copies' = [copies EXCEPT ![s] = {version}]
            /\ UNCHANGED held
    /\ UNCHANGED <<topic, version, locked, waiting, socket, newest, latest, missed>>

\* A goroutine gets a copy it has to send across, whichever is first.
ReceiveCopy(s) ==
    /\ watcher[s] = "receive"
    /\ \E v \in copies[s] :
          /\ held' = [held EXCEPT ![s] = v]
          /\ copies' = [copies EXCEPT ![s] = @ \ {v}]
    /\ watcher' = [watcher EXCEPT ![s] = "respond"]
    /\ UNCHANGED <<topic, version, locked, waiting, subscribers, socket, newest, latest, missed>>

Respond(s) ==
    /\ watcher[s] = "respond"
    /\ latest' = [latest EXCEPT ![s] = held[s]]
    /\ newest' = [newest EXCEPT ![s] = IF held[s] > @ THEN held[s] ELSE @]
    /\ watcher' = [watcher EXCEPT ![s] = "receive"]
    /\ UNCHANGED <<topic, version, locked, waiting, subscribers, socket, held, copies, missed>>

\* The client sends something, and the list is not responded with.
Drop(s) ==
    /\ watcher[s] = "respond" /\ socket[s] = "open"
    /\ watcher' = [watcher EXCEPT ![s] = "receive"]
    /\ missed' = missed \cup {s}
    /\ UNCHANGED <<topic, version, locked, waiting, subscribers, socket, held, copies, newest, latest>>

CloseSocket(s) ==
    /\ socket[s] = "open" /\ watcher[s] # "none"
    /\ socket' = [socket EXCEPT ![s] = "closed"]
    /\ UNCHANGED <<topic, version, locked, waiting, subscribers, watcher, held, copies, newest,
                   latest, missed>>

\* That is seen with the next list only.  In HandleMonitorPortRequest break
\* leaves the select statement, and the session is never unsubscribed.
SeeClosed(s) ==
    /\ watcher[s] = "respond" /\ socket[s] = "closed"
    /\ watcher' = [watcher EXCEPT ![s] = IF topic = "ports" THEN "receive" ELSE "unsubscribe"]
    /\ UNCHANGED <<topic, version, locked, waiting, subscribers, socket, held, copies, newest,
                   latest, missed>>

\* If the first list has not been received yet, whoever sends it waits for ever,
\* which does not matter to others.
Unwatch(s) ==
    /\ watcher[s] = "unsubscribe" /\ ~locked
    /\ subscribers' = subscribers \ {s}
    /\ watcher' = [watcher EXCEPT ![s] = "none"]
    /\ UNCHANGED <<topic, version, locked, waiting, socket, held, copies, newest, latest, missed>>

-----------------------------------------------------------------------------
(***************************************************************************)
(* A change.                                                               *)
(***************************************************************************)
\* notifyScriptListSubscribers and notifyStateObservers, with the lock held, or
\* a goroutine for each subscriber of the ports.
Change ==
    /\ ~locked /\ version < MaxVersion
    /\ version' = version + 1
    /\ IF topic = "ports"
       THEN /\ copies' = [s \in Watcher |-> IF s \in subscribers THEN copies[s] \cup {version'}
                                                                 ELSE copies[s]]
            /\ missed' = missed \ subscribers
            /\ UNCHANGED <<locked, waiting>>
       ELSE /\ locked' = TRUE
            /\ waiting' = subscribers
            /\ UNCHANGED <<copies, missed>>
    /\ UNCHANGED <<topic, subscribers, watcher, socket, held, newest, latest>>

\* A change that nobody is told of, until the next one of the same list.
ChangeUntold ==
    /\ ~locked /\ version < MaxVersion
    /\ version' = version + 1
    /\ missed' = missed \cup subscribers
    /\ UNCHANGED <<topic, locked, waiting, subscribers, watcher, socket, held, copies, newest, latest>>

\* Reset reads the list of scripts from its file again.
Reread == topic = "scripts" /\ ChangeUntold

\* startWorkOnPlugin has a plugin say "working", and an update has its entry
\* replaced by what has been read again before it says "success".
ChangePluginUntold == topic = "plugins" /\ ChangeUntold

SendTo(s) ==
    /\ s \in waiting /\ watcher[s] = "receive"
    /\ waiting' = waiting \ {s}
    /\ watcher' = [watcher EXCEPT ![s] = "respond"]
    /\ held' = [held EXCEPT ![s] = version]
    /\ missed' = missed \ {s}
    /\ UNCHANGED <<topic, version, locked, subscribers, socket, copies, newest, latest>>

\* Faulty variant: only a session whose socket is open is given up.
GiveUpOpen(s) ==
    /\ s \in waiting /\ watcher[s] # "receive" /\ socket[s] = "open"
    /\ waiting' = waiting \ {s}
    /\ missed' = missed \cup {s}
    /\ UNCHANGED <<topic, version, locked, subscribers, watcher, socket, held, copies, newest, latest>>

\* After 200 ms.
GiveUp(s) ==
    /\ s \in waiting /\ watcher[s] # "receive"
    /\ waiting' = waiting \ {s}
    /\ missed' = missed \cup {s}
    /\ UNCHANGED <<topic, version, locked, subscribers, watcher, socket, held, copies, newest, latest>>

Unlock ==
    /\ locked /\ waiting = {}
    /\ locked' = FALSE
    /\ UNCHANGED <<topic, version, waiting, subscribers, watcher, socket, held, copies, newest,
                   latest, missed>>

Watching(s) == Watch(s) \/ ReceiveCopy(s) \/ Respond(s) \/ SeeClosed(s) \/ Unwatch(s)
Publishing == Unlock \/ \E s \in Watcher : SendTo(s) \/ GiveUp(s)

MonitorNext ==
    /\ topic # "status"
    /\ \/ \E s \in Watcher : Watching(s) \/ Open(s) \/ Drop(s) \/ CloseSocket(s)
       \/ Publishing \/ Change \/ Reread \/ ChangePluginUntold

-----------------------------------------------------------------------------
(***************************************************************************)
(* A type invariant.                                                       *)
(***************************************************************************)
MonitorTypeOK ==
    /\ version \in 0..MaxVersion
    /\ locked \in BOOLEAN
    /\ waiting \subseteq subscribers /\ subscribers \subseteq Watcher /\ missed \subseteq Watcher
    /\ watcher \in [Watcher -> {"none", "subscribe", "receive", "respond", "unsubscribe"}]
    /\ socket \in [Watcher -> {"open", "closed"}]
    /\ {held, newest, latest} \subseteq [Watcher -> 0..MaxVersion]
    /\ copies \in [Watcher -> SUBSET (0..MaxVersion)]

(***************************************************************************)
(* No list falls between the one a session gets when it subscribes and     *)
(* those it is sent as a subscriber: when nothing is on its way, an open   *)
(* session has been shown the list there is.  Excepted is what it has      *)
(* missed since it was last sent one: it was responding for 200 ms, or     *)
(* dropped a list because its client had sent something, or nobody was     *)
(* told of the change, as when Reset reads the scripts, a plugin begins to *)
(* be worked on, or its entry is read again.  (Which need not be the last  *)
(* one it was shown, see ScriptsInOrder.)                                  *)
(***************************************************************************)
NoListLost ==
    \A s \in Watcher :
        /\ watcher[s] = "receive" /\ socket[s] = "open" /\ copies[s] = {}
        /\ ~locked /\ s \notin missed
        => newest[s] = version

(***************************************************************************)
(* Lists of scripts are shown in the order of the changes, as they are all *)
(* sent under luaLock.  (Those of plugins and ports are not: the first one *)
(* is sent after the lock is released, and each of the ports' by a         *)
(* goroutine of its own.)                                                  *)
(***************************************************************************)
ScriptsInOrder ==
    topic = "scripts" => latest = newest

(***************************************************************************)
(* Whatever sessions do, a change is not sent for ever: the lock, and with *)
(* it Lua callbacks or the plugin manager, waits 200 ms for each at most.  *)
(***************************************************************************)
ChangeEnds == []<>~locked
=============================================================================
