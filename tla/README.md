# A TLA+ model of DCS-BIOS

DCS-BIOS carries cockpit data between the flight simulator DCS: World and
home-built panels. A Lua script inside DCS (`src/src/dcs-lua`) exports the
state of the cockpit as a stream of bytes over TCP; the DCS-BIOS Hub
(`src/src/hub-backend`, Go) parses the stream, lets user scripts change the
data, sends it to panels on serial ports and to live data sessions over
WebSockets, and takes commands back to DCS.

This directory models the parts of it that run concurrently or have to survive
faults, checks them with TLC on small instances and proves some of their
invariants with TLAPS. `PROJECT.json` lists components, runs, mutants, the
source lines behind every definition, hazards and theorems.

## Inventory

| Component | State | Operations | What is hard | Correct means |
|---|---|---|---|---|
| Lua exporter: `Util.lua`, `Protocol.lua`, `ProtocolIO.lua`, `BIOS.lua`, `MetadataStart/End.lua` | memory maps with values and dirty bits, autosync positions, update and skip counters, aircraft, send queue | one export per 1/30 s, rate limit, flush to TCP and UDP, accept, input lines | aircraft changes, send timeouts, sync bytes in the data, clients that connect at any time | at the end of an update a client's values are those of the update; lost data is repaired by autosync |
| Export data parser and data buffer: `exportdataparser.go`, `kvstore.go` | parser state, byte buffers, sorted list of words, `FrameData` | `ProcessByte`, `notify`, `SetUint16`, `Copy`, access by identifier | damaged streams, `FrameData` full, restarts | the list stays sorted and typed; frames keep coming |
| Encoder: `encoder.go` | `autosyncIndex`, dirty flags of the panel data | `Update` | Lua callbacks of the other loop change the buffer meanwhile; 16-bit wrap | every change reaches the panels; `Update` ends |
| Serial connections: `serialconnection.go` | port, state, channels `done` and `InputCommands` | open, read lines, write, close | three goroutines, close at any time, devices unplugged | closing ends all three, none panics |
| Port manager: `portmanager.go`, `serialportlist` | entry per port (preferences, presence, connection), `comports.json`, subscribers | `SetPortPreference`, `updatePortState`, `Write`, snapshots | ports vanish, opens fail, the hub is stopped while storing | preferences are kept, connections match entries, wanted ports get connected and unwanted ones closed |
| Relay loops: `dcs-bios-hub.go` | `FrameData`, panel data | encoder loop, transmit loop | the loops block on each other's channels and locks | data and commands keep flowing |
| Live data API: `livedataapi.go` | listeners, `listenerLock` | `WriteExportData`, session handler | sessions close while data is sent | no loop waits for a session that is gone |
| JSON API, WebSocket API: `jsonapi.go`, `websocketapi.go` | per session: channels for responses and follow-ups | `HandleApiCall`, `wsHandler` | goroutines outlive the socket | sessions end when the client does |
| Lua state: `luastate.go`, `hub_module.go`, `shmmodule` | Lua state and `luaLock`, callbacks, `SimCommandChannel`, script list | callbacks, `sendSimCommand`, `Reset`, script list calls | both loops run scripts | scripts never block the hub |
| DCS connection: `dcsconnection.go` | TCP connection, state, mutex | `Run`, `TrySend` | reconnects; others are told the status while the mutex is held; the slice shared with `io.Copy` | bytes arrive in order, status is right, `TrySend` returns |
| Status API: `statusapi.go` | status, `statusLock`, a channel per session | `WithStatusInfoDo`, sessions | same shape as the live data API, under foreign locks | a session shows the status there is; no deadlock |
| Lua console: `luaconsole.go`, and the hook script in `gethookdefinition.go` | current connection, `connLock`, channels for requests and answers; the hook's connection and buffer | accept, execute snippet; connect, send, receive | connections replace each other, requests time out | an answer belongs to its request; a snippet runs at most once; a request ends |
| Plugin manager: `pluginmanager.go`, `plugincatalog.go` | state per plugin, `stateLock`, subscribers, `dcs-lua-index.json`, directories | install, remove, check, apply updates, start of the hub | one operation per plugin at a time, git fails, the lock is released in between, the hub ends | operations exclude each other and end; state, index, control references and directories agree |
| Control reference store: `controlreference.go` | modules and their tables | load, unload, query | follows the plugin manager | the modules of the plugins are loaded |
| Monitors: lists of scripts, plugins and ports in `luastate.go`, `pluginmanager.go`, `portmanager.go` | subscriptions, a goroutine per session | subscribe, notify, unsubscribe | sessions close or stop receiving while they are sent to | no change is lost to a session, none waits for a session for ever |
| DCS setup: `dcssetup_windows.go` | `Export.lua`, the hook file | install, remove, show | truncating and writing, requests at the same time, lines of other versions | the user's lines stay, the setup line is there once or not at all |
| Configuration store, web server, GUI | JSON files, HTTP handlers, tray menu | store, serve, click | a stop in the middle of `Store`; the menu tells the status | - |
| Front end (`hub-frontend`), installer, JSON data, aircraft modules | React state, data | - | `ExportDataParser.ts` is a second parser | - |

How they interact: the exporter's bytes go through `dcsConnection.Run` to the
transmit loop, which calls `ProcessByte`; the parser's `notify` sends a copy of
its buffer to `FrameData` (room for one), from where the encoder loop takes it,
copies it to the panel data, runs the output callbacks under `luaLock`, encodes
an update and writes it to the ports (`portStateLock`) and to the live data
sessions (`listenerLock`). Commands reach the transmit loop from live data
sessions, scripts (`SimCommandChannel`) and the forwarders of serial
connections; those from panels pass the input callbacks under `luaLock` first,
and go to DCS by `TrySend`, which needs the mutex of `DcsConnection`. `Run`
tells the status while it holds that mutex, as the Lua console and the tray menu
do without it. The plugin manager loads control references and writes the index
that `BIOS.lua` reads when DCS starts.

## Modules

| Module | Models |
|---|---|
| `ExportProtocol` | bytes and words, sync sequence, grouping of dirty words into write accesses (`flushData`) |
| `DataBuffer` | the sorted list of words of `kvstore.go` as operators on sequences |
| `ExportDataParser` | `ProcessByte` and `notify`, one action per parser state |
| `LuaExporter` | the Lua script's memory maps, `BIOS.protocol.step`, send queue |
| `MemoryMap` | how `Util.lua` lays out the values of a module in words, sets, clears and sends them, and takes the words apart again at the client |
| `PanelUpdate` | the panel data between both loops of the hub: copying a frame, callbacks of scripts, `encoder.Update` entry by entry, a panel |
| `SimStream` | exporter, TCP connection and parser together; timeouts, restarts of DCS and of the hub |
| `SerialConnection` | the objects of `serialconnection.go`, three goroutines each, and devices that come and go |
| `PortManager` | extends it by `portmanager.go`, `comports.json` and restarts of the hub |
| `LiveDataApi` | live data sessions and `WriteExportData` |
| `HubRelay` | extends it by the two loops of `dcs-bios-hub.go`, `FrameData`, `luaLock`, `SimCommandChannel` |
| `StatusApi` | the status and the sessions that are told it |
| `DcsConnection` | extends it by `Run` with its mutex, and `TrySend` |
| `Monitors` | sessions that follow the list of scripts, of plugins or of ports |
| `HubSessions` | composes `DcsConnection` and `Monitors` with the tray menu and the Lua console as those who tell the status |
| `Snippets` | what the Lua console promises (abstract) |
| `LuaConsole` | the console, its connections and the hook script at the other end; implements `Snippets` |
| `PluginManager` | every request that changes a plugin, and the start of the hub |
| `DcsSetup` | changes of `Export.lua` and of the hook file |
| `DataBufferProofs` | theorems about `ExportDataParser`, `SimStream` and `PanelUpdate`, and the lemmas on the buffer they share |
| `MemoryMapProofs`, `PortManagerProofs`, `HubRelayProofs`, `LuaConsoleProofs`, `HubSessionsProofs`, `PluginManagerProofs`, `DcsSetupProofs` | theorems about the module of that name; those of `SerialConnection` are in `PortManagerProofs` |
| `MC...` | constants for TLC |

### How state and actions correspond to the code

*Export stream.* A word of a memory map is kept whole: the dirty bit, autosync and the
write accesses work on words. `ExportFrame` is `BIOS.protocol.step` when a frame is due,
with everything that the call does: the aircraft's name, clearing on a change of
aircraft, export hooks, autosync and flushing of the three maps. An export hook leaves
in a word one of the values it can read or what was there (`HookResults`). `NotDue` and
`SkipFrame` are the two ways on which `step` exports nothing. `Flush` sends the queue,
or part of it: TCPServer sets the timeout 0, a send that times out raises an error out
of `flush`, and the queue is kept. (So it is when the hub closes its end between `step`
and `flush`; here the queue goes with the connection then.) The exporter runs when the
hub has caught up, which bounds the bytes in `tcp`; it never reads the connection, so
the parser sees every sequence of bytes it could see. The parser is modelled byte by
byte. Not in this model: `ChanWriter` hands on the slice that `io.Copy` reads the next
bytes into, so that the transmit loop may see later bytes in the place of earlier ones;
here a byte is processed as it was sent.

*Memory maps.* `LuaExporter` has words, `MemoryMap` what is in them. The map is a
sequence of entries, an entry the sequence of its allocations; `allocateInt`'s
search from the base address, or from the last entry on for characters, is the
least entry that will do. A word's value is the sum of what its allocations hold,
added up by `WordUpTo` as `getValue` does in its loop; words have at most the 16
bits of the protocol. A string is defined character by character, so that
`DefineCharacter` meets whatever the last entry holds. An export hook is
`SetInt` or `SetString` with any value, in range or not. Flushing sends all
dirty words and any clean ones between them, which covers what `flushData`
chooses; the choice itself is in `ExportProtocol`. `WithField` of `DataBuffer` is
the hub's `SetIntegerValue`, with the mask it makes of the published maximum. That
is the one allocated, except for the switches in `skiplast` (`MaxPublished`): they
allocate for their last position and publish one less, and their hook shows the
last position as 0 (`Shown`).

*Panel data.* In `PanelUpdate` the encoder loop copies a frame word by word, and
every iteration of `Update` reads an entry of its slice, appends, and clears the
entry's flag in steps of its own. The slice shares its array with `BinaryData`
(`oldArray = <<>>`) until `SetUint16` of the transmit loop inserts an entry and
either shifts the entries of the shared array or, when it has no room, moves
`BinaryData` to a new one; both are possible, as the room is up to the runtime.
The reads and writes race in the sense of Go; a step here is one access to an
entry, but for the marks of autosync (`encoder.go:33-36`), the search for the first
dirty entry with its read and clear (lines 39-56), and an insertion, which are one step
each. A callback sets at most one output;
`setPanelString` writes words in the same way and is left out. A packet is the
list of words it writes; a panel applies it at once.

*Serial ports.* A step of a goroutine is what it does up to the next point at
which another can see or block it. The elements of `Connection` are the
`SerialConnection` objects in use at a time; one that no entry refers to and
whose goroutines have ended stands for a new one (`Free`, `Garbage`).
`updatePortState` holds `portStateLock` from beginning to end, so
`UpdatePortState` is one action and its parts (`CleanUp`, `DetectConnected`,
`DropRemoved`, `DetectNew`, `ToDisconnect`, `ToConnect`) are operators on an
entry. `Run` loads the configuration without the lock, port by port
(`LoadConfiguration`, `EnterInitialPref`). `Active` bounds the ports that are
plugged in and out and configured; those of `Occupied` are open in another program
all the time, so that opening them fails. A connection that has its port open and
that no entry refers to is `LeftOpen`: the hub keeps no trace of it.

*Relay.* `encoderLoop` and `transmitLoop` say where the goroutines are; a frame
or a command has no content. The goroutines of the JSON and WebSocket APIs that
carry responses are one buffer place per session, those that carry commands are
part of `SendCommand` and `CommandsEnd`. `WriteToPanels` does not block: what a
serial port does with a write is up to its driver.

*Status and lists.* A session's handler is in its `select` or on its way out of it.
Responses always leave a handler, since `jsonapi` drains them even when the WebSocket is
closed; so receiving a status and responding with it is one step, while for the lists,
which a goroutine of their own responds with, it is two, because a sender gives up one
that is responding. The three lists of `Monitors` share no state: a behaviour looks at
one of them, its `topic`, or at the status. A list is the number of changes before it.
They differ in how a session gets its first list (`Watch`: under the lock or after it)
and the later ones (`Change`, `SendTo`, `GiveUp`: by the notifier within 200 ms, or by a
goroutine each), and in what becomes of a session that has closed (`SeeClosed`).
`TrySend` writes to DCS after it has released the mutex; that `conn.Write` returns is
assumed (`dcsconnection.go:69`).

*Lua console.* Each connection has a writer and a reader, and any writer whose
connection is gone may take the next request. A connection has room for one
snippet in each direction, as at most one is under way. `hubOpen` and `dcsOpen`
say which end has been closed; writing on a connection that the other end has
closed may seem to work. Telling the status and starting the two goroutines is one step
(`luaconsole.go:67-98`).

*Plugins.* An operation (`op`) is a request that is being worked on, with what its
goroutine has in hand; a step is a critical section or what happens between two
of them. A plugin's directory is a repository: its remote, its module, whether
it is behind, whether it can be read. git and the file system may fail wherever
they are called, and leave a part of their work: a directory that is being removed may
stay a repository (`Left`), reading it again may fail (`ReadAgain`, `Fetch`, `Check`,
`Start`), and so may `LoadFile` and writing the index (`WriteIndex`). Only a manifest
that cannot be opened for the moment is left out. The user may edit plugins that are
managed manually. Plugins may share a module name. `mishaps` remembers that one of the
gaps in the locking described below has been used ("overtaken", "reread"), `stale` that
the index need not be that of the entries, and `unloaded` the modules that the code has
left out of the control reference store, as properties are about the rest.

*Setup.* `Export.lua` is a sequence of lines of the kinds the code tells apart: the
setup line, others that end in its comment, the line of versions before, lines too long
for a `bufio.Scanner`, and the user's. `Keep` is the loop that scans the lines and keeps
some of them (`KeptUpTo`, a recursive function). Reading, truncating and writing are
steps of their own, and writing may stop anywhere. `Read` gets any number of the file's
first lines: none if an error of `Stat` passes for a missing file, some if reading
fails.

## Runs

| Run | Bounds | Shows |
|---|---|---|
| `sim_consistent` | two aircraft ("NONE" and one with a module of three words, two of which take the value 0x5555 and one of which may be unavailable), counters modulo 2, one skipped frame | `FrameConsistent`: whenever the hub connects, the frame that is complete at 0xFFFE has the exporter's values |
| `sim_restart` | one aircraft, module of two words, one fault (restart of DCS or of the hub at any byte, or a partial send at any byte that is repeated) | `Repaired`, `FramesKeepComing`; types of the parser |
| `memory_map` | words of 4 bits with 2 to a character, up to three fields, maximal values 0, 1 and 4, with or without `skiplast` (4 needs three bits where the 3 it then publishes needs two), strings of up to three characters, hooks that set values in and out of range | `FieldsApart`, `CharactersConsecutive`, `CleanFieldsKnown`, `HubSetsOneField` |
| `panel_update` | three words (one from DCS with a field that scripts set as well, one that only scripts set, 0xFFFE), one word of autosync, one restart of a panel | `CleanIsSent`, `PacketEndsUpdate`, `PanelsCatchUp`; types |
| `serial_closing` | two connections to one port, up to two lines per read | `ClosingEnds`: closing gets every goroutine to its end; `OnlyClosePanics`: a panic needs a `Close` |
| `ports_live` | two ports, of which one is only there and cannot be opened, and the other is plugged in and out and configured; two connections, all preferences, opens that fail, one restart of the hub | `ConnectedHasConnection`, `PreferencesPersisted`, `ConnectionOfPort`, `Disconnects`, `ConnectsUnlessGivenUp`; types |
| `relay` | two sessions, one of which may close and be opened again, chunks of up to two updates, one place in `SimCommandChannel` | `ReceiversAlive`; `OnlyClosingBlocks`: unless the encoder loop waits for a handler that waits for its lock, frames reach the panels and commands are taken; types |
| `relay_close` (violated) | one session that closes | the encoder loop blocks for ever: `FramesReachPanels` fails |
| `sessions` | two sessions, one caller of `TrySend`, two changes of a list | `SessionsCurrent`, `StatusTrue`: sessions show the status, and it is true; `NoListLost`, `ScriptsInOrder`: lists arrive; `TrySendReturns`, `ChangeEnds`: nobody waits for ever |
| `console` | two requests, three connections | `ExecutesSnippets`: the console implements `Snippets`; `ShownIsConnected`; `SnippetsEnd` |
| `plugins` | two directories, one for a repository and one managed manually, one module that both may have or lose, two operations at a time, one restart of the hub and then one operation at a time | `OneAtATime`, `IndexServes`, `ModulesLoaded`, `EntriesOnDisk`, `OperationsEnd` |
| `setup` | files of up to three lines of five kinds, two requests | `UserLinesKept`, `SetupAsAsked`, `HookAsAsked` |

Why these bounds: in the stream the counter modulo 2 tells a frame from the one
before it, which is all `IsLatest` needs; three words are the least that have a
write access continued over a clean word; one fault at any byte reaches every
parser state, and autosync repairs each alike. Two connections per port are the
least for a connection that is closing while the next one opens. Two sessions are the
least for one to leave while the encoder loop sends to the other; 10 places in
`SimCommandChannel` behave like one, since only empty and full matter.
Words of 4 bits have room for a field beside a character and for two
characters, like words of 16; three fields make a neighbour on either side, and
three characters go beyond a word. In `panel_update` the word only scripts set is
new to the buffer when it is set first, between two others: it is the one whose
insertion shifts entries. One word of autosync for each update (5 in the code)
leaves most of a buffer of three unvisited, like 5 in a real buffer. Data
values are chosen to contain 0x5555 and bytes 0x55 where they can matter, and
in `sim_consistent` so that no clean 0x5555 lies between bytes 0x55: with such
values `FrameConsistent` fails (see below).

Three connections of the console are one in use, one that it replaces and one
that has been replaced; two requests are one that holds `connLock` and one that
waits. Which unused connection or request is next makes no difference, so the
models choose (`Connect`, `Ask`). Two operations are enough for every gap in the
plugin manager's locking; a third would only meet what the second has left. With one
module for both plugins, each may unload that of the other. The repository asks for the
name of its directory, so that an install can find it taken, by an entry or by what an
installation or a removal has left. `plugins` has the constraints `NoRace`, as all but
one of its properties say nothing of what follows a race (the proof of
`IndexServesAlways` covers it), and `OneAfterRestart`, which keeps the run small:
after a restart it goes on with one operation at a time. Three lines are a setup line
with a neighbour on either side. Two changes are the least for one to
overtake the other.

`relay`, `relay_close`, `sessions`, `console` and `plugins` are checked with
deadlock checking off because the system really stops there: `relay_close` is
one such stop, the others are described below. In the other runs deadlock is
checked.

Fairness. DCS calls the script every frame, and the hub's goroutines run when
they can (weak fairness of each goroutine, not of the events outside: users,
devices, clients, and new data do as they like). Strong fairness stands for
Go's `select`, which picks among ready cases at random, and for `sync.Mutex`,
which hands itself to a waiter that has waited long. In `panel_update` the
encoder loop has weak fairness though it may have nothing to do: frames keep
coming while DCS runs, and with `enable-idle-updates` without it.

### Where the code and its own words disagree

One disagreement is a run (`relay_close`, see "findings" in `PROJECT.json`). The
others were met on the way; the models have the steps for them, and the
properties say what holds all the same.

Export stream and panel data:

* `MetadataEnd.lua:16-18` promises that 0xFFFE is written last in each update.
  Its word ends in the skip counter: once 0x55 frames have been skipped
  (`Protocol.lua:144`) every frame ends in a byte 0x55, which makes five with the
  next frame's four. The parser synchronises a byte early
  (`exportdataparser.go:126-135`), and sees no end of update while the counter
  stays. With such a counter `FramesKeepComing` fails.
* `flushData` tests only the dirty word that ends a gap for 0x5555, not the clean
  words it sends along (`Util.lua:191`). With a module of five words whose first
  three may be 0x5501, 0x5555 and 0x0155 (text such as "UUUU" in a string),
  a clean 0x5555 makes a sync sequence within the data, and `FrameConsistent`
  of `SimStream` fails.
* Without `~raced`, `CleanIsSent` and `PacketEndsUpdate` fail: a script that sets
  panel data from an input callback during `Update` can have the dirty flag of
  its change cleared unsent (`encoder.go:88`), or shift 0xFFFE out of the slice of
  `Update`, whose packet then does not end with 0xFFFE. The panel has the
  value when autosync comes to it (`PanelsCatchUp`, which has no such
  condition).
* `SetIntegerValue` converts to 16 bits before it compares (`kvstore.go:132`):
  65537 is accepted as 1. Its mask has at least one bit (line 138), while an
  integer whose maximum is 0 has none (`Util.lua:240`): setting it clears the lowest
  bit of the field next to it. `HubSetsOneField` is about fields with bits.
* A "skiplast" switch with one position publishes the maximum -1 (`Util.lua:452`), which
  does not fit `MaxValue` of the hub (`controlreference.go:41`).
* With five words and one partial send, `FrameConsistent` fails: the repeated
  queue begins where the parser expects the rest of the cut write access
  (`ProtocolIO.lua:77`), and up to four sync bytes are stored as data until
  autosync repairs them (`MetadataEnd.lua:19-21` promises a consistent state).
  The same happens, with the three words of `sim_consistent`, when DCS is
  restarted in the middle of a frame: the hub's parser waits for the rest of the
  old frame when the new one begins.

Serial ports:

* `Close` says that it is safe to call at any time (`serialconnection.go:69-70`).
  After it `InputCommands` is closed (line 113) while the reader may have a line
  to send (line 101), which is a panic. `OnlyClosePanics` says that it takes a
  `Close` by the port manager.
* `portmanager.go:23` promises attempts at regular intervals. A connection that
  failed to open, or that opened and ended between two updates, stays in its
  entry: line 174 only looks at entries that were connected, and line 225 at
  those without a connection. `ConnectsUnlessGivenUp` names the exception.
* `StateClosed` is set without closing `InputCommands` when the port cannot be
  opened (`serialconnection.go:28` and `:91`): the forwarder stays for ever.
  `ClosingEnds` makes the exception explicit.
* `portmanager.go:24` says that a port that should not be connected is closed if it
  is open. An entry without `AutoConnect` is deleted together with its connection
  when its port is not in the list (line 208): after an error while ports are
  listed (line 193, the step `UpdateAfterListError`), or when the port is unplugged
  and comes back while the connection is still being opened. The next entry for that
  port shows it as disconnected, and the hub has it open until the device goes or the
  hub ends; no preference reaches that connection, and a new attempt finds the port
  in use. `Disconnects` and `ConnectsUnlessGivenUp` name the exception (`LeftOpen`).
* With `EarlyPreferences = TRUE`, a preference set while `Run` enters those of
  the file is undone in memory and not in the file (`portmanager.go:247`), and
  `PreferencesPersisted` fails.

Sessions:

* `WithStatusInfoDo` sends while it holds `statusLock` (`statusapi.go:40`). A session
  that has left its `select` waits for that lock (line 62): both wait for ever,
  and when it was `DcsConnection.Run` that told the status, `TrySend` waits for its
  mutex, the transmit loop for `TrySend`, and no command of a panel arrives any
  more. `TrySendReturns` has the exception (`LeftWhileSent`).
* The first list of plugins is sent after the lock is released
  (`pluginmanager.go:144`), so it may arrive after a newer one and is then what
  the user sees; so may the snapshots of ports, each of which has a goroutine of
  its own (`portmanager.go:123`). `ScriptsInOrder` fails for them.
* Three changes are told to no subscriber: the list of scripts that `Reset` reads
  from its file (`luastate.go:67`), "working" when `startWorkOnPlugin` sets it
  (`pluginmanager.go:544`), and the entry that an update replaces (line 590). A
  session shows what was there before until the next change is told, so "working" of
  an update is never seen unless something else happens meanwhile. `NoListLost` excepts
  the sessions that have not been sent a list since (`missed`).
* `break` in `HandleMonitorPortRequest` (`portmanager.go:88`) leaves the `select`
  statement: a closed session is never unsubscribed.

Lua console:

* A writer whose connection has been replaced takes the next request
  (`luaconsole.go:74`) and loses it; its handler waits for the answer with `connLock`
  held, and no snippet is ever executed again. The same happens when DCS ends
  while a snippet is under way, and when the hook reads part of a line only
  (`receive` returns it as a third result, which is dropped,
  `gethookdefinition.go:187`). `SnippetsEnd` excepts them.
* The reader of a connection that has been replaced resets
  `IsLuaConsoleConnected` after the new one has set it (`luaconsole.go:89`), so
  only one direction of `ShownIsConnected` holds.

Plugin manager:

* "make sure that localName is unique" (`pluginmanager.go:244`): the loop looks up
  the first name only. With that name in use it never ends, and it holds
  `stateLock` (`hub = "spinning"`).
* A failed install is shown as "installed." (line 279, there is no return in line
  273-277), and after the error of `ApplyUpdates` the handler goes on to report
  success (line 583).
* An install (lines 685 to 271) and an update (592 to 594) release `stateLock`
  before they set their last state, when the entry no longer says "working"; and an
  update that has failed has said "error" by then (line 579). An operation that begins
  there has its state overwritten; if it removes the plugin, line 279 dereferences nil,
  and so may 474 and 490 ("overtaken"). A check for updates reads every plugin that is
  managed manually again, also one that an update is at work on, and replaces its entry
  by one that does not say "working" (lines 441-453), so that a second update may
  start beside the first ("reread"). These are the exceptions of `OneAtATime`, which
  line 38 promises without any.
* `unloadPlugin` writes the index without the lock (line 575), perhaps that of an
  earlier state, and nobody looks at the errors of `Create` and `Encode` (lines
  715-719). Nor is the index written when a check for updates enters a plugin with a
  module (line 493). `IndexServes` excepts what is `stale` for these reasons. The index
  also stays as it is when a plugin no longer has a module: it may name too many.
* The error of `RemoveAll` (line 180) is reported, but the plugin is forgotten all the
  same, and what is left of it may still be a repository. A plugin installed again then
  fails in `Clone`, since its directory exists, and is shown as "installed."; a check for
  updates then reads its entry from the directory (lines 479-493), module included,
  without `loadPlugin`. The same follows when one directory cannot be read as the hub
  starts: `NewPluginManager` then knows no plugin at all (line 425).
* After an update the plugin has been unloaded; if it cannot be read again (lines
  584-587), it stays so and is shown with an error, until a check for updates shows
  it as ready without loading it.
* `LoadFile` may fail, which line 397 does not look at; and
  `UnloadModuleDefinition` goes by the name of the module, so that a plugin that has the
  same module as another takes it from it. `ModulesLoaded` excepts the modules that are
  `unloaded` for one of these reasons.
* The handler of a check for updates never returns, as nobody calls `wg.Done`,
  and reports success twice (lines 502 and 513).

Setup:

* `Export.lua` is truncated before it is written and the error of `Write` is not
  looked at (`dcssetup_windows.go:321-328`); nothing keeps two requests apart;
  and a line of 64 KB ends the scan, with all lines after it lost (line 249).
* Any error of `Stat` is taken for a file that "does not exist yet" (lines 306-310),
  an error of reading for the end of the file (line 249): the request writes the
  file without the lines it has not seen. If `os.Executable` fails,
  `GetModifiedExportLua` returns nil (lines 242-246), and the file is emptied.
  All of them are reported as "file saved". `UserLinesKept` excepts what follows any of
  these (`lost`); `SetupAsAsked` only the install that writes nil.
* `uninstallHook` takes any error of `Stat` for "does not exist, so successfully
  removed" (lines 349-353). `HookAsAsked` excepts it.

## Proofs

Induction over data is done without the library's induction theorems: where a
definition is a recursive function, a statement about it that failed somewhere
would fail first somewhere (`LeastElement`, from the well-order of the naturals),
and does not.

`DataBufferProofs` proves of the parser, for every sequence of bytes:

* `SetUint16Keeps`: `SetUint16` of a data buffer (words in strictly ascending
  order of address) is a data buffer, for any length. The argument: the scan's
  stop index exists (`StopExists`, from the well-order of the naturals),
  everything before it is below the address, everything from it on is above or
  equal, so overwriting and inserting keep the order.
* `ParserTypeCorrect`: `ParserSpec => []ParserTypeOK`. `ParserTypeOK` is
  inductive; one lemma per kind of step, with `BytesAndWords` for the
  arithmetic on bytes.

of the export stream, for any aircraft, memory maps and values that satisfy
`ExporterAssumption` (the addresses of a map are even and contiguous, as
`allocateInt` makes them, and MetadataStart, the module and 0xFFFE follow each other):

* `StreamTypeCorrect`: whatever is exported, wherever a timed out send cuts a frame
  and whenever DCS or the hub is started anew, the exporter keeps words, has
  nothing dirty between two frames and sends bytes, and the parser keeps its types.
* `FrameConsistentAlways`: `[]FrameConsistent`, what `MetadataEnd.lua:16-21` promises.
  It is proved for the behaviours that satisfy two conditions. `ExportsKeepSync`: no
  frame exported has a sync sequence after its beginning, because the skip counter is
  not 0x55 and no clean 0x5555 between two dirty words makes four bytes 0x55 with its
  neighbours. `OnlyTheHubFails`: DCS is not restarted and no send times out; the hub may
  connect at any time and be started anew as often as it likes. With such a 0x5555, a
  restart of DCS or a timed out send, TLC finds `FrameConsistent` violated, and a skip
  counter 0x55 loses the end of updates (see "Where the code and its own words
  disagree"). A map is shorter than 0x5500 bytes (`ShortMaps`), so that the length of a
  write access has no byte 0x55 on top. The first condition is sufficient and not
  necessary. It holds in every state of `sim_consistent`, which has words 0x5555 both
  dirty and clean, so the theorem covers that run.

The invariant of `FrameConsistentAlways` is `StreamOK`. Either nothing is in transit
and the words the hub has are the exporter's (`Idle`), or an update is (`InTransit`):
`InSync`, `BetweenAccesses` and `InAccess` say which of its bytes are left for each
state of the parser, that no four of them in a row are sync bytes once those the
parser has counted stand in front (`Clean`), and that the hub's words agree with the
exporter's except where the bytes that are left will write (`AgreesBut`, `Covered`).
`FrameConsistent` follows, for 0xFFFE is written last. The argument has three parts.
`FrameIs`: the frame is the sync sequence and, in ascending order, the write
accesses for what is dirty, which cover every word that has changed (`UpdateIs`,
`LastOfAccessIs`; `WriteAccesses` is a recursive function on sets of addresses, and
`Joins` says what it satisfies). `FrameIsClean`: `ExportsKeepSync` makes the bytes of the
frame `Clean`, since an address is even, a length is short, and a dirty 0x5555 begins a
write access of its own. `ReceiveKeeps`: each byte takes the parser one step further
in the update, with one lemma per kind of byte.

`DataBufferProofs` also proves of the panel data, for any words of DCS and of scripts,
any slots of autosync and any number of restarts of a panel
(`PanelUpdateAssumption`):

* `CleanIsSentAlways`: between updates, an entry that is clean has reached the panel,
  as long as no script has written during an `Update` and the panel has not been
  started anew.
* `PacketEndsUpdateAlways`: as long as no script has written during an `Update`, the
  packet writes no address twice, in ascending order, and 0xFFFE last.
* `PanelTypeCorrect`, race or not, and `PanelInvariant`, the invariant below.

`PanelInv` says first that the buffer is sorted and typed at every step of either
loop (`BufferType`, `ControlType`), and that while `Update` is under way there is
something to write (`SomethingDirty`). While nothing has raced: the slice of
`Update` is the whole buffer (`Whole`); the packet is in ascending order, has the
words of the buffer, and leads up to the last entry handled, and 0xFFFE is dirty
until it is handled (`PacketSoFar`); and what has been handled has been sent or is in
the packet, while the rest is dirty or sent before (`SentSoFar`). That 0xFFFE comes
last follows from its being the greatest address of a sorted buffer.

`MemoryMapProofs` proves, for words of any even size and whatever a module
defines, in any order:

* `FieldsApartAlways`: fields of a word do not overlap, lie within the word and
  have room for their values;
* `CharactersConsecutiveAlways`: a string is consecutive bytes from the start of a
  word on;
* `CleanFieldsKnownAlways`: while a word is clean, the value that a client takes out of
  each of its fields is the one the module has set;
* `HubSetsOneFieldAlways`: the hub's `SetIntegerValue` changes the field it is for, if
  it has bits, to any value that is published for it, and no other field that the
  module has defined.

`IInv` is their common strengthening: the allocations of an entry follow each
other from bit 0 up to `allocatedBitCounter`, which does not exceed the word
(`EntriesOK`); every string is right (`StringsOK`); and while a string is being
allocated, its last character ends the last entry (`StringOpen`), which is why
the next one finds room right behind it and nowhere else (`RoomForCharacter`).
Defining adds a field and keeps all others where they are (`AllocateInFields`);
setting, clearing and sending keep the layout (`LayoutKept`). For these two, all that
matters of `2^n` is that the value fits (`FitsIn`).

The other two need what the words hold. `KInv` adds that every value fits its field and
that the client's copy of a clean word is the word (`EntriesHold`). `WordHolds` then
says that a sum over fields that do not overlap has each value in its own field, by
induction over the allocations: adding a value above the bits used so far leaves what is
below alone. The arithmetic is that of `\div` and `%` by powers of two (`DivModUnique`,
`PowersAdd`), and the powers up to 2^16 are computed by cases. Of the hub's mask the
proof needs that it is no wider than the field (`FieldSizeIs`), so that what it replaces
lies within (`DifferInField`), and that the field has no bits above it, for which a
"skiplast" switch must not show its last position (`SkiplastOK`).

The assumption is `MemoryMapAssumption`: words have an even number of bits and at most
16, a character takes half a word and no value more than a word, for which
`allocateInt` would search for ever.

`PortManagerProofs` proves, for any ports, connections, preferences and number
of restarts:

* `ConnectedHasConnectionAlways`: no entry that counts as connected has a nil
  connection, which `updatePortState` would dereference.
* `PreferencesPersistedAlways`: assuming no preference is set before loading
  has finished, the file holds exactly the ports with `AutoConnect` from then on.

* `ConnectionOfPortAlways`: the connection in an entry is one to the entry's port,
  so no two entries share one, and a connected entry's has been opened.
* `PortManagerTypeCorrect`: every variable of both modules has its type.
* `OnlyClosePanicsAlways`: for any connections that are opened and closed by anyone
  (`ConnectionSpec`), one panics only after a `Close`. What `run` has closed is done
  (`ClosedIsDone`), and no step of a goroutine changes that (`GoesOn`).

None is inductive by itself. For the first two, `IInv` adds that entries are well-formed (so
that `EXCEPT` and field access mean what they say), that before the file is
read no entry has `AutoConnect`, and that between reading and looping the file
is the union of what has been entered and what has not (`FileOK`). Each
operator on an entry gets a lemma saying that it keeps both facts
(`CleanUpKeeps`, ..., `DetectNewKeeps`). `ConnectionOfPort` needs two facts more:
a connection that an entry refers to is not one of `Free`, so that a new object
is nobody else's; and the new ones are given out by an injection. The
assumption used is
`PortManagerAssumption` (`NoEntry` and `NoConnection` are not records or
connections).

`HubRelayProofs` proves, for any number of sessions and any capacities:

* `ReceiversAliveAlways`: `WriteExportData` never waits for a session whose handler
  has ended. The inductive invariant says that a registered session's handler
  has yet to deregister it (`RegisteredAlive`) and that channels are left to send
  to only while the lock is held (`SendingLocked`), so that nobody deregisters
  meanwhile: the very lock that makes `relay_close` possible.
* `TypeCorrect`: every variable has its type; parsing has ends of updates left
  (`ParsingOK`), or the count would fall below 0.

`LuaConsoleProofs` proves, for any requests and any number of connections:

* `ImplementsSnippets`: every behaviour of the console is one of `Snippets`, with
  `executed` and `answer` as they are. A step of the hook may execute, one of a
  handler may answer or refuse, all others stutter. What has to be known is that
  an answer that arrives is that of the request that waits for it: there is at
  most one request past `offer`, and it holds `connLock` (`LockOK`); a snippet
  is in at most one place between the channel and the answer (`OnePlace`), and
  only if it is that request's (`WayOK`); one in a place behind the hook has been
  executed, one before it has not (`ExecutedOK`); and answers are their request's
  own (`AnswersOK`).
* `ShownIsConnectedAlways`: the console is never shown as connected when no
  connection is read from. `ConsoleTypeCorrect`: every variable has its type.

`HubSessionsProofs` proves, for any number of sessions, senders and changes
(`MonitorsAssumption`, and `HubSessionsAssumption`: `Nobody` is none of the holders
of a mutex):

* `SessionsCurrentAlways` and `StatusTrueAlways`: a session that has subscribed
  shows the status whenever nobody is sending it, and the status agrees with
  what the connection to DCS and the tray menu keep themselves. The strengthening
  says that sessions the mutator has sent to already show the new status
  (`SentOK`), and what `Run` has told at each of its steps (`RunOK`): it holds its
  mutex exactly between changing `state` and telling the status.
* `NoListLostAlways` and `ScriptsInOrderAlways`, for all three lists. A session that
  is not waiting for a change to be sent to it, and has missed none, has been shown
  the list there is, or is about to be: it is the one its handler holds or a copy on
  its way (`Current`). For scripts there are no copies on their way, and none is
  older than one shown before (`Ordered`).
* `SessionsTypeCorrect`: every variable of the four modules has its type.

`PluginManagerProofs` proves, for any plugins, repositories, modules and number of
operations and restarts (`PluginManagerAssumption`):

* `OneAtATimeAlways`: until an operation begins on a plugin that another has given up
  too early, or a check reads again a manual plugin that is being worked on, at most one
  works on a plugin, and no handler finds its entry gone. `OneAtATime` is not inductive:
  `IWork` adds that the entry of a plugin that is being worked on exists, and says
  "working" except in the steps that end an operation (`EntryOK`). A step of an
  operation touches no entry but its own (`Own`), and one begins only where that entry
  says that nobody is at work (`Begins`, `Checks`).
* `EntriesOnDiskAlways`: when nobody is at work, an entry with a remote has a directory
  with that remote. `ModulesLoadedAlways`: the modules of the entries are loaded, but for
  those that show an error and the modules that are `unloaded`. Both come from
  `IPlugins`, which says of every operation, at each of its steps, what its entry has to
  do with the directory and with what it has read of it (`Backed`) and with the modules
  that are loaded or accounted for (`Loaded`), and the same of every entry nobody works
  on. That one plugin's step leaves the others' modules accounted for is `Others`.
* `IndexServesAlways`: at any time, whatever races there are, the index has the modules of
  all entries and none of a plugin that has gone, unless it is `stale` (`IIndex`,
  `Listed`): a step writes the index of the state it leaves, or changes nothing that the
  index shows (`IndexKept`).
* `PluginsTypeCorrect`: every variable has its type, mishaps or not. It needs besides
  that there is something to clone, to enter and to reset to (`OperationOK`,
  `RepoOK`): a branch can only be behind a remote.

`DcsSetupProofs` proves, for any lines, files and requests (`DcsSetupAssumption`):

* `UserLinesKeptAlways`: unless two requests were at work at a time, one went on
  after an error of `Stat`, of reading or of `os.Executable`, a write stopped or a line
  was too long, the user's lines are in `Export.lua`, in their order, whenever nobody
  is writing.
* `SetupAsAskedAlways`: after a request that was at work alone and wrote the whole
  file, one line of ours is there and `IsExportLuaSetup` finds it, or there is none,
  as was asked, whatever the file was before and however much of it was read, unless an
  install has written nil. `HookAsAskedAlways`: the hook file is as the last request
  asked that was at work alone and met no error it took for something else.

The lemmas on `Keep` (it yields lines of the kinds kept, twice is once, and it commutes
with `Append`) are inductions over the file. The invariant says that a request that is
alone at work is the only one (`IAlone`), that what it is about to write is the user's
lines with or without the setup line (`INew`), or nil (`Modifies`), and what the file is
when nobody is (`IAsked`); types are part of it (`IType`).

Only model-checked: liveness (`Repaired`, `FramesKeepComing`, `ClosingEnds`,
`Disconnects`, `ConnectsUnlessGivenUp`, `OnlyClosingBlocks`, `PanelsCatchUp`,
`TrySendReturns`, `ChangeEnds`, `SnippetsEnd`, `OperationsEnd`), which is out of
the prover's reach; every other property of the passing runs is stated by a theorem.
Types: those of `SimStream` are part of `StreamTypeCorrect`; those of `LuaConsole`,
`HubSessions` and `PluginManager` are proved and need no run.

## Plan

Done, in this order: the export stream; serial ports; the relay; the data itself
(`MemoryMap`, `PanelUpdate`); status, connection to DCS and lists; the Lua console
with its abstract specification; plugins; setup. Left:

1. The bytes of `encoder.Update` and their decoding by the parser, over all small
   buffers.
2. Abstract specifications of the relay (a frame put in is written out, in order,
   none twice) and of a serial port as seen by a user (absent, closed, opening,
   open).
3. The slice of `ChanWriter`: what the transmit loop sees when `io.Copy` reads on.
4. Reassembly of input lines (`ProtocolIO.lua`), the TypeScript parser against the
   Go one.
5. Theorems: what is left of `FrameConsistent` while a frame has been cut (the words
   that the cut write access and the sync bytes behind it cannot have reached);
   the refinements of item 2.

## Not modelled

The definitions of the aircraft modules and the control reference (data), the
front end's components, the web server and the installer (input and output
without state that the rest depends on), the catalogue of plugins (a download),
the look-up of installations of DCS in the registry and of Steam, git and the
file system behind the plugin manager (external, as used). `iconwin.go` is the
tray icon as a table of bytes: 30,849 of the hub's 35,584 lines, with no logic.
Of the rest the modules cover what changes state and can go wrong.
