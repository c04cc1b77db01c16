# TLA+ verification of TerminalWindow's tally program

TerminalWindow is a terminal window library in C++ (input manager, widgets,
renderer) and the program it was written for: a tally controller. The user
clicks checkboxes in a terminal, one per camera; small WiFi lights
(`arduino_code`) connect over TCP and show the state of "their" checkbox.

## 1. Inventory

| component | source | state | operations | hard behaviour | what makes it correct |
|---|---|---|---|---|---|
| checkbox group | `libs/WindowMangerV2.hpp` 1193-1450, friends in `main.cpp` | `state`, `lastState`, `lastEvent`, css | `Render` (event, click, callback, rule), `AddToState`, `SubstractFromState` | order of clicks, boxes rendered before and after the clicked one, mouse moving within a frame | one camera per busy state, every change reported and coloured, one press is one click |
| tally server | `tcp/tcp.hpp`, `main.cpp` 29-168 | `TallyGuys`, `currentId`, `clients`, `readBuffer_`, timers, the checkboxes' attributes, the popup | accept, handshake, heartbeat, disconnect, `ChangeState`, `AddNewClient` | three threads, one shared stream buffer, blocking reads, lost and restarted lights | lookups find their client, heartbeats neither dropped nor doubled, marks and links true, a displaced light is told |
| light | `arduino_code/arduino_code.ino` | connection, `memory`, EEPROM | connect; `loop()` answers "2" "3" "4" "5", and a heartbeat, if at all, only `CheckForEvents()`, which is not in the repository | power loss, restart, reconnect | part of the server's properties |
| input manager | `libs/inputManager.hpp` | `keyPressed`, `mousePos`, `mouseBtn`; `key`, `mouseKey` | `UpdateInputManager` (input thread), `tick` (main thread) | events between two ticks, escape sequences | keys once and in order, whole mouse reports, the last one wins |
| AtomicQueue | `libs/queue.hpp` | the vector, the spin lock | `push_back`, `get_front`, `pop_front`, `size` | lock held on an exception, unlocked `size` | first in, first out, each item once |
| popup | `libs/WindowMangerV2.hpp` 833-1025, `main.cpp` 36-81, 145-147 | text, selection, colour, `AddClientStage`, `Newplace`, `clientId` | `InputField::Render`, `AddNewClient`, opened by `NewClientConnected` | one dialog for all lights, stale stage and key | text is what was typed, place and name are for one light |
| renderer, layout | same, 199-245, 287-373, 1452-1624; `element.css` | old and new screen | compose, draw the difference, percentages to cells | resizing, overlaps, rounding | the terminal shows the frame, the cameras tile it |
| css | same, 247-285, 466-721 | the sheet; `css`, `css_events` of an element | find, select, parse in threads | substring ids, pieces that throw, declarations set by threads in any order | an element looks as its rule was meant |
| button, text | same, 723-831, 1027-1190 | `lastEvent`, style | `Render` | a rule on top of the one before | what hovering and pressing did does not outlast them |
| BitMask, BufferedSocket | `libs/bitmask.hpp`, `tcp/socket.hpp` | bytes | set/get, read | none in the program: `Pixel::attr` is never set or read, the sockets are not used | |
| web server, files, log | `tcp/webServer.hpp`, `libs/FileManager.hpp`, `clog.hpp` | none | one static route, I/O | none of its own | |
| lifecycle | `main.cpp` 170-329, `libs/inputManager.hpp` 97-125, 186-196, `libs/WindowMangerV2.hpp` 1626-1636 | terminal settings and modes, threads | start, quit on `q` | output not flushed, a thread still running when `main` returns | the terminal is left as it was found |

The input thread stores mouse positions and buttons and queues keys; the main
loop ticks, renders every box, and in rendering calls back (`StateChanged`,
`AddNewClient`), which write to sockets. The io thread runs `io_service::run`:
`HandleAccept` calls `NewClientConnected`, which talks to the light
synchronously, and heartbeat timers call `HeartbeatForClient`, which starts a
watchdog thread for each beat. Checkboxes, popup, `TallyGuys` and `readBuffer_`
are shared without a lock.

The hazards, each at its line with the properties that watch it, are listed in
`PROJECT.json`.

## 2. Modules and how they correspond to the code

| module | models | its actions are |
|---|---|---|
| `CheckboxStates` | the arithmetic of a click over the friends lists | (operators only; used by the next two) |
| `CheckboxGroup` | input, `Checkbox::Render` of every box, `tick` | `MoveMouse` and `PressOrRelease` (the input thread's stores), `Render(b)` (one box's whole `Render`), `Tick` |
| `TallyServer` | lights, connections, io thread, watchdogs, UI thread | lights: `Connect`, `Answer`, `Close`, `PowerOff`, `PowerOn`, `Reset`; io thread: `HandleAccept`, `HandleAcceptError`, `GotId`, `GotAck`, `GotName`, `HeartbeatForClient`, `HeartbeatEnd`, `Match`, `PlaceBox`, `SendState`, `PopupId`; `Watchdog`; UI thread: `Click`, `Report`, `EnterPlace`, `EnterName`, `Renamed`, `SetText`, `SetIds` |
| `TallyRegistry` | what the server promises of the clients it registered (abstract) | `Register`, `Beat`, `Answered`, `Die`, `Link` |
| `Fifo` | what a queue promises (abstract) | `Send`, `Receive` |
| `AtomicQueue` | the queue and its spin lock | `Call`, `Acquire`, and one action per access of the vector, throw and release |
| `InputManager` | the input thread's parser byte by byte, the atomics, `tick`, the terminal from start to end | user: keys, escape sequences, mouse reports; input thread: `CheckRunning`, `PlainKey`, `Prefix`, `ReadBtn`, `ReadX`, `ReadY`, `StoreButton`, `Push`; main: `LoadSheet`, `InitializeInputManager`, `InitializeWindowManager`; `Tick`, `Pop`, `PopEnds`, `LoadMouse`; `EndInputManager`, `EndWindowManager` |
| `Popup` | `InputField`, the dialog of `AddNewClient`, its opening and closing by the io thread | user: mouse and keys; `RenderDisabled`, `SameEvent`, `NewEvent`, `RenderKey`, `EnterPlace`, `EnterName`, `Renamed`, `Place`, `Tick`; io thread: `NewLight`, `Close`, `PopupId`, `PopupText` |
| `Renderer` | composing and drawing a frame, the terminal | `Resize`, `Restyle`, `OpenOrClose`; `Compose`, `Draw` |
| `Css` | `findCssById`, `cssSelectorSepreator`, `ParseCss` as functions of a text, and what an author means by a sheet | (operators only; used by `Widgets`) |
| `Widgets` | the styles of a window, of Texts and Buttons | `MoveMouse`, `PressOrRelease`; `Restyle`, `Join`, `RenderPlain`, `SameEvent`, `NewEvent`, `EventParsed`, `Tick`; `RunThread(t)` (one declaration's thread) |

`TallyServer` extends `CheckboxStates`, so that its clicks displace friends as
`CheckboxGroup`'s do; `InputManager` extends `AtomicQueue` and calls it as its
two threads do; `Widgets` extends `Css`. `AtomicQueue` implements `Fifo` under the mapping in its
`ImplementsFifo`; `TallyServer` implements `TallyRegistry` under the mapping in its
`Registry`: waiting clients are those with an armed timer, the beaten one is the io
thread's while it is in a heartbeat that has not shut it down, the dead are those whose
socket was shut down, and a camera is linked to its checkbox's `clientId`. `MCxxx` modules only name the values the runs use; `xxxProofs`
hold the proofs about `xxx`. Variables have the names of the code's; those the
code does not have are marked as history variables or bounds where they are
declared, and influence no other variable except by a bound in a guard.

**Grain of the steps.** In `TallyServer` a step is what a thread does between two
blocking reads, cut once more where the order against another thread decides what
stays: on the UI thread between setting the text (`SetText`) and the ids (`SetIds`), on the io
thread between reading a checkbox's state (`PlaceBox`) and sending it (`SendState`), and
between enabling the popup and naming its client (`PopupId`). Other unprotected
assignments in a row are one step: text, ids, popup and the reading of the state in
`PlaceBox`, both attributes and the popup in `SetIds`. In `AtomicQueue`
a step lies between two accesses of the lock or the vector; in `InputManager` between two
bytes and two stores; in `CheckboxGroup`, `Popup` one element's `Render`; in
`Renderer` composing and drawing; in `Widgets` one element's turn, cut where `ParseCss`
starts threads, each of which calls one setter.

**Abstractions.** A TCP connection is two queues, one for each direction, in
order and without loss while it is up; a light that loses power says nothing,
and its old connection may be reset once it is back. What a light answers is `Replies`:
`loop()`'s answer, and before it whatever `CheckForEvents()` sends, which is external: a
heartbeat's answer or nothing. So a light may answer no heartbeat at all, and only the
liveness of a rename counts on an answer to the rename itself. `setup()` is empty and
nothing calls `loadFromEEPROM()`; that a light starts with its saved name
(`PowerOn`) is what the repository's `README.md` says of it. Names are model values; a line that should hold a name and does
not is `Junk`. The `-disconnected-` suffix is the boolean `marked`: a user who types
that text as a name is left out. `TallyServer` folds the popup to its id and
whether it is enabled, and `Popup` leaves out the exchange with the light; so each
covers what the other abstracts. In `Renderer` an element's text and colour are one
value, its `look`; a change while a frame is drawn is put after it, as
drawing reads no element. In `Css` a text is a sequence of braces, semicolons, white space,
the two pseudo classes and words; a word may have an id somewhere in it, and a
declaration is one word. In `Widgets` the cursor is inside any set of buttons, for the
model keeps no positions. Sizes are kept as the sheet has them and converted when an
element is drawn (`Absolute`, `Size`): percentages of the window, and the window's own of the
`terminal`, rounded to cells. A button whose event changed is drawn in the size
it had before its rule was parsed (`siz`). Drawing an element that is `Flat`, with a width but no
height or the other way round, touches a pixel of an empty vector and may end the program. In
`InputManager` a mode switch reaches the terminal when the output is flushed, and what is
not flushed when `main` returns is lost, because the destructor of `webThread`, a
running `std::thread`, aborts the process. `cin` is tied to `cout`, so each `cin.get()` of the input
thread flushes too; the model leaves that out, which only delays what is printed. Where the escape key may be pressed no `[` is
typed: the two would begin a report by hand.

## 3. Runs, bounds and fairness

| run | instance | distinct states | shows |
|---|---|---|---|
| `checkbox_group` | 3 boxes, 3 states, any mouse | 24 192 | at most one camera per busy state; a swap never drops the on-air state; changes are reported, coloured and end when the mouse is quiet |
| `tally_safety` | 2 lights, 3 connections, 1 fault, a click or a typed name, accept may fail | 2 607 823 | the inductive invariant, lookups, lines, marks, links; the server implements `TallyRegistry` |
| `tally_live` | 2 lights, 2 connections, one name typed, and a fault or up to 2 clicks | 135 666 | power losses are noticed, connections greeted, renames return, displaced cameras' lights are told |
| `atomic_queue` | 3 threads, 2 items, 2 pushes, `get_front` on an empty queue | 212 610 | the inductive invariant, with the order of the items in it; refinement of `Fifo` |
| `input` | 3 events out of 2 keys, 2 sequences, escape, 3 buttons, 2 places | 246 795 | `tick` never throws, keys in order, whole reports, all arrive; after `q` the mouse and the cursor are as before |
| `popup` | 2 boxes, 2 lights, 4 keys, 1 key waiting | 3 158 892 | text, selection and dialog |
| `renderer` | sizes 1x3 and 5x5, 2 looks, 5 elements | 203 072 | tiling, and that differential drawing leaves the frame |
| `widgets` | a window, a text, a button; every sheet of at most 2 rules out of 16, and of 3 out of 6; terminals of 10x5 and 80x24 | 450 208 | elements look as their rules were meant, a button that is left as before; good sheets do not end the program |
| `close_noticed`, `dead_is_marked`, `shows_current`, `terminal_restored` | as `tally_*` and `input` | | the four findings below |

**Bounds.** `MaxConn`, `MaxFaults`, `MaxClicks`, `MaxEntries` and `MaxActs` bound
connections, faults of lights (power loss or close), clicks, names typed, and the last two together;
`Mixed` says whether one behaviour has both faults and clicks, which `tally_live` leaves to
`tally_safety`; it has room for two clicks and a name, so that a rename may follow a
displacement and keep the UI thread from reporting it;
three connections are the first with two lights and a light that came back, one
fault is enough to have the old connection of a light next to its new one. Two
boxes have a free one and one that waits for a name; `checkbox_group` has three,
the first with a friend before and one after the clicked one. Two clicks
displace a camera (the second one asks for the state the first one took); swaps of
preview and on air, which take four, are in `checkbox_group`, whose clicks are not bounded. `MaxPushed` and `MaxEvents` bound pushes and
input; three events let a key be queued while the one before is popped, or a report
arrive between two that share a button. `MaxKeys`, `MaxWaiting` and `MaxLights`
bound the popup's input: four keys are a place, Enter, one letter of a name, Enter. Where
`MaxPushed = 0` (in `input`) the queue's own bound is off and `MaxEvents` holds. The
sizes of `renderer` include halves that round to the whole and elements with an
inside. The rules of `widgets` have every event, every layout, values that throw or count as
0, percentages that come to no cell (all of them where no rule sizes the window, 4% on the
smaller terminal), an id inside another id, and a property twice; two rules are enough for one to hide,
replace or cover another, three for a normal, a hover and an active rule together. Looks are interchangeable, so that run has symmetry over them; it checks no
liveness property. The connection numbers, names and places of the others are
ordered or compared with constants and have none.

**Deadlock** is checked for `checkbox_group` and `renderer`. The others may stop: a
handshake waits forever for a silent light, the bounds are used up, a
`get_front` on an empty queue keeps the lock, `q` ends the program, a bad sheet aborts it.

**Fairness.** Threads run (weak fairness of the io handlers, the watchdog, the
input thread, the main loop and its `Report`), and a light that is on reads its messages and
answers those of `loop()`, though it need not answer a heartbeat. `HandleAccept`
and each heartbeat have strong fairness: `io_service` queues what is ready, so
nothing ready is passed over forever though another handler is chosen each time.
`AddNewClient` too: its read of a rename competes with a heartbeat's for every line,
and the kernel does not let the same reader lose each time. Nobody has to click,
type, connect or come back. Time is not modelled: `Watchdog` may fire at any point of a
heartbeat, whether an answer is on its way or not, and fires at last if none comes.

## 4. Proofs

The proofs hold for every value of the constants that satisfies the modules'
named assumptions: any number of boxes, states, lights, connections, threads,
clicks, sizes.

- **`CheckboxGroupProofs`**: `GroupTypeCorrect`, `GroupExclusive`, `GroupFrameSettled`,
  `GroupStyleShowsState`, `GroupStateHandedOver`. `ExclusiveStates` is
  inductive by itself: the lemma `AddToStateExclusive` (in `CheckboxStatesProofs`) shows
  that moving the clicked box up, and a friend that held the state down by one, never makes
  two boxes share a busy state. Its core is that the friend goes to the state the clicked
  box has just left, which exclusiveness says nobody else holds; `GroupStateHandedOver`
  follows from the same lemmas. `FrameSettled` looks at the end of a frame only, so
  `Settling` says for every point of a frame without a click that the boxes rendered so far
  are reported. `StyleShowsState` is inductive with the types.
- **`TallyServerProofs`**: `TallyInvariant` and, from it, `TallyTypeCorrect`,
  `TallyLookupsSafe`, `TallyWatched` (no chain of heartbeats is
  dropped or doubled). `LookupsSafe` is not
  inductive: an id comes into use from the locals of two threads and from the popup.
  `TallyInv` adds where these come from: `CountsInv` (ids are not ahead of accepted
  connections; in `askId` they are behind), `OneIdPerConnection`, `IoInv` (what the io thread's locals are in each
  handler), `UiInv` (the same for `AddNewClient`), `RegistryInv` (ids in order, only
  registered clients are shut down). The last part is why a connection in its handshake is
  alive when its first heartbeat is armed. One lemma per action; most actions leave
  parts of the state alone, which `SameIds`, `SameTypes` and `SameRegistry` exploit.
  At its end `TallyImplementsRegistry`, from `TallyInv`: `Watched` says that
  a registered client is waiting, beaten or dead (`KnownIsRegistered`), `IoInv` that at most one is
  beaten (`HeartbeatIsOne`); then each action is a step of the registry (`GotName` registers,
  `HeartbeatForClient` beats, `HeartbeatEnd` answers, `Watchdog` kills, `PlaceBox` and `SetIds`
  link) or leaves its variables alone, one lemma for each.
  Then what holds until a light is renamed: `TallyLines` and, from it, `TallyOwnLines`,
  `TallyMarkTrue`, `TallyLinkedByName`: the properties that are stated for runs in which nobody
  names a light. Their invariant `LinesInv` follows one line at a time from the request to the answer: on a
  connection that is up at most one request or answer is on its way, and only while the io
  thread waits for it (`LineInv`); nothing may be, for a heartbeat need not be answered. So
  `ReadUntilSync` cannot return another client's line, and the name the io thread holds is the one saved in the
  light of its connection (`NamesInv`). A connection that is down may keep a request that
  nobody will answer, which is why `Open` is in it everywhere, and `SocketsInv` says which
  light, if any, can still answer on a connection. `MarkTrue` and `LinkedByName` are then
  inductive together with `TallyInv`.
- **`AtomicQueueProofs`**: `QueueInvariant`, `QueueInOrder`, `QueueOneInside`,
  `QueueImplementsFifo`. `InOrder` (what was popped, then what is queued, is what
  was pushed) needs that a thread which has read the front and not yet erased it is alone,
  and that the front is still what it read (`OneInside`, `FrontKept`, `ItemGiven`). A step
  maps to `Send` at `push_back`'s insertion, to `Receive` at `pop_front`'s erasure, to a
  stutter otherwise.
- **`InputManagerProofs`**: `InputInvariant` and, from it, `InputTypeCorrect`, `InputTickSafe`,
  `InputReportsWhole`, `InputQuitTidies`. `InputInv` adds to the queue's own invariant `CallsInv`
  (only the main thread takes items, so an item that `size()` told of is still there when
  the lock is taken, or its push is past the lock) and `ParseInv`: wherever ESC `[` `M` stands
  in the unread input, or its rest after what the parser has read, a report that was sent
  follows. That is why no lone escape key can mix two reports, and why `btn` and `x` keep
  their types at all. `OutputInv` says what is flushed when.
  `InputKeysInOrder` adds `KeysInv`: what was typed is what the input thread has read, followed by
  what the unread input still holds. The second part is not defined by recursion over the input, which
  would need an induction in every step, but by a witness `f` (`Holds`) that says for each place
  where a key or a sequence begins which keys follow it; the user's step extends `f`
  (`HoldsMore`), the parser's shifts it (`HoldsLess`). `NextStart` is where the parser, if it
  is inside a sequence, will be done with it: this is what fails after a lone escape key.
- **`PopupProofs`**: `DialogServesOneLight`, `SelectedFieldIsRed`, `PopupTypeCorrect`. The first two follow from
  `Inv`, which adds to the two properties `DialogInv` (the popup has the newest id except
  while it is being opened; undisturbed, the two threads' parts of the dialog do not overlap).
  The types need `LocalsInv`: a local is set where it is used.
  `PopupShowsWhatIsTyped` needs `TypedInv`: between `tick` and the field's `Render` the last
  key is in `since` and not yet in `text`. Its lemma `FoldAppend` (one more key folds to one more
  edit) is proved for any sequence of keys.
- **`RendererProofs`**: `FrameTiled`, `FrameShown`, `RendererTypeCorrect`. The lemma `Tiling` shows that halves rounded the
  same way leave no gap and no overlap, so no cell of a frame is the window's
  black background, the one value an uninitialised `Pixel` could equal by chance; with that,
  `RInv` keeps `Known`: what `oldScreen` remembers is in the terminal, unless a resize was missed.

- **`WidgetsProofs`**: `WidgetsTypeCorrect`, `WidgetsLookAsWritten`, `WidgetsBackToNormal`,
  `WidgetsNeverAbort`, in two halves. The first is about text. A sheet is what `Written` makes of rules;
  `Flattened` says where each part of a concatenation lies, so `FoundPieces` can show that a
  search for an id finds exactly the rules with that id, if the id is apart from all other words.
  `PieceOfRule` says that the text up to the next closing brace is one rule's, `SelectsItsEvent` that it goes
  to the event it was written for, `PiecesGiven` that the last rule for an event prevails,
  and `CallbacksOfTidyRule` that parsing it starts one thread for each of its declarations.
  The second half is about frames. `StyleAsWritten` speaks of drawn frames and is not inductive:
  `IInv` says of an element at any point of a frame which pieces it has been given
  (`PiecesInv`: all of them from its first turn on), when its style is that of its rule
  (`LooksInv`: but while it is parsed), what no rule of it touches (`Untouched`), and that
  both parts of its size come to a cell or more on every terminal (`SizeInv`, in terms of the size
  the window's rule means; `WindowIsMeant` shows that the window has that size once its turn is
  over, `NotFlat` that an element then is not flat); of the size a button took before its event was
  parsed that it is not flat either (`SizInv`); and of the threads that run (`ParsingInv`) that they are declarations
  of one rule and that those which ended have had their effect. The last is where a tidy
  rule is needed: of two threads that set the same property, the order would decide. `BeginInv` says
  that a button's normal rule is parsed before any of its events, hence the style it
  has when its turn comes is the one its last event left.
  `SheetsAssumption` (a sheet is a sequence of rules) is the only assumption about the sheets,
  `TerminalsAssumption` and `NumbersAssumption` say that terminals and declared numbers are not negative.

Induction over data is done with `SetInduction`, which is stated for a set of numbers where the
library's theorem has a predicate.

**Only model-checked**: the liveness properties (`LossNoticed`, `Greeted`,
`RenameReturns`, `DisplacedTold`, `ChangesReported`, `QuietMouseQuietGroup`, `KeysSeen`,
`MouseSettles`), because liveness under fairness is
outside the prover. Every invariant of the passing runs, the action property and the two
refinements are stated by theorems.

## 5. What the code does not do

Four runs refute what the repository says, three of them its `README.md`, one a comment; each
quotes it in `PROJECT.json`.

- `close_noticed`: only the watchdog's `shutdown` sets `_error_code`, while
  `ReadUntilSync` drops the error of the read. A light that closes its connection, or whose
  connection is reset, is beaten forever and never marked.
- `dead_is_marked`: the first heartbeat runs inside the handshake, before a
  checkbox has the client's id. A light that dies in it is then placed without the mark.
- `shows_current`: the io thread reads a state and sends it; a click in between sends
  the newer one first, so that the light ends with the older.
- `terminal_restored`: `restore_terminal_settings` sets the settings it has read a line
  before, so echo and line buffering stay off after the program.

The models also contain the following, without a run that refutes a statement about it:
`loop()` has no branch for the heartbeat "h", nor has the list of the server's messages at
`tcp/tcp.hpp:54`, so with the light of the repository alone, without a
`CheckForEvents()` that answers, every client is shut down in its first heartbeat, though
connected, and its checkbox, linked afterwards, has no mark;
during a rename the heartbeat's line may go to the UI thread, and the watchdog shuts a
light down that answered; the dead client of a
failed handshake, whose name is empty, takes a checkbox that has no `clientName`;
a second click on the popup leaves it red but deaf; `q` quits while one types; a
lone escape key makes the parser swallow a byte; a resize undone between two frames
is not drawn again; the reads of the handshake have no timeout and run on the only io
thread, so a light that vanishes in its handshake stops every later client and heartbeat
(`Greeted` and `LossNoticed` except it); the alternate buffer and the wrapping mode, switched
back but not flushed, are lost in the abort at the end; an id that is part of another
one, or of a value, gets that one's rules too; what a hover rule sets and the normal rule does not
mention stays after the mouse has left (`StyleAsWritten` and `BackToNormal` say for
which sheets that does not happen).

## 6. Not modelled, and why

- **Data races on memory.** Strings, maps and the stream buffer are shared without locks;
  an access is atomic in the models. The exception is `AtomicQueue::size`, which
  may return either answer while a push is going on.
- **What ends the process in `AddNewClient`.** Enter pressed twice before the io thread has
  stored the popup's first id makes `std::stoi("")` throw (`main.cpp` 57, 145-147); `EnterName` waits
  for an id instead.
- **The light's events.** `CheckForEvents()` is called and not in the repository; it answers a
  heartbeat or it does not.
- **The error stream.** `HandleAccept` reports a failed accept on `std::cerr` (`tcp.hpp` 150), which
  writes over the frame; `Renderer` has no such step.
- **TCP segments.** One request is one message. `main.cpp` writes "9" and "6" one after
  the other; how a light splits its input is not in the repository.
- **Input.** Four-byte escape sequences, alt-`[`, and the end of the input, where `cin.get()`
  returns at once forever.
- **Widgets.** Characters and their attributes; the callback of a `Button`, which `main` leaves
  empty but for a print (it adds neither `Button` nor `Text` to its window). A click on the popup
  also clicks the camera beneath it; the two are in different modules.
- **Css.** Characters below words; negative lengths; `position` and `aspect-ratio`, which are parsed and never read. The rules
  of the checkboxes' states and the geometry of the cameras are fixed in `CheckboxGroup` and
  `Renderer`: those modules take what `Widgets` shows for granted.
- **The light's menu.** `UpdateInformation`, asked over the serial port before a light connects,
  only decides which name and address it starts with.
- **BitMask, BufferedSocket.** Nothing of the program depends on them: `Pixel::attr`, the only
  `BitMask`, is neither set nor read, and no file uses the sockets.
- **End of the process.** Where the io thread is when the process is aborted; it has no state
  outside the process but its sockets, and `Reset` covers what a light sees of that.
- **Web server, files, log** have no state of their own (that `readFile` throws is
  `LoadSheet`); `WindowManager.hpp`, `random.cpp`,
  `tcp_client.cpp` are included by nothing; the build files and vendored libraries are
  left aside.

## 7. Plan

Done, in this order: `CheckboxStates`, `CheckboxGroup` and their proofs; `TallyServer`, its findings
and its inductive invariant; `Fifo`, `AtomicQueue` and the refinement; `InputManager`
over the queue; `Popup`; `Renderer`; `TallyRegistry`, checked and proved; the start and the end of
the process; `Css` and `Widgets`; the proofs about `InputManager`, those about the quiet tally
server and the remaining ones of `CheckboxGroup`, `Popup` and `Renderer`; the proofs of
`KeysInOrder`, `TextAsTyped` and the properties of `Widgets`.

Next, the most important first:

1. A composition of `CheckboxGroup` and `Popup` under one mouse: clicks that reach both.
2. The end of the input, with a bound on the bytes the input thread queues.

Every property has its own question; where a new one is stronger than an old one (a refinement
than an invariant it implies), the old one's place in the runs is given up.
