----------------------------- MODULE TallyServer -----------------------------
(***************************************************************************)
(* The tally server: the lights (arduino_code), their TCP connections, the *)
(* io thread that runs io_service::run (tcp/tcp.hpp and the callbacks of   *)
(* main.cpp), the watchdog thread of each heartbeat, and the UI thread     *)
(* (main loop) that clicks checkboxes and fills the popup.                 *)
(*                                                                         *)
(* Every read of the server is synchronous and goes through one            *)
(* streambuf, readBuffer_, shared by the two threads: read_until returns   *)
(* a line already in the buffer, whoever sent it, and blocks in recv on    *)
(* the socket only when there is none.  Each recv, and everything between  *)
(* two blocking calls that another thread cannot see, is one step.         *)
(***************************************************************************)
EXTENDS CheckboxStates, Sequences

CONSTANTS
  Devices,       \* the lights
  Names,         \* client names
  NoName, Junk,  \* "", and whatever a line that holds no name is parsed into
  EepromName,    \* the name each light starts with
  InitLabel,     \* the text main() gives each checkbox
  InitBoxName,   \* its clientName attribute; NoName if it has none
  TypedPlaces,   \* what the user may type as the place of a new light
  TypedNames,    \* and as its name
  AcceptErrors,  \* async_accept may fail
  MaxConn, MaxFaults,             \* bounds: connections, faults of the lights,
  MaxClicks, MaxEntries, MaxActs, \* clicks, names typed, the two together;
  Mixed                           \* whether faults and clicks come together

ASSUME DevicesAssumption == Devices # {}
ASSUME NamesAssumption ==
  /\ {NoName, Junk} \subseteq Names
  /\ EepromName \in [Devices -> Names]
  /\ InitBoxName \in [Boxes -> Names]
  /\ TypedNames \subseteq Names
ASSUME LabelsAssumption == InitLabel = [b \in Boxes |-> InitLabel[b]]
ASSUME BoundsAssumption ==
  /\ MaxConn \in Nat \ {0} /\ MaxFaults \in Nat
  /\ MaxClicks \in Nat /\ MaxEntries \in Nat /\ MaxActs \in Nat /\ Mixed \in BOOLEAN
ASSUME SwitchesAssumption == AcceptErrors \in BOOLEAN

Conns  == 1 .. MaxConn
Ids    == 1 .. MaxConn
NoConn == 0
NoId   == 0
NoBox  == 0
Dark   == -1   \* a light no state was sent to

Labels  == Names \cup {InitLabel[b] : b \in Boxes} \cup TypedPlaces
Request == [kind : {"2", "3", "4", "5", "h"}, name : Names]
Kinds   == {"id", "ok", "name", "beat"}
Line    == [from : Conns, kind : Kinds, name : Names]
NoLine  == [from |-> NoConn, kind |-> "none", name |-> NoName]

VARIABLES
  \* the network, by connection in the order of their connect()
  nConn, owner,  \* connections made so far; the light that made each
  link,          \* "up"; "fin": closed or reset by the light; "lost": its
                 \* light is gone without a word
  shut,          \* shutdown(shutdown_both) was called by the server
  inbox, outbox, \* requests to the light, lines of the light, in transit
  shown,         \* the state the last "6" sent on it carried
  \* the lights
  power, sock, ramName,
  \* TCPServer
  accepting,     \* an async_accept is pending
  nAcc,          \* clients.size()
  currentId, guyName, guyConn,  \* TallyGuys
  armed,         \* the ids whose heartbeat timer has a pending async_wait
  readBuffer,    \* readBuffer_
  \* the io thread, and the locals of the handler it is in
  ioPc, ioRead, ioConn, ioId, ioName, ioBox, ioState, died,
  \* the checkboxes and the popup, shared by the two threads
  state, lastState, label, marked, boxId, boxName, popup,
  \* the UI thread: AddClientStage, Newplace and the locals of AddNewClient
  stage, place, uiPc, uiRead, uiBox, uiId, uiName,
  \* bounds
  faults, clicks, entries

netVars    == <<nConn, owner, link, shut, inbox, outbox, shown>>
lightVars  == <<power, sock, ramName>>
serverVars == <<accepting, nAcc, currentId, guyName, guyConn, armed, readBuffer>>
ioVars     == <<ioPc, ioRead, ioConn, ioId, ioName, ioBox, ioState, died>>
guiVars    == <<state, lastState, label, marked, boxId, boxName, popup>>
uiVars     == <<stage, place, uiPc, uiRead, uiBox, uiId, uiName>>
counters   == <<faults, clicks, entries>>
vars == <<netVars, lightVars, serverVars, ioVars, guiVars, uiVars, counters>>

Handshake == {"askId", "askAck", "askName"}
Beating   == {"firstBeat", "beat"}
IoPcs     == {"poll", "match", "placeBox", "sendState", "popupId"}
               \cup Handshake \cup Beating
Reads     == {"buffer", "recv"}

NetTypeOK ==
  /\ nConn  \in 0 .. MaxConn
  /\ owner  \in [Conns -> Devices]
  /\ link   \in [Conns -> {"up", "fin", "lost"}]
  /\ shut   \in [Conns -> BOOLEAN]
  /\ inbox  \in [Conns -> Seq(Request)]
  /\ outbox \in [Conns -> Seq(Line)]
  /\ shown  \in [Conns -> States \cup {Dark}]
LightTypeOK ==
  /\ power   \in [Devices -> BOOLEAN]
  /\ sock    \in [Devices -> Conns \cup {NoConn}]
  /\ ramName \in [Devices -> Names]
ServerTypeOK ==
  /\ accepting  \in BOOLEAN
  /\ nAcc       \in 0 .. MaxConn
  /\ currentId  \in 0 .. MaxConn
  /\ guyName    \in [Ids -> Names]
  /\ guyConn    \in [Ids -> Conns \cup {NoConn}]
  /\ armed      \in SUBSET Ids
  /\ readBuffer \in Seq(Line)
IoTypeOK ==
  /\ ioPc    \in IoPcs
  /\ ioRead  \in Reads
  /\ ioConn  \in Conns \cup {NoConn}
  /\ ioId    \in Ids \cup {NoId}
  /\ ioName  \in Names
  /\ ioBox   \in Boxes \cup {NoBox}
  /\ ioState \in States
  /\ died    \in BOOLEAN
GuiTypeOK ==
  /\ state     \in [Boxes -> States]
  /\ lastState \in [Boxes -> States]
  /\ label     \in [Boxes -> Labels]
  /\ marked    \in [Boxes -> BOOLEAN]
  /\ boxId     \in [Boxes -> Ids \cup {NoId}]
  /\ boxName   \in [Boxes -> Names]
  /\ popup     \in [enabled : BOOLEAN, id : Ids \cup {NoId}]
UiTypeOK ==
  /\ stage  \in BOOLEAN
  /\ place  \in TypedPlaces \cup {NoName}
  /\ uiPc   \in {"idle", "rename", "setText", "setIds"}
  /\ uiRead \in Reads
  /\ uiBox  \in Boxes \cup {NoBox}
  /\ uiId   \in Ids \cup {NoId}
  /\ uiName \in Names
CountersOK ==
  /\ faults  \in 0 .. MaxFaults
  /\ clicks  \in 0 .. MaxClicks
  /\ entries \in 0 .. MaxEntries
TypeOK ==
  /\ NetTypeOK /\ LightTypeOK /\ ServerTypeOK /\ IoTypeOK
  /\ GuiTypeOK /\ UiTypeOK /\ CountersOK

Init ==
  /\ nConn = 0 /\ owner = [c \in Conns |-> CHOOSE d \in Devices : TRUE]
  /\ link   = [c \in Conns |-> "up"]
  /\ shut   = [c \in Conns |-> FALSE]
  /\ inbox  = [c \in Conns |-> <<>>]
  /\ outbox = [c \in Conns |-> <<>>]
  /\ shown  = [c \in Conns |-> Dark]
  /\ power = [d \in Devices |-> TRUE] /\ sock = [d \in Devices |-> NoConn]
  /\ ramName = EepromName
  /\ accepting = TRUE /\ nAcc = 0 /\ currentId = 0
  /\ guyName = [i \in Ids |-> NoName] /\ guyConn = [i \in Ids |-> NoConn]
  /\ armed = {} /\ readBuffer = <<>>
  /\ ioPc = "poll" /\ ioRead = "recv" /\ ioConn = NoConn /\ ioId = NoId
  /\ ioName = NoName /\ ioBox = NoBox /\ ioState = 0 /\ died = FALSE
  /\ state = [b \in Boxes |-> 0] /\ lastState = [b \in Boxes |-> 0]
  /\ label = InitLabel /\ marked = [b \in Boxes |-> FALSE]
  /\ boxId = [b \in Boxes |-> NoId] /\ boxName = InitBoxName
  /\ popup = [enabled |-> FALSE, id |-> NoId]
  /\ stage = FALSE /\ place = NoName
  /\ uiPc = "idle" /\ uiRead = "recv" /\ uiBox = NoBox
  /\ uiId = NoId /\ uiName = NoName
  /\ faults = 0 /\ clicks = 0 /\ entries = 0

-----------------------------------------------------------------------------
(* The lights.                                                              *)

\* loop(): a light that is not connected connects.  The acceptor's backlog
\* takes the connection whether or not the server is accepting.
Connect(d) ==
  /\ power[d] /\ nConn < MaxConn
  /\ sock[d] # NoConn => shut[sock[d]] /\ inbox[sock[d]] = <<>>
  /\ nConn' = nConn + 1
  /\ owner' = [owner EXCEPT ![nConn + 1] = d]
  /\ sock'  = [sock EXCEPT ![d] = nConn + 1]
  /\ link'  = [c \in Conns |-> IF c = sock[d] THEN "fin" ELSE link[c]]
  /\ UNCHANGED <<shut, inbox, outbox, shown, power, ramName,
                 serverVars, ioVars, guiVars, uiVars, counters>>

\* The line loop() prints for a request.  A new name is kept in RAM only.
Reply(d, r, c) ==
  CASE r.kind = "2" -> [from |-> c, kind |-> "id",   name |-> NoName]
    [] r.kind = "4" -> [from |-> c, kind |-> "name", name |-> ramName[d]]
    [] OTHER        -> [from |-> c, kind |-> "ok",   name |-> NoName]

\* loop() has no branch for "h".  CheckForEvents(), which reads the event for
\* it, is not in the repository: it may have answered by itself, or not.
CheckForEvents(c) == {<<>>, <<[from |-> c, kind |-> "beat", name |-> NoName]>>}

\* The lines d may send for a request.
Replies(d, r, c) == IF r.kind = "h" THEN CheckForEvents(c) ELSE {<<Reply(d, r, c)>>}

\* loop(): one event handled.
Answer(d) ==
  LET c == sock[d]
      r == Head(inbox[c])
  IN  /\ power[d] /\ c # NoConn
      /\ inbox[c] # <<>>
      /\ inbox'   = [inbox EXCEPT ![c] = Tail(@)]
      /\ \E s \in Replies(d, r, c) :
           outbox' = IF shut[c] THEN outbox ELSE [outbox EXCEPT ![c] = @ \o s]
      /\ ramName' = IF r.kind = "5" THEN [ramName EXCEPT ![d] = r.name] ELSE ramName
      /\ UNCHANGED <<nConn, owner, link, shut, shown, power, sock,
                     serverVars, ioVars, guiVars, uiVars, counters>>

\* The light, or the access point, closes or resets the connection.
Close(d) ==
  /\ sock[d] # NoConn /\ faults < MaxFaults /\ (Mixed \/ clicks = 0)
  /\ link'   = [link EXCEPT ![sock[d]] = "fin"]
  /\ sock'   = [sock EXCEPT ![d] = NoConn]
  /\ faults' = faults + 1
  /\ UNCHANGED <<nConn, owner, shut, inbox, outbox, shown, power, ramName,
                 serverVars, ioVars, guiVars, uiVars, clicks, entries>>

\* Power loss: nothing more is heard of the connection.
PowerOff(d) ==
  /\ power[d] /\ faults < MaxFaults /\ (Mixed \/ clicks = 0)
  /\ power'  = [power EXCEPT ![d] = FALSE]
  /\ link'   = [c \in Conns |-> IF c = sock[d] /\ link[c] = "up" THEN "lost" ELSE link[c]]
  /\ sock'   = [sock EXCEPT ![d] = NoConn]
  /\ faults' = faults + 1
  /\ UNCHANGED <<nConn, owner, shut, inbox, outbox, shown, ramName,
                 serverVars, ioVars, guiVars, uiVars, clicks, entries>>

\* Power is back.  setup() is empty and nobody calls loadFromEEPROM(); that the
\* light has the name of its EEPROM again is README.md's word.
PowerOn(d) ==
  /\ ~power[d]
  /\ power'   = [power EXCEPT ![d] = TRUE]
  /\ ramName' = [ramName EXCEPT ![d] = EepromName[d]]
  /\ UNCHANGED <<netVars, sock, serverVars, ioVars, guiVars, uiVars, counters>>

\* A restarted light resets a connection it does not know.
Reset(c) ==
  /\ c <= nConn /\ link[c] = "lost" /\ power[owner[c]]
  /\ link' = [link EXCEPT ![c] = "fin"]
  /\ UNCHANGED <<nConn, owner, shut, inbox, outbox, shown, lightVars,
                 serverVars, ioVars, guiVars, uiVars, counters>>

Lights ==
  \/ \E d \in Devices : Connect(d) \/ Answer(d) \/ Close(d) \/ PowerOff(d) \/ PowerOn(d)
  \/ \E c \in Conns : Reset(c)

-----------------------------------------------------------------------------
(* sendSyncMessage and ReadUntilSync.                                       *)

Ask(kind, name) == [kind |-> kind, name |-> name]

\* A write to a connection that is down fails, and its error is ignored.
Sent(ib, c, r) ==
  IF link[c] = "up" /\ ~shut[c] THEN [ib EXCEPT ![c] = Append(@, r)] ELSE ib

\* read_until looks into the buffer first.
StartRead == IF readBuffer = <<>> THEN "recv" ELSE "buffer"

CanReturn(rd, c) ==
  rd = "buffer" \/ outbox[c] # <<>> \/ link[c] = "fin" \/ shut[c]

Filled(rd, c)   == IF rd = "buffer" THEN readBuffer ELSE readBuffer \o outbox[c]
Returned(rd, c) == IF Filled(rd, c) = <<>> THEN NoLine ELSE Head(Filled(rd, c))
LeftUnread(rd, c) == Filled(rd, c)   \* mutant
Left(rd, c)     == IF Filled(rd, c) = <<>> THEN <<>> ELSE Tail(Filled(rd, c))

Consume(rd, c) ==
  /\ CanReturn(rd, c)
  /\ readBuffer' = Left(rd, c)
  /\ outbox'     = IF rd = "buffer" THEN outbox ELSE [outbox EXCEPT ![c] = <<>>]

\* The text between the first two dashes.
NameIn(line) ==
  IF line.kind = "name" THEN line.name ELSE IF line = NoLine THEN NoName ELSE Junk

\* ChangeState(id, s)
Show(sh, id, s) == [sh EXCEPT ![guyConn[id]] = s]

-----------------------------------------------------------------------------
(* The io thread.                                                           *)

\* HandleAccept ends by accepting again, in whatever way its handshake ended.
StartAcceptForgotten == accepting   \* mutant
StartAccept == accepting \/ ioPc # "beat"

BackToPoll ==
  /\ accepting' = StartAccept
  /\ ioPc' = "poll" /\ ioRead' = "recv" /\ ioConn' = NoConn /\ ioId' = NoId
  /\ ioName' = NoName /\ ioBox' = NoBox /\ ioState' = 0 /\ died' = FALSE

\* clients[clients.size()-1], after the push_back
NewestIsFirst == 1   \* mutant
Newest == nAcc + 1

\* HandleAccept without error, up to the first read of NewClientConnected.
HandleAccept ==
  /\ ioPc = "poll" /\ accepting /\ nAcc < nConn
  /\ accepting' = FALSE
  /\ nAcc'   = nAcc + 1
  /\ ioPc'   = "askId" /\ ioConn' = Newest /\ ioRead' = StartRead
  /\ inbox'  = Sent(inbox, Newest, Ask("2", NoName))
  /\ UNCHANGED <<nConn, owner, link, shut, outbox, shown, lightVars, currentId, guyName, guyConn, armed, readBuffer,
                 ioId, ioName, ioBox, ioState, died, guiVars, uiVars, counters>>

\* HandleAccept with an error does not accept again.
HandleAcceptError ==
  /\ AcceptErrors /\ ioPc = "poll" /\ accepting
  /\ accepting' = FALSE
  /\ UNCHANGED <<netVars, lightVars, nAcc, currentId, guyName, guyConn, armed,
                 readBuffer, ioVars, guiVars, uiVars, counters>>

\* The answer to "2": anything else ends the handshake.
GotId ==
  /\ ioPc = "askId"
  /\ Consume(ioRead, ioConn)
  /\ IF Returned(ioRead, ioConn).kind # "id"
     THEN BackToPoll /\ UNCHANGED <<currentId, inbox>>
     ELSE /\ currentId' = currentId + 1
          /\ inbox' = Sent(inbox, ioConn, Ask("3", NoName))
          /\ ioPc'  = "askAck"
          /\ ioRead' = StartRead'
          /\ UNCHANGED <<accepting, ioConn, ioId, ioName, ioBox, ioState, died>>
  /\ UNCHANGED <<nConn, owner, link, shut, shown, lightVars, nAcc,
                 guyName, guyConn, armed, guiVars, uiVars, counters>>

\* The answer to "3" is not looked at.
GotAck ==
  /\ ioPc = "askAck"
  /\ Consume(ioRead, ioConn)
  /\ inbox'  = Sent(inbox, ioConn, Ask("4", NoName))
  /\ ioPc'   = "askName"
  /\ ioRead' = StartRead'
  /\ UNCHANGED <<nConn, owner, link, shut, shown, lightVars, accepting, nAcc,
                 currentId, guyName, guyConn, armed,
                 ioConn, ioId, ioName, ioBox, ioState, died, guiVars, uiVars, counters>>

\* TallyGuys.insert({id, {name, c}})
InsertForgotten(gc, id, c) == gc   \* mutant
Insert(gc, id, c) == [gc EXCEPT ![id] = c]

\* The first thing HeartbeatForClient does.
Beat(ib, c) == Sent(ib, c, Ask("h", NoName))

\* The answer to "4": the client is registered and beaten for the first time.
GotName ==
  /\ ioPc = "askName"
  /\ Consume(ioRead, ioConn)
  /\ ioName'  = NameIn(Returned(ioRead, ioConn))
  /\ ioId'    = currentId
  /\ guyName' = [guyName EXCEPT ![currentId] = ioName']
  /\ guyConn' = Insert(guyConn, currentId, ioConn)
  /\ inbox'   = Beat(inbox, ioConn)
  /\ ioPc'    = "firstBeat"
  /\ ioRead'  = StartRead'
  /\ UNCHANGED <<nConn, owner, link, shut, shown, lightVars, accepting, nAcc,
                 currentId, armed, ioConn, ioBox, ioState, died,
                 guiVars, uiVars, counters>>

\* A heartbeat timer expires.
HeartbeatForClient(id) ==
  /\ ioPc = "poll" /\ id \in armed
  /\ armed'  = armed \ {id}
  /\ inbox'  = Beat(inbox, guyConn[id])
  /\ ioPc'   = "beat" /\ ioId' = id /\ ioConn' = guyConn[id] /\ ioRead' = StartRead
  /\ UNCHANGED <<nConn, owner, link, shut, outbox, shown, lightVars, accepting,
                 nAcc, currentId, guyName, guyConn, readBuffer,
                 ioName, ioBox, ioState, died, guiVars, uiVars, counters>>

\* The watchdog thread's 2 s are over before terminateThread is set, whether or
\* not an answer is on its way.
Watchdog ==
  /\ ioPc \in Beating /\ ~died
  /\ died' = TRUE
  /\ shut' = [shut EXCEPT ![ioConn] = TRUE]
  /\ UNCHANGED <<nConn, owner, link, inbox, outbox, shown, lightVars, serverVars,
                 ioPc, ioRead, ioConn, ioId, ioName, ioBox, ioState,
                 guiVars, uiVars, counters>>

\* OnClientDisconnected.  (Its cancel() finds no pending wait: the timer has
\* expired, or is new.)
MarkOf(id) == [b \in Boxes |-> marked[b] \/ boxId[b] = id]

\* Only a client whose heartbeat was answered is beaten again.
RearmedAlways(id) == armed \cup {id}   \* mutant
RearmedNever(id)  == armed             \* mutant
Rearmed(id) == IF died THEN armed ELSE armed \cup {id}

\* The read returns, the watchdog is joined.  A dead client is marked
\* (OnClientDisconnected); any other outcome of the read, an error included,
\* starts the timer again.
HeartbeatEnd ==
  /\ ioPc \in Beating
  /\ Consume(ioRead, ioConn)
  /\ marked' = IF died THEN MarkOf(ioId) ELSE marked
  /\ armed'  = Rearmed(ioId)
  /\ IF ioPc = "firstBeat"
     THEN /\ ioPc' = "match" /\ ioRead' = "recv" /\ died' = FALSE
          /\ UNCHANGED <<accepting, ioConn, ioId, ioName, ioBox, ioState>>
     ELSE BackToPoll
  /\ UNCHANGED <<nConn, owner, link, shut, inbox, shown, lightVars, nAcc, currentId, guyName, guyConn, state, lastState, label,
                 boxId, boxName, popup, uiVars, counters>>

\* The first checkbox whose attribute, or text, is the one looked for.
First(S) == CHOOSE b \in S : \A x \in S : b <= x
MatchingFree == {b \in Boxes : boxId[b] = NoId}   \* mutant
Matching == {b \in Boxes : boxName[b] = ioName}

\* The rest of NewClientConnected: a checkbox that has the name takes the new
\* id, and the popup too; otherwise the popup opens.
Match ==
  /\ ioPc = "match"
  /\ IF Matching # {}
     THEN /\ ioBox' = First(Matching) /\ ioPc' = "placeBox"
          /\ popup' = [popup EXCEPT !.id = ioId]
     ELSE /\ ioPc' = "popupId" /\ popup' = [popup EXCEPT !.enabled = TRUE]
          /\ UNCHANGED ioBox
  /\ UNCHANGED <<netVars, lightVars, serverVars, ioRead, ioConn, ioId, ioName,
                 ioState, died, state, lastState, label, marked, boxId, boxName,
                 uiVars, counters>>

\* A new text has no mark.
UnmarkedNever(b) == marked   \* mutant
Unmarked(b) == [marked EXCEPT ![b] = FALSE]

PlaceBox ==
  /\ ioPc = "placeBox"
  /\ label'   = [label   EXCEPT ![ioBox] = ioName]
  /\ marked'  = Unmarked(ioBox)
  /\ boxId'   = [boxId   EXCEPT ![ioBox] = ioId]
  /\ boxName' = [boxName EXCEPT ![ioBox] = ioName]
  /\ popup'   = [popup EXCEPT !.enabled = FALSE]
  /\ ioState' = state[ioBox]
  /\ ioPc'    = "sendState"
  /\ UNCHANGED <<netVars, lightVars, serverVars, ioRead, ioConn, ioId, ioName,
                 ioBox, died, state, lastState, uiVars, counters>>

SendState ==
  /\ ioPc = "sendState"
  /\ shown' = Show(shown, ioId, ioState)
  /\ BackToPoll
  /\ UNCHANGED <<nConn, owner, link, shut, inbox, outbox, lightVars, nAcc, currentId,
                 guyName, guyConn, armed, readBuffer,
                 guiVars, uiVars, counters>>

PopupId ==
  /\ ioPc = "popupId"
  /\ popup' = [popup EXCEPT !.id = ioId]
  /\ BackToPoll
  /\ UNCHANGED <<netVars, lightVars, nAcc, currentId,
                 guyName, guyConn, armed, readBuffer, state, lastState, label, marked,
                 boxId, boxName, uiVars, counters>>

IoHandler == GotId \/ GotAck \/ GotName \/ HeartbeatEnd
             \/ Match \/ PlaceBox \/ SendState \/ PopupId

IoThread == HandleAccept \/ HandleAcceptError \/ IoHandler
            \/ \E id \in Ids : HeartbeatForClient(id)

-----------------------------------------------------------------------------
(* The UI thread.                                                           *)

\* Checkbox::Render, b in state s: StateChanged if that is a change.
ReportedTooLate(b, s) ==   \* mutant
  /\ lastState' = [lastState EXCEPT ![b] = s]
  /\ shown' = IF s = lastState'[b] \/ boxId[b] = NoId THEN shown
              ELSE Show(shown, boxId[b], s)
Reported(b, s) ==
  /\ lastState' = [lastState EXCEPT ![b] = s]
  /\ shown' = IF s = lastState[b] \/ boxId[b] = NoId THEN shown
              ELSE Show(shown, boxId[b], s)

Click(b) ==
  /\ uiPc = "idle" /\ clicks < MaxClicks /\ clicks + entries < MaxActs
  /\ Mixed \/ faults = 0
  /\ clicks' = clicks + 1
  /\ state'  = AddToState(state, b)
  /\ Reported(b, state'[b])
  /\ UNCHANGED <<nConn, owner, link, shut, inbox, outbox, lightVars, serverVars,
                 ioVars, label, marked, boxId, boxName, popup, uiVars, faults, entries>>

\* Rendering a checkbox whose state a click on another one changed.
Report(b) ==
  /\ uiPc = "idle" /\ state[b] # lastState[b]
  /\ Reported(b, state[b])
  /\ UNCHANGED <<nConn, owner, link, shut, inbox, outbox, lightVars, serverVars,
                 ioVars, state, label, marked, boxId, boxName, popup, uiVars, counters>>

\* AddNewClient, first Enter.
EnterPlace(p) ==
  /\ uiPc = "idle" /\ popup.enabled /\ ~stage
  /\ stage' = TRUE /\ place' = p
  /\ UNCHANGED <<netVars, lightVars, serverVars, ioVars, guiVars,
                 uiPc, uiRead, uiBox, uiId, uiName, counters>>

\* The user never types the mark of a disconnected light.
AtPlace == {b \in Boxes : label[b] = place /\ ~marked[b]}

\* AddNewClient, second Enter: the id is read from the popup now.  Before the
\* first light's id is in it std::stoi("") throws and the process ends, which
\* is not a step of this module: the guard leaves it out.
EnterName(n) ==
  /\ uiPc = "idle" /\ popup.enabled /\ stage
  /\ entries < MaxEntries /\ clicks + entries < MaxActs
  /\ entries' = entries + 1
  /\ stage' = FALSE
  /\ IF AtPlace = {}
     THEN UNCHANGED <<inbox, uiPc, uiRead, uiBox, uiId, uiName>>
     ELSE /\ popup.id # NoId
          /\ uiBox' = First(AtPlace) /\ uiId' = popup.id /\ uiName' = n
          /\ IF n # guyName[popup.id]
             THEN /\ inbox' = Sent(inbox, guyConn[popup.id], Ask("5", n))
                  /\ uiPc' = "rename" /\ uiRead' = StartRead
             ELSE uiPc' = "setText" /\ UNCHANGED <<inbox, uiRead>>
  /\ UNCHANGED <<nConn, owner, link, shut, outbox, shown, lightVars, serverVars,
                 ioVars, guiVars, place, faults, clicks>>

\* Whatever comes back is taken for the confirmation.
Renamed ==
  /\ uiPc = "rename"
  /\ Consume(uiRead, guyConn[uiId])
  /\ guyName' = [guyName EXCEPT ![uiId] = uiName]
  /\ uiPc' = "setText" /\ uiRead' = "recv"
  /\ UNCHANGED <<nConn, owner, link, shut, inbox, shown, lightVars, accepting,
                 nAcc, currentId, guyConn, armed, ioVars, guiVars,
                 stage, place, uiBox, uiId, uiName, counters>>

SetText ==
  /\ uiPc = "setText"
  /\ label'  = [label  EXCEPT ![uiBox] = uiName]
  /\ marked' = Unmarked(uiBox)
  /\ uiPc'   = "setIds"
  /\ UNCHANGED <<netVars, lightVars, serverVars, ioVars, state, lastState, boxId,
                 boxName, popup, stage, place, uiRead, uiBox, uiId, uiName, counters>>

SetIds ==
  /\ uiPc = "setIds"
  /\ boxId'   = [boxId   EXCEPT ![uiBox] = uiId]
  /\ boxName' = [boxName EXCEPT ![uiBox] = uiName]
  /\ popup'   = [popup EXCEPT !.enabled = FALSE]
  /\ uiPc' = "idle" /\ uiBox' = NoBox /\ uiId' = NoId /\ uiName' = NoName
  /\ UNCHANGED <<netVars, lightVars, serverVars, ioVars, state, lastState, label,
                 marked, stage, place, uiRead, counters>>

AddNewClient == Renamed \/ SetText \/ SetIds

UiThread ==
  \/ \E b \in Boxes : Click(b) \/ Report(b)
  \/ \E p \in TypedPlaces : EnterPlace(p)
  \/ \E n \in TypedNames : EnterName(n)
  \/ AddNewClient

Next == Lights \/ IoThread \/ Watchdog \/ UiThread

Spec == Init /\ [][Next]_vars

(***************************************************************************)
(* The threads run.  io_service queues the handlers that are ready, so a   *)
(* connection or an expired timer is not passed over forever; of two       *)
(* threads blocked in recv on one socket, none loses every race for a      *)
(* line.  Lights that are on read their events, which promises no answer   *)
(* to a heartbeat; nobody has to click, type or connect.                   *)
(***************************************************************************)
FairSpec ==
  /\ Spec
  /\ WF_vars(IoHandler) /\ WF_vars(Watchdog)
  /\ SF_vars(HandleAccept) /\ \A id \in Ids : SF_vars(HeartbeatForClient(id))
  /\ SF_vars(AddNewClient) /\ WF_vars(\E b \in Boxes : Report(b))
  /\ \A d \in Devices : WF_vars(Answer(d))

-----------------------------------------------------------------------------
(* Safety.                                                                  *)

Registered == {id \in Ids : guyConn[id] # NoConn}

\* The ids some thread is about to look up with TallyGuys.find(id)->second.
InUse == ({ioId, uiId, popup.id} \cup armed \cup {boxId[b] : b \in Boxes}) \ {NoId}

(***************************************************************************)
(* find(id)->second is never taken of an id that is not in TallyGuys:      *)
(* currentId moves on before the handshake is over, but nothing hands the  *)
(* new id out before insert() (ChangeState, AddNewClient,                  *)
(* NewClientConnected).                                                    *)
(***************************************************************************)
LookupsSafe == InUse \subseteq Registered

(***************************************************************************)
(* The heartbeat chain of a client is never dropped and never doubled: a   *)
(* registered client waits for its timer, or is being beaten, or its       *)
(* socket was shut down, and only one of them (StartHeartbeatForClient,    *)
(* HeartbeatForClient).                                                    *)
(***************************************************************************)
BeingBeaten(id) == ioPc \in Beating /\ ioId = id
Watched ==
  \A id \in Registered :
    /\ id \in armed \/ BeingBeaten(id) \/ shut[guyConn[id]]
    /\ id \in armed => ~BeingBeaten(id) /\ ~shut[guyConn[id]]
    /\ BeingBeaten(id) => ioConn = guyConn[id] /\ (shut[ioConn] <=> died)

(***************************************************************************)
(* As long as no light was renamed, sharing readBuffer_ is harmless: it is *)
(* empty between two reads and a client owes one line at most, so every    *)
(* read returns the line of the client it asked (ReadUntilSync).           *)
(***************************************************************************)
OwnLines == entries = 0 =>
  /\ readBuffer = <<>>
  /\ \A c \in Conns : Len(inbox[c]) + Len(outbox[c]) <= 1

(***************************************************************************)
(* A checkbox says disconnected only while the client it is linked to is   *)
(* dead (OnClientDisconnected), as long as nobody uses the popup: a light  *)
(* that came back has had its mark removed by NewClientConnected.          *)
(***************************************************************************)
Dead(id) == id \in Registered /\ shut[guyConn[id]] /\ ~BeingBeaten(id)
MarkTrue == entries = 0 => \A b \in Boxes : marked[b] => Dead(boxId[b])

(***************************************************************************)
(* A checkbox that is set up for a name is linked to no light but one of   *)
(* that name, whatever breaks off and comes back meanwhile, as long as     *)
(* nobody uses the popup (NewClientConnected).                             *)
(***************************************************************************)
LinkedByName ==
  entries = 0 =>
    \A b \in Boxes : boxId[b] # NoId /\ InitBoxName[b] # NoName =>
      InitBoxName[b] = EepromName[owner[guyConn[boxId[b]]]]

-----------------------------------------------------------------------------
(* Why LookupsSafe and Watched hold: with the facts below they are          *)
(* inductive.                                                               *)

\* A connection gives rise to one id at most, after it was accepted.
CountsInv ==
  /\ currentId <= nAcc /\ nAcc <= nConn
  /\ ioPc = "askId" => currentId < nAcc

\* The io thread's locals, handler by handler.
IoInv ==
  /\ ioPc = "poll" => ioId = NoId
  /\ ioPc \in Handshake =>
       /\ ioConn \in Conns /\ ioConn = nAcc /\ ioId = NoId
       /\ \A id \in Registered : guyConn[id] # ioConn
  /\ ioPc \in {"askAck", "askName"} => currentId \in Ids \ Registered
  /\ ioPc \notin Handshake \cup {"poll"} =>
       ioId \in Registered /\ guyConn[ioId] = ioConn
  /\ ioPc = "placeBox" => ioBox \in Boxes
  /\ died => ioPc \in Beating

\* The UI thread's locals while it is in AddNewClient.
UiInv == uiPc # "idle" => uiId \in Registered /\ uiBox \in Boxes

\* Two ids never share a connection, and none has one that was not accepted.
OneIdPerConnection ==
  \A i, j \in Registered :
    /\ guyConn[i] \in 1 .. nAcc
    /\ guyConn[i] = guyConn[j] => i = j

\* Ids are given out in order; only registered clients are shut down.
RegistryInv ==
  /\ \A id \in Registered : id <= currentId
  /\ \A c \in Conns : shut[c] => \E id \in Registered : guyConn[id] = c

(***************************************************************************)
(* The inductive invariant: every lookup of the three threads finds its    *)
(* client, and every client is watched (TCPServer and its callbacks).      *)
(***************************************************************************)
TallyInv ==
  /\ TypeOK /\ CountsInv /\ IoInv /\ UiInv /\ RegistryInv
  /\ LookupsSafe /\ OneIdPerConnection /\ Watched

-----------------------------------------------------------------------------
(* The server implements TallyRegistry.                                     *)

InHeartbeat == {id \in Ids : BeingBeaten(id) /\ ~died}
ShutDown    == {id \in Registered : shut[guyConn[id]]}
Registry == INSTANCE TallyRegistry WITH
              Clients <- Ids, Cameras <- Boxes, Nobody <- NoId,
              waiting <- armed, beaten <- InHeartbeat, dead <- ShutDown, client <- boxId

(***************************************************************************)
(* Whatever the lights, the threads and the user do, each client is in one *)
(* of the registry's three conditions, and changes it as the registry      *)
(* allows: three threads, timers and sockets amount to one heartbeat at a  *)
(* time, a watchdog that is final, and links to known clients (TCPServer,  *)
(* HeartbeatForClient, NewClientConnected, AddNewClient).                  *)
(***************************************************************************)
ImplementsRegistry == Registry!Spec

-----------------------------------------------------------------------------
(* Liveness.                                                                *)

\* The io thread waits in a handshake for a line that nobody will send.
Stalled ==
  /\ ioPc \in Handshake /\ ~CanReturn(ioRead, ioConn)
  /\ link[ioConn] = "lost" \/ inbox[ioConn] = <<>>

(***************************************************************************)
(* A power loss is noticed: a registered client that is lost is shut down, *)
(* unless its light resets the connection first or a handshake holds the   *)
(* io thread forever (HeartbeatForClient).                                 *)
(***************************************************************************)
Lost(id) == id \in Registered /\ link[guyConn[id]] = "lost"
LossNoticed ==
  \/ \A id \in Ids : Lost(id) ~> (Dead(id) \/ ~Lost(id))
  \/ <>[]Stalled

(***************************************************************************)
(* Every connection is greeted, unless async_accept fails or a handshake   *)
(* holds the io thread forever (HandleAccept, StartAccept).                *)
(***************************************************************************)
Greeted ==
  ~AcceptErrors =>
    \/ \A c \in Conns : (nConn >= c) ~> (nAcc >= c)
    \/ <>[]Stalled

(***************************************************************************)
(* The UI thread does not hang in the read of a rename: if its answer goes *)
(* to the heartbeat, the answer to a later heartbeat wakes it, or the      *)
(* watchdog's shutdown does (AddNewClient, ReadUntilSync), unless a        *)
(* handshake holds the io thread forever.                                  *)
(***************************************************************************)
RenameReturns == (uiPc = "rename" ~> uiPc # "rename") \/ <>[]Stalled

(***************************************************************************)
(* When a click on another camera displaced one, the light it has by then  *)
(* is told the camera's state, whether another light takes it over, or a   *)
(* rename keeps the UI thread waiting meanwhile, unless a handshake that   *)
(* waits forever keeps the rename waiting too (StateChanged, ChangeState,  *)
(* called for the friends by their own Render).                            *)
(***************************************************************************)
Told(id, s) == id \in Registered /\ shown[guyConn[id]] = s
DisplacedTold ==
  \/ \A b \in Boxes :
       state[b] # lastState[b] /\ boxId[b] # NoId ~> Told(boxId[b], state[b])
  \/ <>[]Stalled

-----------------------------------------------------------------------------
(* What README.md and the comments say, and the code does not do.           *)

\* README.md: if a tally light disconnects it will say disconnected.  Here:
\* a closed connection is noticed.
CloseNoticed ==
  \/ \A id \in Ids : id \in Registered /\ link[guyConn[id]] = "fin" ~> Dead(id)
  \/ <>[]Stalled

\* README.md: if a light disconnects for a reason like power loss, "it will say
\* -disconnected-".  Here: once the handlers are through, a checkbox linked to a
\* client that was declared dead after its light lost power has the mark.
DeadIsMarked ==
  ioPc = "poll" /\ uiPc = "idle" =>
    \A b \in Boxes : Dead(boxId[b]) /\ link[guyConn[boxId[b]]] = "lost" => marked[b]

\* README.md: "it will send current state to the tally light".  Here: once
\* the handlers are through, a light that was linked by its name, and is still
\* connected at both ends, shows the state of its checkbox.
ShowsCurrent ==
  ioPc = "poll" /\ uiPc = "idle" /\ entries = 0 =>
    \A b \in Boxes :
      LET c == guyConn[boxId[b]]
      IN  boxId[b] # NoId /\ link[c] = "up" /\ ~shut[c] /\ lastState[b] = state[b]
            => shown[c] = state[b]
=============================================================================
