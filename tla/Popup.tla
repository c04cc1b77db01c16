-------------------------------- MODULE Popup --------------------------------
(***************************************************************************)
(* The popup for a new light: an InputField (libs/WindowMangerV2.hpp), its *)
(* onDone handler AddNewClient and its openers in NewClientConnected       *)
(* (main.cpp).  The main loop renders it once per frame with the key and   *)
(* the button that tick took; the io thread opens and closes it without a  *)
(* lock, at any point of a frame.  What the two threads say to the lights  *)
(* in between is the subject of TallyServer.                               *)
(***************************************************************************)
EXTENDS Naturals, Sequences, SequencesExt

CONSTANTS NBoxes,      \* the checkboxes, in the order of toggless
          Chars,       \* the bytes of plain keys, but not 'q'
          InitLabel,   \* the checkboxes' initial texts ...
          InitName,    \* ... and their clientName attributes
          LightNames,  \* the names new lights report
          MaxKeys,     \* bound: keys typed
          MaxWaiting,  \* bound: keys typed ahead of the frames
          MaxLights    \* bound: lights that connect

Backspace == 127
Enter     == 10
Q         == 113
NoKey     == 0

Boxes == 1 .. NBoxes
NoBox == 0
NoId  == 0
Texts == Seq(Chars)

ASSUME NBoxesAssumption == NBoxes \in Nat \ {0}
ASSUME BoundsAssumption == MaxKeys \in Nat /\ MaxWaiting \in Nat /\ MaxLights \in Nat
ASSUME CharsAssumption  == Chars \cap {Backspace, Enter, Q, NoKey} = {}
ASSUME NamesAssumption  == /\ InitLabel \in [Boxes -> Texts]
                           /\ InitName \in [Boxes -> Texts]
                           /\ LightNames \subseteq Texts \ {<<>>}

VARIABLES
  enabled, text, state, lastEvent,  \* the InputField's members
  red,        \* was its css rule :active applied last?
  clientId,   \* its attribute clientId
  inside,     \* is the cursor inside the field?
  mouseBtn, mouseKey,  \* is the button 32, now and in the frame's snapshot?
  keyPressed, \* the keys typed that no frame has taken yet
  key,        \* the frame's key
  pc,         \* where the main loop is
  stage, place,        \* AddClientStage, Newplace
  uiBox, uiId, uiName, \* locals of AddNewClient: toggless[i], clientId, Newname
  label, boxName,      \* the checkboxes' text and clientName
  currentId, guyName,  \* TallyGuys
  ioPc, ioBox,         \* where the io thread is in NewClientConnected
  fresh,      \* history: is state still what the constructor left there?
  base, since,  \* history: the text last assigned, the keys for it since then
  dropped,    \* history: did the field ignore one of them?
  placeFor,   \* history: whose popup the place was entered into
  disturbed,  \* history: did another light, or a hasty Enter, get in between?
  nKeys       \* bound

fieldVars == <<enabled, text, state, lastEvent, red, clientId>>
mouseVars == <<inside, mouseBtn>>
keyVars   == <<keyPressed, nKeys>>
frameVars == <<mouseKey, key>>
uiVars    == <<stage, place, uiBox, uiId, uiName>>
boxVars   == <<label, boxName>>
guyVars   == <<currentId, guyName>>
ioVars    == <<ioPc, ioBox>>
history   == <<fresh, base, since, dropped, placeFor, disturbed>>
vars == <<fieldVars, mouseVars, keyVars, frameVars, pc, uiVars, boxVars, guyVars,
          ioVars, history>>

Ids    == 1 .. MaxLights
Keys   == Chars \cup {Backspace, Enter, Q}
Events == {"beginning", "none", "hover", "active"}

FieldTypeOK ==
  /\ enabled \in BOOLEAN /\ text \in Texts /\ state \in BOOLEAN
  /\ lastEvent \in Events /\ red \in BOOLEAN /\ clientId \in Ids \cup {NoId}
InputTypeOK ==
  /\ inside \in BOOLEAN /\ mouseBtn \in BOOLEAN /\ mouseKey \in BOOLEAN
  /\ keyPressed \in Seq(Keys) /\ nKeys \in 0 .. MaxKeys /\ key \in Keys \cup {NoKey}
DialogTypeOK ==
  /\ pc \in {"render", "tick", "rename", "place", "exited"}
  /\ stage \in BOOLEAN /\ place \in Texts
  /\ uiBox \in Boxes \cup {NoBox} /\ uiId \in Ids \cup {NoId} /\ uiName \in Texts
LightsTypeOK ==
  /\ label \in [Boxes -> Texts] /\ boxName \in [Boxes -> Texts]
  /\ currentId \in 0 .. MaxLights /\ guyName \in [Ids -> Texts]
  /\ ioPc \in {"poll", "close", "id", "text"} /\ ioBox \in Boxes \cup {NoBox}
HistoryTypeOK ==
  /\ fresh \in BOOLEAN /\ base \in Texts /\ since \in Seq(Keys)
  /\ dropped \in BOOLEAN /\ placeFor \in Ids \cup {NoId} /\ disturbed \in BOOLEAN
TypeOK == FieldTypeOK /\ InputTypeOK /\ DialogTypeOK /\ LightsTypeOK /\ HistoryTypeOK

\* The constructor assigns neither state nor lastEvent.  A lastEvent that is
\* no event Render computes differs from all of them, as "beginning" does.
Init ==
  /\ enabled = FALSE /\ text = <<>> /\ red = FALSE /\ clientId = NoId
  /\ state \in BOOLEAN /\ lastEvent \in Events
  /\ inside = FALSE /\ mouseBtn = FALSE /\ mouseKey = FALSE
  /\ keyPressed = <<>> /\ nKeys = 0 /\ key = NoKey /\ pc = "render"
  /\ stage = FALSE /\ place = <<>>
  /\ uiBox = NoBox /\ uiId = NoId /\ uiName = <<>>
  /\ label = InitLabel /\ boxName = InitName
  /\ currentId = 0 /\ guyName = [i \in Ids |-> <<>>]
  /\ ioPc = "poll" /\ ioBox = NoBox
  /\ fresh = TRUE /\ base = <<>> /\ since = <<>> /\ dropped = FALSE
  /\ placeFor = NoId /\ disturbed = FALSE

Running == pc # "exited"

-----------------------------------------------------------------------------
(* The user, by way of the input thread.                                    *)

MoveMouse ==
  /\ Running
  /\ inside' = ~inside
  /\ UNCHANGED <<fieldVars, mouseBtn, keyVars, frameVars, pc, uiVars, boxVars,
                 guyVars, ioVars, history>>

PressOrRelease ==
  /\ Running
  /\ mouseBtn' = ~mouseBtn
  /\ UNCHANGED <<fieldVars, inside, keyVars, frameVars, pc, uiVars, boxVars,
                 guyVars, ioVars, history>>

TypeKey(k) ==
  /\ Running /\ nKeys < MaxKeys /\ Len(keyPressed) < MaxWaiting
  /\ keyPressed' = Append(keyPressed, k)
  /\ nKeys' = nKeys + 1
  /\ UNCHANGED <<fieldVars, mouseVars, frameVars, pc, uiVars, boxVars, guyVars,
                 ioVars, history>>

User == MoveMouse \/ PressOrRelease \/ \E k \in Keys : TypeKey(k)

-----------------------------------------------------------------------------
(* InputField::Render.                                                      *)

Event == IF ~inside THEN "none" ELSE IF mouseKey THEN "active" ELSE "hover"

\* Is the field selected after an event e?  It is toggled by a click and
\* loses the selection to a cursor that is elsewhere.
SelectedForGood(e) == IF e = "active" THEN ~state ELSE state   \* mutant
Selected(e) == IF e = "active" THEN ~state ELSE IF e = "none" THEN FALSE ELSE state

\* The stylesheet gives the field a default rule and an :active rule, and no
\* :hover rule: ParseCss returns early on that.
Restyled(e) == IF e = "hover" THEN red ELSE e = "active"

\* What key k makes of text t.
EditedAlways(t, k) == Append(t, k)   \* mutant
Edited(t, k) ==
  CASE k \in {NoKey, Enter} -> t
    [] k = Backspace /\ t = <<>> -> t
    [] k = Backspace /\ t # <<>> -> Front(t)
    [] OTHER -> Append(t, k)

SameEvent ==
  /\ lastEvent = Event
  /\ UNCHANGED <<state, lastEvent, red, fresh>>
NewEvent ==
  /\ lastEvent # Event
  /\ state'     = Selected(Event)
  /\ red'       = Restyled(Event)
  /\ lastEvent' = Event
  /\ fresh'     = (fresh /\ Event = "hover")

RenderDisabled ==
  /\ pc = "render" /\ ~enabled
  /\ pc' = "tick"
  /\ dropped' = (dropped \/ key # NoKey)
  /\ UNCHANGED <<fieldVars, mouseVars, keyVars, frameVars, uiVars, boxVars, guyVars,
                 ioVars, fresh, base, since, placeFor, disturbed>>

\* A key, or none, that is not Enter in a selected field.
RenderKey ==
  /\ pc = "render" /\ enabled
  /\ SameEvent \/ NewEvent
  /\ ~(state' /\ key = Enter)
  /\ text'    = IF state' THEN Edited(text, key) ELSE text
  /\ dropped' = (dropped \/ (key # NoKey /\ ~state'))
  /\ pc' = "tick"
  /\ UNCHANGED <<enabled, clientId, mouseVars, keyVars, frameVars, uiVars, boxVars,
                 guyVars, ioVars, base, since, placeFor, disturbed>>

\* onDone, that is AddNewClient, for the place: the text is emptied.
EnterPlace ==
  /\ pc = "render" /\ enabled /\ key = Enter /\ ~stage
  /\ (SameEvent \/ NewEvent) /\ state'
  /\ place' = text /\ stage' = TRUE /\ text' = <<>>
  /\ base' = <<>> /\ since' = <<>> /\ dropped' = FALSE
  /\ placeFor' = clientId
  /\ disturbed' = (disturbed \/ ioPc # "poll")
  /\ pc' = "tick"
  /\ UNCHANGED <<enabled, clientId, mouseVars, keyVars, frameVars, uiBox, uiId, uiName,
                 boxVars, guyVars, ioVars>>

StageKept  == stage   \* mutant
StageAfter == FALSE
AtPlace == {b \in Boxes : label[b] = place}
First(S) == CHOOSE b \in S : \A x \in S : b <= x

\* ... and for the name: the first checkbox at the place is given to the light
\* whose id the popup has now, after the light was told its new name.  Without
\* an id std::stoi throws, which nobody catches.
EnterName ==
  /\ pc = "render" /\ enabled /\ key = Enter /\ stage
  /\ (SameEvent \/ NewEvent) /\ state'
  /\ uiName' = text /\ stage' = StageAfter
  /\ \/ /\ AtPlace = {}
        /\ pc' = "tick" /\ UNCHANGED <<uiBox, uiId>>
     \/ /\ AtPlace # {} /\ clientId = NoId
        /\ pc' = "exited" /\ UNCHANGED <<uiBox, uiId>>
     \/ /\ AtPlace # {} /\ clientId # NoId
        /\ uiBox' = First(AtPlace) /\ uiId' = clientId
        /\ pc'    = IF text # guyName[clientId] THEN "rename" ELSE "place"
  /\ disturbed' = (disturbed \/ ioPc # "poll")
  /\ UNCHANGED <<enabled, text, clientId, mouseVars, keyVars, frameVars, place,
                 boxVars, guyVars, ioVars, base, since, dropped, placeFor>>

\* The light's confirmation ends the wait in ReadUntilSync.
Renamed ==
  /\ pc = "rename"
  /\ guyName' = [guyName EXCEPT ![uiId] = uiName]
  /\ pc' = "place"
  /\ UNCHANGED <<fieldVars, mouseVars, keyVars, frameVars, uiVars, boxVars, currentId,
                 ioVars, history>>

Place ==
  /\ pc = "place"
  /\ label'   = [label   EXCEPT ![uiBox] = uiName]
  /\ boxName' = [boxName EXCEPT ![uiBox] = uiName]
  /\ enabled' = FALSE
  /\ pc' = "tick"
  /\ uiBox' = NoBox /\ uiId' = NoId /\ uiName' = <<>>
  /\ UNCHANGED <<text, state, lastEvent, red, clientId, mouseVars, keyVars, frameVars,
                 stage, place, guyVars, ioVars, history>>

-----------------------------------------------------------------------------
(* InputManager::tick, and the test for 'q'.                                *)

KeyLeft   == key     \* mutant
KeyIfNone == NoKey

Tick ==
  /\ pc = "tick"
  /\ IF keyPressed # <<>>
     THEN /\ key' = Head(keyPressed)
          /\ keyPressed' = Tail(keyPressed)
          /\ since' = IF dropped THEN <<>> ELSE Append(since, key')
     ELSE /\ key' = KeyIfNone
          /\ UNCHANGED <<keyPressed, since>>
  /\ mouseKey' = mouseBtn
  /\ pc' = IF key' = Q THEN "exited" ELSE "render"
  /\ UNCHANGED <<fieldVars, mouseVars, nKeys, uiVars, boxVars, guyVars, ioVars, fresh,
                 base, dropped, placeFor, disturbed>>

MainLoop == RenderDisabled \/ RenderKey \/ EnterPlace \/ EnterName
            \/ Renamed \/ Place \/ Tick

-----------------------------------------------------------------------------
(* NewClientConnected, on the io thread.                                    *)

Matching(n) == {b \in Boxes : boxName[b] = n}
DialogOpen == enabled \/ stage \/ pc \in {"rename", "place"}

\* A light named n got an id.  A known one takes its checkbox again.
NewLight(n) ==
  /\ Running /\ ioPc = "poll" /\ currentId < MaxLights
  /\ currentId' = currentId + 1
  /\ guyName'   = [guyName EXCEPT ![currentId'] = n]
  /\ disturbed' = (disturbed \/ DialogOpen)
  /\ IF Matching(n) # {}
     THEN /\ clientId' = currentId'
          /\ ioBox' = First(Matching(n))
          /\ ioPc' = "close" /\ UNCHANGED enabled
     ELSE /\ enabled' = TRUE
          /\ ioPc' = "id" /\ UNCHANGED <<clientId, ioBox>>
  /\ UNCHANGED <<text, state, lastEvent, red, mouseVars, keyVars, frameVars, pc, uiVars,
                 boxVars, fresh, base, since, dropped, placeFor>>

Close ==
  /\ Running /\ ioPc = "close"
  /\ label'   = [label   EXCEPT ![ioBox] = guyName[currentId]]
  /\ boxName' = [boxName EXCEPT ![ioBox] = guyName[currentId]]
  /\ enabled' = FALSE
  /\ ioPc' = "poll" /\ ioBox' = NoBox
  /\ UNCHANGED <<text, state, lastEvent, red, clientId, mouseVars, keyVars, frameVars, pc,
                 uiVars, guyVars, history>>

PopupId ==
  /\ Running /\ ioPc = "id"
  /\ clientId' = currentId
  /\ ioPc' = "text"
  /\ UNCHANGED <<enabled, text, state, lastEvent, red, mouseVars, keyVars, frameVars, pc,
                 uiVars, boxVars, guyVars, ioBox, history>>

\* The key of a frame not yet rendered will edit the new text.
PopupText ==
  /\ Running /\ ioPc = "text"
  /\ text' = guyName[currentId]
  /\ base' = text' /\ dropped' = FALSE
  /\ since' = IF pc = "render" /\ key # NoKey THEN <<key>> ELSE <<>>
  /\ ioPc' = "poll"
  /\ UNCHANGED <<enabled, state, lastEvent, red, clientId, mouseVars, keyVars, frameVars,
                 pc, uiVars, boxVars, guyVars, ioBox, fresh, placeFor, disturbed>>

IoThread == (\E n \in LightNames : NewLight(n)) \/ Close \/ PopupId \/ PopupText

Next == User \/ MainLoop \/ IoThread

Spec == Init /\ [][Next]_vars

-----------------------------------------------------------------------------
(***************************************************************************)
(* A field that takes keys is red, as the user is told to expect, once an  *)
(* event has assigned its state (InputField::Render).  (A red field need   *)
(* not take keys: a second click gives up the selection and keeps the      *)
(* colour.)                                                                *)
(***************************************************************************)
SelectedIsRed == state /\ ~fresh => red

(***************************************************************************)
(* While the field ignores none, every key edits the text exactly once and *)
(* in order: the popup shows what was typed, also when it is opened for    *)
(* another light in the middle of a frame (tick, InputField::Render,       *)
(* AddNewClient, NewClientConnected).                                      *)
(***************************************************************************)
TextAsTyped ==
  pc = "tick" /\ ~dropped =>
    text = FoldLeft(Edited, base, since)

(***************************************************************************)
(* As long as no other light connects while the dialog is open, and no     *)
(* Enter gets in while it is being opened, place and name are entered for  *)
(* the same light, the newest, and the checkbox it takes is at that place  *)
(* (AddNewClient, whose stage, place and id survive from one dialog to the *)
(* next).                                                                  *)
(***************************************************************************)
DialogForOneLight ==
  ~disturbed =>
    /\ stage => enabled /\ placeFor = clientId
    /\ pc \in {"rename", "place"} =>
         uiId = placeFor /\ uiId = currentId /\ label[uiBox] = place

(***************************************************************************)
(* Why: the popup has the newest id except while it is being opened, and   *)
(* the two threads' parts of the dialog do not overlap unless it is        *)
(* disturbed (NewClientConnected, AddNewClient).  Inductive.               *)
(***************************************************************************)
DialogInv ==
  /\ ioPc # "id" => clientId = currentId
  /\ ~disturbed =>
       /\ ioPc # "poll" => ~stage /\ pc \notin {"rename", "place"}
       /\ ioPc = "close" => ~enabled
       /\ stage => enabled
       /\ stage \/ pc \in {"rename", "place"} => placeFor = clientId
       /\ pc \in {"rename", "place"} =>
            ~stage /\ uiId = clientId /\ uiBox \in Boxes /\ label[uiBox] = place
=============================================================================
