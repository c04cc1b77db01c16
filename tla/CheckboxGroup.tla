---------------------------- MODULE CheckboxGroup ----------------------------
(***************************************************************************)
(* The tally checkboxes as the main loop renders them: one frame renders   *)
(* boxes 1 .. NBoxes in order, then InputManager::tick takes the snapshot  *)
(* of the mouse button the next frame works with.  The cursor position is  *)
(* not part of the snapshot: every box reads the one the input thread      *)
(* stored last.  Rendering a box is what turns a press into a click and a  *)
(* changed state into the onStateChange callback.                          *)
(***************************************************************************)
EXTENDS CheckboxStates

CONSTANTS Hits,        \* the sets of boxes a cursor position can be inside of:
                       \* neighbours share their border, so more than one
          HoverRules,  \* the boxes whose css has a :hover rule
          ActiveRules  \* the boxes whose css has an :active rule

ASSUME HitsAssumption  == Hits \subseteq SUBSET Boxes /\ {} \in Hits
ASSUME RulesAssumption == HoverRules \subseteq Boxes /\ ActiveRules \subseteq Boxes

VARIABLES
  state,      \* Checkbox::state
  lastState,  \* Checkbox::lastState, the state the callback last reported
  lastEvent,  \* Checkbox::lastEvent
  style,      \* the css rule ParseCss applied last
  cursor,     \* InputManager::mousePos, as the set of boxes it is inside of
  mouseBtn,   \* InputManager::mouseBtn: is the left button (32) down?
  mouseKey,   \* InputManager::mouseKey, the frame's snapshot of mouseBtn
  next,       \* the box the frame renders next; NBoxes + 1: the frame is drawn
  toggled     \* history: has this frame toggled a box?

boxVars   == <<state, lastState, lastEvent, style>>
inputVars == <<cursor, mouseBtn>>
vars      == <<boxVars, inputVars, mouseKey, next, toggled>>

Events == {"beginning", "none", "hover", "active"}
Styles == {"none", "hover", "active", "custom"}

TypeOK ==
  /\ state     \in [Boxes -> States]
  /\ lastState \in [Boxes -> States]
  /\ lastEvent \in [Boxes -> Events]
  /\ style     \in [Boxes -> Styles]
  /\ cursor    \in Hits
  /\ mouseBtn  \in BOOLEAN
  /\ mouseKey  \in BOOLEAN
  /\ next      \in 1 .. NBoxes + 1
  /\ toggled   \in BOOLEAN

Init ==
  /\ state     = [b \in Boxes |-> 0]
  /\ lastState = [b \in Boxes |-> 0]
  /\ lastEvent = [b \in Boxes |-> "beginning"]
  /\ style     = [b \in Boxes |-> "none"]
  /\ cursor    = {}
  /\ mouseBtn  = FALSE
  /\ mouseKey  = FALSE
  /\ next      = 1
  /\ toggled   = FALSE

-----------------------------------------------------------------------------
(* The input thread stores a position and then, if it changed, a button.   *)

MoveMouse ==
  /\ \E h \in Hits \ {cursor} : cursor' = h
  /\ UNCHANGED <<boxVars, mouseBtn, mouseKey, next, toggled>>

\* mouseBtn becomes 32 by a press; a release ends that, and so does a motion,
\* which is reported as another button.
PressOrRelease ==
  /\ mouseBtn' = ~mouseBtn
  /\ UNCHANGED <<boxVars, cursor, mouseKey, next, toggled>>

-----------------------------------------------------------------------------
(* Checkbox::Render.                                                        *)

Inside(b) == b \in cursor

Event(b) == IF ~Inside(b) THEN "none" ELSE IF mouseKey THEN "active" ELSE "hover"

\* Checkbox::toggle is called when the event becomes ACTIVE.
ClickedWhileHeld(b, e) == e = "active"   \* mutant
Clicked(b, e) == lastEvent[b] # e /\ e = "active"

\* Is the box to be restyled, and its state to be reported?
ChangedByEvent(b, e) == lastEvent[b] # e   \* mutant
Changed(b, e) == state'[b] # lastState[b] \/ lastEvent[b] # e

\* The rule the if-chain of Render picks for a box in state s.
RuleHoverFirst(b, s) ==   \* mutant
  CASE Inside(b) /\ b \in HoverRules -> "hover"
    [] s = 0 /\ ~(Inside(b) /\ b \in HoverRules) -> "none"
    [] s = 1 -> "active"
    [] OTHER -> "custom"
Rule(b, s) ==
  CASE s = 0 /\ Inside(b) /\ b \in HoverRules -> "hover"
    [] s = 0 /\ ~(Inside(b) /\ b \in HoverRules) -> "none"
    [] s = 1 -> "active"
    [] OTHER -> "custom"

\* ParseCss(std::string) returns early on an empty rule.
Apply(b, rule) == IF rule = "active" /\ b \notin ActiveRules THEN style[b] ELSE rule

Render(b) ==
  LET e     == Event(b)
      click == Clicked(b, e)
  IN  /\ next = b
      /\ state'   = IF click THEN AddToState(state, b) ELSE state
      /\ toggled' = (toggled \/ click)
      /\ IF Changed(b, e)
         THEN /\ style'     = [style EXCEPT ![b] = Apply(b, Rule(b, state'[b]))]
              /\ lastState' = [lastState EXCEPT ![b] = state'[b]]
              /\ lastEvent' = [lastEvent EXCEPT ![b] = e]
         ELSE UNCHANGED <<style, lastState, lastEvent>>
      /\ next' = next + 1
      /\ UNCHANGED <<inputVars, mouseKey>>

Tick ==
  /\ next = NBoxes + 1
  /\ next'     = 1
  /\ mouseKey' = mouseBtn
  /\ toggled'  = FALSE
  /\ UNCHANGED <<boxVars, inputVars>>

Next == MoveMouse \/ PressOrRelease \/ Tick \/ \E b \in Boxes : Render(b)

Spec == Init /\ [][Next]_vars

\* The main loop never stops drawing frames.
MainLoop == Tick \/ \E b \in Boxes : Render(b)
FairSpec == Spec /\ WF_vars(MainLoop)

-----------------------------------------------------------------------------
(***************************************************************************)
(* Whatever is clicked, in whatever order and however many boxes one press *)
(* lands on, no two cameras are in preview, or on air, at once             *)
(* (Checkbox::AddToState and SubstractFromState over the friends lists).   *)
(***************************************************************************)
ExclusiveStates == Exclusive(state)

(***************************************************************************)
(* A frame in which nothing was clicked leaves no unreported change: what  *)
(* the callbacks told the lights is what the boxes hold, and so the lights *)
(* too are exclusive (Render compares state with lastState in every frame, *)
(* not only after a click of its own).                                     *)
(***************************************************************************)
FrameSettled ==
  next = NBoxes + 1 /\ ~toggled => lastState = state /\ Exclusive(lastState)

(***************************************************************************)
(* The colour on the screen is that of the reported state, for the boxes   *)
(* whose stylesheet has the rules (the if-chain of Render, which also runs *)
(* when only the event changed).                                           *)
(***************************************************************************)
StyleShowsState ==
  \A b \in ActiveRules :
    /\ lastState[b] = 0 <=> style[b] \in {"none", "hover"}
    /\ lastState[b] = 1 <=> style[b] = "active"

(***************************************************************************)
(* A click that displaces a camera hands its state on: a box loses a busy  *)
(* state without being clicked only when another box takes that very state *)
(* (a preview / on-air swap never drops the on-air state).                 *)
(***************************************************************************)
StateHandedOver ==
  [][\A x \in Boxes : state[x] # 0 /\ state'[x] < state[x] /\ next # x
       => \E y \in Boxes : y # x /\ state'[y] = state[x]]_vars

(***************************************************************************)
(* Every change reaches the callback: each box is reported up to date      *)
(* again and again (a displaced friend is not clicked, and is reported by  *)
(* a later frame only).                                                    *)
(***************************************************************************)
ChangesReported == \A b \in Boxes : []<>(lastState[b] = state[b])

(***************************************************************************)
(* One press is one click: once the mouse is left alone, its button held   *)
(* or not, over one box or over a shared border, the group stops changing  *)
(* (lastEvent is what keeps a held button from clicking in every frame).   *)
(***************************************************************************)
QuietMouseQuietGroup ==
  <>[][FALSE]_inputVars => <>[][FALSE]_<<state, lastState>>
=============================================================================
