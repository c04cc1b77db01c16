------------------------- MODULE CheckboxGroupProofs -------------------------
(***************************************************************************)
(* Type correctness and exclusivity of the checkbox group, for any number  *)
(* of checkboxes, any number of tally states and any layout of the screen. *)
(***************************************************************************)
EXTENDS CheckboxGroup, CheckboxStatesProofs, TLAPS

-----------------------------------------------------------------------------
(* Every variable keeps its type.                                           *)
THEOREM GroupTypeCorrect == Spec => []TypeOK
<1>1. Init => TypeOK
  <2> SUFFICES ASSUME Init PROVE TypeOK
    OBVIOUS
  <2>1. 0 \in States /\ 1 \in 1 .. NBoxes + 1
    BY BoxesAssumption, StatesAssumption DEF States
  <2>2. QED
    BY <2>1, HitsAssumption, Zenon DEF Init, TypeOK, Events, Styles
<1>2. TypeOK /\ [Next]_vars => TypeOK'
  <2> SUFFICES ASSUME TypeOK, [Next]_vars PROVE TypeOK'
    OBVIOUS
  <2>1. CASE MoveMouse
    BY <2>1 DEF TypeOK, MoveMouse, boxVars
  <2>2. CASE PressOrRelease
    BY <2>2 DEF TypeOK, PressOrRelease, boxVars
  <2>3. CASE Tick
    <3>1. next' \in 1 .. NBoxes + 1
      BY <2>3, BoxesAssumption DEF Tick
    <3>2. QED
      BY <2>3, <3>1, Zenon DEF TypeOK, Tick, boxVars, inputVars
  <2>4. ASSUME NEW b \in Boxes, Render(b) PROVE TypeOK'
    <3>1. state' \in [Boxes -> States]
      BY <2>4, AddToStateType DEF Render, TypeOK
    <3>2. Event(b) \in Events
      BY DEF Event, Events
    <3>3. \A t \in States : Rule(b, t) \in Styles
      BY DEF Rule, Styles
    <3>4. style' \in [Boxes -> Styles]
      BY <2>4, <3>1, <3>3 DEF Render, Apply, TypeOK
    <3>5. lastState' \in [Boxes -> States] /\ lastEvent' \in [Boxes -> Events]
      BY <2>4, <3>1, <3>2 DEF Render, TypeOK
    <3>6. next' \in 1 .. NBoxes + 1
      BY <2>4, BoxesAssumption DEF Render, TypeOK, Boxes
    <3>7. toggled' \in BOOLEAN
      BY <2>4 DEF Render, TypeOK
    <3>8. cursor' \in Hits /\ mouseBtn' \in BOOLEAN /\ mouseKey' \in BOOLEAN
      BY <2>4 DEF Render, TypeOK, inputVars
    <3>9. QED
      BY <3>1, <3>4, <3>5, <3>6, <3>7, <3>8 DEF TypeOK
  <2>5. CASE UNCHANGED vars
    BY <2>5 DEF TypeOK, vars, boxVars, inputVars
  <2>6. QED
    BY <2>1, <2>2, <2>3, <2>4, <2>5 DEF Next
<1>3. QED
  BY <1>1, <1>2, PTL DEF Spec

(* At most one camera is in each busy state: Exclusive is inductive, since *)
(* the only step that changes state is a click.                            *)
THEOREM GroupExclusive == Spec => []ExclusiveStates
<1>1. Init => ExclusiveStates
  BY DEF Init, ExclusiveStates, Exclusive
<1>2. TypeOK /\ ExclusiveStates /\ [Next]_vars => ExclusiveStates'
  <2> SUFFICES ASSUME TypeOK, ExclusiveStates, [Next]_vars PROVE ExclusiveStates'
    OBVIOUS
  <2>1. CASE state' = state
    BY <2>1 DEF ExclusiveStates, Exclusive
  <2>2. CASE \E b \in Boxes : state' = AddToState(state, b)
    BY <2>2, AddToStateExclusive DEF TypeOK, ExclusiveStates
  <2>3. state' = state \/ \E b \in Boxes : state' = AddToState(state, b)
    BY DEF Next, MoveMouse, PressOrRelease, Tick, Render, vars, boxVars
  <2>4. QED
    BY <2>1, <2>2, <2>3
<1>3. QED
  BY <1>1, <1>2, GroupTypeCorrect, PTL DEF Spec

-----------------------------------------------------------------------------
(* A frame without a click has reported every box it has rendered so far.  *)
Settling == ~toggled => \A b \in Boxes : b < next => lastState[b] = state[b]

(***************************************************************************)
(* A frame in which nothing was clicked leaves no unreported change        *)
(* (Checkbox::Render, tick).                                               *)
(***************************************************************************)
THEOREM GroupFrameSettled == Spec => []FrameSettled
<1>1. Init => Settling
  BY DEF Init, Settling
<1>2. TypeOK /\ Settling /\ [Next]_vars => Settling'
  <2> SUFFICES ASSUME TypeOK, Settling, [Next]_vars PROVE Settling'
    OBVIOUS
  <2>1. ASSUME NEW b \in Boxes, Render(b) PROVE Settling'
    <3> SUFFICES ASSUME ~toggled', NEW a \in Boxes, a < next'
                 PROVE  lastState'[a] = state'[a]
      BY DEF Settling
    <3>1. ~toggled /\ state' = state /\ next = b /\ next' = b + 1
      BY <2>1 DEF Render, TypeOK
    <3>2. CASE a = b
      BY <2>1, <3>1, <3>2 DEF Render, Changed, TypeOK
    <3>3. CASE a # b
      <4>1. a < next  BY <3>1, <3>3 DEF Boxes
      <4>2. lastState[a] = state[a]  BY <3>1, <4>1 DEF Settling
      <4>3. lastState'[a] = lastState[a]  BY <2>1, <3>3 DEF Render, TypeOK
      <4> QED  BY <3>1, <4>2, <4>3
    <3> QED  BY <3>2, <3>3
  <2>2. CASE Tick
    BY <2>2 DEF Tick, Settling, Boxes
  <2>3. CASE UNCHANGED <<boxVars, next, toggled>>
    BY <2>3 DEF Settling, boxVars
  <2> QED  BY <2>1, <2>2, <2>3 DEF Next, MoveMouse, PressOrRelease, vars
<1>3. TypeOK /\ Settling /\ ExclusiveStates => FrameSettled
  <2> SUFFICES ASSUME TypeOK, Settling, ExclusiveStates, next = NBoxes + 1, ~toggled
               PROVE  lastState = state /\ Exclusive(lastState)
    BY DEF FrameSettled
  <2>1. \A b \in Boxes : lastState[b] = state[b]
    BY BoxesAssumption DEF Settling, Boxes
  <2>2. lastState = state  BY <2>1 DEF TypeOK
  <2> QED  BY <2>2 DEF ExclusiveStates
<1> QED
  BY <1>1, <1>2, <1>3, GroupTypeCorrect, GroupExclusive, PTL DEF Spec

(***************************************************************************)
(* The colour on the screen is that of the reported state (the rules       *)
(* Render picks, for boxes that have them).                                *)
(***************************************************************************)
THEOREM GroupStyleShowsState == Spec => []StyleShowsState
<1>1. Init => StyleShowsState
  BY RulesAssumption DEF Init, StyleShowsState
<1>2. TypeOK /\ StyleShowsState /\ [Next]_vars => StyleShowsState'
  <2> SUFFICES ASSUME TypeOK, StyleShowsState, [Next]_vars PROVE StyleShowsState'
    OBVIOUS
  <2>1. ASSUME NEW b \in Boxes, Render(b) PROVE StyleShowsState'
    <3> SUFFICES ASSUME NEW a \in ActiveRules
                 PROVE  /\ lastState'[a] = 0 <=> style'[a] \in {"none", "hover"}
                        /\ lastState'[a] = 1 <=> style'[a] = "active"
      BY DEF StyleShowsState
    <3>1. a \in Boxes  BY RulesAssumption
    <3>2. CASE lastState'[a] = lastState[a] /\ style'[a] = style[a]
      BY <3>2 DEF StyleShowsState
    <3>3. CASE a = b /\ lastState'[a] = state'[a] /\ style'[a] = Rule(a, state'[a])
      BY <3>3 DEF Rule
    <3> QED  BY <2>1, <3>1, <3>2, <3>3 DEF Render, Apply, TypeOK
  <2>2. CASE UNCHANGED <<lastState, style>>
    BY <2>2 DEF StyleShowsState
  <2> QED  BY <2>1, <2>2 DEF Next, MoveMouse, PressOrRelease, Tick, vars, boxVars
<1> QED  BY <1>1, <1>2, GroupTypeCorrect, PTL DEF Spec

(***************************************************************************)
(* A camera loses a busy state without a click only to the camera that     *)
(* takes this state (AddToState, SubstractFromState).                      *)
(***************************************************************************)
THEOREM GroupStateHandedOver == Spec => StateHandedOver
<1> DEFINE Lost(x) == state[x] # 0 /\ state'[x] < state[x] /\ next # x
           Taken(x) == \E y \in Boxes : y # x /\ state'[y] = state[x]
<1>1. TypeOK /\ [Next]_vars => [\A x \in Boxes : Lost(x) => Taken(x)]_vars
  <2> SUFFICES ASSUME TypeOK, [Next]_vars, NEW x \in Boxes, Lost(x) PROVE Taken(x)
    OBVIOUS
  <2>1. state' # state  BY DEF TypeOK, States
  <2>2. PICK b \in Boxes : Render(b)
    BY <2>1 DEF Next, MoveMouse, PressOrRelease, Tick, vars, boxVars
  <2> DEFINE s == Circle(state[b] + 1)
  <2>3. next = b /\ state' = AddToState(state, b)  BY <2>1, <2>2 DEF Render
  <2>4. b # x /\ state'[b] = s /\ state'[x] = SubstractFromState(state[x], s)
    BY <2>3 DEF AddToState, Friends
  <2>5. state[x] = s  BY <2>4 DEF SubstractFromState, TypeOK, States
  <2> QED  BY <2>4, <2>5
<1> QED  BY <1>1, GroupTypeCorrect, PTL DEF Spec, StateHandedOver
=============================================================================
