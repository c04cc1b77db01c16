------------------------ MODULE CheckboxStatesProofs ------------------------
(***************************************************************************)
(* What a click computes, for any number of checkboxes and states: typed   *)
(* groups go to typed groups, exclusive groups to exclusive groups.        *)
(***************************************************************************)
EXTENDS CheckboxStates, TLAPS

(* Checkbox::Circle keeps a state within the vector of states, and leaves  *)
(* a state that is in range alone.                                         *)
LEMMA CircleRange ==
  ASSUME NEW s \in 0 .. NStates
  PROVE  /\ Circle(s) \in States
         /\ s < NStates => Circle(s) = s
         /\ s = NStates => Circle(s) = 0
  BY StatesAssumption, Z3 DEF Circle, States

(* Checkbox::SubstractFromState keeps a state in range and never leaves    *)
(* the box in the busy state that was taken from it.                       *)
LEMMA SubstractRange ==
  ASSUME NEW own \in States, NEW s \in States
  PROVE  /\ SubstractFromState(own, s) \in States
         /\ s # 0 => SubstractFromState(own, s) # s
         /\ SubstractFromState(own, s) # own => own = s /\ SubstractFromState(own, s) = s - 1
  BY StatesAssumption DEF SubstractFromState, States

(* Checkbox::AddToState maps a typed group to a typed group.               *)
LEMMA AddToStateType ==
  ASSUME NEW st \in [Boxes -> States], NEW b \in Boxes
  PROVE  AddToState(st, b) \in [Boxes -> States]
<1> DEFINE s == Circle(st[b] + 1)
<1>1. st[b] + 1 \in 0 .. NStates
  BY StatesAssumption DEF States
<1>2. s \in States
  BY <1>1, CircleRange
<1>3. \A x \in Boxes : SubstractFromState(st[x], s) \in States
  BY <1>2, SubstractRange
<1> HIDE DEF s
<1>4. AddToState(st, b) = [x \in Boxes |-> IF x = b THEN s
                             ELSE IF x \in Friends(b) THEN SubstractFromState(st[x], s)
                             ELSE st[x]]
  BY DEF AddToState, s
<1>5. QED
  BY <1>2, <1>3, <1>4

(* A click preserves exclusivity: the state b enters is taken from the     *)
(* friend that held it, and that friend moves to the state b just left.    *)
LEMMA AddToStateExclusive ==
  ASSUME NEW st \in [Boxes -> States], NEW b \in Boxes, Exclusive(st)
  PROVE  Exclusive(AddToState(st, b))
<1> DEFINE s  == Circle(st[b] + 1)
           nu == AddToState(st, b)
<1>1. st[b] + 1 \in 0 .. NStates
  BY StatesAssumption DEF States
<1>2. /\ s \in States
      /\ s # 0 => s = st[b] + 1
  BY <1>1, CircleRange, StatesAssumption
<1>3. /\ nu[b] = s
      /\ \A x \in Boxes \ {b} : nu[x] = SubstractFromState(st[x], s)
  BY DEF AddToState, Friends
<1> HIDE DEF s, nu
<1>4. SUFFICES ASSUME NEW x \in Boxes, NEW y \in Boxes, x # y, nu[x] # 0, nu[x] = nu[y]
               PROVE  FALSE
  BY DEF Exclusive, nu
<1>5. ASSUME NEW z \in Boxes \ {b}
      PROVE  \/ nu[z] = st[z] /\ ~(st[z] # 0 /\ st[z] = s)
             \/ st[z] # 0 /\ st[z] = s /\ nu[z] = st[b] /\ s # 0
  BY <1>2, <1>3 DEF SubstractFromState, States
<1>6. CASE x = b
  BY <1>3, <1>5, <1>6, <1>4, <1>2, StatesAssumption DEF States
<1>7. CASE y = b
  BY <1>3, <1>5, <1>7, <1>4, <1>2, StatesAssumption DEF States
<1>8. CASE x # b /\ y # b
  <2>1. st[x] # 0 => st[x] # st[y] /\ st[x] # st[b]
    BY <1>8, <1>4 DEF Exclusive
  <2>2. st[y] # 0 => st[y] # st[x] /\ st[y] # st[b]
    BY <1>8, <1>4 DEF Exclusive
  <2>3. QED
    BY <1>8, <1>5, <1>4, <2>1, <2>2
<1>9. QED
  BY <1>6, <1>7, <1>8
=============================================================================
