--------------------------- MODULE CheckboxStates ---------------------------
(***************************************************************************)
(* The tally states of a group of checkboxes (libs/WindowMangerV2.hpp,     *)
(* class Checkbox) and the arithmetic a click performs on them.  State 0   *)
(* is idle; every other state is meant to be held by one checkbox at a     *)
(* time, which is what the friends lists of main.cpp are for.              *)
(***************************************************************************)
EXTENDS Integers

CONSTANTS NBoxes,    \* how many checkboxes toggless holds
          NStates    \* states.size(): {0, 1} and the custom states

ASSUME BoxesAssumption  == NBoxes \in Nat
ASSUME StatesAssumption == NStates \in Nat /\ NStates >= 2

Boxes  == 1 .. NBoxes
States == 0 .. NStates - 1

\* main() makes every checkbox a friend of every other one.
Friends(b) == Boxes \ {b}

CircleNoWrap(s) == s   \* mutant
Circle(s) == s % NStates

SubstractNever(own, s)  == own                               \* mutant
SubstractAlways(own, s) == IF own # 0 THEN own - 1 ELSE own   \* mutant
SubstractFromState(own, s) == IF own # 0 /\ own = s THEN own - 1 ELSE own

\* A click on b: b moves to its next state, and a friend that held that state
\* is moved down by one.
AddToState(st, b) ==
  LET s == Circle(st[b] + 1)
  IN  [x \in Boxes |-> IF x = b THEN s
                       ELSE IF x \in Friends(b) THEN SubstractFromState(st[x], s)
                       ELSE st[x]]

(***************************************************************************)
(* No two checkboxes are in the same state other than idle.                *)
(***************************************************************************)
Exclusive(st) == \A x, y \in Boxes : x # y /\ st[x] # 0 => st[x] # st[y]
=============================================================================
