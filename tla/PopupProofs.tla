----------------------------- MODULE PopupProofs -----------------------------
(***************************************************************************)
(* The popup for any number of checkboxes, lights and keys: the dialog     *)
(* serves one light, a selected field is red, and the text is what was     *)
(* typed.                                                                  *)
(***************************************************************************)
EXTENDS Popup, SequenceTheorems, WellFoundedInduction, TLAPS

(* The first of a set of boxes is one of them.                              *)
LEMMA FirstIsOne ==
  ASSUME NEW S \in SUBSET Boxes, S # {}
  PROVE  First(S) \in S
<1> DEFINE R == {p \in Nat \X Nat : p[1] < p[2]}
<1>1. S \subseteq Nat
  BY NBoxesAssumption DEF Boxes
<1>2. IsWellFoundedOn(R, Nat)
  <2>1. OpToRel(<, Nat) = R
    BY Zenon DEF OpToRel
  <2>2. QED
    BY <2>1, NatLessThanWellFounded, Zenon
<1>3. PICK b \in S : \A y \in S : ~ (<<y, b>> \in R)
  <2> HIDE DEF R
  <2>1. QED
    BY <1>1, <1>2, WFMin, Zenon
<1>4. ASSUME NEW y \in S PROVE b <= y
  <2>1. <<y, b>> \in Nat \X Nat
    BY <1>1
  <2>2. ~ (<<y, b>>[1] < <<y, b>>[2])
    BY <1>3, <2>1, Zenon
  <2>3. y \in Nat /\ b \in Nat
    BY <1>1
  <2>4. QED
    BY <2>2, <2>3
<1>5. QED
  BY <1>4 DEF First

(***************************************************************************)
(* The flags the dialog's invariant speaks of are Booleans.                *)
(***************************************************************************)
Flags == enabled \in BOOLEAN /\ stage \in BOOLEAN /\ disturbed \in BOOLEAN
         /\ state \in BOOLEAN /\ red \in BOOLEAN /\ fresh \in BOOLEAN
Inv == Flags /\ DialogInv /\ SelectedIsRed

(* A step of Render that changes neither the dialog nor the io thread.      *)
LEMMA FieldStep ==
  ASSUME Inv, SameEvent \/ NewEvent
  PROVE  /\ state' \in BOOLEAN /\ red' \in BOOLEAN /\ fresh' \in BOOLEAN
         /\ SelectedIsRed'
<1>1. CASE SameEvent
  BY <1>1 DEF SameEvent, Inv, Flags, SelectedIsRed
<1>2. CASE NewEvent
  BY <1>2 DEF NewEvent, Selected, Restyled, Event, Inv, Flags, SelectedIsRed
<1> QED  BY <1>1, <1>2

LEMMA UserKeeps == ASSUME Inv, User PROVE Inv'
<1>1. UNCHANGED <<fieldVars, pc, uiVars, boxVars, guyVars, ioVars, history>>
  BY DEF User, MoveMouse, PressOrRelease, TypeKey
<1> QED
  BY <1>1 DEF Inv, Flags, DialogInv, SelectedIsRed, fieldVars, uiVars, boxVars,
              guyVars, ioVars, history

LEMMA MainLoopKeeps == ASSUME Inv, MainLoop PROVE Inv'
<1> USE DEF Inv, Flags, uiVars, boxVars, guyVars, ioVars
<1>1. CASE RenderDisabled
  BY <1>1 DEF RenderDisabled, DialogInv, SelectedIsRed, fieldVars
<1>2. CASE RenderKey
  <2>1. DialogInv'  BY <1>2 DEF RenderKey, DialogInv
  <2> QED  BY <1>2, <2>1, FieldStep DEF RenderKey
<1>3. CASE EnterPlace
  <2>1. DialogInv'  BY <1>3 DEF EnterPlace, DialogInv
  <2> QED  BY <1>3, <2>1, FieldStep DEF EnterPlace
<1>4. CASE EnterName
  <2>1. AtPlace # {} => First(AtPlace) \in Boxes /\ label[First(AtPlace)] = place
    BY FirstIsOne DEF AtPlace
  <2>2. DialogInv'
    BY <1>4, <2>1 DEF EnterName, StageAfter, DialogInv
  <2> QED  BY <1>4, <2>2, FieldStep DEF EnterName, StageAfter
<1>5. CASE Renamed
  BY <1>5 DEF Renamed, DialogInv, SelectedIsRed, fieldVars, history
<1>6. CASE Place
  BY <1>6 DEF Place, DialogInv, SelectedIsRed, history
<1>7. CASE Tick
  BY <1>7 DEF Tick, DialogInv, SelectedIsRed, fieldVars
<1> QED
  BY <1>1, <1>2, <1>3, <1>4, <1>5, <1>6, <1>7 DEF MainLoop

LEMMA IoThreadKeeps == ASSUME Inv, IoThread PROVE Inv'
<1> USE DEF Inv, Flags, DialogInv, SelectedIsRed, uiVars, history
<1>1. ASSUME NEW n \in LightNames, NewLight(n) PROVE Inv'
  BY <1>1 DEF NewLight, DialogOpen
<1>2. CASE Close
  BY <1>2 DEF Close, guyVars
<1>3. CASE PopupId
  BY <1>3 DEF PopupId, boxVars, guyVars
<1>4. CASE PopupText
  BY <1>4 DEF PopupText, boxVars, guyVars
<1> QED
  BY <1>1, <1>2, <1>3, <1>4 DEF IoThread

LEMMA Invariant == Spec => []Inv
<1>1. Init => Inv
  BY DEF Init, Inv, Flags, DialogInv, SelectedIsRed, NoId
<1>2. Inv /\ [Next]_vars => Inv'
  <2>1. ASSUME Inv, UNCHANGED vars PROVE Inv'
    BY <2>1 DEF vars, fieldVars, uiVars, boxVars, guyVars, ioVars, history,
                Inv, Flags, DialogInv, SelectedIsRed
  <2> QED  BY <2>1, UserKeeps, MainLoopKeeps, IoThreadKeeps DEF Next
<1> QED  BY <1>1, <1>2, PTL DEF Spec

(***************************************************************************)
(* Undisturbed, place and name are entered for the same, newest light, and *)
(* the checkbox it takes is at that place (AddNewClient).                  *)
(***************************************************************************)
THEOREM DialogServesOneLight == Spec => []DialogForOneLight
<1>1. Inv => DialogForOneLight
  BY DEF Inv, DialogInv, DialogForOneLight
<1> QED  BY <1>1, Invariant, PTL

(***************************************************************************)
(* A field that takes keys is red once an event assigned its state         *)
(* (InputField::Render).                                                   *)
(***************************************************************************)
THEOREM SelectedFieldIsRed == Spec => []SelectedIsRed
<1>1. Inv => SelectedIsRed
  BY DEF Inv
<1> QED  BY <1>1, Invariant, PTL

-----------------------------------------------------------------------------
(***************************************************************************)
(* The locals of both threads name a checkbox and a light wherever they    *)
(* are used: no index is out of range, whatever gets in between            *)
(* (AddNewClient, NewClientConnected).                                     *)
(***************************************************************************)
LocalsInv ==
  /\ pc = "render" => key # Q
  /\ pc = "rename" => uiId \in Ids
  /\ pc \in {"rename", "place"} => uiBox \in Boxes
  /\ ioPc # "poll" => currentId \in Ids
  /\ ioPc = "close" => ioBox \in Boxes
Typed == TypeOK /\ LocalsInv

\* A step of Render keeps the types of what it may change of the field.
LEMMA FieldTyped ==
  ASSUME Typed, SameEvent \/ NewEvent
  PROVE  state' \in BOOLEAN /\ red' \in BOOLEAN /\ fresh' \in BOOLEAN /\ lastEvent' \in Events
BY DEF Typed, TypeOK, FieldTypeOK, HistoryTypeOK, SameEvent, NewEvent, Selected, Restyled, Event, Events

\* Editing keeps a text a text: only plain characters are appended.
LEMMA EditedTyped ==
  ASSUME NEW t \in Texts, NEW k \in (Keys \ {Q}) \cup {NoKey}
  PROVE  Edited(t, k) \in Texts
<1>1. CASE k \in Chars
  BY <1>1, CharsAssumption, AppendProperties DEF Edited, Texts
<1>2. CASE k = Backspace /\ t # <<>>
  <2>1. Len(t) \in Nat \ {0} /\ \A i \in 1 .. Len(t) : t[i] \in Chars
    BY <1>2, EmptySeq, ElementOfSeq DEF Texts
  <2>2. \A i \in 1 .. Len(t) - 1 : t[i] \in Chars  BY <2>1
  <2>3. SubSeq(t, 1, Len(t) - 1) \in Seq(Chars)  BY <2>1, <2>2, SubSeqProperties
  <2> QED  BY <1>2, <2>3 DEF Edited, Front, Texts, Backspace, NoKey, Enter
<1>3. CASE k \in {NoKey, Enter} \/ (k = Backspace /\ t = <<>>)
  BY <1>3 DEF Edited, Backspace, Enter, NoKey
<1> QED  BY <1>1, <1>2, <1>3 DEF Keys

USE DEF FieldTypeOK, InputTypeOK, DialogTypeOK, LightsTypeOK, HistoryTypeOK

LEMMA UserTyped == ASSUME Typed, User PROVE Typed'
<1>1. ASSUME NEW k \in Keys, TypeKey(k) PROVE Typed'
  <2>1. keyPressed' \in Seq(Keys) /\ nKeys' \in 0 .. MaxKeys
    BY <1>1, AppendProperties, BoundsAssumption DEF TypeKey, Typed, TypeOK
  <2> QED
    BY <1>1, <2>1 DEF TypeKey, Typed, TypeOK, LocalsInv, fieldVars, mouseVars, frameVars,
                      uiVars, boxVars, guyVars, ioVars, history
<1>2. CASE MoveMouse \/ PressOrRelease
  <2>1. inside' \in BOOLEAN /\ mouseBtn' \in BOOLEAN
    BY <1>2 DEF MoveMouse, PressOrRelease, Typed, TypeOK
  <2>2. UNCHANGED <<fieldVars, keyVars, frameVars, pc, uiVars, boxVars, guyVars, ioVars, history>>
    BY <1>2 DEF MoveMouse, PressOrRelease
  <2> QED
    BY <2>1, <2>2 DEF Typed, TypeOK, LocalsInv, fieldVars, keyVars, frameVars, uiVars,
                      boxVars, guyVars, ioVars, history
<1> QED  BY <1>1, <1>2 DEF User

LEMMA RenderTyped ==
  ASSUME Typed, RenderDisabled \/ RenderKey \/ EnterPlace \/ EnterName
  PROVE  Typed'
<1> USE DEF Typed, mouseVars, keyVars, frameVars, uiVars, boxVars, guyVars, ioVars
<1>1. CASE RenderDisabled
  <2>1. dropped' \in BOOLEAN  BY <1>1 DEF RenderDisabled, TypeOK
  <2> QED
    BY <1>1, <2>1 DEF RenderDisabled, TypeOK, LocalsInv, fieldVars
<1>2. CASE RenderKey
  <2> USE <1>2 DEF RenderKey
  <2>1. text' \in Texts  BY EditedTyped DEF TypeOK, LocalsInv
  <2>2. dropped' \in BOOLEAN  BY DEF TypeOK
  <2>3. state' \in BOOLEAN /\ red' \in BOOLEAN /\ fresh' \in BOOLEAN /\ lastEvent' \in Events
    BY FieldTyped
  <2>4. TypeOK'
    BY <2>1, <2>2, <2>3 DEF TypeOK
  <2> QED  BY <2>4 DEF LocalsInv
<1>3. CASE EnterPlace
  <2> USE <1>3 DEF EnterPlace
  <2>1. <<>> \in Texts /\ <<>> \in Seq(Keys)  BY EmptySeq DEF Texts
  <2>2. disturbed' \in BOOLEAN  BY DEF TypeOK
  <2>3. state' \in BOOLEAN /\ red' \in BOOLEAN /\ fresh' \in BOOLEAN /\ lastEvent' \in Events
    BY FieldTyped
  <2>4. TypeOK'
    BY <2>1, <2>2, <2>3 DEF TypeOK
  <2> QED  BY <2>4 DEF LocalsInv
<1>4. CASE EnterName
  <2> USE <1>4 DEF EnterName
  <2>1. AtPlace # {} => First(AtPlace) \in Boxes  BY FirstIsOne DEF AtPlace
  <2>2. disturbed' \in BOOLEAN  BY DEF TypeOK
  <2>3. state' \in BOOLEAN /\ red' \in BOOLEAN /\ fresh' \in BOOLEAN /\ lastEvent' \in Events
    BY FieldTyped
  <2>4. /\ pc' \in {"tick", "exited", "rename", "place"}
        /\ uiBox' \in Boxes \cup {NoBox} /\ uiId' \in Ids \cup {NoId}
        /\ pc' \in {"rename", "place"} => uiBox' \in Boxes /\ uiId' \in Ids
    BY <2>1 DEF TypeOK
  <2>5. uiName' \in Texts /\ stage' \in BOOLEAN
    BY DEF TypeOK, StageAfter
  <2>6. UNCHANGED <<enabled, text, clientId, mouseVars, keyVars, frameVars, place,
                    boxVars, guyVars, ioVars, base, since, dropped, placeFor>>
    OBVIOUS
  <2> HIDE <1>4 DEF EnterName
  <2>7. TypeOK'
    BY <2>2, <2>3, <2>4, <2>5, <2>6 DEF TypeOK
  <2> QED  BY <2>4, <2>6, <2>7 DEF LocalsInv
<1> QED  BY <1>1, <1>2, <1>3, <1>4

LEMMA RestTyped == ASSUME Typed, Renamed \/ Place \/ Tick PROVE Typed'
<1> USE DEF Typed, mouseVars, keyVars, frameVars, uiVars, boxVars, guyVars, ioVars
<1>1. CASE Renamed
  BY <1>1 DEF Renamed, TypeOK, LocalsInv, fieldVars, history
<1>2. CASE Place
  <2>1. <<>> \in Texts  BY EmptySeq DEF Texts
  <2>2. label' \in [Boxes -> Texts] /\ boxName' \in [Boxes -> Texts]
    BY <1>2 DEF Place, TypeOK
  <2>3. UNCHANGED <<text, state, lastEvent, red, clientId, mouseVars, keyVars, frameVars,
                    stage, place, guyVars, ioVars, history>>
        /\ enabled' = FALSE /\ pc' = "tick" /\ uiBox' = NoBox /\ uiId' = NoId /\ uiName' = <<>>
    BY <1>2 DEF Place
  <2>4. FieldTypeOK' /\ InputTypeOK' /\ DialogTypeOK'
    BY <2>1, <2>3 DEF TypeOK
  <2>5. LightsTypeOK' /\ HistoryTypeOK'
    BY <2>2, <2>3 DEF TypeOK, history
  <2> QED  BY <2>3, <2>4, <2>5 DEF TypeOK, LocalsInv
<1>3. CASE Tick
  <2> USE <1>3 DEF Tick
  <2>1. key' \in Keys \cup {NoKey} /\ keyPressed' \in Seq(Keys)
        /\ (keyPressed # <<>> => key' \in Keys)
    BY HeadTailProperties DEF TypeOK, KeyIfNone
  <2>2. since' \in Seq(Keys)
    <3>1. since \in Seq(Keys) /\ <<>> \in Seq(Keys)  BY EmptySeq DEF TypeOK
    <3>2. keyPressed # <<>> => Append(since, key') \in Seq(Keys)
      BY <2>1, <3>1, AppendProperties
    <3> QED  BY <3>1, <3>2
  <2>3. pc' \in {"exited", "render"} /\ (pc' = "render" => key' # Q)  OBVIOUS
  <2>4. TypeOK'
    BY <2>1, <2>2, <2>3 DEF TypeOK, fieldVars
  <2> QED  BY <2>3, <2>4 DEF LocalsInv
<1> QED  BY <1>1, <1>2, <1>3

LEMMA IoTyped == ASSUME Typed, IoThread PROVE Typed'
<1> USE DEF Typed, mouseVars, keyVars, frameVars, uiVars, boxVars, guyVars, ioVars, history
<1>1. ASSUME NEW n \in LightNames, NewLight(n) PROVE Typed'
  <2> USE <1>1 DEF NewLight
  <2>1. currentId' \in Ids /\ currentId' \in 0 .. MaxLights
    BY BoundsAssumption DEF TypeOK, Ids
  <2>2. Matching(n) # {} => First(Matching(n)) \in Boxes  BY FirstIsOne DEF Matching
  <2>3. guyName' \in [Ids -> Texts]  BY NamesAssumption DEF TypeOK
  <2>4. /\ disturbed' \in BOOLEAN /\ enabled' \in BOOLEAN /\ clientId' \in Ids \cup {NoId}
        /\ ioPc' \in {"close", "id"} /\ ioBox' \in Boxes \cup {NoBox}
        /\ ioPc' = "close" => ioBox' \in Boxes
    BY <2>1, <2>2 DEF TypeOK, DialogOpen
  <2>5. TypeOK'  BY <2>1, <2>3, <2>4 DEF TypeOK
  <2> QED  BY <2>1, <2>4, <2>5 DEF LocalsInv
<1>2. CASE Close
  <2>1. label' \in [Boxes -> Texts] /\ boxName' \in [Boxes -> Texts]
    BY <1>2 DEF Close, TypeOK, LocalsInv
  <2>2. UNCHANGED <<text, state, lastEvent, red, clientId, mouseVars, keyVars, frameVars, pc,
                    uiVars, guyVars, history>>
        /\ enabled' = FALSE /\ ioPc' = "poll" /\ ioBox' = NoBox
    BY <1>2 DEF Close
  <2>3. FieldTypeOK'   BY <2>2 DEF TypeOK
  <2>4. InputTypeOK'   BY <2>2 DEF TypeOK
  <2>5. DialogTypeOK'  BY <2>2 DEF TypeOK
  <2>6. LightsTypeOK' /\ HistoryTypeOK'
    BY <2>1, <2>2 DEF TypeOK
  <2> QED  BY <2>2, <2>3, <2>4, <2>5, <2>6 DEF TypeOK, LocalsInv
<1>3. CASE PopupId
  BY <1>3 DEF PopupId, TypeOK, LocalsInv
<1>4. CASE PopupText
  <2>1. text' \in Texts  BY <1>4 DEF PopupText, TypeOK, LocalsInv
  <2>2. since' \in Seq(Keys)
    <3>1. key # NoKey => <<key>> \in Seq(Keys)  BY DEF TypeOK
    <3> QED  BY <1>4, <3>1, EmptySeq DEF PopupText
  <2>3. UNCHANGED <<enabled, state, lastEvent, red, clientId, mouseVars, keyVars, frameVars,
                    pc, uiVars, boxVars, guyVars, ioBox, fresh, placeFor, disturbed>>
        /\ base' = text' /\ dropped' = FALSE /\ ioPc' = "poll"
    BY <1>4 DEF PopupText
  <2>4. FieldTypeOK' /\ InputTypeOK' /\ DialogTypeOK'
    BY <2>1, <2>3 DEF TypeOK
  <2>5. LightsTypeOK' /\ HistoryTypeOK'
    BY <2>1, <2>2, <2>3 DEF TypeOK
  <2> QED  BY <2>3, <2>4, <2>5 DEF TypeOK, LocalsInv
<1> QED  BY <1>1, <1>2, <1>3, <1>4 DEF IoThread

LEMMA PopupTyped == Spec => []Typed
<1>1. Init => Typed
  <2>1. <<>> \in Texts /\ <<>> \in Seq(Keys)  BY EmptySeq DEF Texts
  <2>2. 0 \in 0 .. MaxKeys /\ 0 \in 0 .. MaxLights  BY BoundsAssumption
  <2> SUFFICES ASSUME Init PROVE Typed  OBVIOUS
  <2>3. label \in [Boxes -> Texts] /\ boxName \in [Boxes -> Texts] /\ guyName \in [Ids -> Texts]
    BY <2>1, NamesAssumption DEF Init
  <2>4. LocalsInv  BY DEF Init, LocalsInv, NoKey, Q
  <2>5. TypeOK  BY <2>1, <2>2, <2>3 DEF Init, TypeOK, Events
  <2> QED  BY <2>4, <2>5 DEF Typed
<1>2. Typed /\ [Next]_vars => Typed'
  <2>1. ASSUME Typed, UNCHANGED vars PROVE Typed'
    BY <2>1 DEF vars, fieldVars, mouseVars, keyVars, frameVars, uiVars, boxVars, guyVars,
                ioVars, history, Typed, TypeOK, LocalsInv
  <2> QED
    BY <2>1, UserTyped, RenderTyped, RestTyped, IoTyped DEF Next, MainLoop
<1> QED  BY <1>1, <1>2, PTL DEF Spec

(***************************************************************************)
(* The variables keep their types, and with them each text is made of      *)
(* plain characters only, and each local names a checkbox or a light       *)
(* (InputField::Render, AddNewClient, NewClientConnected).                 *)
(***************************************************************************)
THEOREM PopupTypeCorrect == Spec => []TypeOK
<1>1. Typed => TypeOK  BY DEF Typed
<1> QED  BY <1>1, PopupTyped, PTL

-----------------------------------------------------------------------------
(* What is typed: FoldLeft(Edited, ...) one key at a time.                  *)

(***************************************************************************)
(* Induction, with a set in place of a predicate.                          *)
(***************************************************************************)
LEMMA SetInduction ==
  ASSUME NEW T \in SUBSET Nat, 0 \in T, \A n \in T : n + 1 \in T
  PROVE  T = Nat
<1> SUFFICES ASSUME Nat \ T # {} PROVE FALSE  OBVIOUS
<1> DEFINE R == {p \in Nat \X Nat : p[1] < p[2]}
<1>1. IsWellFoundedOn(R, Nat)
  <2>1. OpToRel(<, Nat) = R  BY Zenon DEF OpToRel
  <2> QED  BY <2>1, NatLessThanWellFounded, Zenon
<1>2. PICK m \in Nat \ T : \A k \in Nat \ T : ~ (<<k, m>> \in R)
  <2> HIDE DEF R
  <2>1. Nat \ T \subseteq Nat  OBVIOUS
  <2> QED  BY <1>1, <2>1, WFMin, Zenon
<1>3. m # 0 /\ m - 1 \in Nat  OBVIOUS
<1>4. <<m - 1, m>> \in R  BY <1>3
<1>5. m - 1 \in T  BY <1>2, <1>3, <1>4
<1>6. m - 1 + 1 \in T  BY <1>5
<1> QED  BY <1>2, <1>6, <1>3


\* The function FoldLeft(Edited, b, s) computes, over the sets of the first n places of s.
Iterates(g, b, s, n) ==
  g = [S \in SUBSET (1 .. n) |->
         IF S = {} THEN b ELSE Edited(g[S \ {Max(S)}], s[Max(S)])]

LEMMA MaxIsOne ==
  ASSUME NEW n \in Nat, NEW S \in SUBSET (1 .. n), S # {}
  PROVE  Max(S) \in S /\ \A k \in S : k <= Max(S)
<1> DEFINE T == {m \in Nat : \A U \in SUBSET (1 .. m) : U # {} => \E x \in U : \A y \in U : x >= y}
<1>1. 0 \in T
  <2>1. \A U \in SUBSET (1 .. 0) : U = {}  OBVIOUS
  <2> QED  BY <2>1
<1>2. ASSUME NEW m \in T PROVE m + 1 \in T
  <2>1. ASSUME NEW U \in SUBSET (1 .. m + 1), U # {} PROVE \E x \in U : \A y \in U : x >= y
    <3>1. CASE m + 1 \in U  BY <2>1, <3>1
    <3>2. CASE m + 1 \notin U
      <4>1. U \subseteq 1 .. m  BY <1>2, <3>2
      <4> QED  BY <1>2, <2>1, <4>1
    <3> QED  BY <3>1, <3>2
  <2> QED  BY <1>2, <2>1
<1>3. T = Nat
  <2>1. T \in SUBSET Nat  OBVIOUS
  <2> HIDE DEF T
  <2> QED  BY <1>1, <1>2, <2>1, SetInduction
<1>4. \E x \in S : \A y \in S : x >= y  BY <1>3
<1> QED  BY <1>4 DEF Max

LEMMA IterationUnique ==
  ASSUME NEW b, NEW s, NEW n \in Nat, NEW g, NEW h,
         Iterates(g, b, s, n), Iterates(h, b, s, n)
  PROVE  g = h
<1> DEFINE T == {m \in Nat : \A u, v : Iterates(u, b, s, m) /\ Iterates(v, b, s, m) => u = v}
<1>1. 0 \in T
  <2>1. SUBSET (1 .. 0) = {{}}  OBVIOUS
  <2> QED  BY <2>1 DEF Iterates
<1>2. ASSUME NEW m \in T PROVE m + 1 \in T
  <2> SUFFICES ASSUME NEW u, NEW v, Iterates(u, b, s, m + 1), Iterates(v, b, s, m + 1)
               PROVE  u = v
    BY <1>2
  <2> DEFINE Less(f) == [S \in SUBSET (1 .. m) |-> f[S]]
  <2>1. ASSUME NEW f, Iterates(f, b, s, m + 1) PROVE Iterates(Less(f), b, s, m)
    <3>1. ASSUME NEW S \in SUBSET (1 .. m)
          PROVE  f[S] = IF S = {} THEN b ELSE Edited(f[S \ {Max(S)}], s[Max(S)])
      <4>1. S \in SUBSET (1 .. m + 1)  BY <1>2
      <4> QED  BY <2>1, <4>1, Zenon DEF Iterates
    <3>2. ASSUME NEW S \in SUBSET (1 .. m)
          PROVE  Less(f)[S \ {Max(S)}] = f[S \ {Max(S)}]
      BY Zenon
    <3>3. Less(f) = [S \in SUBSET (1 .. m) |->
                       IF S = {} THEN b ELSE Edited(Less(f)[S \ {Max(S)}], s[Max(S)])]
      BY <3>1, <3>2, Zenon
    <3> QED  BY <3>3, Zenon DEF Iterates
  <2>2. Less(u) = Less(v)
    <3>1. Iterates(Less(u), b, s, m) /\ Iterates(Less(v), b, s, m)  BY <2>1
    <3> HIDE DEF Less
    <3> QED  BY <1>2, <3>1
  <2>3. ASSUME NEW S \in SUBSET (1 .. m + 1) PROVE u[S] = v[S]
    <3>1. CASE m + 1 \notin S
      <4>1. S \in SUBSET (1 .. m)  BY <1>2, <3>1
      <4> QED  BY <2>2, <4>1, Zenon
    <3>2. CASE m + 1 \in S
      <4>1. m + 1 \in Nat  BY <1>2
      <4>2. Max(S) = m + 1
        <5>1. Max(S) \in S /\ m + 1 <= Max(S)  BY <3>2, <4>1, MaxIsOne
        <5>2. m \in Nat /\ Max(S) \in 1 .. m + 1  BY <1>2, <5>1
        <5> HIDE <1>2
        <5> QED  BY <5>1, <5>2
      <4>3. S \ {m + 1} \in SUBSET (1 .. m)  BY <1>2
      <4>4. u[S \ {m + 1}] = v[S \ {m + 1}]  BY <2>2, <4>3, Zenon
      <4>5. u[S] = Edited(u[S \ {m + 1}], s[m + 1]) /\ v[S] = Edited(v[S \ {m + 1}], s[m + 1])
        BY <3>2, <4>2, Zenon DEF Iterates
      <4> QED  BY <4>4, <4>5, Zenon
    <3> QED  BY <3>1, <3>2
  <2> QED  BY <2>3, Zenon DEF Iterates
<1>3. T = Nat
  <2>1. T \in SUBSET Nat  OBVIOUS
  <2> HIDE DEF T
  <2> QED  BY <1>1, <1>2, <2>1, SetInduction
<1> QED  BY <1>3

LEMMA IterationExists ==
  ASSUME NEW b, NEW s, NEW n \in Nat
  PROVE  \E g : Iterates(g, b, s, n)
<1> DEFINE T == {m \in Nat : \E g : Iterates(g, b, s, m)}
<1>1. 0 \in T
  <2>1. Iterates([S \in SUBSET (1 .. 0) |-> b], b, s, 0)
    <3>1. \A S \in SUBSET (1 .. 0) : S = {}  OBVIOUS
    <3> QED  BY <3>1, Zenon DEF Iterates
  <2> QED  BY <2>1
<1>2. ASSUME NEW m \in T PROVE m + 1 \in T
  <2>1. PICK g : Iterates(g, b, s, m)  BY <1>2
  <2> DEFINE h == [S \in SUBSET (1 .. m + 1) |->
                     IF m + 1 \in S THEN Edited(g[S \ {m + 1}], s[m + 1]) ELSE g[S]]
  <2>2. ASSUME NEW S \in SUBSET (1 .. m + 1)
        PROVE  h[S] = IF S = {} THEN b ELSE Edited(h[S \ {Max(S)}], s[Max(S)])
    <3>1. CASE m + 1 \notin S
      <4>1. S \in SUBSET (1 .. m)  BY <1>2, <3>1
      <4>2. h[S] = g[S]  BY <3>1, Zenon
      <4>3. S \ {Max(S)} \in SUBSET (1 .. m + 1) /\ m + 1 \notin S \ {Max(S)}
        BY <3>1, Zenon
      <4>4. h[S \ {Max(S)}] = g[S \ {Max(S)}]  BY <4>3, Zenon
      <4> QED  BY <2>1, <4>1, <4>2, <4>4, Zenon DEF Iterates
    <3>2. CASE m + 1 \in S
      <4>1. m + 1 \in Nat  BY <1>2
      <4>2. Max(S) = m + 1
        <5>1. Max(S) \in S /\ m + 1 <= Max(S)  BY <3>2, <4>1, MaxIsOne
        <5>2. m \in Nat /\ Max(S) \in 1 .. m + 1  BY <1>2, <5>1
        <5> HIDE <1>2
        <5> QED  BY <5>1, <5>2
      <4>3. S \ {m + 1} \in SUBSET (1 .. m + 1) /\ m + 1 \notin S \ {m + 1}  BY Zenon
      <4>4. h[S \ {m + 1}] = g[S \ {m + 1}]  BY <4>3, Zenon
      <4>5. h[S] = Edited(g[S \ {m + 1}], s[m + 1])  BY <3>2, Zenon
      <4> QED  BY <3>2, <4>2, <4>4, <4>5, Zenon
    <3> QED  BY <3>1, <3>2
  <2>3. Iterates(h, b, s, m + 1)
    <3>1. h = [S \in SUBSET (1 .. m + 1) |-> h[S]]  BY Zenon
    <3> HIDE DEF h
    <3> QED  BY <2>2, <3>1, Zenon DEF Iterates
  <2> HIDE DEF h
  <2> QED  BY <1>2, <2>3
<1>3. T = Nat
  <2>1. T \in SUBSET Nat  OBVIOUS
  <2> HIDE DEF T
  <2> QED  BY <1>1, <1>2, <2>1, SetInduction
<1> QED  BY <1>3

Fold(b, s) == FoldLeft(Edited, b, s)

LEMMA FoldIterates ==
  ASSUME NEW b, NEW s, NEW n \in Nat, DOMAIN s = 1 .. n, NEW g, Iterates(g, b, s, n)
  PROVE  Fold(b, s) = g[1 .. n]
<1>1. Fold(b, s) = (CHOOSE f : Iterates(f, b, s, n))[1 .. n]
  BY Zenon DEF Fold, FoldLeft, MapThenFoldSet, Iterates
<1>2. Iterates((CHOOSE f : Iterates(f, b, s, n)), b, s, n)
  BY Zenon
<1>3. (CHOOSE f : Iterates(f, b, s, n)) = g
  BY <1>2, IterationUnique, Zenon
<1> QED  BY <1>1, <1>3

(***************************************************************************)
(* Nothing was typed, and one more key was typed.                          *)
(***************************************************************************)
LEMMA FoldNothing == ASSUME NEW b PROVE Fold(b, <<>>) = b
<1>1. PICK g : Iterates(g, b, <<>>, 0)  BY IterationExists
<1>2. DOMAIN <<>> = 1 .. 0  OBVIOUS
<1>3. Fold(b, <<>>) = g[1 .. 0]  BY <1>1, <1>2, FoldIterates
<1>4. 1 .. 0 = {}  OBVIOUS
<1>5. g[{}] = b  BY <1>1, Zenon DEF Iterates
<1> QED  BY <1>3, <1>4, <1>5

LEMMA FoldAppend ==
  ASSUME NEW S, NEW b, NEW s \in Seq(S), NEW k \in S
  PROVE  Fold(b, Append(s, k)) = Edited(Fold(b, s), k)
<1> DEFINE n == Len(s)
           t == Append(s, k)
<1>0. n \in Nat  BY LenProperties
<1>1. DOMAIN s = 1 .. n /\ DOMAIN t = 1 .. n + 1 /\ t[n + 1] = k
      /\ \A i \in 1 .. n : t[i] = s[i]
  BY LenProperties, AppendProperties
<1> HIDE DEF n, t
<1> n \in Nat  BY <1>0
<1> n + 1 \in Nat /\ n + 1 \in 1 .. n + 1  OBVIOUS
<1> 1 .. n + 1 # {}  OBVIOUS
<1>2. PICK g : Iterates(g, b, t, n + 1)  BY IterationExists
<1> DEFINE h == [U \in SUBSET (1 .. n) |-> g[U]]
<1>3. Iterates(h, b, s, n)
  <2>1. ASSUME NEW U \in SUBSET (1 .. n)
        PROVE  h[U] = IF U = {} THEN b ELSE Edited(h[U \ {Max(U)}], s[Max(U)])
    <3>1. U \in SUBSET (1 .. n + 1)  BY <1>1
    <3>2. h[U] = g[U] /\ h[U \ {Max(U)}] = g[U \ {Max(U)}]  BY Zenon
    <3>3. CASE U = {}  BY <1>2, <3>1, <3>2, <3>3, Zenon DEF Iterates
    <3>4. CASE U # {}
      <4>1. s[Max(U)] = t[Max(U)]  BY <1>1, <3>4, MaxIsOne
      <4> QED  BY <1>2, <3>1, <3>2, <3>4, <4>1, Zenon DEF Iterates
    <3> QED  BY <3>3, <3>4
  <2>2. h = [U \in SUBSET (1 .. n) |-> h[U]]  BY Zenon
  <2> HIDE DEF h
  <2> QED  BY <2>1, <2>2, Zenon DEF Iterates
<1>4. g[1 .. n + 1] = Edited(h[1 .. n], k)
  <2>1. Max(1 .. n + 1) = n + 1
    <3>1. Max(1 .. n + 1) \in 1 .. n + 1 /\ n + 1 <= Max(1 .. n + 1)  BY MaxIsOne
    <3> QED  BY <3>1
  <2>2. (1 .. n + 1) \ {n + 1} = 1 .. n  BY <1>1
  <2>3. h[1 .. n] = g[1 .. n]  OBVIOUS
  <2>4. g[1 .. n + 1] = Edited(g[(1 .. n + 1) \ {Max(1 .. n + 1)}], t[Max(1 .. n + 1)])
    BY <1>2, Zenon DEF Iterates
  <2> QED  BY <1>1, <2>1, <2>2, <2>3, <2>4
<1>5. Fold(b, t) = g[1 .. n + 1]
  BY <1>1, <1>2, FoldIterates
<1> HIDE DEF h
<1>6. Fold(b, s) = h[1 .. n]  BY <1>1, <1>3, FoldIterates
<1> QED  BY <1>4, <1>5, <1>6 DEF t

-----------------------------------------------------------------------------
(***************************************************************************)
(* Every key has edited the text once, but for the one of a frame that is  *)
(* not rendered yet (tick, InputField::Render).                            *)
(***************************************************************************)
Shows(t, keys) == t = Fold(base, keys)
TypedInv ==
  ~dropped =>
    /\ pc \in {"tick", "rename", "place"} => Shows(text, since)
    /\ pc = "render" /\ key = NoKey => Shows(text, since)
    /\ pc = "render" /\ key # NoKey =>
         \E keys \in Seq(Keys) : since = Append(keys, key) /\ Shows(text, keys)

\* No key, and Enter, leave the text as it is.
LEMMA EditedSame == \A t : Edited(t, NoKey) = t /\ Edited(t, Enter) = t
BY DEF Edited, NoKey, Enter, Backspace

LEMMA SameText ==
  ASSUME TypedInv, UNCHANGED <<text, dropped, base, since, pc, key>> PROVE TypedInv'
BY DEF TypedInv, Shows

\* The key of the frame edits the text, or there was none.
LEMMA KeyShown ==
  ASSUME Typed, TypedInv, pc = "render", ~dropped, UNCHANGED <<base, since>>,
         text' = Edited(text, key)
  PROVE  Shows(text, since)'
<1> since' = since /\ base' = base  OBVIOUS
<1>1. CASE key = NoKey
  BY <1>1, EditedSame DEF TypedInv, Shows
<1>2. CASE key # NoKey
  <2>1. PICK keys \in Seq(Keys) : since = Append(keys, key) /\ Shows(text, keys)
    BY <1>2 DEF TypedInv
  <2>2. key \in Keys  BY <1>2 DEF Typed, TypeOK
  <2>3. Fold(base, since) = Edited(text, key)
    BY <2>1, <2>2, FoldAppend DEF Shows
  <2> QED  BY <2>3 DEF Shows
<1> QED  BY <1>1, <1>2

LEMMA MainLoopShows == ASSUME Typed, TypedInv, MainLoop PROVE TypedInv'
<1> USE DEF frameVars, keyVars, history, fieldVars
<1>1. CASE RenderDisabled
  BY <1>1 DEF RenderDisabled, TypedInv, Shows
<1>2. CASE RenderKey
  <2> SUFFICES ASSUME ~dropped' PROVE Shows(text, since)'
    BY <1>2 DEF RenderKey, TypedInv
  <2>1. ~dropped /\ (key = NoKey \/ state')  BY <1>2 DEF RenderKey, Typed, TypeOK
  <2>2. text' = Edited(text, key)  BY <1>2, <2>1, EditedSame DEF RenderKey
  <2> QED  BY <1>2, <2>1, <2>2, KeyShown DEF RenderKey
<1>3. CASE EnterPlace
  BY <1>3, FoldNothing DEF EnterPlace, TypedInv, Shows
<1>4. CASE EnterName
  <2> SUFFICES ASSUME ~dropped' PROVE Shows(text, since)'
    BY <1>4 DEF EnterName, TypedInv
  <2>1. ~dropped /\ text' = Edited(text, key)  BY <1>4, EditedSame DEF EnterName
  <2> QED  BY <1>4, <2>1, KeyShown DEF EnterName
<1>5. CASE Renamed \/ Place
  BY <1>5 DEF Renamed, Place, TypedInv, Shows
<1>6. CASE Tick
  <2>1. CASE keyPressed = <<>>
    BY <1>6, <2>1 DEF Tick, TypedInv, Shows, KeyIfNone, NoKey, Q
  <2>2. CASE keyPressed # <<>> /\ ~dropped
    <3>1. since \in Seq(Keys) /\ Shows(text, since)
      BY <1>6, <2>2 DEF Tick, Typed, TypeOK, TypedInv
    <3>2. since' = Append(since, key') /\ base' = base /\ text' = text
          /\ pc' \in {"exited", "render"}
      BY <1>6, <2>2 DEF Tick
    <3>3. key' # NoKey
      BY <1>6, <2>2, HeadTailProperties, CharsAssumption
         DEF Tick, Typed, TypeOK, Keys, NoKey, Backspace, Enter, Q
    <3> QED  BY <3>1, <3>2, <3>3 DEF TypedInv, Shows
  <2>3. CASE dropped
    BY <1>6, <2>3 DEF Tick, TypedInv
  <2> QED  BY <2>1, <2>2, <2>3
<1> QED  BY <1>1, <1>2, <1>3, <1>4, <1>5, <1>6 DEF MainLoop

LEMMA IoThreadShows == ASSUME Typed, TypedInv, IoThread PROVE TypedInv'
<1>1. CASE (\E n \in LightNames : NewLight(n)) \/ Close \/ PopupId
  BY <1>1, SameText DEF NewLight, Close, PopupId, history, frameVars
<1>2. CASE PopupText
  <2> USE <1>2 DEF PopupText, frameVars
  <2>1. Shows(text, <<>>)'  BY FoldNothing DEF Shows
  <2>2. CASE pc = "render" /\ key # NoKey
    <3>1. since' = Append(<<>>, key')  BY <2>2
    <3> QED  BY <2>1, <2>2, <3>1, EmptySeq DEF TypedInv, Shows
  <2>3. CASE ~(pc = "render" /\ key # NoKey)
    BY <2>1, <2>3 DEF TypedInv, Shows
  <2> QED  BY <2>2, <2>3
<1> QED  BY <1>1, <1>2 DEF IoThread

(***************************************************************************)
(* While the field ignores none, the popup shows what was typed, for any   *)
(* number of keys and however the two threads interleave (tick,            *)
(* InputField::Render, AddNewClient, NewClientConnected).                  *)
(***************************************************************************)
THEOREM PopupShowsWhatIsTyped == Spec => []TextAsTyped
<1>1. Init => TypedInv
  BY FoldNothing DEF Init, TypedInv, Shows
<1>2. Typed /\ TypedInv /\ [Next]_vars => TypedInv'
  <2> SUFFICES ASSUME Typed, TypedInv, [Next]_vars PROVE TypedInv'  OBVIOUS
  <2>1. CASE User \/ UNCHANGED vars
    <3>1. UNCHANGED <<text, dropped, base, since, pc, key>>
      BY <2>1 DEF User, MoveMouse, PressOrRelease, TypeKey, vars, fieldVars, frameVars, history
    <3> QED  BY <3>1, SameText
  <2> QED  BY <2>1, MainLoopShows, IoThreadShows DEF Next
<1>3. TypedInv => TextAsTyped
  BY DEF TypedInv, TextAsTyped, Shows, Fold
<1> QED  BY <1>1, <1>2, <1>3, PopupTyped, PTL DEF Spec
=============================================================================
