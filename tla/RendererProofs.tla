---------------------------- MODULE RendererProofs ----------------------------
(***************************************************************************)
(* The renderer for every size of the terminal and any looks: the cameras  *)
(* tile the window, and the terminal shows the frame.                      *)
(***************************************************************************)
EXTENDS Renderer, FiniteSetTheorems, TLAPS

(* Half of n, rounded up; two halves cover n.                               *)
LEMMA Halves ==
  ASSUME NEW n \in Nat \ {0}
  PROVE  /\ Absolute(0, n) = 0 /\ Absolute(50, n) \in Nat
         /\ Absolute(50, n) <= n /\ n <= Absolute(50, n) + Absolute(50, n)
<1>1. Absolute(0, n) = 100 \div 200 /\ Absolute(50, n) = (100 * n + 100) \div 200
  BY DEF Absolute
<1>2. 100 \div 200 = 0
  OBVIOUS
<1> DEFINE q == (100 * n + 100) \div 200
<1>3. q \in Int /\ 200 * q <= 100 * n + 100 /\ 100 * n + 100 < 200 * q + 200
  OBVIOUS
<1> QED
  BY <1>1, <1>2, <1>3

(***************************************************************************)
(* At every size each cell belongs to exactly one camera, although halves  *)
(* are rounded (ConvertToAbsolute).                                        *)
(***************************************************************************)
LEMMA Tiling == ASSUME NEW s \in Sizes PROVE Tiled(s)
<1> SUFFICES ASSUME NEW c \in Cells(s)
             PROVE  Cardinality({e \in Cameras : Covers(e, s, c)}) = 1
  BY DEF Tiled
<1> DEFINE p == Absolute(50, s.w)
           q == Absolute(50, s.h)
           right  == p <= c[1]
           bottom == q <= c[2]
           here   == IF right THEN IF bottom THEN 4 ELSE 2
                              ELSE IF bottom THEN 3 ELSE 1
<1>1. s.w \in Nat \ {0} /\ s.h \in Nat \ {0}
  BY SizesAssumption
<1>2. /\ c[1] \in Nat /\ c[1] < s.w
      /\ c[2] \in Nat /\ c[2] < s.h
  BY <1>1 DEF Cells
<1>3. /\ Absolute(0, s.w) = 0 /\ p \in Nat /\ s.w <= p + p
      /\ Absolute(0, s.h) = 0 /\ q \in Nat /\ s.h <= q + q
  BY <1>1, Halves
<1>4. /\ Sheet[1] = CameraRule(0, 0)  /\ Sheet[2] = CameraRule(50, 0)
      /\ Sheet[3] = CameraRule(0, 50) /\ Sheet[4] = CameraRule(50, 50)
  BY DEF Sheet, Elements, Field
<1> HIDE DEF p, q
<1>5. /\ Rect(1, s) = [x |-> 0, y |-> 0, w |-> p, h |-> q]
      /\ Rect(2, s) = [x |-> p, y |-> 0, w |-> p, h |-> q]
      /\ Rect(3, s) = [x |-> 0, y |-> q, w |-> p, h |-> q]
      /\ Rect(4, s) = [x |-> p, y |-> q, w |-> p, h |-> q]
  BY <1>3, <1>4 DEF Rect, CameraRule, p, q
<1>6. /\ Covers(1, s, c) <=> ~right /\ ~bottom
      /\ Covers(2, s, c) <=> right /\ ~bottom
      /\ Covers(3, s, c) <=> ~right /\ bottom
      /\ Covers(4, s, c) <=> right /\ bottom
  <2> HIDE DEF right, bottom
  <2>1. right <=> ~ (c[1] < p)  BY <1>2, <1>3 DEF right
  <2>2. bottom <=> ~ (c[2] < q)  BY <1>2, <1>3 DEF bottom
  <2>3. 0 <= c[1] /\ c[1] < p + p /\ 0 <= c[2] /\ c[2] < q + q
    BY <1>1, <1>2, <1>3
  <2>4. 0 + p = p /\ 0 + q = q
    BY <1>3
  <2>5. right <=> p <= c[1]  BY DEF right
  <2>6. bottom <=> q <= c[2]  BY DEF bottom
  <2>7. Covers(1, s, c) <=> ~right /\ ~bottom
    BY <1>5, <2>1, <2>2, <2>3, <2>4 DEF Covers
  <2>8. Covers(2, s, c) <=> right /\ ~bottom
    BY <1>5, <2>2, <2>3, <2>4, <2>5 DEF Covers
  <2>9. Covers(3, s, c) <=> ~right /\ bottom
    BY <1>5, <2>1, <2>3, <2>4, <2>6 DEF Covers
  <2>10. Covers(4, s, c) <=> right /\ bottom
    BY <1>5, <2>3, <2>5, <2>6 DEF Covers
  <2> QED
    BY <2>7, <2>8, <2>9, <2>10
<1>7. {e \in Cameras : Covers(e, s, c)} = {here}
  BY <1>6 DEF Cameras
<1> QED
  BY <1>7, FS_Singleton

-----------------------------------------------------------------------------
(* So no cell of a frame is left to the window's black background.          *)
LEMMA FrameIsDrawn ==
  ASSUME NEW s \in Sizes, look \in [Elements -> Looks]
  PROVE  Composed(s) \in [Cells(s) -> Drawn]
<1> SUFFICES ASSUME NEW c \in Cells(s)
             PROVE  Composed(s)[c] \in Drawn
  BY DEF Composed
<1>1. Covering(c, s) # {} /\ Covering(c, s) \subseteq Elements
  <2>1. {e \in Cameras : Covers(e, s, c)} # {}
    BY Tiling, FS_EmptySet DEF Tiled
  <2> QED
    BY <2>1 DEF Covering, Cameras, Elements, Field
<1>2. Topmost(Covering(c, s)) \in Elements
  <2>1. \A S \in SUBSET (1 .. 5) : S # {} => \E e \in S : \A f \in S : f <= e
    <3> SUFFICES ASSUME NEW S \in SUBSET (1 .. 5), S # {}
                 PROVE  \E e \in S : \A f \in S : f <= e
      OBVIOUS
    <3>1. \A e \in S : e \in 1 .. 5
      OBVIOUS
    <3>2. CASE 5 \in S  BY <3>1, <3>2
    <3>3. CASE 5 \notin S /\ 4 \in S  BY <3>1, <3>3
    <3>4. CASE 5 \notin S /\ 4 \notin S /\ 3 \in S  BY <3>1, <3>4
    <3>5. CASE 5 \notin S /\ 4 \notin S /\ 3 \notin S /\ 2 \in S  BY <3>1, <3>5
    <3>6. CASE 5 \notin S /\ 4 \notin S /\ 3 \notin S /\ 2 \notin S
      <4>1. \A e \in S : e = 1  BY <3>1, <3>6
      <4>2. PICK e \in S : TRUE  OBVIOUS
      <4>3. e = 1  BY <4>1
      <4>4. \A f \in S : f <= e
        <5> SUFFICES ASSUME NEW f \in S PROVE f <= e  OBVIOUS
        <5>1. f = 1  BY <4>1
        <5> QED  BY <4>3, <5>1
      <4> QED  BY <4>4
    <3> QED  BY <3>2, <3>3, <3>4, <3>5, <3>6
  <2> QED
    BY <1>1, <2>1 DEF Topmost, Elements
<1>3. look[Topmost(Covering(c, s))] \in Looks
  BY <1>2
<1>4. \A w, h, x, y : Glyph(w, h, x, y) \in Glyphs
  BY DEF Glyph, Glyphs
<1> QED
  BY <1>1, <1>3, <1>4 DEF Composed, Drawn

(***************************************************************************)
(* What oldScreen remembers is in the terminal, unless a resize was        *)
(* missed; Garbage stands for what it does not know.  (Screen::Render,     *)
(* RenderToScreen.)                                                        *)
(***************************************************************************)
Known == \A c \in Cells(oldSize) : oldScreen[c] = Garbage \/ terminal[c] = oldScreen[c]
RInv ==
  /\ termSize \in Sizes /\ oldSize \in Sizes \cup {NoSize}
  /\ terminal = [c \in Cells(termSize) |-> terminal[c]]
  /\ screen \in [Cells(oldSize) -> Drawn]
  /\ look \in [Elements -> Looks]
  /\ resized \in BOOLEAN /\ missed \in BOOLEAN
  /\ pc = "draw" => oldSize \in Sizes
  /\ pc = "compose" => oldScreen = screen
  /\ oldSize \in Sizes /\ ~resized => termSize = oldSize
  /\ oldSize \in Sizes /\ ~resized /\ ~missed => Known

LEMMA InitInv == Init => RInv
<1> SUFFICES ASSUME Init PROVE RInv
  OBVIOUS
<1>1. Cells(NoSize) = {}
  BY DEF Cells, NoSize
<1>2. oldSize \notin Sizes
  BY SizesAssumption DEF Init, NoSize
<1>3. screen = oldScreen /\ screen \in [Cells(oldSize) -> Drawn]
  BY <1>1 DEF Init
<1> QED
  BY <1>1, <1>2, <1>3 DEF Init, RInv

LEMMA ComposeKeeps == ASSUME RInv, Compose PROVE RInv'
<1>1. screen' \in [Cells(oldSize') -> Drawn]
  BY FrameIsDrawn DEF RInv, Compose
<1>2. CASE oldSize = termSize
  BY <1>1, <1>2 DEF RInv, Compose, SameSize, Known
<1>3. CASE oldSize # termSize
  BY <1>1, <1>3 DEF RInv, Compose, SameSize, Known
<1> QED
  BY <1>2, <1>3

LEMMA DrawKeeps == ASSUME RInv, Draw PROVE RInv'
<1>1. oldSize' \in Sizes /\ UNCHANGED <<termSize, oldSize, screen, look, resized, missed>>
  BY DEF RInv, Draw
<1>2. oldScreen' = screen' /\ pc' = "compose"
  BY DEF Draw
<1>3. terminal' = [c \in Cells(termSize') |-> terminal'[c]]
  BY DEF Draw
<1>4. ASSUME ~resized, ~missed PROVE Known'
  <2> SUFFICES ASSUME NEW c \in Cells(oldSize) PROVE terminal'[c] = screen[c]
    BY <1>1, <1>2 DEF Known
  <2>1. screen[c] # Garbage /\ screen[c] # Blank
    <3>1. screen[c] \in Drawn
      BY DEF RInv
    <3>2. screen[c].look # "black"
      BY <3>1, LooksAssumption DEF Drawn
    <3>3. Garbage.look = "black" /\ Blank.look = "black"
      BY DEF Garbage, Blank, Black
    <3> QED
      BY <3>2, <3>3
  <2>2. termSize = oldSize /\ (oldScreen[c] = Garbage \/ terminal[c] = oldScreen[c])
    BY <1>1, <1>4 DEF RInv, Known
  <2>3. Differs(c) \/ terminal[c] = screen[c]
    BY <2>1, <2>2 DEF Differs
  <2> QED
    BY <1>4, <2>2, <2>3 DEF Draw
<1> QED
  BY <1>1, <1>2, <1>3, <1>4 DEF RInv

LEMMA OtherKeeps ==
  ASSUME RInv, (\E s \in Sizes : Resize(s)) \/ (\E e \in Elements, l \in Looks : Restyle(e, l))
               \/ OpenOrClose \/ UNCHANGED vars
  PROVE  RInv'
<1>1. ASSUME NEW s \in Sizes, Resize(s) PROVE RInv'
  BY <1>1 DEF Resize, RInv
<1>2. ASSUME NEW e \in Elements, NEW l \in Looks, Restyle(e, l) PROVE RInv'
  BY <1>2 DEF Restyle, RInv, Known
<1>3. CASE OpenOrClose
  BY <1>3 DEF OpenOrClose, RInv, Known
<1>4. CASE UNCHANGED vars
  BY <1>4 DEF vars, RInv, Known
<1> QED
  BY <1>1, <1>2, <1>3, <1>4

LEMMA Invariant == Spec => []RInv
<1>1. RInv /\ [Next]_vars => RInv'
  BY ComposeKeeps, DrawKeeps, OtherKeeps DEF Next, MainLoop
<1> QED
  BY InitInv, <1>1, PTL DEF Spec

(***************************************************************************)
(* The cameras tile every frame (ConvertToAbsolute).                       *)
(***************************************************************************)
THEOREM FrameTiled == Spec => []CamerasTile
<1>1. RInv => CamerasTile
  <2>1. Tiled(NoSize)
    BY DEF Tiled, Cells, NoSize
  <2> QED
    BY Tiling, <2>1 DEF RInv, CamerasTile
<1> QED
  BY Invariant, <1>1, PTL

(***************************************************************************)
(* The terminal shows the frame, although only differences are written,    *)
(* for every size and any looks (Screen::Render, RenderToScreen).          *)
(***************************************************************************)
THEOREM FrameShown == Spec => []ShowsFrame
<1>1. RInv => ShowsFrame
  <2> SUFFICES ASSUME RInv, pc = "compose", oldSize # NoSize, ~resized, ~missed
               PROVE  terminal = screen
    BY DEF ShowsFrame
  <2>1. termSize = oldSize /\ Known /\ oldScreen = screen
    BY DEF RInv
  <2>2. \A c \in Cells(oldSize) : terminal[c] = screen[c]
    BY <2>1, LooksAssumption DEF RInv, Known, Drawn, Garbage, Black
  <2> QED
    BY <2>1, <2>2 DEF RInv
<1> QED
  BY Invariant, <1>1, PTL

(***************************************************************************)
(* The variables keep their types: in particular every cell of a frame is  *)
(* drawn by an element, or by the window, and the screens have the size    *)
(* they are compared and written at (Screen::Render, RenderToScreen).      *)
(***************************************************************************)
THEOREM RendererTypeCorrect == Spec => []TypeOK
<1>1. Init => TypeOK
  <2> SUFFICES ASSUME Init PROVE TypeOK
    OBVIOUS
  <2>1. Cells(NoSize) = {}
    BY DEF Cells, NoSize
  <2>2. oldScreen \in [Cells(oldSize) -> Drawn \cup {Blank, Garbage}]
        /\ screen \in [Cells(oldSize) -> Drawn \cup {Blank}]
    BY <2>1 DEF Init
  <2> QED
    BY <2>2 DEF Init, TypeOK
<1>2. RInv /\ TypeOK /\ [Next]_vars => TypeOK'
  <2> SUFFICES ASSUME RInv, TypeOK, [Next]_vars PROVE TypeOK'
    OBVIOUS
  <2>1. ASSUME NEW s \in Sizes, Resize(s) PROVE TypeOK'
    BY <2>1 DEF Resize, TypeOK
  <2>2. ASSUME NEW e \in Elements, NEW l \in Looks, Restyle(e, l) PROVE TypeOK'
    BY <2>2 DEF Restyle, TypeOK
  <2>3. CASE OpenOrClose
    BY <2>3 DEF OpenOrClose, TypeOK
  <2>4. CASE Compose
    <3>1. screen' \in [Cells(oldSize') -> Drawn]
      BY <2>4, FrameIsDrawn DEF TypeOK, Compose
    <3>2. oldScreen' \in [Cells(oldSize') -> Drawn \cup {Blank, Garbage}]
      BY <2>4 DEF TypeOK, Compose, SameSize
    <3> QED
      BY <2>4, <3>1, <3>2 DEF TypeOK, Compose
  <2>5. CASE Draw
    <3>1. ~resized => termSize = oldSize
      BY <2>5 DEF RInv, Draw
    <3>2. terminal' \in [Cells(termSize) -> Drawn \cup {Blank, Unknown}]
      BY <2>5, <3>1 DEF TypeOK, Draw
    <3> QED
      BY <2>5, <3>2 DEF TypeOK, Draw
  <2>6. CASE UNCHANGED vars
    BY <2>6 DEF vars, TypeOK
  <2> QED
    BY <2>1, <2>2, <2>3, <2>4, <2>5, <2>6 DEF Next, MainLoop
<1> QED
  BY <1>1, <1>2, Invariant, PTL DEF Spec
=============================================================================
