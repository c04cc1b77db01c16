------------------------------- MODULE Renderer -------------------------------
(***************************************************************************)
(* The renderer (libs/WindowMangerV2.hpp) with the stylesheet of the tally *)
(* program (element.css).  A frame reads the terminal's size, lets the     *)
(* elements draw themselves, combines what they drew, and writes only the  *)
(* cells that differ from the screen it remembers.  The user resizes the   *)
(* terminal whenever he likes.                                             *)
(***************************************************************************)
EXTENDS Integers, FiniteSets

CONSTANTS Sizes,     \* the sizes the terminal can have
          Looks,     \* what an element can look like: its colour and text
          TextLen    \* the length of the texts

ASSUME SizesAssumption == Sizes # {} /\ Sizes \subseteq [w : Nat \ {0}, h : Nat \ {0}]
ASSUME LooksAssumption == "black" \notin Looks /\ TextLen \in Nat

Cameras  == 1 .. 4
Field    == 5   \* the popup, which is added to the window last
Elements == 1 .. 5

\* element.css: left, top, width and height in percent.
CameraRule(left, top) == [left |-> left, top |-> top, width |-> 50, height |-> 50]
Sheet == [e \in Elements |->
  CASE e = 1     -> CameraRule(0, 0)
    [] e = 2     -> CameraRule(50, 0)
    [] e = 3     -> CameraRule(0, 50)
    [] e = 4     -> CameraRule(50, 50)
    [] e = Field -> CameraRule(25, 25)]

VARIABLES
  termSize, terminal,   \* the terminal: its size, and what is in its cells
  oldSize, oldScreen,   \* Screen::oldScreen
  screen,     \* the frame composed last, of the size oldSize
  look, enabled,        \* how the elements look; is the popup enabled?
  pc,         \* has the frame been composed, or drawn?
  resized,    \* history: was the terminal resized since its size was read?
  missed      \* history: ... and back again, so that no frame noticed?

vars == <<termSize, terminal, oldSize, oldScreen, screen, look, enabled, pc,
          resized, missed>>

Cells(s) == (0 .. s.w - 1) \X (0 .. s.h - 1)
NoSize   == [w |-> 0, h |-> 0]

Glyphs  == {"-", "|", "text", " "}
Drawn   == [glyph : Glyphs, look : Looks]
Black(glyph) == [glyph |-> glyph, look |-> "black"]
Blank   == Black(" ")          \* the window's own background
Garbage == Black("garbage")    \* Pixel() assigns the colours, but not ch
Unknown == Black("unknown")    \* in the terminal: whatever a resize leaves there

TypeOK ==
  /\ termSize \in Sizes
  /\ terminal \in [Cells(termSize) -> Drawn \cup {Blank, Unknown}]
  /\ oldSize \in Sizes \cup {NoSize}
  /\ oldScreen \in [Cells(oldSize) -> Drawn \cup {Blank, Garbage}]
  /\ screen \in [Cells(oldSize) -> Drawn \cup {Blank}]
  /\ look \in [Elements -> Looks] /\ enabled \in BOOLEAN
  /\ pc \in {"compose", "draw"} /\ resized \in BOOLEAN /\ missed \in BOOLEAN

Init ==
  /\ termSize \in Sizes /\ terminal = [c \in Cells(termSize) |-> Unknown]
  /\ oldSize = NoSize /\ oldScreen = [c \in Cells(NoSize) |-> Garbage]
  /\ screen = [c \in Cells(NoSize) |-> Blank]
  /\ look \in [Elements -> Looks] /\ enabled = FALSE
  /\ pc = "compose" /\ resized = FALSE /\ missed = FALSE

-----------------------------------------------------------------------------
(* Between the frames.                                                      *)

\* Terminals differ in what they keep.
Resize(s) ==
  /\ s # termSize
  /\ termSize' = s
  /\ terminal' = [c \in Cells(s) |-> Unknown]
  /\ resized'  = TRUE
  /\ UNCHANGED <<oldSize, oldScreen, screen, look, enabled, pc, missed>>

\* An event, a callback or the io thread changes an element.  Drawing reads
\* no element, so that a change meanwhile is like one after it.
Restyle(e, l) ==
  /\ pc = "compose" /\ look[e] # l
  /\ look' = [look EXCEPT ![e] = l]
  /\ UNCHANGED <<termSize, terminal, oldSize, oldScreen, screen, enabled, pc,
                 resized, missed>>

OpenOrClose ==
  /\ pc = "compose"
  /\ enabled' = ~enabled
  /\ UNCHANGED <<termSize, terminal, oldSize, oldScreen, screen, look, pc,
                 resized, missed>>

-----------------------------------------------------------------------------
(* Composing: Screen::Render, Window::Render, the elements' Render and      *)
(* CombineRenderElements.                                                   *)

\* ConvertToAbsolute: round(p / 100 * n).
RoundedDown(p, n) == (p * n) \div 100   \* mutant
Absolute(p, n) == (2 * p * n + 100) \div 200

\* The rectangle of element e on a screen of size s.
Rect(e, s) == [x |-> Absolute(Sheet[e].left, s.w),  y |-> Absolute(Sheet[e].top, s.h),
               w |-> Absolute(Sheet[e].width, s.w), h |-> Absolute(Sheet[e].height, s.h)]

Covers(e, s, c) ==
  LET r == Rect(e, s)
  IN  /\ r.x <= c[1] /\ c[1] < r.x + r.w
      /\ r.y <= c[2] /\ c[2] < r.y + r.h

\* What an element of size w by h draws into its cell (x, y): the horizontal
\* borders, which are drawn last, the vertical ones, the text in the middle
\* row, as much of it as fits around the middle.
Glyph(w, h, x, y) ==
  CASE y \in {0, h - 1} -> "-"
    [] y \notin {0, h - 1} /\ x \in {0, w - 1} -> "|"
    [] OTHER -> IF y = h \div 2 /\ w <= 2 * x + TextLen /\ 2 * x < w + TextLen
                THEN "text" ELSE " "

\* Later elements are combined over earlier ones; a disabled field draws
\* nothing.
Covering(c, s) == {e \in Elements : Covers(e, s, c) /\ (e = Field => enabled)}
Topmost(S) == CHOOSE e \in S : \A f \in S : f <= e

Composed(s) ==
  [c \in Cells(s) |->
     IF Covering(c, s) = {} THEN Blank
     ELSE LET e == Topmost(Covering(c, s))
              r == Rect(e, s)
          IN  [glyph |-> Glyph(r.w, r.h, c[1] - r.x, c[2] - r.y), look |-> look[e]]]

\* A new size makes the renderer forget what it drew.
SizeKept(s) == oldSize # NoSize   \* mutant
SameSize(s) == oldSize = s

Compose ==
  /\ pc = "compose"
  /\ oldSize' = termSize
  /\ IF SameSize(termSize)
     THEN /\ missed' = (missed \/ resized)
          /\ UNCHANGED oldScreen
     ELSE /\ missed' = FALSE
          /\ oldScreen' = [c \in Cells(termSize) |-> Garbage]
  /\ screen' = Composed(termSize)
  /\ resized' = FALSE
  /\ pc' = "draw"
  /\ UNCHANGED <<termSize, terminal, look, enabled>>

-----------------------------------------------------------------------------
(* Drawing: RenderToScreen.                                                 *)

\* Garbage may happen to be a space; its colour differs from every look's.
DiffersByLook(c) == oldScreen[c] = Garbage \/ oldScreen[c].look # screen[c].look   \* mutant
Differs(c) == oldScreen[c] # screen[c] /\ ~(oldScreen[c] = Garbage /\ screen[c] = Blank)
MayDiffer == {c \in Cells(oldSize) : oldScreen[c] = Garbage /\ screen[c] = Blank}

\* What is drawn for another size than the terminal has ends up anywhere.
Draw ==
  /\ pc = "draw"
  /\ \E D \in SUBSET MayDiffer :
       terminal' = [c \in Cells(termSize) |->
                      IF resized THEN Unknown
                      ELSE IF Differs(c) \/ c \in D THEN screen[c] ELSE terminal[c]]
  /\ oldScreen' = screen
  /\ pc' = "compose"
  /\ UNCHANGED <<termSize, oldSize, screen, look, enabled, resized, missed>>

MainLoop == Compose \/ Draw

Next ==
  \/ \E s \in Sizes : Resize(s)
  \/ \E e \in Elements, l \in Looks : Restyle(e, l)
  \/ OpenOrClose
  \/ MainLoop

Spec == Init /\ [][Next]_vars

-----------------------------------------------------------------------------
(***************************************************************************)
(* The cameras tile the window: at whatever size a frame is composed,      *)
(* however the percentages round, each cell belongs to exactly one of them *)
(* (ConvertToAbsolute and CombineRenderElements with element.css).         *)
(***************************************************************************)
Tiled(s) == \A c \in Cells(s) : Cardinality({e \in Cameras : Covers(e, s, c)}) = 1
CamerasTile == Tiled(oldSize)

(***************************************************************************)
(* Though a frame writes only the cells that differ from what it remembers *)
(* of the one before, the terminal shows it, whatever changed and however  *)
(* the terminal was resized, if not and back between two frames            *)
(* (Screen::Render, RenderToScreen, Pixel).                                *)
(***************************************************************************)
ShowsFrame ==
  pc = "compose" /\ oldSize # NoSize /\ ~resized /\ ~missed => terminal = screen
=============================================================================
