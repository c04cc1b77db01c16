------------------------------- MODULE Widgets -------------------------------
(***************************************************************************)
(* The styles of a window, of Texts and of Buttons (libs/                  *)
(* WindowMangerV2.hpp).  A frame asks each element in turn: one whose css  *)
(* is not up to date is given its pieces of the sheet and parsed; then it  *)
(* renders itself, and a Button whose event changed is parsed again with   *)
(* the piece of that event, and called back when it is pressed.  ParseCss  *)
(* runs each declaration in a thread of its own.                           *)
(***************************************************************************)
EXTENDS Css

CONSTANTS Screen,    \* the id of the window
          Order,     \* its elements, as they were added
          Buttons,   \* those that are Buttons; the others are Texts
          Sheets,    \* what element.css may hold: sequences of rules
          Unset,     \* the colour before any rule: black
          Terminals  \* the sizes the terminal may have

Added    == {Order[k] : k \in DOMAIN Order}
Elements == Added \cup {Screen}
Turn     == <<Screen>> \o Order
Lengths  == {"width", "height"}

ASSUME OrderAssumption   == Order \in Seq(Ids) /\ Screen \in Ids \ Added
ASSUME ButtonsAssumption == Buttons \subseteq Added
ASSUME SheetsAssumption  == Sheets \subseteq Seq(Rule)
ASSUME SizesAssumption   == Lengths \subseteq Props
ASSUME TerminalsAssumption == Terminals \subseteq [Lengths -> Nat]
ASSUME NumbersAssumption ==
  Unset.n \in Nat /\ \A w \in DOMAIN Declares : Declares[w].value.n \in Nat

VARIABLES
  rules, FullCss,   \* the sheet, as its author meant it and as text
  css, cssEvents, upToDate, \* Element: css, css_events, css_is_up_to_date
  style,            \* its position, size and colour, by property
  lastEvent,        \* Button::lastEvent
  cursor, mouseBtn, \* the input thread: the Buttons the cursor is inside of;
                    \* is the left button (32) down?
  mouseKey,         \* the frame's snapshot of mouseBtn
  terminal,         \* ScreenSize() in this frame
  turn, pc,         \* the element whose turn it is, and where it is
  siz,              \* the local of Window::Render, while an event is parsed
  event, then,      \* the local of Button::Render; where ParseCss returns to
  threads           \* the threads of ParseCss that have not ended

sheetVars   == <<rules, FullCss>>
elementVars == <<css, cssEvents, upToDate, style, lastEvent>>
mouseVars   == <<cursor, mouseBtn>>
frameVars   == <<mouseKey, terminal, turn, pc, siz, event, then, threads>>
vars == <<sheetVars, elementVars, mouseVars, frameVars>>

Values  == {v \in {Declares[w].value : w \in DOMAIN Declares} : v.kind # "bare"}
Pieces  == {Piece(FullCss, i) : i \in DOMAIN FullCss}
NoPiece == <<>>
Thread  == [line : Nat, decl : DOMAIN Declares]
InFrame == {"style", "render", "parsing", "parsed"}

NoSize  == [p \in Lengths |-> 0]

Initial(p) == IF p = "background-color" THEN Unset ELSE Nothing

TypeOK ==
  /\ FullCss \in Seq(Tokens)
  /\ \A e \in Elements : \A i \in DOMAIN css[e] : css[e][i] \in Pieces
  /\ \A e \in Elements, ev \in Events : cssEvents[e][ev] \in Pieces \cup {NoPiece}
  /\ upToDate  \in [Elements -> BOOLEAN]
  /\ style     \in [Elements -> [Props -> {Unset, Nothing} \cup Values]]
  /\ lastEvent \in [Buttons -> Events \cup {"beginning"}]
  /\ cursor \subseteq Buttons /\ mouseBtn \in BOOLEAN /\ mouseKey \in BOOLEAN
  /\ terminal \in Terminals /\ siz \in [Lengths -> Nat]
  /\ turn \in DOMAIN Turn /\ pc \in InFrame \cup {"drawn", "aborted"}
  /\ event \in Events /\ then \in InFrame
  /\ threads \subseteq Thread

Init ==
  /\ rules \in Sheets /\ FullCss = Written(rules)
  /\ css       = [e \in Elements |-> <<>>]
  /\ cssEvents = [e \in Elements |-> [ev \in Events |-> NoPiece]]
  /\ upToDate  = [e \in Elements |-> FALSE]
  /\ style     = [e \in Elements |-> [p \in Props |-> Initial(p)]]
  /\ lastEvent = [b \in Buttons |-> "beginning"]
  /\ cursor = {} /\ mouseBtn = FALSE /\ mouseKey = FALSE
  /\ terminal \in Terminals /\ siz = NoSize
  /\ turn = 1 /\ pc = "style" /\ event = "none" /\ then = "render" /\ threads = {}

El == Turn[turn]

-----------------------------------------------------------------------------
(* The input thread.                                                        *)

MoveMouse ==
  /\ \E under \in SUBSET Buttons : under # cursor /\ cursor' = under
  /\ UNCHANGED <<sheetVars, elementVars, mouseBtn, frameVars>>

PressOrRelease ==
  /\ mouseBtn' = ~mouseBtn
  /\ UNCHANGED <<sheetVars, elementVars, cursor, frameVars>>

-----------------------------------------------------------------------------
(* ParseCss.                                                                *)

\* An empty piece is not parsed.  Where there is no brace substr throws, and
\* nothing catches it.
ParseCss(piece, return) ==
  CASE piece = NoPiece ->
         pc' = return /\ UNCHANGED <<then, threads>>
    [] piece # NoPiece /\ ~Opened(piece) ->
         pc' = "aborted" /\ UNCHANGED <<then, threads>>
    [] piece # NoPiece /\ Opened(piece) ->
         pc' = "parsing" /\ then' = return /\ threads' = Callbacks(piece)

\* The setters.  A window has no SetBackgroundColor of its own.
With(e, p, v) == [style EXCEPT ![e][p] = v]
Takes(e, p) == e # Screen \/ p # "background-color"

\* One thread calls the function of its property; the threads run in any order.
RunThread(t) ==
  LET d == Declares[t.decl]
  IN  /\ pc = "parsing" /\ t \in threads
      /\ threads' = threads \ {t}
      /\ IF t.decl \in Unreadable
         THEN pc' = "aborted" /\ UNCHANGED style
         ELSE /\ style' = IF Takes(El, d.prop)
                          THEN With(El, d.prop, Converted(d.value)) ELSE style
              /\ UNCHANGED pc
      /\ UNCHANGED <<sheetVars, css, cssEvents, upToDate, lastEvent, mouseVars,
                     mouseKey, terminal, turn, siz, event, then>>

Join ==
  /\ pc = "parsing" /\ threads = {}
  /\ upToDate' = [upToDate EXCEPT ![El] = TRUE]
  /\ pc' = then
  /\ UNCHANGED <<sheetVars, css, cssEvents, style, lastEvent, mouseVars,
                 mouseKey, terminal, turn, siz, event, then, threads>>

-----------------------------------------------------------------------------
(* Screen::Render and Window::Render.                                       *)

Restyle ==
  /\ pc = "style"
  /\ IF upToDate[El]
     THEN pc' = "render" /\ UNCHANGED <<css, cssEvents, then, threads>>
     ELSE /\ css' = [css EXCEPT ![El] = FindCssById(FullCss, El)]
          /\ cssEvents' = [cssEvents EXCEPT ![El] = CssSelectorSeparator(css'[El], @)]
          /\ ParseCss(cssEvents'[El]["none"], "render")
  /\ UNCHANGED <<sheetVars, upToDate, style, lastEvent, mouseVars,
                 mouseKey, terminal, turn, siz, event>>

\* ConvertToAbsolute: a percentage of n cells is rounded to whole ones.
Absolute(v, n) == IF v.kind = "%" THEN (2 * v.n * n + 100) \div 200 ELSE v.n
SizeOf(look, of) == [p \in Lengths |-> Absolute(look[p], of[p])]

\* The window's size is taken of the terminal, an element's of the window.
WindowSize == SizeOf(style[Screen], terminal)
Size(e)    == SizeOf(style[e], WindowSize)

\* Drawing the borders of an element that has a width or a height but not
\* both reads and writes a pixel of an empty vector: that may end the program.
Flat(size) == (size["width"] = 0) # (size["height"] = 0)

\* The element is drawn in the given size, the next one follows.
TurnEnds(size) ==
  \/ El # Screen /\ Flat(size) /\ pc' = "aborted" /\ UNCHANGED turn
  \/ turn < Len(Turn) /\ turn' = turn + 1 /\ pc' = "style"
  \/ turn = Len(Turn) /\ pc' = "drawn" /\ UNCHANGED turn

RenderPlain ==
  /\ pc = "render" /\ El \notin Buttons
  /\ TurnEnds(Size(El))
  /\ UNCHANGED <<sheetVars, elementVars, mouseVars, mouseKey, terminal, siz,
                 event, then, threads>>

-----------------------------------------------------------------------------
(* Button::Render.                                                          *)

Inside(b) == b \in cursor
Event(b)  == IF ~Inside(b) THEN "none" ELSE IF mouseKey THEN "active" ELSE "hover"

\* Leaving a button brings its normal rule back.
PieceUnlessNormal(b, ev) == IF ev = "none" THEN NoPiece ELSE cssEvents[b][ev]   \* mutant
PieceFor(b, ev) == cssEvents[b][ev]

SameEvent ==
  /\ pc = "render" /\ El \in Buttons /\ lastEvent[El] = Event(El)
  /\ TurnEnds(Size(El))
  /\ UNCHANGED <<sheetVars, elementVars, mouseVars, mouseKey, terminal, siz,
                 event, then, threads>>

\* The size to draw it in was taken before its rule is parsed.
NewEvent ==
  /\ pc = "render" /\ El \in Buttons /\ lastEvent[El] # Event(El)
  /\ event' = Event(El) /\ siz' = Size(El)
  /\ ParseCss(PieceFor(El, event'), "parsed")
  /\ UNCHANGED <<sheetVars, elementVars, mouseVars, mouseKey, terminal, turn>>

\* The callback of a press is called here; main()'s only prints.
EventParsed ==
  /\ pc = "parsed"
  /\ lastEvent' = [lastEvent EXCEPT ![El] = event]
  /\ TurnEnds(siz)
  /\ siz' = NoSize
  /\ UNCHANGED <<sheetVars, css, cssEvents, upToDate, style, mouseVars, mouseKey,
                 terminal, event, then, threads>>

-----------------------------------------------------------------------------
Tick ==
  /\ pc = "drawn"
  /\ mouseKey' = mouseBtn /\ terminal' \in Terminals
  /\ turn' = 1 /\ pc' = "style"
  /\ UNCHANGED <<sheetVars, elementVars, mouseVars, siz, event, then, threads>>

MainLoop == Restyle \/ Join \/ RenderPlain \/ SameEvent \/ NewEvent \/ EventParsed \/ Tick

Next == MoveMouse \/ PressOrRelease \/ MainLoop \/ \E t \in threads : RunThread(t)

Spec == Init /\ [][Next]_vars

-----------------------------------------------------------------------------
LastEvent(e) == IF e \in Buttons THEN lastEvent[e] ELSE "none"

RulesOf(e) == UNION {RulesFor(rules, e, ev) : ev \in Events}
WellWritten(e) == Apart(rules, e) /\ \A r \in RulesOf(e) : Tidy(r)

(***************************************************************************)
(* When a frame is drawn every element looks as the rule for its event     *)
(* says, wherever the rule stands in the sheet, whatever stands around it, *)
(* and in whatever order the threads ran: finding pieces by their id,      *)
(* telling them apart and parsing them amounts to what the author meant,   *)
(* for an element whose rules are well written (findCssById,               *)
(* cssSelectorSepreator, ParseCss, Button::Render).                        *)
(***************************************************************************)
StyleAsWritten ==
  pc = "drawn" =>
    \A e \in Elements : WellWritten(e) =>
      \A r \in RulesFor(rules, e, LastEvent(e)) : \A p \in Declared(r) :
        Takes(e, p) => style[e][p] = ValueIn(r, p)

(***************************************************************************)
(* What hovering and pressing did to a button does not outlast them: once  *)
(* it is left it looks as if it had never been entered, if its normal rule *)
(* declares whatever its other rules declare (Button::Render applies a     *)
(* rule over the one before it and never takes one back).                  *)
(***************************************************************************)
NormalCovers(e) ==
  \E r \in RulesFor(rules, e, "none") : \A q \in RulesOf(e) : Declared(q) \subseteq Declared(r)
BackToNormal ==
  pc = "drawn" =>
    \A e \in Added : WellWritten(e) /\ NormalCovers(e) /\ LastEvent(e) = "none" =>
      \A r \in RulesFor(rules, e, "none") : \A p \in Props :
        style[e][p] = IF p \in Declared(r) THEN ValueIn(r, p) ELSE Initial(p)

(***************************************************************************)
(* A well written sheet does not end the program, nor draws a flat element *)
(* if an element with a size has both parts of it in its normal rule, and  *)
(* no rule gives it one that is 0 or a percentage that comes to 0 cells in *)
(* this window and one of the terminals (without a rule for the window all *)
(* do): the declarations of a rule are joined before the element is drawn, *)
(* and the rules of hovering and pressing come on top (ParseCss,           *)
(* ConvertToAbsolute, RenderElement).                                      *)
(***************************************************************************)
Meant(e, p) ==
  LET of == {r \in RulesFor(rules, e, "none") : p \in Declared(r)}
  IN  IF of = {} THEN Initial(p) ELSE ValueIn(CHOOSE r \in of : TRUE, p)
Visible(v, p) == \A t \in Terminals : Absolute(v, Absolute(Meant(Screen, p), t[p])) # 0
Sized(e) ==
  LET sized == {r \in RulesOf(e) : Declared(r) \cap Lengths # {}}
  IN  /\ sized # {} => \E r \in RulesFor(rules, e, "none") : Lengths \subseteq Declared(r)
      /\ \A r \in sized : \A p \in Declared(r) \cap Lengths : Visible(ValueIn(r, p), p)
NeverAborts ==
  (\A e \in Elements : WellWritten(e) /\ (e # Screen => Sized(e))) => pc # "aborted"
=============================================================================
