---------------------------- MODULE InputManager ----------------------------
(***************************************************************************)
(* The input manager (libs/inputManager.hpp).  The terminal turns what the *)
(* user does into bytes; the input thread (UpdateInputManager) reads them  *)
(* one by one, queues plain keys in keyPressed and stores mouse reports in *)
(* two atomics; the main loop takes one key and the mouse button per frame *)
(* (tick), and quits on 'q'.  keyPressed is the queue of AtomicQueue.      *)
(* main() sets the terminal up before the loop and resets it after it; the *)
(* mode switches it prints reach the terminal when they are flushed.       *)
(***************************************************************************)
EXTENDS AtomicQueue, SequencesExt

CONSTANTS Input, Main,  \* the two threads
          Keys,         \* the bytes of plain keys
          OtherKeys,    \* the bytes of other keys: escape sequences of two
                        \* or three bytes, which the parser drops
          EscapeKey,    \* may the user press the escape key, a lone 27?
          Buttons,      \* the first byte of a mouse report: 32 is left
                        \* pressed, 35 released, 67 moved with none pressed,
                        \* 64 moved with the left one pressed
          Positions,    \* its other two bytes
          MaxEvents     \* bound: what the user does

ESC      == 27
BRACKET  == 91   \* '['
M        == 77
Q        == 113
NoButton == 67   \* what last_mouse starts with

ASSUME ThreadsAssumption   == Threads = {Input, Main} /\ Input # Main
\* Any byte of a sequence but its ESC may be queued as a key, after a lone 27.
Bytes == Items \cup {ESC}

ASSUME ItemsAreBytes == Items \subseteq 1 .. 255 /\ {BRACKET, M} \subseteq Items
\* A '[' typed after the escape key would begin a sequence by hand.
ASSUME KeysAssumption ==
  Keys \subseteq Items \ {ESC} /\ (EscapeKey => BRACKET \notin Keys)
ASSUME OtherKeysAssumption ==
  OtherKeys \subseteq
    {<<ESC, c>> : c \in Items \ {ESC, BRACKET}} \cup
    {<<ESC, BRACKET, c>> : c \in Items \ {ESC, M}}
ASSUME ReportsAssumption ==
  /\ Positions \subseteq (33 .. 255) \X (33 .. 255) /\ Positions \subseteq Items \X Items
  /\ NoButton \in Buttons /\ Buttons \subseteq Items \ {ESC}
ASSUME EventsAssumption == MaxEvents \in Nat /\ EscapeKey \in BOOLEAN

VARIABLES
  stdin,       \* the bytes the input thread has not read yet
  parse,       \* what its next cin.get() is for
  btn, x,      \* its locals: the report as far as it is read
  last_mouse,
  mousePos, mouseBtn,  \* the atomics it stores
  running,     \* the atomic its loop tests
  lflag,       \* the terminal driver's c_lflag, as far as the program sets it
  modes, asked,        \* the modes of the terminal that are on, and those
                       \* the program's output, flushed or not, asks for
  tickPc,      \* where main() is
  key, mouseKey,       \* the snapshot a frame works with
  typed, seen,         \* history: the plain keys typed; those a frame found
  reports,     \* history: the mouse reports sent, the last one last
  escaped,     \* history: was the escape key pressed?
  events       \* bound

parserVars   == <<btn, x, last_mouse, mousePos, mouseBtn>>
inputVars    == <<stdin, parse, parserVars>>
terminalVars == <<running, lflag, modes, asked>>
frameVars    == <<tickPc, key, mouseKey>>
userVars  == <<typed, reports, escaped, events>>
vars == <<queueVars, inputVars, terminalVars, frameVars, userVars, seen>>

LocalFlags == {"ECHO", "ICANON"}
Modes      == {"mouse", "no cursor", "alternate buffer", "no wrap"}

Report == [btn : Buttons, pos : Positions]
\* What the atomics and last_mouse hold before the first report: no position
\* is as good as any.
NoReport == [btn |-> NoButton, pos |-> <<33, 33>>]

\* The input thread lives from InitializeInputManager to the end of main().
BeforeThread == {"load", "init"}
WithThread   == {"screen", "render", "pop", "mouse", "quit", "leave"}

TypeOK ==
  /\ QueueTypeOK
  /\ stdin \in Seq(Bytes)
  /\ parse \in {"start", "escape", "bracket", "btn", "x", "y", "button", "check", "ended"}
  /\ btn \in Buttons /\ x \in 33 .. 255
  /\ last_mouse \in Buttons
  /\ mousePos \in Positions \cup {NoReport.pos}
  /\ mouseBtn \in Buttons \cup {0} /\ mouseKey \in Buttons \cup {0}
  /\ running \in BOOLEAN
  /\ lflag \subseteq LocalFlags /\ modes \subseteq Modes /\ asked \subseteq Modes
  /\ tickPc \in BeforeThread \cup WithThread \cup {"failed", "exited", "thrown"}
  /\ key \in Items \cup {0}
  /\ typed \in Seq(Keys) /\ seen \in Seq(Items)
  /\ reports \in Seq(Report \cup {NoReport})
  /\ escaped \in BOOLEAN /\ events \in 0 .. MaxEvents

Init ==
  /\ QueueInit
  /\ stdin = <<>> /\ parse = "start" /\ btn = NoButton /\ x = 33
  /\ last_mouse = NoButton /\ mousePos = <<33, 33>> /\ mouseBtn = 0
  /\ running = TRUE /\ lflag = LocalFlags /\ modes = {} /\ asked = {}
  /\ tickPc = "load" /\ key = 0 /\ mouseKey = 0
  /\ typed = <<>> /\ seen = <<>> /\ reports = <<NoReport>>
  /\ escaped = FALSE /\ events = 0

Running == tickPc \in BeforeThread \cup WithThread

-----------------------------------------------------------------------------
(* The user and the terminal.                                               *)

Emit(bytes) ==
  /\ events < MaxEvents
  /\ events' = events + 1
  /\ stdin'  = stdin \o bytes
  /\ UNCHANGED <<queueVars, parse, parserVars, terminalVars, frameVars, seen>>

TypeKey(k) ==
  /\ Emit(<<k>>)
  /\ typed' = Append(typed, k)
  /\ UNCHANGED <<reports, escaped>>

TypeOtherKey(s) == Emit(s) /\ UNCHANGED <<typed, reports, escaped>>

TypeEscape ==
  /\ EscapeKey /\ Emit(<<ESC>>)
  /\ escaped' = TRUE
  /\ UNCHANGED <<typed, reports>>

Mouse(r) ==
  /\ "mouse" \in modes
  /\ Emit(<<ESC, BRACKET, M, r.btn, r.pos[1], r.pos[2]>>)
  /\ reports' = Append(reports, r)
  /\ UNCHANGED <<typed, escaped>>

User ==
  \/ \E k \in Keys : TypeKey(k)
  \/ \E s \in OtherKeys : TypeOtherKey(s)
  \/ TypeEscape
  \/ \E r \in Report : Mouse(r)

-----------------------------------------------------------------------------
(* UpdateInputManager, on the input thread.                                 *)

\* while (running.load())
CheckRunning ==
  /\ tickPc \in WithThread /\ pc[Input] = "idle" /\ parse = "check"
  /\ parse' = IF running THEN "start" ELSE "ended"
  /\ UNCHANGED <<queueVars, stdin, parserVars, terminalVars, frameVars, userVars, seen>>

\* cin.get() for the part p of the input; the next one is for q.
Get(p, q) ==
  /\ tickPc \in WithThread /\ parse = p /\ stdin # <<>>
  /\ stdin' = Tail(stdin)
  /\ parse' = q
  /\ UNCHANGED <<terminalVars, frameVars, userVars, seen>>

PlainKey ==
  /\ Get("start", "check")
  /\ Head(stdin) # ESC
  /\ Call(Input, "push_back", Head(stdin))
  /\ UNCHANGED parserVars

\* The second and third byte decide whether the rest is a mouse report; a
\* sequence that is something else is given up at the byte that shows it.
NoThirdByte(c) == IF c = BRACKET THEN "btn" ELSE "check"   \* mutant
NextIfBracket(c) == IF c = BRACKET THEN "bracket" ELSE "check"
StrayAfterBracket(c) == IF c = M THEN "btn" ELSE "bracket"   \* mutant
NextIfM(c) == IF c = M THEN "btn" ELSE "check"
Prefix ==
  /\ \/ Get("start", "escape") /\ Head(stdin) = ESC
     \/ Get("escape", NextIfBracket(Head(stdin)))
     \/ Get("bracket", NextIfM(Head(stdin)))
  /\ UNCHANGED <<queueVars, parserVars>>

ReadBtn ==
  /\ Get("btn", "x")
  /\ btn' = Head(stdin)
  /\ UNCHANGED <<queueVars, x, last_mouse, mousePos, mouseBtn>>

ReadX ==
  /\ Get("x", "y")
  /\ x' = Head(stdin)
  /\ UNCHANGED <<queueVars, btn, last_mouse, mousePos, mouseBtn>>

\* The report is complete: the position is stored.  (Cells count from 33.)
ReadY ==
  /\ Get("y", "button")
  /\ mousePos' = <<x, Head(stdin)>>
  /\ UNCHANGED <<queueVars, btn, x, last_mouse, mouseBtn>>

\* A button that differs from the last one is stored too.
OnlyPresses(b) == b = 32   \* mutant
IsNewButton(b) == last_mouse # b
StoreButton ==
  /\ tickPc \in WithThread /\ parse = "button"
  /\ parse' = "check"
  /\ IF IsNewButton(btn) THEN mouseBtn' = btn /\ last_mouse' = btn
                         ELSE UNCHANGED <<mouseBtn, last_mouse>>
  /\ UNCHANGED <<queueVars, stdin, btn, x, mousePos, terminalVars, frameVars,
                 userVars, seen>>

Push == tickPc \in WithThread /\ InCall(Input)
        /\ UNCHANGED <<inputVars, terminalVars, frameVars, userVars, seen>>

InputThread == CheckRunning \/ PlainKey \/ Prefix \/ ReadBtn \/ ReadX \/ ReadY \/ StoreButton \/ Push

-----------------------------------------------------------------------------
(* main(): the start.                                                       *)

\* readFile throws if there is no element.css, and nobody catches it.
LoadSheet ==
  /\ tickPc = "load"
  /\ tickPc' \in {"init", "failed"}
  /\ UNCHANGED <<queueVars, inputVars, terminalVars, key, mouseKey, userVars, seen>>

\* noecho, mouse reports on, flush, and the input thread is started.
InitializeInputManager ==
  /\ tickPc = "init"
  /\ lflag'  = lflag \ {"ECHO", "ICANON"}
  /\ asked'  = asked \cup {"mouse"}
  /\ modes'  = asked'
  /\ tickPc' = "screen"
  /\ UNCHANGED <<queueVars, inputVars, running, key, mouseKey, userVars, seen>>

InitializeWindowManager ==
  /\ tickPc = "screen"
  /\ asked'  = asked \cup {"no cursor", "alternate buffer", "no wrap"}
  /\ tickPc' = "render"
  /\ UNCHANGED <<queueVars, inputVars, running, lflag, modes, key, mouseKey,
                 userVars, seen>>

-----------------------------------------------------------------------------
(* main(): the loop.                                                        *)

\* keyPressed.size() > 0
SizeAtLeastZero == {TRUE}            \* mutant
SizeAboveOne    == {Len(queue) > 1}   \* mutant
KeyWaiting == SizePositive

\* The frame is drawn and flushed (RenderToScreen), then tick is called.
Tick ==
  /\ tickPc = "render"
  /\ modes' = asked
  /\ \E waiting \in KeyWaiting :
       IF waiting
       THEN Call(Main, "pop_front", NoItem) /\ tickPc' = "pop" /\ UNCHANGED key
       ELSE key' = 0 /\ tickPc' = "mouse" /\ UNCHANGED queueVars
  /\ UNCHANGED <<inputVars, running, lflag, asked, mouseKey, userVars, seen>>

Pop ==
  /\ tickPc = "pop"
  /\ Acquire(Main) \/ ReadFront(Main) \/ Erase(Main)
  /\ UNCHANGED <<inputVars, terminalVars, frameVars, userVars, seen>>

\* key = keyPressed.pop_front(), or it throws, which nobody catches.
PopEnds ==
  /\ tickPc = "pop"
  /\ IF pc[Main] = "vector"
     THEN PopThrows(Main) /\ tickPc' = "thrown" /\ UNCHANGED <<key, seen>>
     ELSE /\ Release(Main)
          /\ key'  = item[Main]
          /\ seen' = Append(seen, key')
          /\ tickPc' = "mouse"
  /\ UNCHANGED <<inputVars, terminalVars, mouseKey, userVars>>

\* The snapshot of the button; then the main loop looks for 'q'.
LoadMouse ==
  /\ tickPc = "mouse"
  /\ mouseKey' = mouseBtn
  /\ tickPc' = IF key = Q THEN "quit" ELSE "render"
  /\ UNCHANGED <<queueVars, inputVars, terminalVars, key, userVars, seen>>

-----------------------------------------------------------------------------
(* main(): the end.                                                         *)

\* restore_terminal_settings sets what it has just got.
EndInputManager ==
  /\ tickPc = "quit"
  /\ running' = FALSE
  /\ asked'   = asked \ {"mouse"}
  /\ modes'   = asked'
  /\ tickPc'  = "leave"
  /\ UNCHANGED <<queueVars, inputVars, lflag, key, mouseKey, userVars, seen>>

\* The cursor is shown and that is flushed; the rest is not.  Then main()
\* returns, and the destructor of the running webThread aborts the process:
\* what is not flushed is lost.
CursorShownLater == modes   \* mutant
CursorShown == asked \ {"no cursor"}
EndWindowManager ==
  /\ tickPc = "leave"
  /\ modes'  = CursorShown
  /\ asked'  = asked \ {"no cursor", "alternate buffer", "no wrap"}
  /\ tickPc' = "exited"
  /\ UNCHANGED <<queueVars, inputVars, running, lflag, key, mouseKey, userVars, seen>>

Start == LoadSheet \/ InitializeInputManager \/ InitializeWindowManager
End   == EndInputManager \/ EndWindowManager
MainLoop == Tick \/ Pop \/ PopEnds \/ LoadMouse

MainThread == Start \/ MainLoop \/ End

Next == User \/ InputThread \/ MainThread

Spec == Init /\ [][Next]_vars

\* Both threads run; the user need not do anything.  A spinning thread gets
\* the lock, because the other one stops asking for it when nothing is typed.
FairSpec == Spec /\ WF_vars(InputThread) /\ WF_vars(MainThread)

-----------------------------------------------------------------------------
(***************************************************************************)
(* tick never throws: whatever the unlocked size() reads while a push is   *)
(* going on, an item is there once the lock is taken, because the main     *)
(* loop alone takes items (tick, size, pop_front).                         *)
(***************************************************************************)
TickNeverThrows == tickPc # "thrown"

(***************************************************************************)
(* As long as the escape key is not used, the frames find the keys that    *)
(* were typed, each once and in order, and no byte of another sequence or  *)
(* of a mouse report (UpdateInputManager, tick).                           *)
(***************************************************************************)
KeysInOrder ==
  /\ IsPrefix(seen, popped)
  /\ ~escaped => /\ IsPrefix(pushed, typed)
                 /\ stdin = <<>> /\ pc[Input] = "idle" => pushed = typed

(***************************************************************************)
(* Between two reports the atomics hold one report that was sent, never    *)
(* the place of one with the button of another, even when an escape key    *)
(* made the parser drop one (UpdateInputManager; mouseBtn itself is not    *)
(* stored before the button changes for the first time).                   *)
(***************************************************************************)
ReportWhole ==
  parse # "button" =>
    /\ \E i \in DOMAIN reports : reports[i] = [btn |-> last_mouse, pos |-> mousePos]
    /\ mouseBtn = last_mouse \/ (mouseBtn = 0 /\ last_mouse = NoButton)

(***************************************************************************)
(* Every typed key reaches a frame, unless the program ends first, as long *)
(* as the escape key is not used (the input thread, keyPressed, tick).     *)
(***************************************************************************)
KeysSeen ==
  \A n \in 1 .. MaxEvents :
    Len(typed) >= n ~> Len(seen) >= n \/ escaped \/ ~Running

(***************************************************************************)
(* Once the user stops, the frames work with the last report, unless the   *)
(* escape key was used: no press stays held after its release was sent     *)
(* (UpdateInputManager, tick).                                             *)
(***************************************************************************)
MouseSettles ==
  <>[](\/ escaped \/ ~Running
       \/ LET r == Last(reports)
          IN  mousePos = r.pos /\ (mouseKey = r.btn \/ (mouseKey = 0 /\ r.btn = NoButton)))

(***************************************************************************)
(* A program that was quit leaves neither mouse reports on nor the cursor  *)
(* hidden, though the process is aborted with output in its buffer         *)
(* (EndInputManager, EndWindowManager, the flushes in them).               *)
(***************************************************************************)
QuitTidies == tickPc = "exited" => modes \cap {"mouse", "no cursor"} = {}

-----------------------------------------------------------------------------
(* What a comment says, and the code does not do.                           *)

\* restore_terminal_settings: "Set the original terminal settings".  Here:
\* a program that was quit leaves the terminal driver as it found it.
TerminalRestored == tickPc = "exited" => lflag = LocalFlags
=============================================================================
