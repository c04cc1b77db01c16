------------------------- MODULE InputManagerProofs -------------------------
(***************************************************************************)
(* The input manager (libs/inputManager.hpp) for any keys, sequences,      *)
(* mouse reports and number of events: its type, that tick never throws,   *)
(* that the atomics hold whole reports, how the terminal is left, and that *)
(* the frames find the keys that were typed.                               *)
(***************************************************************************)
EXTENDS InputManager, AtomicQueueProofs

-----------------------------------------------------------------------------
(* The inductive invariant.                                                 *)

\* Which call a thread is in; and the item Main was told of is still there, or
\* on its way in: Input is past the lock, which Main has yet to take.
CallsInv ==
  /\ op[Input] = "push_back" /\ pc[Input] # "erase"
  /\ pc[Main] = "idle" <=> tickPc # "pop"
  /\ tickPc = "pop" => op[Main] = "pop_front"
  /\ pc[Main] = "clear" => item[Main] \in Items
  /\ pc[Main] \in {"spin", "vector"} => queue # <<>> \/ pc[Input] = "vector"

Sent(R, b, p) == \E i \in DOMAIN R : R[i] = [btn |-> b, pos |-> p]

\* What is at place i of the bytes s, behind an ESC, behind ESC '[', and behind
\* ESC '[' 'M': whatever looks like a report is one that was sent (R).
AfterM(R, s, i)   == i + 2 <= Len(s) /\ Sent(R, s[i], <<s[i + 1], s[i + 2]>>)
AfterBracket(R, s, i) == i <= Len(s) /\ (s[i] = M => AfterM(R, s, i + 1))
AfterEscape(R, s, i)  ==
  /\ ~EscapeKey => i <= Len(s)
  /\ i <= Len(s) /\ s[i] = BRACKET => AfterBracket(R, s, i + 1)
Whole(R, s) == \A i \in 1 .. Len(s) : s[i] = ESC => AfterEscape(R, s, i + 1)

ParseInv ==
  /\ Whole(reports, stdin)
  /\ parse = "escape"  => AfterEscape(reports, stdin, 1)
  /\ parse = "bracket" => AfterBracket(reports, stdin, 1)
  /\ parse = "btn"     => AfterM(reports, stdin, 1)
  /\ parse = "x" => Len(stdin) >= 2 /\ Sent(reports, btn, <<stdin[1], stdin[2]>>)
  /\ parse = "y" => Len(stdin) >= 1 /\ Sent(reports, btn, <<x, stdin[1]>>)
  /\ parse = "button" => Sent(reports, btn, mousePos)

ButtonInv == mouseBtn = last_mouse \/ (mouseBtn = 0 /\ last_mouse = NoButton)

OutputInv == QuitTidies /\ (tickPc = "leave" => "mouse" \notin asked)

InputInv ==
  /\ TypeOK /\ QueueInv /\ CallsInv /\ TickNeverThrows
  /\ ParseInv /\ ButtonInv /\ ReportWhole /\ OutputInv

-----------------------------------------------------------------------------
(***************************************************************************)
(* Reading a byte moves what follows one place to the front (cin.get()).   *)
(***************************************************************************)
LEMMA Shifted ==
  ASSUME NEW R, NEW s \in Seq(Bytes), s # <<>>, NEW i \in Nat \ {0}
  PROVE  /\ AfterM(R, s, i + 1) => AfterM(R, Tail(s), i)
         /\ AfterBracket(R, s, i + 1) => AfterBracket(R, Tail(s), i)
         /\ AfterEscape(R, s, i + 1) => AfterEscape(R, Tail(s), i)
<1>1. Len(s) \in Nat /\ Len(Tail(s)) = Len(s) - 1
  BY LenProperties, HeadTailProperties
<1>2. \A j \in Nat \ {0} : j <= Len(Tail(s)) => Tail(s)[j] = s[j + 1]
  BY <1>1, HeadTailProperties
<1>3. ASSUME NEW j \in Nat \ {0}, AfterM(R, s, j + 1)
      PROVE  AfterM(R, Tail(s), j)
  <2>1. j + 2 <= Len(Tail(s))  BY <1>1, <1>3 DEF AfterM
  <2>2. Tail(s)[j] = s[j + 1] /\ Tail(s)[j + 1] = s[j + 1 + 1] /\ Tail(s)[j + 2] = s[j + 1 + 2]
    <3>1. j <= Len(Tail(s)) /\ j + 1 <= Len(Tail(s)) /\ j + 1 \in Nat \ {0} /\ j + 2 \in Nat \ {0}
      BY <1>1, <2>1
    <3> QED  BY <1>2, <2>1, <3>1
  <2> QED  BY <1>3, <2>1, <2>2 DEF AfterM
<1>4. ASSUME NEW j \in Nat \ {0}, AfterBracket(R, s, j + 1)
      PROVE  AfterBracket(R, Tail(s), j)
  <2>1. j <= Len(Tail(s)) /\ Tail(s)[j] = s[j + 1]
    BY <1>1, <1>2, <1>4 DEF AfterBracket
  <2>2. j + 1 \in Nat \ {0}  OBVIOUS
  <2> QED  BY <1>3, <1>4, <2>1, <2>2 DEF AfterBracket
<1>5. ASSUME AfterEscape(R, s, i + 1)
      PROVE  AfterEscape(R, Tail(s), i)
  <2>1. ~EscapeKey => i <= Len(Tail(s))  BY <1>1, <1>5 DEF AfterEscape
  <2>2. ASSUME i <= Len(Tail(s)), Tail(s)[i] = BRACKET
        PROVE  AfterBracket(R, Tail(s), i + 1)
    <3>1. i + 1 <= Len(s) /\ s[i + 1] = BRACKET  BY <1>1, <1>2, <2>2
    <3>2. AfterBracket(R, s, i + 1 + 1)  BY <1>5, <3>1 DEF AfterEscape
    <3>3. i + 1 \in Nat \ {0}  OBVIOUS
    <3> QED  BY <1>4, <3>2, <3>3
  <2> QED  BY <2>1, <2>2 DEF AfterEscape
<1> QED  BY <1>3, <1>4, <1>5

LEMMA WholeTail ==
  ASSUME NEW R, NEW s \in Seq(Bytes), s # <<>>, Whole(R, s)
  PROVE  Whole(R, Tail(s))
<1> SUFFICES ASSUME NEW i \in 1 .. Len(Tail(s)), Tail(s)[i] = ESC
             PROVE  AfterEscape(R, Tail(s), i + 1)
  BY DEF Whole
<1>1. Len(s) \in Nat /\ Len(Tail(s)) = Len(s) - 1 /\ Tail(s)[i] = s[i + 1]
  BY LenProperties, HeadTailProperties
<1>2. AfterEscape(R, s, i + 1 + 1)  BY <1>1 DEF Whole
<1>3. i + 1 \in Nat \ {0}  BY <1>1
<1> QED  BY <1>2, <1>3, Shifted

(***************************************************************************)
(* More input keeps what is there, if it cannot continue a lone 27.        *)
(***************************************************************************)
LEMMA Extended ==
  ASSUME NEW s \in Seq(Bytes), NEW t \in Seq(Bytes), t # <<>>,
         EscapeKey => t[1] # BRACKET,
         NEW R, NEW R2, \A b, p : Sent(R, b, p) => Sent(R2, b, p),
         NEW i \in Nat \ {0}, i <= Len(s) + 1
  PROVE  /\ AfterM(R, s, i) => AfterM(R2, s \o t, i)
         /\ AfterBracket(R, s, i) => AfterBracket(R2, s \o t, i)
         /\ AfterEscape(R, s, i) => AfterEscape(R2, s \o t, i)
<1>1. Len(s) \in Nat /\ Len(t) \in Nat \ {0} /\ Len(s \o t) = Len(s) + Len(t)
  BY LenProperties, EmptySeq, ConcatProperties
<1>2. \A j \in Nat \ {0} : j <= Len(s) => (s \o t)[j] = s[j]
  BY <1>1, ConcatProperties
<1>3. ASSUME NEW j \in Nat \ {0}, AfterM(R, s, j)
      PROVE  AfterM(R2, s \o t, j)
  <2>1. j + 2 <= Len(s) /\ j + 1 <= Len(s) /\ j <= Len(s) /\ j + 2 <= Len(s \o t)
        /\ j + 1 \in Nat \ {0} /\ j + 2 \in Nat \ {0}
    BY <1>1, <1>3 DEF AfterM
  <2>2. (s \o t)[j] = s[j] /\ (s \o t)[j + 1] = s[j + 1] /\ (s \o t)[j + 2] = s[j + 2]
    BY <1>2, <2>1
  <2> QED  BY <1>3, <2>1, <2>2 DEF AfterM
<1>4. ASSUME NEW j \in Nat \ {0}, AfterBracket(R, s, j)
      PROVE  AfterBracket(R2, s \o t, j)
  <2>1. j <= Len(s) /\ (s \o t)[j] = s[j] /\ j <= Len(s \o t) /\ j + 1 \in Nat \ {0}
    BY <1>1, <1>2, <1>4 DEF AfterBracket
  <2> QED  BY <1>3, <1>4, <2>1 DEF AfterBracket
<1>5. ASSUME AfterEscape(R, s, i)
      PROVE  AfterEscape(R2, s \o t, i)
  <2>1. i <= Len(s \o t)  BY <1>1
  <2>2. ASSUME (s \o t)[i] = BRACKET
        PROVE  AfterBracket(R2, s \o t, i + 1)
    <3>1. i <= Len(s)
      <4> SUFFICES ASSUME i = Len(s) + 1 PROVE FALSE  BY <1>1
      <4>1. (s \o t)[i] = t[1]  BY <1>1, ConcatProperties
      <4>2. EscapeKey  BY <1>1, <1>5 DEF AfterEscape
      <4> QED  BY <2>2, <4>1, <4>2
    <3>2. AfterBracket(R, s, i + 1)  BY <1>2, <1>5, <2>2, <3>1 DEF AfterEscape
    <3>3. i + 1 \in Nat \ {0}  OBVIOUS
    <3> QED  BY <1>4, <3>2, <3>3
  <2> QED  BY <2>1, <2>2 DEF AfterEscape
<1> QED  BY <1>3, <1>4, <1>5

(***************************************************************************)
(* The bytes t are whole behind s as they are alone.                       *)
(***************************************************************************)
LEMMA Behind ==
  ASSUME NEW s \in Seq(Bytes), NEW t \in Seq(Bytes), NEW R, NEW i \in Nat \ {0},
         AfterEscape(R, t, i)
  PROVE  AfterEscape(R, s \o t, Len(s) + i)
<1> DEFINE n == Len(s)
<1>1. n \in Nat /\ Len(t) \in Nat /\ Len(s \o t) = n + Len(t)
  BY LenProperties, ConcatProperties
<1>2. \A j \in Nat \ {0} : j <= Len(t) => (s \o t)[n + j] = t[j]
  BY <1>1, ConcatProperties
<1> HIDE DEF n
<1>3. ~EscapeKey => n + i <= Len(s \o t)  BY <1>1 DEF AfterEscape
<1>4. ASSUME n + i <= Len(s \o t), (s \o t)[n + i] = BRACKET
      PROVE  AfterBracket(R, s \o t, n + i + 1)
  <2>1. i <= Len(t) /\ t[i] = BRACKET  BY <1>1, <1>2, <1>4
  <2>2. AfterBracket(R, t, i + 1)  BY <2>1 DEF AfterEscape
  <2>3. i + 1 <= Len(t) /\ n + i + 1 <= Len(s \o t) /\ (s \o t)[n + i + 1] = t[i + 1]
    <3>1. i + 1 <= Len(t) /\ i + 1 \in Nat \ {0}  BY <2>2 DEF AfterBracket
    <3>2. (s \o t)[n + (i + 1)] = t[i + 1]  BY <1>2, <3>1
    <3>3. n + (i + 1) = n + i + 1  BY <1>1
    <3> QED  BY <1>1, <3>1, <3>2, <3>3
  <2>4. ASSUME t[i + 1] = M
        PROVE  AfterM(R, s \o t, n + i + 1 + 1)
    <3>1. AfterM(R, t, i + 1 + 1)  BY <2>2, <2>4 DEF AfterBracket
    <3>2. i + 4 <= Len(t) /\ Sent(R, t[i + 2], <<t[i + 3], t[i + 4]>>)
      <4>1. i + 1 + 1 = i + 2 /\ i + 1 + 1 + 1 = i + 3 /\ i + 1 + 1 + 2 = i + 4  OBVIOUS
      <4> QED  BY <3>1, <4>1 DEF AfterM
    <3>3. i + 2 \in Nat \ {0} /\ i + 3 \in Nat \ {0} /\ i + 4 \in Nat \ {0}
          /\ i + 2 <= Len(t) /\ i + 3 <= Len(t)
      BY <1>1, <3>2
    <3>4. (s \o t)[n + (i + 2)] = t[i + 2] /\ (s \o t)[n + (i + 3)] = t[i + 3]
          /\ (s \o t)[n + (i + 4)] = t[i + 4]
      BY <1>2, <3>2, <3>3
    <3>5. n + i + 1 + 1 = n + (i + 2) /\ n + i + 1 + 1 + 1 = n + (i + 3)
          /\ n + i + 1 + 1 + 2 = n + (i + 4) /\ n + i + 1 + 1 + 2 <= Len(s \o t)
      BY <1>1, <3>2
    <3> QED  BY <3>2, <3>4, <3>5 DEF AfterM
  <2> QED  BY <2>3, <2>4 DEF AfterBracket
<1> QED  BY <1>1, <1>3, <1>4 DEF AfterEscape, n

LEMMA WholeExtended ==
  ASSUME NEW s \in Seq(Bytes), NEW t \in Seq(Bytes), t # <<>>,
         EscapeKey => t[1] # BRACKET,
         NEW R, NEW R2, \A b, p : Sent(R, b, p) => Sent(R2, b, p),
         Whole(R, s), Whole(R2, t)
  PROVE  Whole(R2, s \o t)
<1> SUFFICES ASSUME NEW i \in 1 .. Len(s \o t), (s \o t)[i] = ESC
             PROVE  AfterEscape(R2, s \o t, i + 1)
  BY DEF Whole
<1>1. Len(s) \in Nat /\ Len(t) \in Nat /\ Len(s \o t) = Len(s) + Len(t)
  BY LenProperties, ConcatProperties
<1>2. CASE i <= Len(s)
  <2>1. i \in 1 .. Len(s) /\ s[i] = ESC  BY <1>1, <1>2, ConcatProperties
  <2>2. AfterEscape(R, s, i + 1)  BY <2>1 DEF Whole
  <2>3. i + 1 \in Nat \ {0} /\ i + 1 <= Len(s) + 1  BY <1>1, <1>2
  <2> QED  BY <2>2, <2>3, Extended
<1>3. CASE i > Len(s)
  <2> DEFINE k == i - Len(s)
  <2>1. k \in 1 .. Len(t) /\ t[k] = ESC  BY <1>1, <1>3, ConcatProperties
  <2>2. AfterEscape(R2, t, k + 1)  BY <2>1 DEF Whole
  <2>3. k + 1 \in Nat \ {0} /\ Len(s) + (k + 1) = i + 1  BY <1>1, <2>1
  <2> QED  BY <2>2, <2>3, Behind
<1> QED  BY <1>1, <1>2, <1>3

-----------------------------------------------------------------------------
(***************************************************************************)
(* What the user does.                                                     *)
(***************************************************************************)
LEMMA EmitPreserves ==
  ASSUME InputInv, NEW bytes \in Seq(Bytes), Emit(bytes),
         bytes # <<>>, EscapeKey => bytes[1] # BRACKET, Whole(reports', bytes),
         reports' \in Seq(Report \cup {NoReport}),
         \A b, p : Sent(reports, b, p) => Sent(reports', b, p),
         typed' \in Seq(Keys), escaped' \in BOOLEAN
  PROVE  InputInv'
<1> USE DEF InputInv, Emit
<1>1. stdin \in Seq(Bytes) /\ stdin' = stdin \o bytes /\ parse' = parse /\ btn' = btn /\ x' = x
      /\ mousePos' = mousePos /\ last_mouse' = last_mouse /\ mouseBtn' = mouseBtn
  BY DEF TypeOK, parserVars
<1>2. TypeOK'
  <2>1. stdin' \in Seq(Bytes)  BY <1>1, ConcatProperties
  <2>2. events' \in 0 .. MaxEvents  BY EventsAssumption DEF TypeOK
  <2> QED
    BY <2>1, <2>2
       DEF TypeOK, QueueTypeOK, queueVars, parserVars, terminalVars, frameVars
<1>3. QueueInv'
  BY DEF QueueInv, QueueTypeOK, OneInside, FrontKept, ItemGiven, InOrder, queueVars
<1>4. CallsInv' /\ TickNeverThrows' /\ OutputInv'
  BY DEF CallsInv, TickNeverThrows, OutputInv, QuitTidies, queueVars, terminalVars, frameVars
<1>5. ParseInv'
  <2>1. Whole(reports', stdin')
    BY <1>1, WholeExtended DEF ParseInv
  <2>2. 1 \in Nat \ {0} /\ 1 <= Len(stdin) + 1 /\ Len(stdin) \in Nat
    BY <1>1, LenProperties
  <2>3. /\ AfterEscape(reports, stdin, 1) => AfterEscape(reports', stdin', 1)
        /\ AfterBracket(reports, stdin, 1) => AfterBracket(reports', stdin', 1)
        /\ AfterM(reports, stdin, 1) => AfterM(reports', stdin', 1)
    BY <1>1, <2>2, Extended
  <2>4. Len(stdin') >= Len(stdin) /\ \A j \in 1 .. Len(stdin) : stdin'[j] = stdin[j]
    BY <1>1, <2>2, LenProperties, ConcatProperties
  <2>5. ASSUME parse' = "x"
        PROVE  Len(stdin') >= 2 /\ Sent(reports', btn', <<stdin'[1], stdin'[2]>>)
    <3>1. Len(stdin) >= 2 /\ Sent(reports, btn, <<stdin[1], stdin[2]>>)
      BY <1>1, <2>5 DEF ParseInv
    <3>2. Len(stdin') \in Nat /\ stdin'[1] = stdin[1] /\ stdin'[2] = stdin[2]
      BY <1>1, <2>2, <2>4, <3>1, LenProperties, ConcatProperties
    <3> QED  BY <1>1, <2>2, <2>4, <3>1, <3>2
  <2>6. ASSUME parse' = "y"
        PROVE  Len(stdin') >= 1 /\ Sent(reports', btn', <<x', stdin'[1]>>)
    <3>1. Len(stdin) >= 1 /\ Sent(reports, btn, <<x, stdin[1]>>)
      BY <1>1, <2>6 DEF ParseInv
    <3>2. Len(stdin') \in Nat /\ stdin'[1] = stdin[1]
      BY <1>1, <2>2, <2>4, <3>1, LenProperties, ConcatProperties
    <3> QED  BY <1>1, <2>2, <2>4, <3>1, <3>2
  <2>7. parse' = "button" => Sent(reports', btn', mousePos')
    BY <1>1 DEF ParseInv
  <2> QED  BY <1>1, <2>1, <2>3, <2>5, <2>6, <2>7 DEF ParseInv
<1>6. ButtonInv' /\ ReportWhole'
  BY <1>1 DEF ButtonInv, ReportWhole, Sent
<1> QED  BY <1>2, <1>3, <1>4, <1>5, <1>6

\* Bytes without an ESC, a lone ESC, and a sequence that is no report, are whole.
LEMMA NothingSent ==
  ASSUME NEW R
  PROVE  /\ \A k \in Keys : Whole(R, <<k>>)
         /\ EscapeKey => Whole(R, <<ESC>>)
         /\ \A s \in OtherKeys : Whole(R, s)
<1>1. \A k \in Keys : Whole(R, <<k>>)
  BY KeysAssumption DEF Whole
<1>2. EscapeKey => Whole(R, <<ESC>>)
  BY DEF Whole, AfterEscape
<1>3. ASSUME NEW c \in Items \ {ESC, BRACKET}
      PROVE  Whole(R, <<ESC, c>>)
  BY <1>3 DEF Whole, AfterEscape
<1>4. ASSUME NEW c \in Items \ {ESC, M}
      PROVE  Whole(R, <<ESC, BRACKET, c>>)
  BY <1>4 DEF Whole, AfterEscape, AfterBracket, ESC, BRACKET
<1> QED  BY <1>1, <1>2, <1>3, <1>4, OtherKeysAssumption

LEMMA UserPreserves == ASSUME InputInv, User PROVE InputInv'
<1> USE ItemsAreBytes, KeysAssumption DEF Bytes
<1>1. typed \in Seq(Keys) /\ reports \in Seq(Report \cup {NoReport}) /\ escaped \in BOOLEAN
  BY DEF InputInv, TypeOK
<1>2. ASSUME NEW k \in Keys, TypeKey(k) PROVE InputInv'
  <2>1. <<k>> \in Seq(Bytes) /\ <<k>> # <<>> /\ (EscapeKey => <<k>>[1] # BRACKET)
    OBVIOUS
  <2>2. typed' \in Seq(Keys)  BY <1>1, <1>2, AppendProperties DEF TypeKey
  <2> QED  BY <1>1, <1>2, <2>1, <2>2, NothingSent, EmitPreserves DEF TypeKey
<1>3. ASSUME NEW s \in OtherKeys, TypeOtherKey(s) PROVE InputInv'
  <2>1. s \in Seq(Bytes) /\ s # <<>> /\ s[1] # BRACKET
    <3>1. CASE \E c \in Items : s = <<ESC, c>>
      BY <3>1 DEF ESC, BRACKET
    <3>2. CASE \E c \in Items : s = <<ESC, BRACKET, c>>
      BY <3>2 DEF ESC, BRACKET
    <3> QED  BY <3>1, <3>2, OtherKeysAssumption
  <2> QED  BY <1>1, <1>3, <2>1, NothingSent, EmitPreserves DEF TypeOtherKey
<1>4. CASE TypeEscape
  <2>1. <<ESC>> \in Seq(Bytes) /\ <<ESC>> # <<>> /\ <<ESC>>[1] # BRACKET
    BY DEF ESC, BRACKET
  <2> QED  BY <1>1, <1>4, <2>1, NothingSent, EmitPreserves DEF TypeEscape
<1>5. ASSUME NEW r \in Report, Mouse(r) PROVE InputInv'
  <2> DEFINE bytes == <<ESC, BRACKET, M, r.btn, r.pos[1], r.pos[2]>>
  <2>1. r.btn \in Items \ {ESC} /\ r.pos[1] \in Items \cap (33 .. 255)
        /\ r.pos[2] \in Items \cap (33 .. 255) /\ r = [btn |-> r.btn, pos |-> <<r.pos[1], r.pos[2]>>]
    <3>1. r.btn \in Buttons /\ r.pos \in Positions /\ r = [btn |-> r.btn, pos |-> r.pos]
      BY DEF Report
    <3>2. r.pos \in (33 .. 255) \X (33 .. 255) /\ r.pos \in Items \X Items
      BY <3>1, ReportsAssumption
    <3>3. r.pos = <<r.pos[1], r.pos[2]>>  BY <3>2
    <3>4. r.pos[1] \in Items \cap (33 .. 255) /\ r.pos[2] \in Items \cap (33 .. 255)
      BY <3>2
    <3> QED  BY <3>1, <3>3, <3>4, ReportsAssumption
  <2>2. bytes \in Seq(Bytes) /\ bytes # <<>> /\ bytes[1] # BRACKET
    BY <2>1 DEF ESC, BRACKET
  <2>3. reports' = Append(reports, r)  BY <1>5 DEF Mouse
  <2>4. reports' \in Seq(Report \cup {NoReport}) /\ Len(reports') = Len(reports) + 1
        /\ Len(reports) \in Nat /\ reports'[Len(reports) + 1] = r
        /\ \A i \in 1 .. Len(reports) : reports'[i] = reports[i]
    BY <1>1, <2>3, AppendProperties, LenProperties
  <2>5. DOMAIN reports = 1 .. Len(reports) /\ DOMAIN reports' = 1 .. Len(reports')
    BY <1>1, <2>4, LenProperties
  <2>6. \A b, p : Sent(reports, b, p) => Sent(reports', b, p)
    BY <2>4, <2>5 DEF Sent
  <2>7. Sent(reports', r.btn, <<r.pos[1], r.pos[2]>>)
    BY <2>1, <2>4, <2>5 DEF Sent
  <2>8. Whole(reports', bytes)
    <3> SUFFICES ASSUME NEW i \in 1 .. 6, bytes[i] = ESC
                 PROVE  AfterEscape(reports', bytes, i + 1)
      BY DEF Whole
    <3>1. i = 1  BY <2>1 DEF ESC, BRACKET, M
    <3>2. AfterM(reports', bytes, 4)  BY <2>7 DEF AfterM
    <3>3. AfterBracket(reports', bytes, 3)  BY <3>2 DEF AfterBracket
    <3>4. AfterEscape(reports', bytes, 2)  BY <3>3 DEF AfterEscape
    <3> QED  BY <3>1, <3>4
  <2>9. Emit(bytes) /\ typed' = typed /\ escaped' = escaped  BY <1>5 DEF Mouse
  <2> HIDE DEF bytes
  <2> QED  BY <1>1, <2>2, <2>4, <2>6, <2>8, <2>9, EmitPreserves
<1> QED  BY <1>2, <1>3, <1>4, <1>5 DEF User

-----------------------------------------------------------------------------
(***************************************************************************)
(* The input thread.                                                       *)
(***************************************************************************)
LEMMA QueueSame == QueueInv /\ UNCHANGED queueVars => QueueInv'
BY DEF QueueInv, QueueTypeOK, OneInside, FrontKept, ItemGiven, InOrder, queueVars

\* What a step of the parser leaves alone.
LEMMA ParserKeeps ==
  ASSUME InputInv, UNCHANGED <<queueVars, terminalVars, frameVars>>
  PROVE  QueueInv' /\ CallsInv' /\ TickNeverThrows' /\ OutputInv'
BY QueueSame
   DEF InputInv, CallsInv, TickNeverThrows, OutputInv, QuitTidies,
       queueVars, terminalVars, frameVars

\* A report that was sent has its type, and the bytes of a place are above 32.
LEMMA SentTyped ==
  ASSUME reports \in Seq(Report \cup {NoReport}), NEW b, NEW p, Sent(reports, b, p)
  PROVE  b \in Buttons /\ p \in Positions \cup {NoReport.pos}
         /\ p \in (33 .. 255) \X (33 .. 255)
<1>1. PICK i \in DOMAIN reports : reports[i] = [btn |-> b, pos |-> p]
  BY DEF Sent
<1>2. [btn |-> b, pos |-> p] \in Report \cup {NoReport}
  BY <1>1, LenProperties
<1>3. b = [btn |-> b, pos |-> p].btn /\ p = [btn |-> b, pos |-> p].pos
  OBVIOUS
<1>4. CASE [btn |-> b, pos |-> p] \in Report
  BY <1>3, <1>4, ReportsAssumption DEF Report
<1>5. CASE [btn |-> b, pos |-> p] = NoReport
  BY <1>3, <1>5, ReportsAssumption DEF NoReport
<1> QED  BY <1>2, <1>4, <1>5

\* A byte is taken for the part q of the input, and it was right to: what
\* ParseInv says of q holds.
LEMMA GetPreserves ==
  ASSUME InputInv, NEW p, NEW q, Get(p, q), UNCHANGED <<last_mouse, mouseBtn>>,
         QueueInv', CallsInv',
         p # "button" /\ q \in {"escape", "bracket", "btn", "x", "y", "button", "check"},
         q = "escape"  => AfterEscape(reports, stdin, 2),
         q = "bracket" => AfterBracket(reports, stdin, 2),
         q = "btn"     => AfterM(reports, stdin, 2),
         q = "x" => Len(stdin) >= 3 /\ Sent(reports, btn', <<stdin[2], stdin[3]>>),
         q = "y" => Len(stdin) >= 2 /\ Sent(reports, btn', <<x', stdin[2]>>),
         q = "button" => Sent(reports, btn', mousePos'),
         q # "button" => mousePos' = mousePos,
         btn' \in Buttons, x' \in 33 .. 255, mousePos' \in Positions \cup {NoReport.pos}
  PROVE  InputInv'
<1>1. stdin \in Seq(Bytes) /\ stdin # <<>> /\ stdin' = Tail(stdin) /\ parse = p /\ parse' = q
      /\ reports' = reports
  BY DEF InputInv, TypeOK, Get, userVars
<1>2. stdin' \in Seq(Bytes) /\ Len(stdin) \in Nat /\ Len(stdin') = Len(stdin) - 1
      /\ \A i \in 1 .. Len(stdin') : stdin'[i] = stdin[i + 1]
  BY <1>1, HeadTailProperties, LenProperties
<1>3. TickNeverThrows' /\ OutputInv'
  BY DEF InputInv, TickNeverThrows, OutputInv, QuitTidies, Get, terminalVars, frameVars
<1>4. TypeOK'
  BY <1>1, <1>2
     DEF InputInv, TypeOK, QueueInv, Get, terminalVars, frameVars, userVars
<1>5. ParseInv'
  <2>1. Whole(reports', stdin')  BY <1>1, WholeTail DEF InputInv, ParseInv
  <2>2. 1 \in Nat \ {0} /\ 1 + 1 = 2  OBVIOUS
  <2>3. /\ q = "escape"  => AfterEscape(reports', stdin', 1)
        /\ q = "bracket" => AfterBracket(reports', stdin', 1)
        /\ q = "btn"     => AfterM(reports', stdin', 1)
    BY <1>1, <2>2, Shifted
  <2>4. q = "x" => Len(stdin') >= 2 /\ stdin'[1] = stdin[2] /\ stdin'[2] = stdin[3]
    BY <1>2
  <2>5. q = "y" => Len(stdin') >= 1 /\ stdin'[1] = stdin[2]
    BY <1>2
  <2> QED  BY <1>1, <2>1, <2>3, <2>4, <2>5 DEF ParseInv
<1>6. ButtonInv' /\ ReportWhole'
  BY <1>1 DEF InputInv, ParseInv, ButtonInv, ReportWhole, Sent
<1> QED  BY <1>3, <1>4, <1>5, <1>6 DEF InputInv

LEMMA PlainKeyPreserves == ASSUME InputInv, PlainKey PROVE InputInv'
<1> USE DEF PlainKey
<1>1. stdin # <<>> /\ Head(stdin) \in Items /\ parse = "start" /\ Input \in Threads
      /\ Input # Main /\ tickPc' = tickPc
  <2>1. stdin \in Seq(Bytes) /\ stdin # <<>>  BY DEF InputInv, TypeOK, Get
  <2>2. Head(stdin) \in Bytes  BY <2>1, HeadTailProperties
  <2> QED  BY <2>1, <2>2, ThreadsAssumption DEF Get, Bytes, frameVars
<1>2. QueueInv'
  <2>1. "push_back" \in Ops /\ Call(Input, "push_back", Head(stdin))  BY DEF Ops
  <2> QED  BY <1>1, <2>1, CallPreserves DEF InputInv
<1>3. CallsInv'
  BY <1>1 DEF InputInv, CallsInv, QueueInv, QueueTypeOK, Call, Goto
<1>4. UNCHANGED <<btn, x, last_mouse, mousePos, mouseBtn>>
      /\ btn \in Buttons /\ x \in 33 .. 255 /\ mousePos \in Positions \cup {NoReport.pos}
  BY DEF parserVars, InputInv, TypeOK
<1> QED  BY <1>1, <1>2, <1>3, <1>4, GetPreserves

\* The bytes that may begin a report: what is behind them is whole.
LEMMA PrefixPreserves == ASSUME InputInv, Prefix PROVE InputInv'
<1>1. UNCHANGED <<btn, x, last_mouse, mousePos, mouseBtn>>
      /\ btn \in Buttons /\ x \in 33 .. 255 /\ mousePos \in Positions \cup {NoReport.pos}
  BY DEF Prefix, parserVars, InputInv, TypeOK
<1>2. QueueInv' /\ CallsInv'
  BY ParserKeeps DEF Prefix, Get
<1>3. stdin \in Seq(Bytes) /\ Whole(reports, stdin) /\ Len(stdin) \in Nat
      /\ (stdin # <<>> => Head(stdin) = stdin[1] /\ Len(stdin) >= 1)
  BY LenProperties, EmptySeq DEF InputInv, TypeOK, ParseInv
<1>4. CASE Get("start", "escape") /\ Head(stdin) = ESC
  <2>1. stdin # <<>> /\ AfterEscape(reports, stdin, 1 + 1)  BY <1>3, <1>4 DEF Get, Whole
  <2>2. 1 + 1 = 2  OBVIOUS
  <2>3. AfterEscape(reports, stdin, 2)  BY <2>1, <2>2
  <2> QED  BY <1>1, <1>2, <1>4, <2>3, GetPreserves
<1>5. CASE Get("escape", NextIfBracket(Head(stdin)))
  <2> DEFINE q == NextIfBracket(Head(stdin))
  <2>1. q \in {"bracket", "check"}  BY DEF NextIfBracket
  <2>2. ASSUME q = "bracket" PROVE AfterBracket(reports, stdin, 2)
    <3>1. parse = "escape" /\ stdin # <<>>  BY <1>5 DEF Get
    <3>2. AfterEscape(reports, stdin, 1)  BY <3>1 DEF InputInv, ParseInv
    <3>3. stdin[1] = BRACKET  BY <1>3, <2>2, <3>1 DEF NextIfBracket
    <3>4. 1 + 1 = 2 /\ 1 <= Len(stdin)  BY <1>3, <3>1
    <3> QED  BY <3>2, <3>3, <3>4 DEF AfterEscape
  <2> HIDE DEF q
  <2>3. Get("escape", q)  BY <1>5 DEF q
  <2> QED  BY <1>1, <1>2, <2>1, <2>2, <2>3, GetPreserves
<1>6. CASE Get("bracket", NextIfM(Head(stdin)))
  <2> DEFINE q == NextIfM(Head(stdin))
  <2>1. q \in {"btn", "check"}  BY DEF NextIfM
  <2>2. ASSUME q = "btn" PROVE AfterM(reports, stdin, 2)
    <3>1. parse = "bracket" /\ stdin # <<>>  BY <1>6 DEF Get
    <3>2. AfterBracket(reports, stdin, 1)  BY <3>1 DEF InputInv, ParseInv
    <3>3. stdin[1] = M  BY <1>3, <2>2, <3>1 DEF NextIfM
    <3>4. 1 + 1 = 2  OBVIOUS
    <3> QED  BY <3>2, <3>3, <3>4 DEF AfterBracket
  <2> HIDE DEF q
  <2>3. Get("bracket", q)  BY <1>6 DEF q
  <2> QED  BY <1>1, <1>2, <2>1, <2>2, <2>3, GetPreserves
<1> QED  BY <1>4, <1>5, <1>6 DEF Prefix

\* The report itself: button, column, line.
LEMMA ReadPreserves ==
  ASSUME InputInv, ReadBtn \/ ReadX \/ ReadY PROVE InputInv'
<1>1. stdin \in Seq(Bytes) /\ Len(stdin) \in Nat /\ reports \in Seq(Report \cup {NoReport})
      /\ btn \in Buttons /\ x \in 33 .. 255 /\ mousePos \in Positions \cup {NoReport.pos}
      /\ (stdin # <<>> => Head(stdin) = stdin[1])
  BY LenProperties DEF InputInv, TypeOK
<1>2. UNCHANGED <<queueVars, terminalVars, frameVars>>
  BY DEF ReadBtn, ReadX, ReadY, Get
<1>3. QueueInv' /\ CallsInv'  BY <1>2, ParserKeeps
<1>4. CASE ReadBtn
  <2> USE DEF ReadBtn
  <2>1. parse = "btn" /\ stdin # <<>> /\ btn' = stdin[1]  BY <1>1, <1>4 DEF Get
  <2>2. 1 + 2 <= Len(stdin) /\ Sent(reports, stdin[1], <<stdin[1 + 1], stdin[1 + 2]>>)
    BY <2>1 DEF InputInv, ParseInv, AfterM
  <2>3. 1 + 1 = 2 /\ 1 + 2 = 3  OBVIOUS
  <2>4. 3 <= Len(stdin) /\ Sent(reports, btn', <<stdin[2], stdin[3]>>)
    BY <2>1, <2>2, <2>3
  <2>5. btn' \in Buttons  BY <1>1, <2>4, SentTyped
  <2>6. Get("btn", "x") /\ UNCHANGED <<x, last_mouse, mousePos, mouseBtn>>  BY <1>4
  <2> QED  BY <1>1, <1>3, <2>4, <2>5, <2>6, GetPreserves
<1>5. CASE ReadX
  <2> USE DEF ReadX
  <2>1. parse = "x" /\ stdin # <<>> /\ x' = stdin[1]  BY <1>1, <1>5 DEF Get
  <2>2. Len(stdin) >= 2 /\ Sent(reports, btn, <<x', stdin[2]>>)
    BY <2>1 DEF InputInv, ParseInv
  <2>3. <<x', stdin[2]>> \in (33 .. 255) \X (33 .. 255)  BY <1>1, <2>2, SentTyped
  <2>4. x' \in 33 .. 255  BY <2>3
  <2>5. Get("x", "y") /\ UNCHANGED <<btn, last_mouse, mousePos, mouseBtn>>  BY <1>5
  <2> QED  BY <1>1, <1>3, <2>2, <2>4, <2>5, GetPreserves
<1>6. CASE ReadY
  <2> USE DEF ReadY
  <2>1. parse = "y" /\ stdin # <<>> /\ mousePos' = <<x, stdin[1]>>  BY <1>1, <1>6 DEF Get
  <2>2. Sent(reports, btn, mousePos')
    BY <2>1 DEF InputInv, ParseInv
  <2>3. mousePos' \in Positions \cup {NoReport.pos}  BY <1>1, <2>2, SentTyped
  <2>4. Get("y", "button") /\ UNCHANGED <<btn, x, last_mouse, mouseBtn>>  BY <1>6
  <2> QED  BY <1>1, <1>3, <2>2, <2>3, <2>4, GetPreserves
<1> QED  BY <1>4, <1>5, <1>6

\* The end of a report, and the loop's test.
LEMMA LoopPreserves ==
  ASSUME InputInv, StoreButton \/ CheckRunning PROVE InputInv'
<1>1. UNCHANGED <<queueVars, terminalVars, frameVars>>
      /\ UNCHANGED <<stdin, btn, x, mousePos, userVars, seen>>
      /\ parse' \in {"check", "start", "ended"}
  BY DEF StoreButton, CheckRunning, parserVars
<1>2. QueueInv' /\ CallsInv' /\ TickNeverThrows' /\ OutputInv'  BY <1>1, ParserKeeps
<1>3. TypeOK'
  <2>1. last_mouse' \in Buttons /\ mouseBtn' \in Buttons \cup {0}
    BY DEF StoreButton, CheckRunning, parserVars, InputInv, TypeOK
  <2> QED
    BY <1>1, <1>2, <2>1
       DEF InputInv, TypeOK, QueueInv, terminalVars, frameVars, userVars
<1>4. ParseInv'
  BY <1>1 DEF InputInv, ParseInv, userVars
<1>5. ButtonInv' /\ ReportWhole'
  <2>1. CASE StoreButton
    <3>1. Sent(reports, btn, mousePos) /\ parse = "button"
      BY <2>1 DEF StoreButton, InputInv, ParseInv
    <3>2. Sent(reports', btn', mousePos')  BY <1>1, <3>1 DEF userVars
    <3>3. last_mouse' = btn' /\ (mouseBtn' = last_mouse' \/ (mouseBtn' = 0 /\ last_mouse' = NoButton))
      <4>1. CASE last_mouse # btn
        BY <1>1, <2>1, <4>1 DEF StoreButton, IsNewButton
      <4>2. CASE last_mouse = btn
        BY <1>1, <2>1, <4>2 DEF StoreButton, IsNewButton, InputInv, ButtonInv
      <4> QED  BY <4>1, <4>2
    <3> QED  BY <3>2, <3>3 DEF ButtonInv, ReportWhole, Sent
  <2>2. CASE CheckRunning
    BY <2>2 DEF CheckRunning, InputInv, ButtonInv, ReportWhole, parserVars, userVars
  <2> QED  BY <2>1, <2>2
<1> QED  BY <1>2, <1>3, <1>4, <1>5 DEF InputInv

\* What neither thread's step on the queue changes.
LEMMA QueueKeeps ==
  ASSUME InputInv, UNCHANGED <<inputVars, userVars>>
  PROVE  ParseInv' /\ ButtonInv' /\ ReportWhole'
BY DEF InputInv, ParseInv, ButtonInv, ReportWhole, inputVars, parserVars, userVars

LEMMA PushPreserves == ASSUME InputInv, Push PROVE InputInv'
<1> USE DEF Push
<1>1. Input \in Threads /\ Main \in Threads /\ Input # Main  BY ThreadsAssumption
<1>2. QueueInv'  BY <1>1, InCallPreserves DEF InputInv
<1>3. ParseInv' /\ ButtonInv' /\ ReportWhole'  BY QueueKeeps
<1>4. TypeOK'
  BY <1>2
     DEF InputInv, TypeOK, QueueInv, inputVars, parserVars, terminalVars, frameVars, userVars
<1>5. TickNeverThrows' /\ OutputInv'
  BY DEF InputInv, TickNeverThrows, OutputInv, QuitTidies, terminalVars, frameVars
<1>6. CallsInv'
  <2> USE <1>1 DEF InputInv, CallsInv, QueueInv, QueueTypeOK, frameVars, Goto
  <2>1. CASE PushBack(Input)
    <3>1. queue' # <<>>
      BY <2>1, AppendProperties DEF PushBack, PushAtBack, ItemGiven
    <3> QED  BY <2>1, <3>1 DEF PushBack
  <2>2. CASE Acquire(Input) \/ Release(Input)
    BY <2>2 DEF Acquire, Release
  <2> QED
    BY <2>1, <2>2 DEF InCall, ReadFront, Erase, PopThrows, GetThrows
<1> QED  BY <1>2, <1>3, <1>4, <1>5, <1>6 DEF InputInv

LEMMA InputThreadPreserves == ASSUME InputInv, InputThread PROVE InputInv'
BY PlainKeyPreserves, PrefixPreserves, ReadPreserves, LoopPreserves, PushPreserves
   DEF InputThread

-----------------------------------------------------------------------------
(***************************************************************************)
(* main().                                                                 *)
(***************************************************************************)
LEMMA StartEndPreserves == ASSUME InputInv, Start \/ End PROVE InputInv'
<1> USE DEF Start, End, LoadSheet, InitializeInputManager, InitializeWindowManager,
            EndInputManager, EndWindowManager
<1>1. UNCHANGED <<queueVars, inputVars, userVars, key, mouseKey, seen>>  OBVIOUS
<1>2. QueueInv'  BY <1>1, QueueSame DEF InputInv
<1>3. ParseInv' /\ ButtonInv' /\ ReportWhole'  BY <1>1, QueueKeeps
<1>4. tickPc # "pop" /\ tickPc' \in {"init", "failed", "screen", "render", "leave", "exited"}
  OBVIOUS
<1>5. CallsInv' /\ TickNeverThrows'
  BY <1>1, <1>4 DEF InputInv, CallsInv, TickNeverThrows, queueVars
<1>6. TypeOK'
  <2>1. running' \in BOOLEAN /\ lflag' \subseteq LocalFlags /\ modes' \subseteq Modes
        /\ asked' \subseteq Modes
    BY DEF InputInv, TypeOK, terminalVars, Modes, CursorShown
  <2>2. key' = key /\ mouseKey' = mouseKey /\ seen' = seen /\ inputVars' = inputVars
        /\ userVars' = userVars
    BY <1>1
  <2> HIDE DEF Start, End, LoadSheet, InitializeInputManager, InitializeWindowManager,
               EndInputManager, EndWindowManager
  <2> QED
    BY <1>2, <1>4, <2>1, <2>2
       DEF InputInv, TypeOK, QueueInv, inputVars, parserVars, userVars, BeforeThread, WithThread
<1>7. OutputInv'
  BY DEF InputInv, OutputInv, QuitTidies, CursorShown
<1> QED  BY <1>2, <1>3, <1>5, <1>6, <1>7 DEF InputInv

\* What a step of the loop leaves alone.
LEMMA LoopKeeps ==
  ASSUME InputInv, MainLoop
  PROVE  ParseInv' /\ ButtonInv' /\ ReportWhole' /\ OutputInv'
<1>1. UNCHANGED <<inputVars, userVars>> /\ asked' = asked /\ tickPc' \notin {"leave", "exited"}
  BY DEF MainLoop, Tick, Pop, PopEnds, LoadMouse, terminalVars, frameVars, Acquire
<1> QED
  BY <1>1, QueueKeeps DEF InputInv, OutputInv, QuitTidies

\* A key is popped only if size() > 0, and that is TRUE only if an item is in
\* the vector or on its way into it.
LEMMA TickPreserves == ASSUME InputInv, Tick PROVE InputInv'
<1> USE DEF Tick
<1>1. ParseInv' /\ ButtonInv' /\ ReportWhole' /\ OutputInv'  BY LoopKeeps DEF MainLoop
<1>2. Input \in Threads /\ Main \in Threads /\ Input # Main /\ Threads = {Input, Main}
  BY ThreadsAssumption
<1>3. pc[Main] = "idle" /\ op[Input] = "push_back" /\ pc[Input] # "erase"
  BY DEF InputInv, CallsInv
<1>4. CASE Call(Main, "pop_front", NoItem) /\ tickPc' = "pop" /\ UNCHANGED key
           /\ TRUE \in SizePositive
  <2>1. QueueInv'
    BY <1>2, <1>4, CallPreserves DEF InputInv, Ops
  <2>2. queue # <<>> \/ pc[Input] = "vector"
    BY <1>2, <1>3, <1>4 DEF SizePositive, Changing
  <2>3. CallsInv'
    BY <1>2, <1>4, <2>2 DEF InputInv, CallsInv, QueueInv, QueueTypeOK, Call, Goto
  <2>4. TypeOK'
    BY <1>4, <2>1
       DEF InputInv, TypeOK, QueueInv, inputVars, parserVars, userVars, BeforeThread, WithThread
  <2> QED  BY <1>1, <1>4, <2>1, <2>3, <2>4 DEF InputInv, TickNeverThrows
<1>5. CASE key' = 0 /\ tickPc' = "mouse" /\ UNCHANGED queueVars
  <2>1. QueueInv'  BY <1>5, QueueSame DEF InputInv
  <2>2. CallsInv'  BY <1>5 DEF InputInv, CallsInv, queueVars
  <2>3. TypeOK'
    BY <1>5, <2>1
       DEF InputInv, TypeOK, QueueInv, inputVars, parserVars, userVars, BeforeThread, WithThread
  <2> QED  BY <1>1, <1>5, <2>1, <2>2, <2>3 DEF InputInv, TickNeverThrows
<1>6. PICK waiting \in KeyWaiting :
        IF waiting
        THEN Call(Main, "pop_front", NoItem) /\ tickPc' = "pop" /\ UNCHANGED key
        ELSE key' = 0 /\ tickPc' = "mouse" /\ UNCHANGED queueVars
  OBVIOUS
<1>7. waiting \in BOOLEAN  BY DEF KeyWaiting, SizePositive
<1> QED  BY <1>4, <1>5, <1>6, <1>7 DEF KeyWaiting

\* Only Main takes items, and what it was told of is there when it has the lock.
LEMMA PopPreserves == ASSUME InputInv, Pop PROVE InputInv'
<1> USE DEF Pop
<1>1. ParseInv' /\ ButtonInv' /\ ReportWhole' /\ OutputInv'  BY LoopKeeps DEF MainLoop
<1>2. Input \in Threads /\ Main \in Threads /\ Input # Main  BY ThreadsAssumption
<1>3. QueueInv'  BY <1>2, InCallPreserves DEF InputInv, InCall
<1>4. TypeOK' /\ TickNeverThrows'
  BY <1>3
     DEF InputInv, TypeOK, TickNeverThrows, QueueInv, inputVars, parserVars, terminalVars,
         frameVars, userVars
<1>5. CallsInv'
  <2> USE <1>2 DEF InputInv, CallsInv, QueueInv, QueueTypeOK, Goto, frameVars
  <2>1. CASE Acquire(Main)
    BY <2>1 DEF Acquire
  <2>2. CASE ReadFront(Main)
    <3>1. Head(queue) \in Items  BY <2>2, HeadTailProperties DEF ReadFront
    <3> QED  BY <2>2, <3>1 DEF ReadFront
  <2>3. CASE Erase(Main)
    <3>1. item[Main] \in Items  BY <2>3, HeadTailProperties DEF Erase, FrontKept
    <3> QED  BY <2>3, <3>1 DEF Erase
  <2> QED  BY <2>1, <2>2, <2>3
<1> QED  BY <1>1, <1>3, <1>4, <1>5 DEF InputInv

LEMMA PopEndsPreserves == ASSUME InputInv, PopEnds PROVE InputInv'
<1> USE DEF PopEnds
<1>1. ParseInv' /\ ButtonInv' /\ ReportWhole' /\ OutputInv'  BY LoopKeeps DEF MainLoop
<1>2. Input \in Threads /\ Main \in Threads /\ Input # Main  BY ThreadsAssumption
<1>3. Release(Main) /\ key' = item[Main] /\ seen' = Append(seen, key') /\ tickPc' = "mouse"
  <2>1. pc[Main] = "vector" => queue # <<>>
    BY <1>2 DEF InputInv, CallsInv, QueueInv, OneInside, Inside
  <2> QED  BY <2>1 DEF PopThrows
<1>4. QueueInv'  BY <1>2, <1>3, InCallPreserves DEF InputInv, InCall
<1>5. item[Main] \in Items  BY <1>3 DEF Release, InputInv, CallsInv
<1>6. TypeOK' /\ TickNeverThrows'
  <2>1. seen' \in Seq(Items) /\ key' \in Items
    BY <1>3, <1>5, AppendProperties DEF InputInv, TypeOK
  <2> QED
    BY <1>3, <1>4, <2>1
       DEF InputInv, TypeOK, TickNeverThrows, QueueInv, inputVars, parserVars, terminalVars,
           userVars, BeforeThread, WithThread
<1>7. CallsInv'
  BY <1>2, <1>3 DEF Release, Goto, InputInv, CallsInv, QueueInv, QueueTypeOK
<1> QED  BY <1>1, <1>4, <1>6, <1>7 DEF InputInv

LEMMA LoadMousePreserves == ASSUME InputInv, LoadMouse PROVE InputInv'
<1> USE DEF LoadMouse
<1>1. ParseInv' /\ ButtonInv' /\ ReportWhole' /\ OutputInv'  BY LoopKeeps DEF MainLoop
<1>2. QueueInv'  BY QueueSame DEF InputInv
<1>3. TypeOK' /\ TickNeverThrows'
  BY <1>2
     DEF InputInv, TypeOK, TickNeverThrows, QueueInv, inputVars, parserVars, terminalVars,
         userVars, BeforeThread, WithThread
<1>4. CallsInv'  BY DEF InputInv, CallsInv, queueVars
<1> QED  BY <1>1, <1>2, <1>3, <1>4 DEF InputInv

-----------------------------------------------------------------------------
LEMMA InputNextPreserves == InputInv /\ [Next]_vars => InputInv'
<1> SUFFICES ASSUME InputInv, [Next]_vars PROVE InputInv'
  OBVIOUS
<1>1. CASE Next
  BY <1>1, UserPreserves, InputThreadPreserves, StartEndPreserves, TickPreserves,
     PopPreserves, PopEndsPreserves, LoadMousePreserves
     DEF Next, MainThread, MainLoop
<1>2. CASE UNCHANGED vars
  <2>1. UNCHANGED <<queueVars, inputVars, userVars, terminalVars, frameVars, seen>>
    BY <1>2 DEF vars
  <2>2. QueueInv'  BY <2>1, QueueSame DEF InputInv
  <2>3. ParseInv' /\ ButtonInv' /\ ReportWhole'  BY <2>1, QueueKeeps
  <2>4. CallsInv' /\ TickNeverThrows' /\ OutputInv'  BY <2>1, ParserKeeps
  <2>5. TypeOK'
    BY <2>1, <2>2
       DEF InputInv, TypeOK, QueueInv, inputVars, parserVars, terminalVars, frameVars, userVars
  <2> QED  BY <2>2, <2>3, <2>4, <2>5 DEF InputInv
<1> QED  BY <1>1, <1>2

LEMMA InputInitially == Init => InputInv
<1> SUFFICES ASSUME Init PROVE InputInv  OBVIOUS
<1> USE DEF Init
<1>1. QueueInv
  BY ConcatEmptySeq, EmptySeq
     DEF QueueInit, QueueInv, QueueTypeOK, OneInside, FrontKept, ItemGiven, InOrder,
         Ops, Inside
<1>2. TypeOK
  <2>1. stdin \in Seq(Bytes) /\ typed \in Seq(Keys) /\ seen \in Seq(Items)
        /\ reports \in Seq(Report \cup {NoReport})
    BY EmptySeq
  <2>2. btn \in Buttons /\ last_mouse \in Buttons /\ events \in 0 .. MaxEvents
        /\ mousePos = NoReport.pos
    BY ReportsAssumption, EventsAssumption DEF NoReport
  <2>3. running \in BOOLEAN /\ escaped \in BOOLEAN /\ lflag \subseteq LocalFlags
        /\ modes \subseteq Modes /\ asked \subseteq Modes
    OBVIOUS
  <2>4. parse = "start" /\ tickPc = "load" /\ x = 33 /\ mouseBtn = 0 /\ mouseKey = 0 /\ key = 0
    OBVIOUS
  <2> HIDE DEF Init
  <2> QED
    BY <1>1, <2>1, <2>2, <2>3, <2>4 DEF QueueInv, TypeOK, BeforeThread
<1>3. CallsInv
  BY ThreadsAssumption DEF QueueInit, CallsInv
<1>4. Sent(reports, NoButton, <<33, 33>>)
  BY DEF Sent, NoReport
<1>5. ParseInv /\ ButtonInv /\ ReportWhole
  BY <1>4 DEF ParseInv, ButtonInv, ReportWhole, Sent, Whole
<1>6. TickNeverThrows /\ OutputInv
  BY DEF TickNeverThrows, OutputInv, QuitTidies
<1> QED  BY <1>1, <1>2, <1>3, <1>5, <1>6 DEF InputInv

(***************************************************************************)
(* The inductive invariant holds: what the threads are doing to the queue, *)
(* and that every report in the input, half parsed or whole, was sent      *)
(* (inputManager.hpp, queue.hpp).                                          *)
(***************************************************************************)
THEOREM InputInvariant == Spec => []InputInv
BY InputInitially, InputNextPreserves, PTL DEF Spec

(***************************************************************************)
(* The variables keep their types, so that no byte of a key or of another  *)
(* sequence is ever taken for a button or a place (UpdateInputManager).    *)
(***************************************************************************)
THEOREM InputTypeCorrect == Spec => []TypeOK
<1>1. InputInv => TypeOK  BY DEF InputInv
<1> QED  BY <1>1, InputInvariant, PTL

(***************************************************************************)
(* tick never throws, whatever the unlocked size() reads (tick, pop_front).*)
(***************************************************************************)
THEOREM InputTickSafe == Spec => []TickNeverThrows
<1>1. InputInv => TickNeverThrows  BY DEF InputInv
<1> QED  BY <1>1, InputInvariant, PTL

(***************************************************************************)
(* The atomics hold whole reports that were sent (UpdateInputManager).     *)
(***************************************************************************)
THEOREM InputReportsWhole == Spec => []ReportWhole
<1>1. InputInv => ReportWhole  BY DEF InputInv
<1> QED  BY <1>1, InputInvariant, PTL

(***************************************************************************)
(* A program that was quit left no mouse reports and no hidden cursor      *)
(* (EndInputManager, EndWindowManager).                                    *)
(***************************************************************************)
THEOREM InputQuitTidies == Spec => []QuitTidies
<1>1. InputInv => QuitTidies  BY DEF InputInv, OutputInv
<1> QED  BY <1>1, InputInvariant, PTL

-----------------------------------------------------------------------------
(* The keys in the input.  A sequence ends where the parser is done with it. *)
\* The place behind the sequence whose '[', or whose byte after that, is s[i].
BracketEnd(s, i) == IF s[i] = M THEN i + 4 ELSE i + 1
EscapeEnd(s, i)  == IF s[i] = BRACKET THEN BracketEnd(s, i + 1) ELSE i + 1

\* Where the first key or sequence begins that the parser is not inside of.
NextStart(s, p) ==
  CASE p = "escape"  -> EscapeEnd(s, 1)
    [] p = "bracket" -> BracketEnd(s, 1)
    [] p = "btn" -> 4
    [] p = "x" -> 3
    [] p = "y" -> 2
    [] p \notin {"escape", "bracket", "btn", "x", "y"} -> 1

\* The keys and sequences of s begin at the places in f's domain, and f[i] are
\* the plain keys from place i on.
Holds(s, f) ==
  /\ f = [i \in DOMAIN f |-> f[i]] /\ DOMAIN f \subseteq 1 .. Len(s) + 1
  /\ Len(s) + 1 \in DOMAIN f /\ f[Len(s) + 1] = <<>>
  /\ \A i \in DOMAIN f :
       /\ f[i] \in Seq(Keys)
       /\ i <= Len(s) /\ s[i] = ESC =>
            EscapeEnd(s, i + 1) \in DOMAIN f /\ f[i] = f[EscapeEnd(s, i + 1)]
       /\ i <= Len(s) /\ s[i] # ESC =>
            s[i] \in Keys /\ i + 1 \in DOMAIN f /\ f[i] = <<s[i]>> \o f[i + 1]

\* The bytes t are one key, which is ks, or one whole sequence.
Adds(t, ks) ==
  /\ t # <<>>
  /\ t[1] = ESC => EscapeEnd(t, 2) = Len(t) + 1 /\ ks = <<>>
  /\ t[1] # ESC => Len(t) = 1 /\ t[1] \in Keys /\ ks = <<t[1]>>

\* The keys the input thread has read: the last one is perhaps not pushed yet.
Read == IF pc[Input] \in {"spin", "vector"} THEN Append(pushed, item[Input]) ELSE pushed

\* Whatever was typed was read, or is still in the input.
TypedAhead(f) ==
  /\ Holds(stdin, f)
  /\ NextStart(stdin, parse) \in DOMAIN f
  /\ typed = Read \o f[NextStart(stdin, parse)]

KeysInv ==
  /\ pc[Input] # "idle" => parse = "check"
  /\ ~escaped => \E f : TypedAhead(f)
  /\ popped = IF pc[Main] = "clear" THEN Append(seen, item[Main]) ELSE seen

(***************************************************************************)
(* A sequence that ended before more input came ends where it did; reading *)
(* a byte moves the end one place to the front (cin.get()).                *)
(***************************************************************************)
LEMMA EndsExtended ==
  ASSUME NEW s \in Seq(Bytes), NEW t \in Seq(Bytes), NEW i \in Nat \ {0}
  PROVE  /\ BracketEnd(s, i) <= Len(s) + 1 => BracketEnd(s \o t, i) = BracketEnd(s, i)
         /\ EscapeEnd(s, i) <= Len(s) + 1 => EscapeEnd(s \o t, i) = EscapeEnd(s, i)
<1>1. Len(s) \in Nat /\ \A j \in Nat \ {0} : j <= Len(s) => (s \o t)[j] = s[j]
  BY LenProperties, ConcatProperties
<1>2. \A j \in Nat \ {0} : BracketEnd(s, j) <= Len(s) + 1 =>
        BracketEnd(s \o t, j) = BracketEnd(s, j) /\ j <= Len(s)
  BY <1>1 DEF BracketEnd
<1>3. ASSUME EscapeEnd(s, i) <= Len(s) + 1
      PROVE  EscapeEnd(s \o t, i) = EscapeEnd(s, i)
  <2>1. i + 1 \in Nat \ {0}  OBVIOUS
  <2>2. i <= Len(s)
    <3>1. CASE s[i] = BRACKET  BY <1>1, <1>2, <1>3, <2>1, <3>1 DEF EscapeEnd
    <3>2. CASE s[i] # BRACKET  BY <1>1, <1>3, <3>2 DEF EscapeEnd
    <3> QED  BY <3>1, <3>2
  <2>3. (s \o t)[i] = s[i]  BY <1>1, <2>2
  <2> QED  BY <1>2, <1>3, <2>1, <2>3 DEF EscapeEnd
<1> QED  BY <1>2, <1>3

LEMMA EndsShifted ==
  ASSUME NEW s \in Seq(Bytes), s # <<>>, NEW i \in Nat \ {0}
  PROVE  /\ BracketEnd(s, i + 1) <= Len(s) + 1 =>
              BracketEnd(Tail(s), i) = BracketEnd(s, i + 1) - 1
         /\ EscapeEnd(s, i + 1) <= Len(s) + 1 =>
              EscapeEnd(Tail(s), i) = EscapeEnd(s, i + 1) - 1
<1>1. Len(s) \in Nat /\ Len(Tail(s)) = Len(s) - 1
      /\ \A j \in Nat \ {0} : j + 1 <= Len(s) => Tail(s)[j] = s[j + 1]
  BY LenProperties, HeadTailProperties
<1>2. \A j \in Nat \ {0} : BracketEnd(s, j + 1) <= Len(s) + 1 =>
        BracketEnd(Tail(s), j) = BracketEnd(s, j + 1) - 1 /\ j + 1 <= Len(s)
  BY <1>1 DEF BracketEnd
<1>3. ASSUME EscapeEnd(s, i + 1) <= Len(s) + 1
      PROVE  EscapeEnd(Tail(s), i) = EscapeEnd(s, i + 1) - 1
  <2>1. i + 1 \in Nat \ {0}  OBVIOUS
  <2>2. i + 1 <= Len(s)
    <3>1. CASE s[i + 1] = BRACKET  BY <1>1, <1>2, <1>3, <2>1, <3>1 DEF EscapeEnd
    <3>2. CASE s[i + 1] # BRACKET  BY <1>1, <1>3, <3>2 DEF EscapeEnd
    <3> QED  BY <3>1, <3>2
  <2>3. Tail(s)[i] = s[i + 1]  BY <1>1, <2>2
  <2> QED  BY <1>2, <1>3, <2>1, <2>3 DEF EscapeEnd
<1> QED  BY <1>2, <1>3

\* Behind s the bytes t add the keys ks to what f says of s.
AddsTo(s, t, ks, f) ==
  \E g : /\ Holds(s \o t, g) /\ DOMAIN f \subseteq DOMAIN g
         /\ \A i \in DOMAIN f : g[i] = f[i] \o ks

(***************************************************************************)
(* One key, or one whole sequence, behind s adds just that key to what s   *)
(* holds, wherever the parser is.                                          *)
(***************************************************************************)
LEMMA HoldsMore ==
  ASSUME NEW s \in Seq(Bytes), NEW t \in Seq(Bytes), NEW ks, ks \in Seq(Keys),
         NEW f, Holds(s, f), Adds(t, ks)
  PROVE  AddsTo(s, t, ks, f)
<1> DEFINE u == s \o t
           e == Len(s) + Len(t) + 1
           g == [i \in DOMAIN f \cup {e} |-> IF i = e THEN <<>> ELSE f[i] \o ks]
<1>0. ASSUME NEW k \in Keys, NEW b \in Seq(Keys)
      PROVE  (<<k>> \o b) \o ks = <<k>> \o (b \o ks)
  <2>1. <<k>> \in Seq(Keys)  OBVIOUS
  <2> QED  BY <2>1, ConcatAssociative
<1>1. Len(s) \in Nat /\ Len(t) \in Nat \ {0} /\ u \in Seq(Bytes) /\ Len(u) + 1 = e
      /\ e \in Nat \ {0}
  BY LenProperties, EmptySeq, ConcatProperties DEF Adds
<1>2. /\ \A j \in 1 .. Len(s) : u[j] = s[j]
      /\ \A j \in 1 .. Len(t) : u[Len(s) + j] = t[j]
  BY <1>1, ConcatProperties
<1>3. DOMAIN g = DOMAIN f \cup {e} /\ DOMAIN f \subseteq 1 .. Len(s) + 1
      /\ Len(s) + 1 \in DOMAIN f /\ f[Len(s) + 1] = <<>>
  BY DEF Holds
<1>4. e \notin DOMAIN f  BY <1>1, <1>3
<1>5. /\ \A i \in DOMAIN f : g[i] = f[i] \o ks
      /\ g[e] = <<>> /\ g = [i \in DOMAIN g |-> g[i]]
  BY <1>3, <1>4
<1>6. \A i \in DOMAIN f : f[i] \in Seq(Keys)  BY DEF Holds
<1>7. \A i \in DOMAIN g : g[i] \in Seq(Keys)
  BY <1>3, <1>5, <1>6, ConcatProperties, EmptySeq
<1>8. \A i \in Nat \ {0} : EscapeEnd(s, i) <= Len(s) + 1 => EscapeEnd(u, i) = EscapeEnd(s, i)
  BY EndsExtended
<1> HIDE DEF g, u, e
<1>9. ASSUME NEW i \in DOMAIN f, i <= Len(s), u[i] = ESC
      PROVE  EscapeEnd(u, i + 1) \in DOMAIN g /\ g[i] = g[EscapeEnd(u, i + 1)]
  <2>1. i \in 1 .. Len(s) /\ i + 1 \in Nat \ {0}  BY <1>1, <1>3, <1>9
  <2>0. s[i] = ESC  BY <1>2, <1>9, <2>1
  <2>2. EscapeEnd(s, i + 1) \in DOMAIN f /\ f[i] = f[EscapeEnd(s, i + 1)]
    BY <1>9, <2>0 DEF Holds
  <2>3. EscapeEnd(s, i + 1) <= Len(s) + 1  BY <1>3, <2>2
  <2>4. EscapeEnd(u, i + 1) = EscapeEnd(s, i + 1)  BY <1>8, <2>1, <2>3
  <2> QED  BY <1>3, <1>5, <2>2, <2>4
<1>10. ASSUME NEW i \in DOMAIN f, i <= Len(s), u[i] # ESC
       PROVE  u[i] \in Keys /\ i + 1 \in DOMAIN g /\ g[i] = <<u[i]>> \o g[i + 1]
  <2>1. u[i] = s[i]  BY <1>1, <1>2, <1>3, <1>10
  <2>2. s[i] \in Keys /\ i + 1 \in DOMAIN f /\ f[i] = <<s[i]>> \o f[i + 1]
    BY <1>10, <2>1 DEF Holds
  <2>3. (<<s[i]>> \o f[i + 1]) \o ks = <<s[i]>> \o (f[i + 1] \o ks)
    BY <1>0, <1>6, <2>2
  <2> QED  BY <1>3, <1>5, <2>1, <2>2, <2>3
<1>11. g[Len(s) + 1] = ks  BY <1>3, <1>5, ConcatEmptySeq
<1>12. u[Len(s) + 1] = t[1]  BY <1>1, <1>2
<1>13. ASSUME t[1] = ESC
       PROVE  EscapeEnd(u, Len(s) + 1 + 1) = e
  <2>1. EscapeEnd(t, 2) = Len(t) + 1  BY <1>13 DEF Adds
  <2>2. Len(t) >= 2 /\ u[Len(s) + 2] = t[2]
    <3>1. EscapeEnd(t, 2) >= 3  BY DEF EscapeEnd, BracketEnd
    <3> QED  BY <1>1, <1>2, <2>1, <3>1
  <2>3. Len(s) + 1 + 1 = Len(s) + 2 /\ Len(s) + 2 + 1 = Len(s) + 3  BY <1>1
  <2>4. CASE t[2] = BRACKET
    <3>1. Len(t) >= 3 /\ u[Len(s) + 3] = t[3]
      <4>1. EscapeEnd(t, 2) = BracketEnd(t, 3)  BY <2>4 DEF EscapeEnd
      <4>2. BracketEnd(t, 3) >= 4  BY DEF BracketEnd
      <4> QED  BY <1>1, <1>2, <2>1, <4>1, <4>2
    <3> QED  BY <1>1, <2>1, <2>2, <2>3, <2>4, <3>1 DEF EscapeEnd, BracketEnd, e
  <2>5. CASE t[2] # BRACKET
    BY <1>1, <2>1, <2>2, <2>3, <2>5 DEF EscapeEnd, e
  <2> QED  BY <2>4, <2>5
<1>14. \A i \in DOMAIN g : i <= Len(u) => i \in DOMAIN f /\ (i <= Len(s) \/ i = Len(s) + 1)
  BY <1>1, <1>3
<1>15. ASSUME NEW i \in DOMAIN g, i <= Len(u), u[i] = ESC
       PROVE  EscapeEnd(u, i + 1) \in DOMAIN g /\ g[i] = g[EscapeEnd(u, i + 1)]
  <2>1. CASE i <= Len(s)  BY <1>9, <1>14, <1>15, <2>1
  <2>2. CASE i = Len(s) + 1
    <3>1. t[1] = ESC /\ ks = <<>>  BY <1>12, <1>15, <2>2 DEF Adds
    <3>2. EscapeEnd(u, i + 1) = e  BY <1>13, <2>2, <3>1
    <3> QED  BY <1>3, <1>5, <1>11, <2>2, <3>1, <3>2
  <2> QED  BY <1>14, <1>15, <2>1, <2>2
<1>16. ASSUME NEW i \in DOMAIN g, i <= Len(u), u[i] # ESC
       PROVE  u[i] \in Keys /\ i + 1 \in DOMAIN g /\ g[i] = <<u[i]>> \o g[i + 1]
  <2>1. CASE i <= Len(s)  BY <1>10, <1>14, <1>16, <2>1
  <2>2. CASE i = Len(s) + 1
    <3>1. u[i] = t[1] /\ Len(t) = 1 /\ t[1] \in Keys /\ ks = <<t[1]>>
      BY <1>12, <1>16, <2>2 DEF Adds
    <3>2. i + 1 = e  BY <1>1, <2>2, <3>1 DEF e
    <3>3. <<t[1]>> \o <<>> = <<t[1]>>
      <4>1. <<t[1]>> \in Seq(Keys)  BY <3>1
      <4> QED  BY <4>1, ConcatEmptySeq
    <3>4. g[i] = ks /\ g[i + 1] = <<>> /\ i + 1 \in DOMAIN g
      BY <1>3, <1>5, <1>11, <2>2, <3>2
    <3> QED  BY <3>1, <3>3, <3>4
  <2> QED  BY <1>14, <1>16, <2>1, <2>2
<1>17. DOMAIN g \subseteq 1 .. Len(u) + 1 /\ Len(u) + 1 \in DOMAIN g /\ g[Len(u) + 1] = <<>>
  <2>1. e \in 1 .. e /\ Len(s) + 1 <= e  BY <1>1 DEF e
  <2> QED  BY <1>1, <1>3, <1>5, <2>1
<1>18. Holds(u, g)  BY <1>5, <1>7, <1>15, <1>16, <1>17 DEF Holds
<1> QED  BY <1>3, <1>5, <1>18 DEF u, AddsTo

(***************************************************************************)
(* What is behind the first byte of s holds the same keys one place before.*)
(***************************************************************************)
LEMMA HoldsLess ==
  ASSUME NEW s \in Seq(Bytes), s # <<>>, NEW f, Holds(s, f)
  PROVE  \E g : /\ Holds(Tail(s), g)
                /\ \A i \in Nat \ {0} : i + 1 \in DOMAIN f => i \in DOMAIN g /\ g[i] = f[i + 1]
<1> DEFINE u == Tail(s)
           g == [i \in {j \in 1 .. Len(s) : j + 1 \in DOMAIN f} |-> f[i + 1]]
<1>1. Len(s) \in Nat \ {0} /\ u \in Seq(Bytes) /\ Len(u) \in Nat /\ Len(u) + 1 = Len(s)
      /\ \A j \in 1 .. Len(u) : u[j] = s[j + 1]
  BY LenProperties, EmptySeq, HeadTailProperties
<1>2. DOMAIN f \subseteq 1 .. Len(s) + 1 /\ Len(s) + 1 \in DOMAIN f /\ f[Len(s) + 1] = <<>>
  BY DEF Holds
<1>3. DOMAIN g = {j \in 1 .. Len(s) : j + 1 \in DOMAIN f} /\ g = [i \in DOMAIN g |-> g[i]]
      /\ \A i \in DOMAIN g : g[i] = f[i + 1]
  OBVIOUS
<1>4. \A i \in Nat \ {0} : EscapeEnd(s, i + 1) <= Len(s) + 1 =>
        EscapeEnd(u, i) = EscapeEnd(s, i + 1) - 1
  BY EndsShifted
<1> HIDE DEF g, u
<1>5. \A i \in Nat \ {0} : i + 1 \in DOMAIN f => i \in DOMAIN g
  BY <1>1, <1>2, <1>3
<1>6. \A i \in DOMAIN g : g[i] \in Seq(Keys)  BY <1>3 DEF Holds
<1>7. ASSUME NEW i \in DOMAIN g, i <= Len(u), u[i] = ESC
      PROVE  EscapeEnd(u, i + 1) \in DOMAIN g /\ g[i] = g[EscapeEnd(u, i + 1)]
  <2>1. i + 1 \in DOMAIN f /\ i + 1 <= Len(s) /\ s[i + 1] = ESC /\ i + 1 \in Nat \ {0}
    BY <1>1, <1>3, <1>7
  <2>2. EscapeEnd(s, i + 1 + 1) \in DOMAIN f /\ f[i + 1] = f[EscapeEnd(s, i + 1 + 1)]
    BY <2>1 DEF Holds
  <2>3. EscapeEnd(s, i + 1 + 1) <= Len(s) + 1  BY <1>2, <2>2
  <2>4. EscapeEnd(u, i + 1) = EscapeEnd(s, i + 1 + 1) - 1  BY <1>4, <2>1, <2>3
  <2>5. EscapeEnd(s, i + 1 + 1) \in Nat /\ EscapeEnd(s, i + 1 + 1) > i + 1 + 1
    BY <2>1 DEF EscapeEnd, BracketEnd
  <2>6. EscapeEnd(u, i + 1) \in Nat \ {0} /\ EscapeEnd(u, i + 1) + 1 = EscapeEnd(s, i + 1 + 1)
    BY <2>1, <2>4, <2>5
  <2> QED  BY <1>3, <1>5, <2>2, <2>6
<1>8. ASSUME NEW i \in DOMAIN g, i <= Len(u), u[i] # ESC
      PROVE  u[i] \in Keys /\ i + 1 \in DOMAIN g /\ g[i] = <<u[i]>> \o g[i + 1]
  <2>1. i + 1 \in DOMAIN f /\ i + 1 <= Len(s) /\ s[i + 1] # ESC /\ i + 1 \in Nat \ {0}
        /\ u[i] = s[i + 1]
    BY <1>1, <1>3, <1>8
  <2>2. s[i + 1] \in Keys /\ i + 1 + 1 \in DOMAIN f /\ f[i + 1] = <<s[i + 1]>> \o f[i + 1 + 1]
    BY <2>1 DEF Holds
  <2> QED  BY <1>3, <1>5, <2>1, <2>2
<1>9. DOMAIN g \subseteq 1 .. Len(u) + 1 /\ Len(u) + 1 \in DOMAIN g /\ g[Len(u) + 1] = <<>>
  BY <1>1, <1>2, <1>3
<1>10. Holds(u, g)  BY <1>3, <1>6, <1>7, <1>8, <1>9 DEF Holds
<1> QED  BY <1>3, <1>5, <1>10 DEF u

(***************************************************************************)
(* What the user does and the input thread reads keeps what was typed      *)
(* ahead: the keys in the input are those that were typed and not read.    *)
(***************************************************************************)
LEMMA TypedMore ==
  ASSUME InputInv, NEW f, TypedAhead(f), NEW bytes, bytes \in Seq(Bytes), NEW ks, ks \in Seq(Keys),
         Adds(bytes, ks), Emit(bytes), typed' = typed \o ks
  PROVE  \E g : TypedAhead(g)'
<1> DEFINE n == NextStart(stdin, parse)
<1>1. stdin \in Seq(Bytes) /\ stdin' = stdin \o bytes /\ parse' = parse /\ Len(stdin) \in Nat
  BY LenProperties DEF InputInv, TypeOK, Emit
<1>2. Holds(stdin, f) /\ n \in DOMAIN f /\ typed = Read \o f[n]
  BY DEF TypedAhead
<1>3. n \in 1 .. Len(stdin) + 1 /\ f[n] \in Seq(Keys)
  BY <1>2 DEF Holds
<1>4. NextStart(stdin', parse') = n
  <2>1. 1 \in Nat \ {0}  OBVIOUS
  <2>2. /\ BracketEnd(stdin, 1) <= Len(stdin) + 1 => BracketEnd(stdin', 1) = BracketEnd(stdin, 1)
        /\ EscapeEnd(stdin, 1) <= Len(stdin) + 1 => EscapeEnd(stdin', 1) = EscapeEnd(stdin, 1)
    BY <1>1, <2>1, EndsExtended
  <2>3. CASE parse = "escape"
    BY <1>1, <1>3, <2>2, <2>3 DEF NextStart
  <2>4. CASE parse = "bracket"
    BY <1>1, <1>3, <2>2, <2>4 DEF NextStart
  <2>5. CASE parse \notin {"escape", "bracket"}
    BY <1>1, <2>5 DEF NextStart
  <2> QED  BY <2>3, <2>4, <2>5
<1>5. Read' = Read /\ Read \in Seq(Items)
  <2>1. Read' = Read  BY DEF Read, Emit, queueVars
  <2>2. Read \in Seq(Items)
    BY ThreadsAssumption, AppendProperties
       DEF Read, InputInv, QueueInv, QueueTypeOK, ItemGiven, CallsInv
  <2> QED  BY <2>1, <2>2
<1>6. PICK g : /\ Holds(stdin \o bytes, g) /\ DOMAIN f \subseteq DOMAIN g
               /\ \A i \in DOMAIN f : g[i] = f[i] \o ks
  <2>1. AddsTo(stdin, bytes, ks, f)  BY <1>1, <1>2, HoldsMore
  <2> QED  BY <2>1 DEF AddsTo
<1>7. typed' = Read \o (f[n] \o ks)
  <2>1. Seq(Keys) \subseteq Seq(Items)  BY KeysAssumption
  <2>2. ASSUME NEW a \in Seq(Items), NEW b \in Seq(Keys)
        PROVE  (a \o b) \o ks = a \o (b \o ks)
    <3>1. b \in Seq(Items) /\ ks \in Seq(Items)  BY <2>1
    <3> QED  BY <3>1, ConcatAssociative
  <2> HIDE DEF n
  <2> QED  BY <1>2, <1>3, <1>5, <2>2
<1> HIDE DEF n
<1>8. TypedAhead(g)'
  BY <1>1, <1>2, <1>4, <1>5, <1>6, <1>7 DEF TypedAhead
<1> QED  BY <1>8

LEMMA TypedLess ==
  ASSUME InputInv, NEW f, TypedAhead(f), stdin # <<>>, stdin' = Tail(stdin),
         NextStart(stdin', parse') + 1 = NextStart(stdin, parse), typed' = typed,
         Read' = Read
  PROVE  \E g : TypedAhead(g)'
<1>1. stdin \in Seq(Bytes)  BY DEF InputInv, TypeOK
<1>2. Holds(stdin, f) /\ NextStart(stdin, parse) \in DOMAIN f
      /\ typed = Read \o f[NextStart(stdin, parse)]
  BY DEF TypedAhead
<1>3. PICK g : /\ Holds(stdin', g)
               /\ \A i \in Nat \ {0} : i + 1 \in DOMAIN f => i \in DOMAIN g /\ g[i] = f[i + 1]
  BY <1>1, <1>2, HoldsLess
<1>4. NextStart(stdin', parse') \in Nat \ {0}
  BY DEF NextStart, EscapeEnd, BracketEnd
<1>5. TypedAhead(g)'
  BY <1>2, <1>3, <1>4 DEF TypedAhead
<1> QED  BY <1>5

LEMMA UserTypes ==
  ASSUME InputInv, KeysInv, User, ~escaped'
  PROVE  \E g : TypedAhead(g)'
<1> USE DEF Bytes
<1>1. ~escaped /\ typed \in Seq(Keys)
  BY DEF User, TypeKey, TypeOtherKey, TypeEscape, Mouse, InputInv, TypeOK
<1>2. PICK f : TypedAhead(f)  BY <1>1 DEF KeysInv
<1>3. typed \o <<>> = typed /\ <<>> \in Seq(Keys)  BY <1>1, ConcatEmptySeq, EmptySeq
<1>4. ASSUME NEW k \in Keys, TypeKey(k) PROVE \E g : TypedAhead(g)'
  <2>1. k \in Items \ {ESC}  BY KeysAssumption
  <2>2. <<k>> \in Seq(Bytes) /\ <<k>> \in Seq(Keys) /\ Adds(<<k>>, <<k>>)
    BY <2>1 DEF Adds
  <2>3. typed' = typed \o <<k>>  BY <1>1, <1>4, AppendIsConcat DEF TypeKey
  <2> QED  BY <1>2, <1>4, <2>2, <2>3, TypedMore DEF TypeKey
<1>5. ASSUME NEW s \in OtherKeys, TypeOtherKey(s) PROVE \E g : TypedAhead(g)'
  <2>1. s \in Seq(Bytes) /\ Adds(s, <<>>)
    <3>1. CASE \E c \in Items \ {ESC, BRACKET} : s = <<ESC, c>>
      BY <3>1 DEF Adds, EscapeEnd, BracketEnd
    <3>2. CASE \E c \in Items \ {ESC, M} : s = <<ESC, BRACKET, c>>
      BY <3>2, ItemsAreBytes DEF Adds, EscapeEnd, BracketEnd
    <3> QED  BY <3>1, <3>2, OtherKeysAssumption
  <2> QED  BY <1>2, <1>3, <1>5, <2>1, TypedMore DEF TypeOtherKey
<1>6. ASSUME NEW r \in Report, Mouse(r) PROVE \E g : TypedAhead(g)'
  <2> DEFINE bytes == <<ESC, BRACKET, M, r.btn, r.pos[1], r.pos[2]>>
  <2>1. r.btn \in Items /\ r.pos[1] \in Items /\ r.pos[2] \in Items
    <3>1. r.btn \in Buttons /\ r.pos \in Positions  BY DEF Report
    <3>2. r.pos \in Items \X Items  BY <3>1, ReportsAssumption
    <3> QED  BY <3>1, <3>2, ReportsAssumption
  <2>2. bytes \in Seq(Bytes)  BY <2>1, ItemsAreBytes
  <2>3. Adds(bytes, <<>>)  BY DEF Adds, EscapeEnd, BracketEnd
  <2>4. Emit(bytes) /\ typed' = typed  BY <1>6 DEF Mouse
  <2> HIDE DEF bytes
  <2> QED  BY <1>2, <1>3, <2>2, <2>3, <2>4, TypedMore
<1>7. ~TypeEscape  BY DEF TypeEscape
<1> QED  BY <1>4, <1>5, <1>6, <1>7 DEF User

\* The input thread takes the first byte of a key, or is inside a sequence.
LEMMA ParserReads ==
  ASSUME InputInv, KeysInv, ~escaped, NEW f, TypedAhead(f),
         PlainKey \/ Prefix \/ ReadBtn \/ ReadX \/ ReadY
  PROVE  \E g : TypedAhead(g)'
<1>1. stdin \in Seq(Bytes) /\ stdin # <<>> /\ stdin' = Tail(stdin) /\ Head(stdin) = stdin[1]
      /\ typed' = typed /\ Len(stdin) \in Nat \ {0} /\ 1 \in Nat \ {0} /\ 1 + 1 = 2
  BY LenProperties, EmptySeq
     DEF PlainKey, Prefix, ReadBtn, ReadX, ReadY, Get, InputInv, TypeOK, userVars
<1>2. Holds(stdin, f) /\ NextStart(stdin, parse) \in DOMAIN f
      /\ typed = Read \o f[NextStart(stdin, parse)] /\ DOMAIN f \subseteq 1 .. Len(stdin) + 1
  BY DEF TypedAhead, Holds
<1>3. /\ BracketEnd(stdin, 2) <= Len(stdin) + 1 =>
           BracketEnd(stdin', 1) + 1 = BracketEnd(stdin, 2)
      /\ EscapeEnd(stdin, 2) <= Len(stdin) + 1 =>
           EscapeEnd(stdin', 1) + 1 = EscapeEnd(stdin, 2)
  <2>1. /\ BracketEnd(stdin, 1 + 1) <= Len(stdin) + 1 =>
             BracketEnd(stdin', 1) = BracketEnd(stdin, 1 + 1) - 1
        /\ EscapeEnd(stdin, 1 + 1) <= Len(stdin) + 1 =>
             EscapeEnd(stdin', 1) = EscapeEnd(stdin, 1 + 1) - 1
    BY <1>1, EndsShifted
  <2>2. BracketEnd(stdin, 2) \in Nat /\ EscapeEnd(stdin, 2) \in Nat
    BY DEF BracketEnd, EscapeEnd
  <2> QED  BY <1>1, <2>1, <2>2
<1>4. CASE PlainKey
  <2>1. parse = "start" /\ parse' = "check" /\ stdin[1] # ESC /\ pc[Input] = "idle"
        /\ pushed' = pushed /\ pc'[Input] = "spin" /\ item'[Input] = stdin[1]
    BY <1>1, <1>4, ThreadsAssumption
       DEF PlainKey, Get, Call, Goto, InputInv, QueueInv, QueueTypeOK
  <2>2. 1 \in DOMAIN f /\ stdin[1] \in Keys /\ 2 \in DOMAIN f /\ f[1] = <<stdin[1]>> \o f[2]
        /\ f[2] \in Seq(Keys) /\ typed = pushed \o f[1]
    <3>1. NextStart(stdin, parse) = 1  BY <2>1 DEF NextStart
    <3>2. Read = pushed  BY <2>1 DEF Read
    <3>3. 1 \in DOMAIN f /\ 1 <= Len(stdin) /\ typed = pushed \o f[1]
      BY <1>1, <1>2, <3>1, <3>2
    <3>4. stdin[1] \in Keys /\ 1 + 1 \in DOMAIN f /\ f[1] = <<stdin[1]>> \o f[1 + 1]
      BY <1>2, <2>1, <3>3 DEF Holds
    <3>5. f[1 + 1] \in Seq(Keys)  BY <1>2, <3>4 DEF Holds
    <3> QED  BY <1>1, <3>3, <3>4, <3>5
  <2>3. Read' = Append(pushed, stdin[1])  BY <2>1 DEF Read
  <2>4. typed' = Read' \o f[2]
    <3>1. ASSUME NEW a \in Seq(Items), NEW k \in Items, NEW b \in Seq(Items)
          PROVE  a \o (<<k>> \o b) = Append(a, k) \o b
      <4>1. <<k>> \in Seq(Items) /\ Append(a, k) = a \o <<k>>  BY AppendIsConcat
      <4> QED  BY <4>1, ConcatAssociative
    <3>2. pushed \in Seq(Items) /\ stdin[1] \in Items /\ f[2] \in Seq(Items)
      BY <2>2, KeysAssumption DEF InputInv, QueueInv, QueueTypeOK
    <3>3. Read' = Append(pushed, stdin[1]) /\ typed' = pushed \o (<<stdin[1]>> \o f[2])
      BY <1>1, <2>2, <2>3
    <3> QED  BY <3>1, <3>2, <3>3
  <2>5. PICK g : /\ Holds(stdin', g)
                 /\ \A i \in Nat \ {0} : i + 1 \in DOMAIN f => i \in DOMAIN g /\ g[i] = f[i + 1]
    BY <1>1, <1>2, HoldsLess
  <2>6. 1 \in DOMAIN g /\ g[1] = f[2]  BY <1>1, <2>2, <2>5
  <2>7. NextStart(stdin', parse') = 1  BY <2>1 DEF NextStart
  <2>8. TypedAhead(g)'  BY <2>4, <2>5, <2>6, <2>7 DEF TypedAhead
  <2> QED  BY <2>8
<1>5. CASE Get("start", "escape") /\ Head(stdin) = ESC /\ UNCHANGED queueVars
  <2>1. parse = "start" /\ parse' = "escape" /\ stdin[1] = ESC /\ Read' = Read
    BY <1>1, <1>5 DEF Get, queueVars, Read
  <2>2. NextStart(stdin, parse) = 1 /\ NextStart(stdin', parse') = EscapeEnd(stdin', 1)
    BY <2>1 DEF NextStart
  <2>3. EscapeEnd(stdin, 2) \in DOMAIN f /\ f[1] = f[EscapeEnd(stdin, 2)]
    <3>1. 1 \in DOMAIN f /\ 1 <= Len(stdin)  BY <1>1, <1>2, <2>2
    <3>2. EscapeEnd(stdin, 1 + 1) \in DOMAIN f /\ f[1] = f[EscapeEnd(stdin, 1 + 1)]
      BY <1>2, <2>1, <3>1 DEF Holds
    <3> QED  BY <1>1, <3>2
  <2>4. EscapeEnd(stdin', 1) + 1 = EscapeEnd(stdin, 2)
    BY <1>2, <1>3, <2>3
  <2>5. EscapeEnd(stdin', 1) \in Nat \ {0}  BY DEF EscapeEnd, BracketEnd
  <2>6. PICK g : /\ Holds(stdin', g)
                 /\ \A i \in Nat \ {0} : i + 1 \in DOMAIN f => i \in DOMAIN g /\ g[i] = f[i + 1]
    BY <1>1, <1>2, HoldsLess
  <2>7. EscapeEnd(stdin', 1) \in DOMAIN g /\ g[EscapeEnd(stdin', 1)] = f[1]
    BY <2>3, <2>4, <2>5, <2>6
  <2>8. TypedAhead(g)'  BY <1>1, <1>2, <2>1, <2>2, <2>6, <2>7 DEF TypedAhead
  <2> QED  BY <2>8
<1>6. CASE Get("escape", NextIfBracket(Head(stdin))) /\ UNCHANGED queueVars
  <2>1. parse = "escape" /\ parse' = NextIfBracket(stdin[1]) /\ Read' = Read
    BY <1>1, <1>6 DEF Get, queueVars, Read
  <2>2. NextStart(stdin, parse) = EscapeEnd(stdin, 1)  BY <2>1 DEF NextStart
  <2>3. CASE stdin[1] = BRACKET
    <3>1. NextStart(stdin, parse) = BracketEnd(stdin, 2)  BY <2>2, <2>3 DEF EscapeEnd
    <3>2. NextStart(stdin', parse') = BracketEnd(stdin', 1)
      BY <2>1, <2>3 DEF NextStart, NextIfBracket
    <3>3. BracketEnd(stdin', 1) + 1 = BracketEnd(stdin, 2)  BY <1>2, <1>3, <3>1
    <3> QED  BY <1>1, <2>1, <3>1, <3>2, <3>3, TypedLess
  <2>4. CASE stdin[1] # BRACKET
    <3>1. NextStart(stdin, parse) = 2  BY <2>2, <2>4 DEF EscapeEnd
    <3>2. NextStart(stdin', parse') = 1  BY <2>1, <2>4 DEF NextStart, NextIfBracket
    <3> QED  BY <1>1, <2>1, <3>1, <3>2, TypedLess
  <2> QED  BY <2>3, <2>4
<1>7. CASE Get("bracket", NextIfM(Head(stdin))) /\ UNCHANGED queueVars
  <2>1. parse = "bracket" /\ parse' = NextIfM(stdin[1]) /\ Read' = Read
    BY <1>1, <1>7 DEF Get, queueVars, Read
  <2>2. NextStart(stdin, parse) = IF stdin[1] = M THEN 5 ELSE 2
    BY <2>1 DEF NextStart, BracketEnd
  <2>3. NextStart(stdin', parse') = IF stdin[1] = M THEN 4 ELSE 1
    BY <2>1 DEF NextStart, NextIfM
  <2> QED  BY <1>1, <2>1, <2>2, <2>3, TypedLess
<1>8. CASE ReadBtn \/ ReadX \/ ReadY
  <2>1. Read' = Read  BY <1>8 DEF ReadBtn, ReadX, ReadY, queueVars, Read
  <2>2. NextStart(stdin', parse') + 1 = NextStart(stdin, parse)
    BY <1>8 DEF ReadBtn, ReadX, ReadY, Get, NextStart
  <2> QED  BY <1>1, <2>1, <2>2, TypedLess
<1> QED  BY <1>4, <1>5, <1>6, <1>7, <1>8 DEF Prefix

\* All other steps leave the input, and what was read of it, alone.
LEMMA OthersKeep ==
  ASSUME InputInv, KeysInv, NEW f, TypedAhead(f),
         \/ CheckRunning \/ StoreButton \/ Push \/ MainThread \/ UNCHANGED vars
  PROVE  TypedAhead(f)'
<1>1. Input \in Threads /\ Main \in Threads /\ Input # Main  BY ThreadsAssumption
<1>2. stdin' = stdin /\ typed' = typed
      /\ NextStart(stdin, parse') = NextStart(stdin, parse)
  BY DEF CheckRunning, StoreButton, Push, MainThread, MainLoop, Start, End, LoadSheet,
         InitializeInputManager, InitializeWindowManager, Tick, Pop, PopEnds, LoadMouse,
         EndInputManager, EndWindowManager, inputVars, userVars, vars, NextStart
<1>3. Read' = Read
  <2> USE DEF InputInv, QueueInv, QueueTypeOK, Goto
  <2>1. CASE UNCHANGED queueVars
    BY <2>1 DEF queueVars, Read
  <2>2. CASE Push
    <3>1. op[Input] = "push_back" /\ pc[Input] # "erase"  BY DEF CallsInv
    <3> QED
      BY <1>1, <2>2, <3>1
         DEF Push, InCall, Acquire, PushBack, ReadFront, Erase, PopThrows, GetThrows,
             Release, Read
  <2>3. CASE Tick /\ ~UNCHANGED queueVars
    <3>1. Call(Main, "pop_front", NoItem)  BY <2>3 DEF Tick
    <3> QED  BY <1>1, <3>1 DEF Call, Read
  <2>4. CASE Pop
    BY <1>1, <2>4 DEF Pop, Acquire, ReadFront, Erase, Read
  <2>5. CASE PopEnds
    BY <1>1, <2>5 DEF PopEnds, PopThrows, Release, Read
  <2>6. CASE CheckRunning \/ StoreButton \/ Start \/ End \/ LoadMouse
    BY <2>1, <2>6
       DEF CheckRunning, StoreButton, Start, End, LoadSheet, InitializeInputManager,
           InitializeWindowManager, LoadMouse, EndInputManager, EndWindowManager
  <2>7. CASE UNCHANGED vars
    BY <2>1, <2>7 DEF vars
  <2> QED  BY <2>1, <2>2, <2>3, <2>4, <2>5, <2>6, <2>7 DEF MainThread, MainLoop
<1> QED  BY <1>2, <1>3 DEF TypedAhead

\* The parser goes on only when its push is done.
LEMMA PushDone ==
  ASSUME InputInv, KeysInv, [Next]_vars
  PROVE  pc'[Input] # "idle" => parse' = "check"
<1> USE DEF InputInv, QueueInv, QueueTypeOK, Goto
<1>1. Input \in Threads /\ Main \in Threads /\ Input # Main  BY ThreadsAssumption
<1>2. pc[Input] # "idle" => parse = "check"  BY DEF KeysInv
<1>3. CASE UNCHANGED <<queueVars, parse>>
  BY <1>2, <1>3 DEF queueVars
<1>4. CASE CheckRunning \/ Prefix \/ ReadBtn \/ ReadX \/ ReadY \/ StoreButton
  BY <1>2, <1>4
     DEF CheckRunning, Prefix, Get, ReadBtn, ReadX, ReadY, StoreButton, queueVars
<1>5. CASE PlainKey
  BY <1>5 DEF PlainKey, Get
<1>6. CASE Push
  BY <1>1, <1>2, <1>6
     DEF Push, InCall, Acquire, PushBack, ReadFront, Erase, PopThrows, GetThrows, Release,
         inputVars
<1>7. CASE Tick \/ Pop \/ PopEnds
  <2>1. pc'[Input] = pc[Input] /\ parse' = parse
    BY <1>1, <1>7
       DEF Tick, Call, Pop, PopEnds, Acquire, ReadFront, Erase, PopThrows, Release,
           inputVars, queueVars
  <2> QED  BY <1>2, <2>1
<1>8. CASE User
  BY <1>3, <1>8 DEF User, TypeKey, TypeOtherKey, TypeEscape, Mouse, Emit
<1>9. CASE Start \/ End \/ LoadMouse
  BY <1>3, <1>9
     DEF Start, End, LoadSheet, InitializeInputManager, InitializeWindowManager, LoadMouse,
         EndInputManager, EndWindowManager, inputVars
<1> QED
  BY <1>3, <1>4, <1>5, <1>6, <1>7, <1>8, <1>9
     DEF Next, InputThread, MainThread, MainLoop, vars, inputVars

\* Every key that left the queue is seen by the frame that took it.
LEMMA PoppedSeen ==
  ASSUME InputInv, KeysInv, [Next]_vars
  PROVE  popped' = IF pc'[Main] = "clear" THEN Append(seen', item'[Main]) ELSE seen'
<1> USE DEF InputInv, QueueInv, QueueTypeOK, Goto
<1>1. Input \in Threads /\ Main \in Threads /\ Input # Main  BY ThreadsAssumption
<1>2. popped = IF pc[Main] = "clear" THEN Append(seen, item[Main]) ELSE seen
  BY DEF KeysInv
<1>3. CASE UNCHANGED <<queueVars, seen>>
  BY <1>2, <1>3 DEF queueVars
<1>4. CASE PlainKey \/ Push
  <2>1. op[Input] = "push_back" /\ pc[Input] # "erase"  BY DEF CallsInv
  <2>2. popped' = popped /\ pc'[Main] = pc[Main] /\ item'[Main] = item[Main] /\ seen' = seen
    BY <1>1, <1>4, <2>1
       DEF PlainKey, Get, Call, Push, InCall, Acquire, PushBack, ReadFront, Erase,
           PopThrows, GetThrows, Release
  <2> QED  BY <1>2, <2>2
<1>5. CASE Tick
  BY <1>1, <1>2, <1>3, <1>5 DEF Tick, Call
<1>6. CASE Pop
  <2>1. op[Main] = "pop_front"  BY <1>6 DEF Pop, CallsInv
  <2> QED  BY <1>1, <1>2, <1>6, <2>1 DEF Pop, Acquire, ReadFront, Erase
<1>7. CASE PopEnds
  <2>1. CASE pc[Main] = "vector"
    BY <1>1, <1>2, <1>7, <2>1 DEF PopEnds, PopThrows
  <2>2. CASE pc[Main] # "vector"
    BY <1>1, <1>2, <1>7, <2>2 DEF PopEnds, Release
  <2> QED  BY <2>1, <2>2
<1>8. CASE User \/ CheckRunning \/ Prefix \/ ReadBtn \/ ReadX \/ ReadY \/ StoreButton
  BY <1>3, <1>8
     DEF User, TypeKey, TypeOtherKey, TypeEscape, Mouse, Emit, CheckRunning, Prefix, Get,
         ReadBtn, ReadX, ReadY, StoreButton
<1>9. CASE Start \/ End \/ LoadMouse
  BY <1>3, <1>9
     DEF Start, End, LoadSheet, InitializeInputManager, InitializeWindowManager, LoadMouse,
         EndInputManager, EndWindowManager
<1> QED
  BY <1>3, <1>4, <1>5, <1>6, <1>7, <1>8, <1>9
     DEF Next, InputThread, MainThread, MainLoop, vars

LEMMA KeysPreserved ==
  InputInv /\ KeysInv /\ [Next]_vars => KeysInv'
<1> SUFFICES ASSUME InputInv, KeysInv, [Next]_vars PROVE KeysInv'
  OBVIOUS
<1>1. ASSUME ~escaped' PROVE \E f : TypedAhead(f)'
  <2>1. CASE User  BY <1>1, <2>1, UserTypes
  <2>2. CASE ~User
    <3>1. escaped' = escaped
      BY <2>2
         DEF Next, InputThread, CheckRunning, PlainKey, Prefix, Get, ReadBtn, ReadX, ReadY,
             StoreButton, Push, MainThread, MainLoop, Start, End, LoadSheet,
             InitializeInputManager, InitializeWindowManager, Tick, Pop, PopEnds, LoadMouse,
             EndInputManager, EndWindowManager, userVars, vars
    <3>2. PICK f : TypedAhead(f)  BY <1>1, <3>1 DEF KeysInv
    <3>3. CASE PlainKey \/ Prefix \/ ReadBtn \/ ReadX \/ ReadY
      BY <1>1, <3>1, <3>2, <3>3, ParserReads
    <3>4. CASE CheckRunning \/ StoreButton \/ Push \/ MainThread \/ UNCHANGED vars
      BY <3>2, <3>4, OthersKeep
    <3> QED  BY <2>2, <3>3, <3>4 DEF Next, InputThread
  <2> QED  BY <2>1, <2>2
<1> QED  BY <1>1, PushDone, PoppedSeen DEF KeysInv

LEMMA KeysInitially == Init => KeysInv
<1> SUFFICES ASSUME Init PROVE KeysInv  OBVIOUS
<1>1. pc[Input] = "idle" /\ pc[Main] = "idle" /\ popped = <<>> /\ seen = <<>>
  BY ThreadsAssumption DEF Init, QueueInit
<1>2. TypedAhead([i \in {1} |-> <<>>])
  <2> DEFINE f == [i \in {1} |-> <<>>]
  <2>1. Holds(<<>>, f)
    <3>1. DOMAIN f = {1} /\ f[1] = <<>> /\ <<>> \in Seq(Keys) /\ Len(<<>>) = 0
      BY EmptySeq
    <3>2. f = [i \in DOMAIN f |-> f[i]]  OBVIOUS
    <3> HIDE DEF f
    <3>3. DOMAIN f \subseteq 1 .. Len(<<>>) + 1 /\ Len(<<>>) + 1 \in DOMAIN f
          /\ f[Len(<<>>) + 1] = <<>>
      BY <3>1
    <3>4. \A i \in DOMAIN f : f[i] \in Seq(Keys) /\ ~(i <= Len(<<>>))
      <4>1. \A i \in {1} : i = 1 /\ ~(i <= 0)  OBVIOUS
      <4> QED  BY <3>1, <4>1, Zenon
    <3> QED  BY <3>2, <3>3, <3>4, Zenon DEF Holds
  <2>2. stdin = <<>> /\ NextStart(stdin, parse) = 1 /\ typed = <<>> /\ Read = <<>>
    BY <1>1 DEF Init, QueueInit, NextStart, Read
  <2>3. 1 \in DOMAIN f /\ f[1] = <<>> /\ <<>> \o <<>> = <<>>
    <3>1. \A q \in Seq(Keys) : q \o <<>> = q  BY ConcatEmptySeq
    <3> QED  BY <3>1, EmptySeq
  <2> HIDE DEF f
  <2>4. TypedAhead(f)  BY <2>1, <2>2, <2>3 DEF TypedAhead
  <2> QED  BY <2>4 DEF f
<1> QED  BY <1>1, <1>2 DEF KeysInv

\* What comes first in a concatenation is a prefix of it.
LEMMA FirstIsPrefix ==
  ASSUME NEW S, NEW a, a \in Seq(S), NEW b, b \in Seq(S)
  PROVE  IsPrefix(a, a \o b)
<1>1. Len(a) \in Nat /\ Len(b) \in Nat /\ Len(a \o b) = Len(a) + Len(b)
      /\ a \o b \in Seq(S)
  BY LenProperties, ConcatProperties
<1>2. SubSeq(a \o b, 1, Len(a)) = SubSeq(a, 1, Len(a))
  <2>1. \A i \in 1 .. Len(a) : (a \o b)[i] = a[i]  BY <1>1, ConcatProperties
  <2>2. SubSeq(a, 1, Len(a)) = a  BY SubSeqFull
  <2>3. SubSeq(a \o b, 1, Len(a)) = a  BY ConcatProperties, <1>1, <2>1
  <2> QED  BY <2>2, <2>3
<1> QED  BY <1>1, <1>2 DEF IsPrefix

LEMMA KeysInvImplies == InputInv /\ KeysInv => KeysInOrder
<1> SUFFICES ASSUME InputInv, KeysInv PROVE KeysInOrder  OBVIOUS
<1>1. Input \in Threads /\ Main \in Threads /\ Input # Main  BY ThreadsAssumption
<1>2. seen \in Seq(Items) /\ popped \in Seq(Items) /\ pushed \in Seq(Items) /\ Items # {}
  BY ItemsAreBytes DEF InputInv, TypeOK, QueueTypeOK
<1>3. IsPrefix(seen, popped)
  <2>1. CASE pc[Main] = "clear"
    <3>1. item[Main] \in Items  BY <2>1 DEF InputInv, CallsInv
    <3>2. popped = seen \o <<item[Main]>>
      BY <1>2, <2>1, <3>1, AppendIsConcat DEF KeysInv
    <3>3. <<item[Main]>> \in Seq(Items)  BY <3>1
    <3> QED  BY <1>2, <3>2, <3>3, FirstIsPrefix
  <2>2. CASE pc[Main] # "clear"
    <3>1. popped = seen \o <<>>  BY <1>2, <2>2, ConcatEmptySeq DEF KeysInv
    <3> QED  BY <1>2, <3>1, EmptySeq, FirstIsPrefix
  <2> QED  BY <2>1, <2>2
<1>4. ASSUME ~escaped
      PROVE  IsPrefix(pushed, typed) /\ (stdin = <<>> /\ pc[Input] = "idle" => pushed = typed)
  <2>1. PICK f : TypedAhead(f)  BY <1>4 DEF KeysInv
  <2> DEFINE rest == f[NextStart(stdin, parse)]
  <2>2. typed = Read \o rest /\ rest \in Seq(Keys)
        /\ NextStart(stdin, parse) \in DOMAIN f /\ DOMAIN f \subseteq 1 .. Len(stdin) + 1
        /\ f[Len(stdin) + 1] = <<>>
    BY <2>1 DEF TypedAhead, Holds
  <2>3. rest \in Seq(Items)
    <3>1. Seq(Keys) \subseteq Seq(Items)  BY KeysAssumption
    <3> QED  BY <2>2, <3>1
  <2>4. stdin = <<>> => rest = <<>>
    <3>1. stdin = <<>> => Len(stdin) = 0  OBVIOUS
    <3>2. stdin = <<>> => NextStart(stdin, parse) = Len(stdin) + 1  BY <2>2, <3>1
    <3> QED  BY <2>2, <3>2
  <2> HIDE DEF rest
  <2>5. CASE pc[Input] \in {"spin", "vector"}
    <3>1. item[Input] \in Items
      BY <1>1, <2>5 DEF InputInv, QueueInv, ItemGiven, CallsInv
    <3>2. Read = pushed \o <<item[Input]>> /\ <<item[Input]>> \in Seq(Items)
      BY <1>2, <2>5, <3>1, AppendIsConcat DEF Read
    <3>3. typed = pushed \o (<<item[Input]>> \o rest)
      BY <1>2, <2>2, <2>3, <3>2, ConcatAssociative
    <3>4. <<item[Input]>> \o rest \in Seq(Items)  BY <2>3, <3>2, ConcatProperties
    <3>5. IsPrefix(pushed, typed)  BY <1>2, <3>3, <3>4, FirstIsPrefix
    <3> QED  BY <2>5, <3>5
  <2>6. CASE pc[Input] \notin {"spin", "vector"}
    <3>1. typed = pushed \o rest  BY <2>2, <2>6 DEF Read
    <3>2. IsPrefix(pushed, typed)  BY <1>2, <2>3, <3>1, FirstIsPrefix
    <3>3. rest = <<>> => typed = pushed  BY <1>2, <3>1, ConcatEmptySeq
    <3> QED  BY <2>4, <3>2, <3>3
  <2> QED  BY <2>5, <2>6
<1> QED  BY <1>3, <1>4 DEF KeysInOrder

(***************************************************************************)
(* As long as the escape key is not used, the frames find the keys that    *)
(* were typed, in order, each once, and never a byte of a mouse report or  *)
(* of another sequence, whatever was typed (UpdateInputManager, tick).     *)
(***************************************************************************)
THEOREM InputKeysInOrder == Spec => []KeysInOrder
<1>1. Init => InputInv /\ KeysInv  BY InputInitially, KeysInitially
<1>2. (InputInv /\ KeysInv) /\ [Next]_vars => (InputInv /\ KeysInv)'
  BY InputNextPreserves, KeysPreserved
<1>3. InputInv /\ KeysInv => KeysInOrder  BY KeysInvImplies
<1> QED  BY <1>1, <1>2, <1>3, PTL DEF Spec
=============================================================================
