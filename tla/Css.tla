--------------------------------- MODULE Css ---------------------------------
(***************************************************************************)
(* Stylesheets (findCssById, cssSelectorSepreator and ParseCss of          *)
(* libs/WindowMangerV2.hpp).  The code works on one string and never       *)
(* parses it: it searches for an id, for braces and for semicolons.  Here  *)
(* a text is a sequence of tokens: "{", "}", ";", " " (any white space),   *)
(* ":hover", ":active", and words, each of which may have an id somewhere  *)
(* in it.  A declaration, like "width: 50%", is one word.                  *)
(***************************************************************************)
EXTENDS Integers, Sequences, SequencesExt

CONSTANTS
  Ids,        \* the ids of elements
  Words,      \* the words of the sheets
  Hash,       \* the word that names an id in a sheet: # and the id
  Within,     \* the ids that occur in a word: its own, shorter ones
  Props,      \* the properties of Element::map
  Declares,   \* the declarations among the words: a property and a value
  Unreadable  \* the declarations std::stod throws at

Space  == " "
Marks  == {"{", "}", ";", Space, ":hover", ":active"}
Tokens == Words \cup Marks
Events == {"none", "hover", "active"}

ASSUME WordsAssumption    == Words \cap Marks = {} /\ Within \in [Words -> SUBSET Ids]
ASSUME HashAssumption     == Hash \in [Ids -> Words] /\ \A id \in Ids : id \in Within[Hash[id]]
ASSUME DeclaresAssumption ==
  /\ DOMAIN Declares \subseteq Words /\ Unreadable \subseteq DOMAIN Declares
  /\ \A w \in DOMAIN Declares : Declares[w].prop \in Props

IsFirst(k, S) == \A j \in S : k <= j
IsLast(k, S)  == \A j \in S : j <= k

-----------------------------------------------------------------------------
(* Finding the pieces of an element.                                        *)

FindAllFromString(full, id) ==
  {i \in DOMAIN full : full[i] \in Words /\ id \in Within[full[i]]}

\* Where the first t after place i is, or else the end of s.
FirstAfter(s, i, t) ==
  LET at == {j \in i + 1 .. Len(s) : s[j] = t}
  IN  IF at = {} THEN Len(s) ELSE CHOOSE j \in at : IsFirst(j, at)

\* From after the id to the next closing brace.
Piece(full, i) == SubSeq(full, i + 1, FirstAfter(full, i, "}"))

\* The pieces, by their places.
FindCssById(full, id) == [i \in FindAllFromString(full, id) |-> Piece(full, i)]

-----------------------------------------------------------------------------
(* cssSelectorSepreator: what is before the opening brace tells the event.  *)

Opened(piece)   == \E j \in DOMAIN piece : piece[j] = "{"
Selector(piece) ==
  IF Opened(piece) THEN SubSeq(piece, 1, FirstAfter(piece, 0, "{")) ELSE piece
Names(t, piece) == \E j \in DOMAIN Selector(piece) : Selector(piece)[j] = t

Selects(piece) ==
  CASE Names(":hover", piece) -> "hover"
    [] Names(":active", piece) /\ ~Names(":hover", piece) -> "active"
    [] OTHER -> "none"

\* A later piece replaces an earlier one, whatever the two declare.
EarlierPrevails(k, S) == IsFirst(k, S)   \* mutant
Prevails(k, S) == IsLast(k, S)

CssSelectorSeparator(css, old) ==
  [e \in Events |->
     LET of == {i \in DOMAIN css : Selects(css[i]) = e}
     IN  IF \E k \in of : Prevails(k, of) THEN css[CHOOSE k \in of : Prevails(k, of)]
                                          ELSE old[e]]

-----------------------------------------------------------------------------
(* ParseCss: the declarations of a piece.                                   *)

\* From after the opening brace to before the closing one.
Body(piece) ==
  LET n == Len(piece)
  IN  SubSeq(piece, FirstAfter(piece, 0, "{") + 1,
             IF piece[n] = "}" THEN n - 1 ELSE n)

\* Where the lines end.
SemicolonsButLast(body) ==   \* mutant
  {j \in DOMAIN body : body[j] = ";" /\ \E k \in DOMAIN body : k > j /\ body[k] = ";"}
Semicolons(body) == {j \in DOMAIN body : body[j] = ";"}

\* A line ends at a semicolon, so that a last one without it does not count.
\* It starts one character after the semicolon before: what follows that
\* without white space loses its first letter, and is no declaration.
LineFrom(body, start) ==
  IF start > 1 /\ body[start] # Space THEN start + 1 ELSE start
Line(body, c) ==
  LET before == {j \in Semicolons(body) : j < c}
      start  == IF before = {} THEN 1 ELSE 1 + CHOOSE j \in before : IsLast(j, before)
  IN  SubSeq(body, LineFrom(body, start), c - 1)

\* The property is what is before the colon, trimmed.
Declaration(line) ==
  LET words == {j \in DOMAIN line : line[j] # Space}
  IN  IF words = {} THEN Space ELSE line[CHOOSE j \in words : IsFirst(j, words)]

\* The threads ParseCss starts: one for each line with a known property.
Callbacks(piece) ==
  LET body    == Body(piece)
      Decl(c) == Declaration(Line(body, c))
  IN  {[line |-> c, decl |-> Decl(c)] :
         c \in {k \in Semicolons(body) : Decl(k) \in DOMAIN Declares}}

\* A length without px or % is Unit 0.
Nothing == [kind |-> "px", n |-> 0]
Verbatim(v)  == v   \* mutant
Converted(v) == IF v.kind = "bare" THEN Nothing ELSE v

-----------------------------------------------------------------------------
(* What an author means by a sheet: a sequence of rules, and their text.    *)

Layouts == {"tidy", "glued", "open"}
Rule == [id : Ids, event : Events, layout : Layouts, decls : Seq(DOMAIN Declares)]

WrittenDeclaration(d, layout) == IF layout = "glued" THEN <<d, ";">> ELSE <<Space, d, ";">>

WrittenBody(decls, layout) ==
  LET lines == FlattenSeq([k \in DOMAIN decls |-> WrittenDeclaration(decls[k], layout)])
  IN  IF layout = "open" THEN Front(lines) ELSE lines

Pseudo(event) == CASE event = "none" -> <<>> [] event = "hover" -> <<":hover">>
                   [] event = "active" -> <<":active">>

WrittenRule(r) ==
  <<Hash[r.id]>> \o Pseudo(r.event) \o <<"{">> \o WrittenBody(r.decls, r.layout) \o <<"}">>

Written(rules) == FlattenSeq([k \in DOMAIN rules |-> WrittenRule(rules[k])])

\* The rule that counts for an id and an event, if there is one: the last.
RulesFor(rules, id, event) ==
  LET of == {k \in DOMAIN rules : rules[k].id = id /\ rules[k].event = event}
  IN  {rules[k] : k \in {j \in of : IsLast(j, of)}}

\* The id is in no other selector and in no declaration.
Apart(rules, id) ==
  \A k \in DOMAIN rules :
    /\ id \in Within[Hash[rules[k].id]] => rules[k].id = id
    /\ \A j \in DOMAIN rules[k].decls : id \notin Within[rules[k].decls[j]]

Declared(r) == {Declares[r.decls[j]].prop : j \in DOMAIN r.decls}

\* Laid out tidily, readable, and no property twice.
Tidy(r) ==
  /\ r.layout = "tidy"
  /\ \A j \in DOMAIN r.decls : r.decls[j] \notin Unreadable
  /\ \A i, j \in DOMAIN r.decls : Declares[r.decls[i]].prop = Declares[r.decls[j]].prop => i = j

\* What a tidy rule gives the property p, which it declares.
ValueIn(r, p) ==
  LET j == CHOOSE i \in DOMAIN r.decls : Declares[r.decls[i]].prop = p
  IN  Converted(Declares[r.decls[j]].value)
=============================================================================
