------------------------------ MODULE MCWidgets ------------------------------
(* A window with a text and a button, and sheets of up to two rules, or   *)
(* three of a few.  The button's id is also a part of another one, "btn2".  *)
EXTENDS Widgets

MCIds      == {"win", "txt", "btn", "btn2"}
MCHash     == [id \in MCIds |-> CASE id = "win" -> "#win" [] id = "txt" -> "#txt"
                                  [] id = "btn" -> "#btn" [] id = "btn2" -> "#btn2"]
Width(k, n)  == [prop |-> "width",  value |-> [kind |-> k, n |-> n]]
Height(k, n) == [prop |-> "height", value |-> [kind |-> k, n |-> n]]
Colour(n)    == [prop |-> "background-color", value |-> [kind |-> "colour", n |-> n]]
MCDecl == [w \in {"width: 100%", "width: 50%", "width: 4%", "width: 9px", "width: auto",
                  "height: 100%", "height: 5px",
                  "background-color: (1,1,1)", "background-color: (2,2,2)",
                  "background-color: red"} |->
  CASE w = "width: 100%" -> Width("%", 100) [] w = "height: 100%" -> Height("%", 100)
    [] w = "width: 50%" -> Width("%", 50) [] w = "width: 4%" -> Width("%", 4)
    [] w = "width: 9px" -> Width("px", 9)
    [] w = "width: auto" -> Width("bare", 1) [] w = "height: 5px" -> Height("px", 5)
    [] w = "background-color: (1,1,1)" -> Colour(1)
    [] w = "background-color: (2,2,2)" -> Colour(2)
    [] w = "background-color: red" -> Colour(3)]
MCWords  == {"#win", "#txt", "#btn", "#btn2"} \cup DOMAIN MCDecl
MCWithin == [w \in MCWords |->
  CASE w = "#win" -> {"win"} [] w = "#txt" -> {"txt"} [] w = "#btn" -> {"btn"}
    [] w = "#btn2" -> {"btn", "btn2"} [] OTHER -> {}]
MCOrder  == <<"txt", "btn">>
MCUnset  == [kind |-> "colour", n |-> 0]

\* In the small one 4% of the width come to no cell.
Cells(w, h)  == [p \in Lengths |-> IF p = "width" THEN w ELSE h]
MCTerminals  == {Cells(10, 5), Cells(80, 24)}

RuleOf(id, ev, layout, decls) ==
  [id |-> id, event |-> ev, layout |-> layout, decls |-> decls]
One == "background-color: (1,1,1)"
Two == "background-color: (2,2,2)"
Whole  == RuleOf("win", "none", "tidy", <<"width: 100%", "height: 100%">>)
Normal == {RuleOf("btn", "none", l, <<"width: 50%", One, "height: 5px">>) : l \in Layouts}
Others == {RuleOf("btn", ev, "tidy", d) : ev \in {"hover", "active"},
             d \in {<<Two>>, <<"width: 9px">>}}
          \cup {RuleOf("btn", "active", "tidy", <<One, Two>>),
                RuleOf("btn", "none", "tidy", <<One>>),
                RuleOf("btn", "hover", "tidy", <<"background-color: red">>),
                RuleOf("txt", "none", "tidy", <<Two, "height: 5px", "width: 9px">>),
                RuleOf("txt", "none", "tidy", <<"width: auto", "height: 5px">>),
                RuleOf("btn", "hover", "tidy", <<"width: 4%">>),
                RuleOf("win", "none", "tidy", <<"width: 9px", One>>),
                Whole,
                RuleOf("btn2", "none", "tidy", <<Two>>)}
MCRules  == Normal \cup Others
Few      == {Whole, RuleOf("btn", "none", "tidy", <<"width: 50%", One, "height: 5px">>),
             RuleOf("btn", "hover", "tidy", <<"width: 9px">>),
             RuleOf("btn", "active", "tidy", <<Two>>),
             RuleOf("txt", "none", "tidy", <<Two, "height: 5px", "width: 9px">>),
             RuleOf("btn2", "none", "tidy", <<Two>>)}
MCSheets == UNION {[1 .. n -> MCRules] : n \in 0 .. 2} \cup [1 .. 3 -> Few]
=============================================================================
