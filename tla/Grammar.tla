------------------------------- MODULE Grammar -------------------------------
(***************************************************************************)
(* The language the parser is for: which token sequences are programs, and *)
(* how the operators of an expression nest.  A grammar and a table, with   *)
(* nothing of how the parser goes about it.                                *)
(***************************************************************************)
EXTENDS Naturals, SequencesExt

TokenAt(text, p) == IF p <= Len(text) THEN text[p] ELSE "EOF"

(* What may follow a dot: an identifier or a keyword.                      *)
Names == {"x", "T", "in", "case", "else", "print", "if", "switch", "while",
          "for", "loop", "return", "fn", "struct", "break"}

(* The productions.  A symbol that is no rule is a token, except that "&;" *)
(* stands for nothing where a `;` follows, and "&!(" where no `(` does.    *)
(* What ends in a type, a `?` or a block is closed: whatever may follow an *)
(* operand may follow it, and takes all of it for its left side.           *)
Rules == [
  Program    |-> {<<>>, <<"Statement", "Program">>},
  Block      |-> {<<"{", "Program", "}">>},
  Statement  |-> {<<"let", "x", "Declared", ";">>,
                  <<"const", "x", "Declared", ";">>,
                  <<"Block">>,
                  <<"print", "(", "Arguments", ")", ";">>,
                  <<"print", "&!(", "Expr", "More", ";">>,
                  <<"if", "(", "Expr", ")", "Statement", "Otherwise">>,
                  <<"switch", "Expr", "{", "Cases", "}">>,
                  <<"while", "(", "Expr", ")", "Statement">>,
                  <<"for", "(", "x", "in", "Expr", ")", "Statement">>,
                  <<"for", "(", "First", "MayExpr", ";", "MayExpr", ")",
                    "Statement">>,
                  <<"loop", "Statement">>,
                  <<"return", "MayExpr", ";">>,
                  <<"fn", "x", "(", "Params", ")", "Result", "FnBody">>,
                  <<"struct", "x", "{", "Members", "}">>,
                  <<"break", ";">>,
                  <<"&!if", "Expr", ";">>},
  Otherwise  |-> {<<>>, <<"else", "Statement">>},
  Declared   |-> {<<":", "Type", "Default">>, <<"=", "Expr">>},
  First      |-> {<<"MayExpr", ";">>, <<"let", "x", "Declared", ";">>},
  MayExpr    |-> {<<>>, <<"Expr">>},
  Cases      |-> {<<>>, <<"case", "Pattern", "=>", "CaseBody", "Cases">>},
  CaseBody   |-> {<<"Block">>, <<"&!{", "Program">>},
  Pattern    |-> {<<"s">>, <<"x", ":", "Type">>},
  Params     |-> {<<>>, <<"x", ":", "Type", "Default", "Comma", "Params">>},
  Comma      |-> {<<>>, <<",">>},
  Default    |-> {<<>>, <<"=", "Expr">>},
  Result     |-> {<<>>, <<":", "Type">>},
  FnBody     |-> {<<";">>, <<"Block">>},
  Members    |-> {<<>>, <<"x", ":", "Type", ";", "Members">>,
                  <<"fn", "x", "(", "Params", ")", "Result", "FnBody",
                    "Members">>},
  Type       |-> {<<"T">>, <<"x", "MayArgs">>, <<"*", "Type">>},
  MayArgs    |-> {<<"&!<">>, <<"TypeArgs">>},
  TypeArgs   |-> {<<"<", "Type", "Types", ">">>},
  Types      |-> {<<>>, <<",", "Type", "Types">>},
  Arguments  |-> {<<>>, <<"Expr", "More">>},
  More       |-> {<<>>, <<",", "Expr", "More">>},
  Expr       |-> {<<"Place", "=", "Expr">>, <<"Else">>},
  Else       |-> {<<"Choice", "Elses">>},
  Elses      |-> {<<>>, <<"else", "Choice", "Elses">>,
                  <<"else", "Block", "Tighter", "Asks", "Elses">>,
                  <<"else", "return", "Expr">>, <<"else", "return", "&;">>},
  Choice     |-> {<<"Or", "Asks">>},
  Asks       |-> {<<>>, <<"?", "&!(", "Tighter", "Asks">>,
                  <<"?", "Expr", ":", "Else">>},
  (* What can follow an operand and binds tighter than `?`.                *)
  Tighter    |-> {<<"Suffixes", "Powers", "Casts", "Products", "Sums",
                    "Compares", "Equals", "Ands", "Ors">>},
  Or         |-> {<<"And", "Ors">>},
  Ors        |-> {<<>>, <<"||", "And", "Ors">>},
  And        |-> {<<"Equal", "Ands">>},
  Ands       |-> {<<>>, <<"&&", "Equal", "Ands">>},
  Equal      |-> {<<"Compare", "Equals">>},
  Equals     |-> {<<>>, <<"==", "Compare", "Equals">>},
  Compare    |-> {<<"Sum", "Compares">>},
  Compares   |-> {<<>>, <<"<", "Sum", "Compares">>,
                  <<">", "Sum", "Compares">>},
  Sum        |-> {<<"Product", "Sums">>},
  Sums       |-> {<<>>, <<"+", "Product", "Sums">>},
  Product    |-> {<<"Cast", "Products">>},
  Products   |-> {<<>>, <<"*", "Cast", "Products">>},
  Cast       |-> {<<"Power", "Casts">>},
  Casts      |-> {<<>>, <<"as", "Type", "Suffixes", "Powers", "Casts">>},
  Power      |-> {<<"Operand", "Powers">>},
  Powers     |-> {<<>>, <<"^", "Power">>},
  Operand    |-> {<<"-", "Operand">>, <<"*", "Operand">>,
                  <<"(", "T", ")", "Operand">>,
                  <<"(", "*", "Type", ")", "Operand">>,
                  <<"if", "(", "Expr", ")", "Arms">>,
                  <<"Closed", "Suffixes">>},
  Arms       |-> {<<"Choice", "&!else">>, <<"Choice", "else", "OtherArm">>,
                  <<"Block", "&!else", "Suffixes">>,
                  <<"Block", "else", "OtherArm">>},
  OtherArm   |-> {<<"Choice">>, <<"Block", "Suffixes">>},
  Closed     |-> {<<"x">>, <<"0">>, <<"s">>, <<"(", "Expr", ")">>,
                  <<"x", "{", "Fields", "}">>},
  Fields     |-> {<<>>, <<"x", ":", "Expr">>,
                  <<"x", ":", "Expr", ",", "Fields">>},
  Suffixes   |-> {<<>>, <<"Suffix", "Suffixes">>},
  Suffix     |-> {<<"(", "Arguments", ")">>,
                  <<"TypeArgs", "(", "Arguments", ")">>,
                  <<".", "Name">>},
  Name       |-> {<<n>> : n \in Names},
  (* What can be assigned: a variable, a field, what a pointer points to.  *)
  Place      |-> {<<"x">>, <<"(", "Place", ")">>, <<"*", "Operand">>,
                  <<"Closed", "Suffixes", ".", "Name">>}]

Symbols == DOMAIN Rules
Not == "&!(" :> "(" @@ "&!{" :> "{" @@ "&!<" :> "<"
         @@ "&!if" :> "if" @@ "&!else" :> "else"

(* Where a text derived from `symbols` that starts at p can end.           *)
RECURSIVE Ends(_, _, _)
Ends(text, symbols, p) ==
  IF symbols = <<>> THEN {p}
  ELSE LET s == Head(symbols)
           next == TokenAt(text, p)
           mid == CASE s \in Symbols ->
                         UNION {Ends(text, right, p) : right \in Rules[s]}
                    [] s = "&;"         -> IF next = ";" THEN {p} ELSE {}
                    [] s \in DOMAIN Not -> IF next = Not[s] THEN {} ELSE {p}
                    [] OTHER            -> IF next = s THEN {p + 1} ELSE {}
       IN  UNION {Ends(text, Tail(symbols), q) : q \in mid}

IsProgram(text) == Len(text) + 1 \in Ends(text, <<"Program">>, 1)

-------------------------------------------------------------------------------
(* How expressions nest.                                                   *)

(* The infix operators, from the loosest to the tightest.                  *)
Levels == <<{"="}, {"else"}, {"?", "?:"}, {"||"}, {"&&"}, {"=="}, {"<", ">"},
            {"+"}, {"*"}, {"as"}, {"^"}>>

Level(op) ==
  IF \E i \in DOMAIN Levels : op \in Levels[i]
    THEN CHOOSE i \in DOMAIN Levels : op \in Levels[i]
    ELSE Len(Levels) + 1

GroupsRight(op) == op \in {"=", "?:", "^"}

(* As a left operand, what ends in a type, a `?` or a block cannot be read *)
(* otherwise.                                                              *)
LeftLevel(tree) ==
  IF tree.op \in {"as", "?"} \/ (tree.op = "else" /\ Last(tree.kids).op = "{")
    THEN Len(Levels) + 1
    ELSE Level(tree.op)

(* Each operand binds tighter than its operator, or as tight on the side   *)
(* to which the operator groups; a prefix binds tighter than all of those, *)
(* a call and a field tighter still; the arms of an `if` expression take   *)
(* what a choice may be.                                                   *)
PrefixOps == {"prefix", "deref", "cast"}

RECURSIVE Nested(_)
Nested(tree) ==
  LET level == Level(tree.op)
      kids == tree.kids
      left == IF GroupsRight(tree.op) THEN level + 1 ELSE level
      right == CASE tree.op = "?:" -> Level("else")
                 [] GroupsRight(tree.op) -> level
                 [] OTHER -> level + 1
  IN  kids # <<>> =>
        /\ level <= Len(Levels) => LeftLevel(kids[1]) >= left
        /\ (level <= Len(Levels) /\ tree.op \notin {"as", "?"}) =>
             Level(Last(kids).op) >= right
        /\ tree.op \in PrefixOps => Level(Last(kids).op) > Len(Levels)
        /\ tree.op \in {"call", "."} =>
             LeftLevel(kids[1]) > Len(Levels) /\ kids[1].op \notin PrefixOps
        /\ tree.op = "if" =>
             \A arm \in DOMAIN kids \cap {5, 7} :
               Level(kids[arm].op) >= Level("?:")
        /\ \A i \in DOMAIN kids : Nested(kids[i])

(* The tokens of a tree, in order.                                         *)
RECURSIVE Tokens(_)
Tokens(tree) ==
  IF tree.kids = <<>> THEN <<tree.op>>
  ELSE FlattenSeq([i \in DOMAIN tree.kids |-> Tokens(tree.kids[i])])

RECURSIVE IsPlace(_)
IsPlace(tree) ==
  \/ tree.op \in {"x", ".", "deref"}
  \/ tree.op = "(" /\ IsPlace(tree.kids[2])
===============================================================================
