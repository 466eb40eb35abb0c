-------------------------------- MODULE Parser --------------------------------
(***************************************************************************)
(* The parser: recursive descent over the tokens of a file, with operator  *)
(* precedence by binding powers and recovery after an error.  The calls of *)
(* the C functions are the frames of a stack.  A frame is the rule it      *)
(* parses, what it has built and what it still has to find: `todo` is the  *)
(* rest of the function's body, a list of items that each expect a token,  *)
(* call another function, build a node or choose how to go on by the token *)
(* at hand.  A function that returns NULL sets `failed`, and its caller    *)
(* decides.                                                                *)
(*                                                                         *)
(* Tokens that are parsed alike are one here: "x" is an identifier, "0" a  *)
(* number or a character, "s" a string, "T" the keyword of a type; "-"     *)
(* stands for negation and not, every other operator for those of its      *)
(* level, "loop" also for defer, "break" for continue.                     *)
(***************************************************************************)
EXTENDS Grammar

CONSTANT Texts    \* bound: the families of token sequences parsed

VARIABLES
  text,       \* the tokens of the file
  pos,        \* where current_token stands
  stack,      \* Seq(Frame): the calls, the innermost first
  failed,     \* the last call returned NULL
  reported,   \* ErrorHandler_report was called
  tree        \* what parser_process returned, NoTree before, or Crash

vars == <<text, pos, stack, failed, reported, tree>>

(* A tree is an operator and its parts; a token is a tree without parts.   *)
Tree(op, kids) == [op |-> op, kids |-> kids]
Leaf(token) == Tree(token, <<>>)
NoTree == Leaf("none")
Null == Leaf("null")
Crash == Leaf("crash")

Peek(n) == TokenAt(text, pos + n)
Cur == Peek(0)
Advanced(p) == IF p <= Len(text) THEN p + 1 ELSE p

(* Mutant: parser_sync stops at the token it starts from.                  *)
SyncOnTheSpot(p) ==
  LET stops == {";", "EOF", "let", "const", "print", "fn", "return", "if",
                "else", "while", "for"}
  IN  CHOOSE q \in p..Len(text) + 1 :
        /\ TokenAt(text, q) \in stops
        /\ \A r \in p..q - 1 : text[r] \notin stops

(* parser_sync: the next `;` or statement keyword after the current token. *)
Sync(p) ==
  LET stops == {";", "EOF", "let", "const", "print", "fn", "return", "if",
                "else", "while", "for"}
  IN  CHOOSE q \in Advanced(p)..Len(text) + 1 :
        /\ TokenAt(text, q) \in stops
        /\ \A r \in Advanced(p)..q - 1 : text[r] \notin stops

-------------------------------------------------------------------------------
(* What the functions do, as items.                                        *)

Top == Head(stack)

Item(kind, name, min) == [kind |-> kind, name |-> name, min |-> min]
Tok(token)   == Item("token", token, 0)     \* parser_expect
Shift        == Item("any", "", 0)          \* parser_token_advance
Sub(name)    == Item("call", name, 0)
E(min)       == Item("call", "E", min)      \* parser_parse_expression
Choose(name) == Item("choice", name, 0)
Build(op)    == Item("build", op, 0)        \* a node of what stands in `kids`
Place        == Item("place", "", 0)        \* is_lvalue of the left side
Fail         == Item("fail", "", 0)         \* report and return NULL
Nothing      == Item("null", "", 0)         \* return NULL
Skip         == Item("skip", "", 0)         \* report and advance
Resync       == Item("resync", "", 0)       \* report and parser_sync

(* The body of each function.  parser_parse_statement is the switch on the *)
(* token at hand: its cases are the functions of `Statements`, or "expr".  *)
Statements == {"let", "const", "{", "print", "if", "switch", "while", "for",
               "loop", "return", "fn", "struct", "break"}

Body(rule) ==
  CASE rule = "program" -> <<Choose("program")>>
    [] rule = "expr"    -> <<E(0), Tok(";")>>
    [] rule \in {"let", "const"} -> <<Shift, Tok("x"), Choose("declared")>>
    [] rule = "{"       -> <<Shift, Choose("block")>>
    [] rule = "print"   -> <<Shift, Choose("printed"), Tok(";")>>
    [] rule = "if"      ->
         <<Shift, Tok("("), E(0), Tok(")"), Sub("S"), Choose("else")>>
    [] rule = "switch"  -> <<Shift, E(0), Tok("{"), Choose("cases")>>
    [] rule = "case"    ->
         <<Shift, Choose("pattern"), Tok("=>"), Choose("case body")>>
    [] rule = "while"   -> <<Shift, Tok("("), E(0), Tok(")"), Sub("S")>>
    [] rule = "for"     -> <<Shift, Tok("("), Choose("head")>>
    [] rule = "loop"    -> <<Shift, Sub("S")>>
    [] rule = "return"  -> <<Shift, Choose("returned"), Tok(";")>>
    [] rule = "else return" -> <<Shift, Choose("returned")>>
    [] rule = "break"   -> <<Shift, Tok(";")>>
    [] rule = "fn"      -> <<Shift, Tok("x"), Tok("("), Choose("params")>>
    [] rule = "param"   -> <<Tok("x"), Tok(":"), Sub("Type")>>
    [] rule = "struct"  -> <<Shift, Tok("x"), Tok("{"), Choose("members")>>
    [] rule = "member"  -> <<Tok("x"), Tok(":"), Sub("Type"), Tok(";")>>
    [] rule = "Type"    -> <<Choose("type")>>
    [] rule = "<>"      ->
         <<Tok("<"), Sub("Type"), Choose("more types"), Tok(">")>>
    [] rule = "E"       -> <<Choose("primary"), Choose("infix")>>

ForRest ==
  <<Choose("condition"), Tok(";"), Choose("increment"), Tok(")"), Sub("S")>>

(* How each function goes on, by the token at hand.  parser_process,       *)
(* blocks, print and return:                                               *)
InBlock(name) ==
  CASE name = "program" ->
         IF Cur = "EOF" THEN <<>> ELSE <<Sub("S"), Choose(name)>>
    [] name = "block" ->
         IF Cur \in {"}", "EOF"} THEN <<Tok("}")>>
                                 ELSE <<Sub("S"), Choose(name)>>
    [] name = "printed" ->
         IF Cur = "(" THEN <<Shift, Choose("args"), Tok(")")>>
                      ELSE <<Choose("args")>>
    [] name = "returned" -> IF Cur = ";" THEN <<>> ELSE <<E(0)>>

(* Switch:                                                                 *)
InSwitch(name) ==
  CASE name = "cases" ->
         CASE Cur \in {"}", "EOF"} -> <<Tok("}")>>
           [] Cur = "case" -> <<Sub("case"), Choose(name)>>
           [] OTHER        -> <<Skip, Choose(name)>>
    [] name = "pattern" ->
         CASE Cur = "s" -> <<Shift>>
           [] Cur = "x" -> <<Shift, Tok(":"), Sub("Type")>>
           [] OTHER     -> <<Fail>>
    [] name = "case body" ->
         IF Cur = "{" THEN <<Sub("S")>> ELSE <<Choose("statements")>>
    [] name = "statements" ->
         IF Cur \in {"case", "}", "EOF"} THEN <<>>
                                         ELSE <<Sub("S"), Choose(name)>>

(* The headers of if and for, which declares with let only:                *)
InHeader(name) ==
  CASE name = "else" -> IF Cur = "else" THEN <<Shift, Sub("S")>> ELSE <<>>
    [] name = "head" ->
         CASE Cur = "x" /\ Peek(1) = "in" ->
                <<Shift, Shift, E(0), Tok(")"), Sub("S")>>
           [] Cur = ";"   -> <<Shift>> \o ForRest
           [] Cur = "let" -> <<Sub("let")>> \o ForRest
           [] OTHER       -> <<E(0), Tok(";")>> \o ForRest
    [] name = "condition" -> IF Cur = ";" THEN <<>> ELSE <<E(0)>>
    [] name = "increment" -> IF Cur = ")" THEN <<>> ELSE <<E(0)>>

(* Let and const:                                                          *)
InVariable(name) ==
  CASE name = "declared" ->
         CASE Cur = ":" -> <<Shift, Sub("Type"), Choose("typed")>>
           [] Cur = "=" -> <<Shift, E(0), Tok(";")>>
           [] OTHER     -> <<Fail>>
    [] name = "typed" ->
         IF Cur = "=" THEN <<Shift, E(0), Tok(";")>> ELSE <<Tok(";")>>

(* Functions:                                                              *)
InFunction(name) ==
  CASE name = "params" ->
         IF Cur \in {")", "EOF"}
           THEN <<Tok(")"), Choose("result"), Choose("fn body")>>
           ELSE <<Sub("param"), Choose("default"), Choose("comma"),
                  Choose(name)>>
    [] name = "default" -> IF Cur = "=" THEN <<Shift, E(0)>> ELSE <<>>
    [] name = "comma"   -> IF Cur = "," THEN <<Shift>> ELSE <<>>
    [] name = "result"  -> IF Cur = ":" THEN <<Shift, Sub("Type")>> ELSE <<>>
    [] name = "fn body" ->
         CASE Cur = "{" -> <<Sub("S")>>
           [] Cur = ";" -> <<Shift>>
           [] OTHER     -> <<Resync>>

(* Structs:                                                                *)
InStruct ==
  CASE Cur \in {"}", "EOF"} -> <<Tok("}")>>
    [] Cur = "fn" -> <<Sub("S"), Choose("members")>>
    [] OTHER      -> <<Sub("member"), Choose("members")>>

(* Types:                                                                  *)
InType(name) ==
  CASE name = "type" ->
         CASE Cur = "T" -> <<Shift>>
           [] Cur = "*" -> <<Shift, Choose(name)>>
           [] Cur = "x" -> <<Shift, Choose("type args")>>
           [] OTHER     -> <<Fail>>
    [] name = "type args" -> IF Cur = "<" THEN <<Sub("<>")>> ELSE <<>>
    [] name = "more types" ->
         IF Cur = "," THEN <<Shift, Sub("Type"), Choose(name)>> ELSE <<>>

(* parser_parse_primary, which takes its first token whatever it is.       *)
Primary ==
  CASE Cur = "x" /\ Peek(1) = "{" /\ Peek(2) \in {"}", "x"} ->
         <<Shift, Shift, Choose("fields"), Build("new")>>
    [] Cur \in {"x", "0", "s"} -> <<Shift>>
    [] Cur = "(" -> <<Shift, Choose("in parentheses")>>
    [] Cur = "-" -> <<Shift, E(100), Build("prefix")>>
    [] Cur = "*" -> <<Shift, E(100), Build("deref")>>
    [] Cur = "if" -> <<Shift, Tok("("), E(0), Tok(")"), Choose("arm"),
                       Choose("else arm"), Build("if")>>
    [] OTHER -> <<Shift, Fail>>

(* infix_binding_power, with `as`, whose type binds by itself.             *)
Power(token) ==
  CASE token = "="    -> <<2, 1>>
    [] token = "?"    -> <<4, 3>>
    [] token = "else" -> <<3, 4>>
    [] token = "||"   -> <<5, 6>>
    [] token = "&&"   -> <<7, 8>>
    [] token = "=="   -> <<9, 10>>
    [] token \in {"<", ">"} -> <<11, 12>>
    [] token = "+"    -> <<13, 14>>
    [] token = "*"    -> <<15, 16>>
    [] token = "as"   -> <<17, 0>>
    [] token = "^"    -> <<20, 19>>

(* parser_is_generic_call_start: somewhere in the rest of the file stands  *)
(* the `>` for this `<`, and "(" follows it.                               *)
Closes(p) ==
  LET Count(token, q) == Cardinality({r \in p..q : text[r] = token})
  IN  {q \in p..Len(text) : Count(">", q) = Count("<", q)}

(* Mutant: any `<` that some `>` closes starts type arguments.             *)
GenericWithoutCall(p) ==
  /\ TokenAt(text, p) = "<"
  /\ Closes(p) # {}

GenericAt(p) ==
  /\ TokenAt(text, p) = "<"
  /\ Closes(p) # {}
  /\ LET close == CHOOSE q \in Closes(p) : \A r \in Closes(p) : q <= r
     IN  TokenAt(text, close + 1) = "("

(* Mutant: the right operand is parsed with the left binding power.        *)
OperatorTakesLeft ==
  CASE Cur = "?" ->
         IF Peek(1) \in {"x", "0", "s", "("}
           THEN <<Shift, E(0), Tok(":"), E(Power("?")[2]), Build("?:")>>
           ELSE <<Shift, Build("?")>>
    [] Cur = "="    -> <<Shift, E(Power("=")[2]), Place, Build("=")>>
    [] Cur = "else" -> <<Shift, Choose("after else"), Build("else")>>
    [] Cur = "as"   -> <<Shift, Sub("Type"), Build("as")>>
    [] OTHER        -> <<Shift, E(Power(Cur)[1]), Build(Cur)>>

(* What an operator does once its binding power allows it; after the right *)
(* operand the loop of parser_parse_expression goes round.                 *)
Operator ==
  CASE Cur = "?" ->
         IF Peek(1) \in {"x", "0", "s", "("}
           THEN <<Shift, E(0), Tok(":"), E(Power("?")[2]), Build("?:")>>
           ELSE <<Shift, Build("?")>>
    [] Cur = "="    -> <<Shift, E(Power("=")[2]), Place, Build("=")>>
    [] Cur = "else" -> <<Shift, Choose("after else"), Build("else")>>
    [] Cur = "as"   -> <<Shift, Sub("Type"), Build("as")>>
    [] OTHER        -> <<Shift, E(Power(Cur)[2]), Build(Cur)>>

Call == <<Shift, Choose("args"), Tok(")"), Build("call"), Choose("infix")>>

Operators ==
  {"=", "?", "else", "||", "&&", "==", "<", ">", "+", "*", "as", "^"}

(* The loop of parser_parse_expression, of binding power `min`.            *)
Infix(min) ==
  CASE Cur = "("    -> Call
    [] Cur = "."    -> <<Shift, Choose("name"), Build("."), Choose("infix")>>
    [] GenericAt(pos) -> <<Sub("<>")>> \o Call
    [] Cur \in Operators /\ ~GenericAt(pos) ->
         IF Power(Cur)[1] < min THEN <<>> ELSE Operator \o <<Choose("infix")>>
    [] OTHER -> <<>>

(* The parts of an operand: the arguments of a call, a field's name, what  *)
(* parentheses hold, struct literals and the arms of an `if`.              *)
InArguments(name) ==
  CASE name = "args" -> IF Cur = ")" THEN <<>> ELSE <<E(0), Choose("more")>>
    [] name = "more" ->
         IF Cur = "," THEN <<Shift, E(0), Choose(name)>> ELSE <<>>

InField == IF Cur \in Names THEN <<Shift>> ELSE <<Fail>>

InParentheses ==
  IF Cur \in {"T", "*"} THEN <<Sub("Type"), Tok(")"), E(100), Build("cast")>>
                        ELSE <<E(0), Tok(")"), Build("(")>>

InLiteral(name) ==
  CASE name = "fields" ->
         CASE Cur \in {"}", "EOF"} -> <<Tok("}")>>
           [] Cur = "x" -> <<Shift, Tok(":"), E(0), Choose("separator")>>
           [] OTHER     -> <<Fail>>
    [] name = "separator" ->
         IF Cur = "," THEN <<Shift, Choose("fields")>> ELSE <<Tok("}")>>

InArms(name) ==
  CASE name = "arm" -> IF Cur = "{" THEN <<Sub("S")>> ELSE <<E(4)>>
    [] name = "else arm" ->
         IF Cur = "else" THEN <<Shift, Choose("arm")>> ELSE <<>>

AfterElse ==
  CASE Cur = "return" -> <<Sub("else return")>>
    [] Cur = "{"      -> <<Sub("S")>>
    [] OTHER          -> <<E(Power("else")[2])>>

Chosen(name) ==
  CASE name \in {"program", "block", "printed", "returned"} ->
         InBlock(name)
    [] name \in {"cases", "pattern", "case body", "statements"} ->
         InSwitch(name)
    [] name \in {"else", "head", "condition", "increment"} ->
         InHeader(name)
    [] name \in {"declared", "typed"} ->
         InVariable(name)
    [] name \in {"params", "default", "comma", "result", "fn body"} ->
         InFunction(name)
    [] name = "members"                              -> InStruct
    [] name \in {"type", "type args", "more types"}  -> InType(name)
    [] name = "primary"                              -> Primary
    [] name = "infix"                                -> Infix(Top.min)
    [] name \in {"args", "more"}                     -> InArguments(name)
    [] name = "name"                                 -> InField
    [] name = "in parentheses"                       -> InParentheses
    [] name \in {"fields", "separator"}              -> InLiteral(name)
    [] name \in {"arm", "else arm"}                  -> InArms(name)
    [] name = "after else"                           -> AfterElse

-------------------------------------------------------------------------------
Frame(rule, min) ==
  [rule |-> rule, todo |-> Body(rule), kids |-> <<>>, min |-> min, from |-> 0]

Init ==
  /\ \E family \in DOMAIN Texts : text \in Texts[family]
  /\ pos = 1
  /\ stack = <<Frame("program", 0)>>
  /\ failed = FALSE
  /\ reported = FALSE
  /\ tree = NoTree

Doing == IF Top.todo = <<>> THEN Item("end", "", 0) ELSE Head(Top.todo)

(* An expression in the middle of a call or a field; one whose left side   *)
(* is NULL, since a call or a field went wrong.                            *)
InSuffix ==
  Top.rule = "E" /\ Range(Top.todo) \cap {Build("call"), Build(".")} # {}
WithoutLeft == Top.rule = "E" /\ Top.kids # <<>> /\ Top.kids[1] = Null

OnTop(frame) == stack' = <<frame>> \o Tail(stack)
Rest == [Top EXCEPT !.todo = Tail(@)]
NoDiagnostic == UNCHANGED <<failed, reported>>

(* The current token is taken: parser_expect finds it, or no check is made. *)
Take ==
  /\ Doing.kind = "any" \/ (Doing.kind = "token" /\ Cur = Doing.name)
  /\ pos' = Advanced(pos)
  /\ OnTop([Rest EXCEPT !.kids = Append(@, Leaf(Cur))])
  /\ NoDiagnostic
  /\ UNCHANGED <<text, tree>>

Decide ==
  /\ Doing.kind = "choice"
  /\ OnTop([Rest EXCEPT !.todo = Chosen(Doing.name) \o @])
  /\ NoDiagnostic
  /\ UNCHANGED <<text, pos, tree>>

(* A node of all that the expression has gathered, its new left operand.   *)
Node ==
  /\ Doing.kind = "build"
  /\ OnTop([Rest EXCEPT !.kids = <<Tree(Doing.name, @)>>])
  /\ NoDiagnostic
  /\ UNCHANGED <<text, pos, tree>>

Assignable ==
  /\ Doing.kind = "place"
  /\ ~WithoutLeft
  /\ IsPlace(Top.kids[1])
  /\ OnTop(Rest)
  /\ NoDiagnostic
  /\ UNCHANGED <<text, pos, tree>>

(* A call.  A statement at the end of the file is NULL without a word.     *)
Descend ==
  /\ Doing.kind = "call"
  /\ LET caller == [Rest EXCEPT !.from = pos]
         rule == CASE Doing.name # "S"    -> Doing.name
                   [] Cur \in Statements  -> Cur
                   [] OTHER               -> "expr"
     IN  IF Doing.name = "S" /\ Cur = "EOF"
           THEN /\ OnTop(caller)
                /\ failed' = TRUE
           ELSE /\ stack' = <<Frame(rule, Doing.min), caller>> \o Tail(stack)
                /\ UNCHANGED failed
  /\ UNCHANGED <<text, pos, reported, tree>>

(* A function returns its node; an expression is the operand it has built. *)
Return ==
  /\ Doing.kind = "end"
  /\ ~WithoutLeft
  /\ LET built == IF Top.rule = "E" THEN Top.kids[1]
                                   ELSE Tree(Top.rule, Top.kids)
     IN  IF Len(stack) = 1
           THEN stack' = <<>> /\ tree' = built
           ELSE /\ stack' = <<[stack[2] EXCEPT !.kids = Append(@, built)]>>
                            \o SubSeq(stack, 3, Len(stack))
                /\ UNCHANGED tree
  /\ NoDiagnostic
  /\ UNCHANGED <<text, pos>>

(* An error is reported, in the middle of a function.                      *)
Wrong ==
  \/ Doing.kind = "fail"
  \/ Doing.kind = "token" /\ Cur # Doing.name
  \/ Doing.kind = "place" /\ ~WithoutLeft /\ ~IsPlace(Top.kids[1])

(* The function returns NULL, after parser_sync in the expression, break   *)
(* and continue cases of a statement.                                      *)
GiveUp ==
  /\ ~InSuffix
  /\ \/ Wrong
     \/ Doing.kind = "null"
     \/ Doing.kind = "end" /\ WithoutLeft
  /\ reported' = (reported \/ Wrong)
  /\ pos' = IF Top.rule \in {"expr", "break"} THEN Sync(pos) ELSE pos
  /\ stack' = Tail(stack)
  /\ failed' = TRUE
  /\ UNCHANGED <<text, tree>>

(* A call or a field that is wrong returns NULL to the loop of             *)
(* parser_parse_expression, which does not look and goes on with it.       *)
LoseLeft ==
  /\ InSuffix
  /\ Wrong
  /\ reported' = TRUE
  /\ OnTop([Top EXCEPT !.todo = <<Choose("infix")>>, !.kids = <<Null>>])
  /\ UNCHANGED <<text, pos, failed, tree>>

(* is_lvalue reads the node it is given: NULL ends the process.            *)
AssignToNull ==
  /\ Doing.kind = "place"
  /\ WithoutLeft
  /\ stack' = <<>>
  /\ tree' = Crash
  /\ UNCHANGED <<text, pos, failed, reported>>

(* An error is reported and the loop over the cases, or the function       *)
(* declaration, goes on.                                                   *)
Complain ==
  /\ Doing.kind \in {"skip", "resync"}
  /\ reported' = TRUE
  /\ pos' = IF Doing.kind = "skip" THEN Advanced(pos) ELSE Sync(pos)
  /\ OnTop(Rest)
  /\ UNCHANGED <<text, failed, tree>>

(* What a caller goes on with after a NULL.  The loops over statements,    *)
(* members and cases sync; so does parser_process, which also steps over a *)
(* token like the one the statement began with; a wrong parameter skips to *)
(* ")"; a prefix operator takes the NULL as its operand; wrong type        *)
(* arguments are forgotten; a parenthesis is still closed; the argument of *)
(* a call makes the call NULL, and the expression goes on without a left   *)
(* side.                                                                   *)
LoopsInside == {"block", "cases", "members"}    \* mutant: not parser_process
Loops == {"program", "block", "cases", "members"}
Closing == <<Tok(")"), Build("(")>>

Recovers ==
  \/ Doing.kind = "choice" /\ Doing.name \in Loops \cup {"default"}
  \/ Doing.kind = "build" /\ Doing.name \in {"prefix", "deref"}
  \/ Doing.kind = "any"
  \/ IsPrefix(Closing, Top.todo)
  \/ InSuffix

Recover ==
  /\ Recovers
  /\ pos' = CASE Doing.name = "program" ->
                   LET q == Sync(pos)
                   IN  IF TokenAt(text, q) = TokenAt(text, Top.from)
                         THEN Advanced(q) ELSE q
              [] Doing.name \in Loops -> Sync(pos)
              [] Doing.name = "default" ->
                   CHOOSE q \in pos..Len(text) + 1 :
                     /\ TokenAt(text, q) \in {")", "EOF"}
                     /\ \A r \in pos..q - 1 : text[r] # ")"
              [] OTHER -> pos
  /\ OnTop(CASE Doing.name = "default" ->
                  [Top EXCEPT !.todo = <<Choose("params")>>]
             [] IsPrefix(Closing, Top.todo) ->
                  [Top EXCEPT !.todo = <<Tok(")"), Nothing>>]
             [] InSuffix /\ Doing.kind # "any" ->
                  [Top EXCEPT !.todo = <<Choose("infix")>>, !.kids = <<Null>>]
             [] OTHER -> Top)
  /\ failed' = FALSE
  /\ UNCHANGED <<text, reported, tree>>

(* Every other caller returns NULL too; a statement syncs before.          *)
Propagate ==
  /\ ~Recovers
  /\ pos' = IF Top.rule \in {"expr", "loop", "return", "else return"}
              THEN Sync(pos) ELSE pos
  /\ stack' = Tail(stack)
  /\ UNCHANGED <<text, failed, reported, tree>>

Next ==
  /\ stack # <<>>
  /\ IF failed THEN Recover \/ Propagate
     ELSE \/ Take \/ Decide \/ Node \/ Assignable
          \/ Descend \/ Return \/ GiveUp \/ Complain
          \/ LoseLeft \/ AssignToNull

Spec == Init /\ [][Next]_vars
FairSpec == Spec /\ WF_vars(Next)

Done == stack = <<>>

-------------------------------------------------------------------------------
(* Type invariant: current_token is in the file or at its end, every call  *)
(* is one the parser makes, and it ends with the tree of the program.      *)
TypeOK ==
  /\ pos \in 1..Len(text) + 1
  /\ \A i \in DOMAIN stack :
       /\ stack[i].min \in 0..100
       /\ stack[i].rule \in Statements \cup
            {"program", "expr", "case", "E", "Type", "else return", "param",
             "member", "<>"}
  /\ failed \in BOOLEAN
  /\ reported \in BOOLEAN
  /\ Done <=> tree # NoTree

(* The texts the parser reads otherwise than the grammar does:             *)
(* - the file ends where a statement should begin, and the statement that  *)
(*   needs it is dropped without a word;                                   *)
(* - a comparison is taken for type arguments, because of a `>` and a `(`  *)
(*   further on;                                                           *)
(* - after a `?`, a prefix operator or `if` does not begin an operand;     *)
(* - a `*` after a `(` that is no call's begins a cast, whatever follows;  *)
(* - a switch without a case over what ends in a name is a struct literal; *)
(* - the left side of an assignment may also be a field of what ends in a  *)
(*   type, a `?` or a block.                                               *)
CutShort == Last(text) \in {")", "else", "loop"}

TakenForTypes(p) == GenericAt(p) /\ Ends(text, <<"TypeArgs">>, p) = {}

TakenForCast(p) ==
  /\ text[p] = "("
  /\ p = 1 \/ text[p - 1] \notin {"x", "print", "if", "while", "for"}
  /\ TokenAt(text, p + 1) = "*"
  /\ TokenAt(text, p + 2) # "T"

TakenForLiteral(p) ==
  /\ text[p] = "switch"
  /\ \E q \in Ends(text, <<"Expr">>, p + 1) :
       /\ text[q - 1] = "x"
       /\ TokenAt(text, q) = "{"
       /\ TokenAt(text, q + 1) = "}"

FieldOfClosed(p) ==
  \E closed \in {<<"as", "Type">>, <<"?">>, <<"else", "Block">>,
                 <<")", "Block">>} :
    \E q \in Ends(text, closed \o <<"Suffixes", ".", "Name">>, p) :
      \E r \in q..Len(text) : /\ text[r] = "="
                             /\ \A s \in q..r - 1 : text[s] = ")"

ReadOtherwise(p) ==
  \/ text[p] = "?" /\ TokenAt(text, p + 1) \in {"-", "*", "if"}
  \/ TakenForTypes(p)
  \/ TakenForCast(p)
  \/ TakenForLiteral(p)
  \/ FieldOfClosed(p)

(* Apart from those, the parser reports no error for a program and some    *)
(* error for everything else: the binding powers, the lookaheads and the   *)
(* recovery of parser_parse_expression and parser_parse_statement decide   *)
(* the language of the grammar.                                            *)
AcceptsTheGrammar ==
  (Done /\ ~CutShort /\ \A p \in DOMAIN text : ~ReadOtherwise(p))
    => (~reported <=> IsProgram(text))

(* A text parsed without an error is in its tree token for token, nothing  *)
(* skipped by a recovery and nothing lost, and its operators nest as their *)
(* levels say, so that there is one way to read it.                        *)
TreeIsText ==
  (Done /\ ~reported /\ ~CutShort) => Tokens(tree) = text /\ Nested(tree)

(* An assignment to what is NULL, which a text can only have behind a call *)
(* or a field.                                                             *)
Crashed ==
  /\ tree = Crash
  /\ \E p, q \in DOMAIN text : p < q /\ text[p] \in {"(", "."}
                                /\ text[q] = "="

(* However wrong the text, every recovery gets on: parser_process returns, *)
(* or else comes to a `=` whose left side is a call or a field that went   *)
(* wrong, as in `x. = 0;`, and dies there.                                 *)
ParsingEnds == <>(Done /\ (tree = Crash => Crashed))
===============================================================================
