------------------------------- MODULE Ownership -------------------------------
(***************************************************************************)
(* Who owns a String.  Semantic analysis walks the body of a function once,*)
(* in the order of the text, and sets is_moved on the variables whose      *)
(* String was handed on; a later use of one is an error.  The code it lets *)
(* through then runs in the order of execution: arms are chosen, loops     *)
(* repeat, jumps leave scopes, and at the end of every block the generated *)
(* code drops the block's Strings and runs its deferred statements.  The   *)
(* text is written as analysis walks it, so every body up to the bounds is *)
(* analysed and run.  A statement names the declaration it reads: that both *)
(* passes find the same one is Lowering's property.                        *)
(*                                                                         *)
(* A String is a pointer to a buffer, and handing it on copies the pointer: *)
(* nothing but is_moved says that the variable it came from should not     *)
(* free the buffer, and the drops do not read is_moved.  So the run keeps  *)
(* apart what became of a variable (owner) and which buffer it points to.  *)
(***************************************************************************)
EXTENDS Naturals, SequencesExt

CONSTANTS
  MaxText,     \* bound: statements and braces of a body
  MaxDecls,    \* bound: Strings it declares
  Elements     \* bound: elements a for-in loop goes over

ASSUME OwnershipAssumption ==
  MaxText \in Nat \ {0, 1} /\ MaxDecls \in Nat /\ Elements \in Nat

VARIABLES
  text,        \* the body: Seq(Statement)
  open,        \* analysis' scopes: the openers of the blocks around, outermost
               \*   first
  isMoved,     \* the declarations whose symbol has is_moved set
  phase,       \* "analysis", "refused", "running", "done"
  pc,          \* the statement to run
  frames,      \* the blocks entered, outermost first
  owner,       \* what became of the String of each declaration
  holds,       \* the buffer each declaration's variable points to, or 0
  freed,       \* the buffers that were freed while a variable points to them
  spoiled,     \* history: the declarations through which a buffer was read
               \*   or freed after it had been freed
  faults,      \* the wrong accesses made so far
  jumped       \* history: a jump has left a block

analysisVars == <<text, open, isMoved>>
bufferVars == <<holds, freed, spoiled>>
runVars == <<pc, frames, owner, bufferVars, faults, jumped>>
vars == <<analysisVars, phase, runVars>>

(* block: the opener of the block the statement stands in; of: the         *)
(* declaration read, or the opener an `else` or an end belongs to.         *)
(* A String is handed on by t = s ("assign", to the declaration `to`), by  *)
(* f(s) for a parameter of type String ("pass") and by s.into_str().       *)
(* let t = s is a declaration and an assignment right after it: both       *)
(* passes make the same of it.  "use" is any other read.                   *)
Jumps == {"break", "continue", "return"}
Hands == {"assign", "pass", "into_str"}
Reads == Hands \cup {"use", "defer"}
Openers == {"body", "if", "else", "for_in"}
Lets == {"let", "const"}
Statement == [op : Jumps \cup Reads \cup Openers \cup Lets \cup {"end"},
              block : Nat, of : Nat, to : Nat]

Frame == [block : Nat, index : Nat]

(* none: not declared yet.  A moved String is dropped all the same.        *)
Owners == {"none", "live", "moved", "dropped"}
Faults == {"use after move", "use after drop", "stray drop"}

TypeOK ==
  /\ text \in Seq(Statement) /\ Len(text) <= MaxText
  /\ open \in Seq(DOMAIN text)
  /\ isMoved \subseteq {d \in DOMAIN text : text[d].op = "let"}
  /\ phase \in {"analysis", "refused", "running", "done"}
  /\ pc \in Nat
  /\ frames \in Seq(Frame)
  /\ owner \in [1 .. MaxText -> Owners]
  /\ holds \in [1 .. MaxText -> Nat]
  /\ freed \subseteq Nat
  /\ spoiled \subseteq 1 .. MaxText
  /\ faults \subseteq Faults
  /\ jumped \in BOOLEAN

Init ==
  /\ text = <<[op |-> "body", block |-> 0, of |-> 0, to |-> 0]>>
  /\ open = <<1>>
  /\ isMoved = {}
  /\ phase = "analysis"
  /\ pc = 1
  /\ frames = <<>>
  /\ owner = [d \in 1 .. MaxText |-> "none"]
  /\ holds = [d \in 1 .. MaxText |-> 0]
  /\ freed = {}
  /\ spoiled = {}
  /\ faults = {}
  /\ jumped = FALSE

-------------------------------------------------------------------------------
(* Semantic analysis.                                                      *)

Here == Len(text) + 1
Inner == Last(open)
Op(i) == text[i].op
In(b, i) == text[i].block = b

(* Room for the statement and for the ends of the blocks open.             *)
Room(ends) == Here + ends <= MaxText

(* Nothing is written after a jump in its block: code generation would     *)
(* leave it out.                                                           *)
Ended == Op(Len(text)) \in Jumps

Write(op, of, to) ==
  text' = Append(text, [op |-> op, block |-> Inner, of |-> of, to |-> to])

Analysing == phase = "analysis" /\ UNCHANGED runVars
Writing == Analysing /\ ~Ended /\ Room(Len(open))

Declarations == {d \in DOMAIN text : Op(d) \in Lets}
Visible == {d \in Declarations : text[d].block \in Range(open)}

(* sema_check_var_decl, with a value that is no variable.                  *)
Declare(op) ==
  /\ Writing
  /\ Cardinality(Declarations) < MaxDecls
  /\ Write(op, 0, 0)
  /\ UNCHANGED <<open, isMoved, phase>>

(* Mutant: the move is noted only where it is certain to happen.           *)
MarksOfBody(op, d) ==
  IF op \in Hands /\ Op(d) = "let" /\ Len(open) = 1 THEN {d} ELSE {}

(* sema_mark_moved_symbol and its three callers: constants stay as they    *)
(* are.                                                                    *)
Marks(op, d) == IF op \in Hands /\ Op(d) = "let" THEN {d} ELSE {}

(* sema_check_var refuses a moved variable before the statement around it  *)
(* marks it, and so the variable assigned.  A deferred statement is        *)
(* analysed where it stands.                                               *)
Read(op, d, to) ==
  /\ Writing
  /\ d \in Visible
  /\ IF op = "assign"
       THEN to \in Visible \ {d} /\ (Op(to) = "let" \/ to = Len(text))
       ELSE to = 0
  /\ Write(op, d, to)
  /\ isMoved' = isMoved \cup Marks(op, d)
  /\ phase' = IF {d, to} \cap isMoved # {} THEN "refused" ELSE phase
  /\ UNCHANGED open

(* The conditions and the iterables read no String.                        *)
Enter(op) ==
  /\ Writing /\ Room(Len(open) + 1)
  /\ Write(op, 0, 0)
  /\ open' = Append(open, Here)
  /\ UNCHANGED <<isMoved, phase>>

(* The second arm is analysed with the marks of the first.                 *)
EnterElse ==
  /\ Analysing
  /\ Op(Inner) = "if" /\ Len(open) > 1
  /\ Room(Len(open))
  /\ text' = Append(text, [op |-> "else", block |-> text[Inner].block,
                           of |-> Inner, to |-> 0])
  /\ open' = Append(Front(open), Here)
  /\ UNCHANGED <<isMoved, phase>>

WriteJump(op) ==
  /\ Writing
  /\ op # "return" => \E b \in Range(open) : Op(b) = "for_in"
  /\ Write(op, 0, 0)
  /\ UNCHANGED <<open, isMoved, phase>>

(* The end of a block; with the body's, code is generated and run.         *)
Leave ==
  /\ phase = "analysis"
  /\ text' = Append(text, [op |-> "end", block |-> text[Inner].block,
                           of |-> Inner, to |-> 0])
  /\ open' = Front(open)
  /\ phase' = IF Len(open) = 1 THEN "running" ELSE phase
  /\ UNCHANGED <<isMoved, runVars>>

-------------------------------------------------------------------------------
(* The code that was generated.                                            *)

Running == phase = "running" /\ UNCHANGED analysisVars

(* Where the block ends, and where control goes from there.                *)
Closing(b) ==
  CHOOSE i \in DOMAIN text : Op(i) \in {"else", "end"} /\ text[i].of = b

HasElse(b) == Op(Closing(b)) = "else"
After(b) == (IF HasElse(b) THEN Closing(Closing(b)) ELSE Closing(b)) + 1

Goto(i) == pc' = i
Step == Goto(pc + 1)
Quiet == UNCHANGED <<owner, bufferVars, faults, jumped, phase>>
Block == Last(frames).block

Push(b) == frames' = Append(frames, [block |-> b, index |-> 0])

RunBody ==
  /\ Running /\ Op(pc) = "body"
  /\ Push(pc) /\ Step /\ Quiet

(* The buffers variables point to.                                         *)
Held(h) == {h[d] : d \in DOMAIN h} \ {0}

(* Which of the buffers freed matter: one no variable points to is reused. *)
(* A buffer is an allocation, not an address: that another String may get  *)
(* the memory of one freed too early is not followed.                      *)
Free(buffers) == freed' = (freed \cup buffers) \cap Held(holds')

Spare == {b \in 1 .. MaxText : b \notin Held(holds)}

(* NODE_VAR_DECL, with a buffer just allocated.  The variable's storage is *)
(* the function's, so a loop stores over what it held.                     *)
RunDeclare ==
  /\ Running /\ Op(pc) \in Lets
  /\ owner' = [owner EXCEPT ![pc] = "live"]
  /\ \E b \in Spare :
       /\ \A c \in Spare : b <= c
       /\ holds' = [holds EXCEPT ![pc] = b]
  /\ Free({})
  /\ Step
  /\ UNCHANGED <<phase, frames, spoiled, faults, jumped>>

(* What is wrong with reading the String of d.                             *)
Access(own, d) ==
  CASE own[d] = "moved" -> {"use after move"}
    [] own[d] = "dropped" -> {"use after drop"}
    [] OTHER -> {}

(* The buffer was freed through another variable.                          *)
Dangling(h, gone, d) == IF h[d] \in gone THEN {d} ELSE {}

Reading(d) ==
  /\ faults' = faults \cup Access(owner, d)
  /\ spoiled' = spoiled \cup Dangling(holds, freed, d)
  /\ Step
  /\ UNCHANGED <<phase, frames, jumped>>

RunUse ==
  /\ Running /\ Op(pc) = "use"
  /\ Reading(text[pc].of)
  /\ UNCHANGED <<owner, holds, freed>>

(* cg_assign_expr: both variables point to the buffer, and what the one    *)
(* assigned pointed to is freed by nobody.                                 *)
RunAssign ==
  LET d == text[pc].of
      to == text[pc].to IN
  /\ Running /\ Op(pc) = "assign"
  /\ Reading(d)
  /\ owner' = [owner EXCEPT ![d] = "moved", ![to] = "live"]
  /\ holds' = [holds EXCEPT ![to] = holds[d]]
  /\ Free({})

(* The callee's parameter is a String of its body: dropped at its end,     *)
(* unless the callee returns before.                                       *)
RunPass ==
  LET d == text[pc].of IN
  /\ Running /\ Op(pc) = "pass"
  /\ Reading(d)
  /\ owner' = [owner EXCEPT ![d] = "moved"]
  /\ UNCHANGED holds
  /\ Free({}) \/ Free({holds[d]})

(* __tyna_string_into_str: the variable points to nothing any more.  A     *)
(* short text is copied and its buffer freed; a str keeps the others.      *)
RunIntoStr ==
  LET d == text[pc].of IN
  /\ Running /\ Op(pc) = "into_str"
  /\ Reading(d)
  /\ owner' = [owner EXCEPT ![d] = "moved"]
  /\ holds' = [holds EXCEPT ![d] = 0]
  /\ Free({}) \/ Free({holds[d]})

(* NODE_DEFER: put on the list of its block when code is generated.        *)
RunDefer ==
  /\ Running /\ Op(pc) = "defer"
  /\ Step /\ Quiet /\ UNCHANGED frames

RunIf ==
  /\ Running /\ Op(pc) = "if"
  /\ \/ Push(pc) /\ Step
     \/ HasElse(pc) /\ Push(Closing(pc)) /\ Goto(Closing(pc) + 1)
     \/ ~HasElse(pc) /\ Goto(After(pc)) /\ UNCHANGED frames
  /\ Quiet

(* for_in_cond, reached from before the loop, from the end of its body and *)
(* from `continue`.                                                        *)
ForInCond(index, outer) ==
  \/ /\ index < Elements
     /\ frames' = Append(outer, [block |-> pc, index |-> index])
     /\ Step
  \/ /\ index >= Elements
     /\ frames' = outer
     /\ Goto(Closing(pc) + 1)

RunForIn ==
  /\ Running /\ Op(pc) = "for_in"
  /\ IF frames # <<>> /\ Block = pc
       THEN ForInCond(Last(frames).index, Front(frames))
       ELSE ForInCond(0, frames)
  /\ Quiet

(* Mutant: the drops of the whole chain of scopes are emitted.             *)
ToDropOfChain(b) ==
  {d \in Declarations : \E f \in Range(frames) : In(f.block, d)}

(* cg_emit_scope_drops, by type alone.                                     *)
ToDrop(b) == {d \in Declarations : In(b, d)}

Deferred(b) == {i \in DOMAIN text : Op(i) = "defer" /\ In(b, i)}

Dropped(b) == [d \in DOMAIN owner |-> IF d \in ToDrop(b) THEN "dropped"
                                      ELSE owner[d]]

Emptied(b) == [d \in DOMAIN holds |-> IF d \in ToDrop(b) THEN 0 ELSE holds[d]]

(* Dropped when its buffer is gone: freed before, or through another       *)
(* variable of the block.                                                  *)
FreedTwice(b) ==
  {d \in ToDrop(b) :
     \/ holds[d] \in freed
     \/ holds[d] # 0 /\ \E e \in ToDrop(b) \ {d} : holds[e] = holds[d]}

(* The end of a block that control reaches: cg_emit_scope_drops, and then, *)
(* in cg_pop_scope, the deferred statements, the last first.               *)
Close(b) ==
  LET stray == {d \in ToDrop(b) : owner[d] \in {"none", "dropped"}} IN
  /\ owner' = Dropped(b)
  /\ faults' = faults
       \cup (IF stray = {} THEN {} ELSE {"stray drop"})
       \cup UNION {Access(Dropped(b), text[i].of) : i \in Deferred(b)}
  /\ holds' = Emptied(b)
  /\ Free({holds[d] : d \in ToDrop(b)})
  /\ spoiled' = spoiled \cup FreedTwice(b)
       \cup UNION {Dangling(holds', freed', text[i].of) : i \in Deferred(b)}

(* Mutant: the end of a loop's body does not advance the index.            *)
ExitUnadvanced(b) ==
  CASE Op(b) = "for_in" -> UNCHANGED <<frames, phase>> /\ Goto(b)
    [] Op(b) = "body" ->
         frames' = <<>> /\ phase' = "done" /\ UNCHANGED pc
    [] OTHER ->
         frames' = Front(frames) /\ Goto(After(b)) /\ UNCHANGED phase

Exit(b) ==
  CASE Op(b) = "for_in" ->
         /\ frames' = [frames EXCEPT ![Len(frames)].index = @ + 1]
         /\ Goto(b) /\ UNCHANGED phase
    [] Op(b) = "body" ->
         frames' = <<>> /\ phase' = "done" /\ UNCHANGED pc
    [] OTHER ->
         frames' = Front(frames) /\ Goto(After(b)) /\ UNCHANGED phase

RunClose ==
  /\ Running /\ Op(pc) \in {"else", "end"}
  /\ Close(Block) /\ Exit(Block)
  /\ UNCHANGED jumped

(* The loop around: break_stack and continue_stack hold its blocks.        *)
LoopFrame == Max({k \in DOMAIN frames : Op(frames[k].block) = "for_in"})

RunBreak ==
  /\ Running /\ Op(pc) = "break"
  /\ frames' = SubSeq(frames, 1, LoopFrame - 1)
  /\ Goto(Closing(frames[LoopFrame].block) + 1)
  /\ jumped' = TRUE
  /\ UNCHANGED <<phase, owner, bufferVars, faults>>

(* The branch goes to for_in_cond: the index is not advanced.              *)
RunContinue ==
  /\ Running /\ Op(pc) = "continue"
  /\ frames' = SubSeq(frames, 1, LoopFrame)
  /\ Goto(frames[LoopFrame].block)
  /\ jumped' = TRUE
  /\ UNCHANGED <<phase, owner, bufferVars, faults>>

(* Nothing is dropped and nothing deferred is run.                         *)
RunReturn ==
  /\ Running /\ Op(pc) = "return"
  /\ frames' = <<>>
  /\ phase' = "done"
  /\ jumped' = TRUE
  /\ UNCHANGED <<pc, owner, bufferVars, faults>>

-------------------------------------------------------------------------------
AnalysisNext ==
  \/ \E op \in Lets : Declare(op)
  \/ \E op \in Reads, d \in Visible, to \in {0} \cup Visible : Read(op, d, to)
  \/ \E op \in {"if", "for_in"} : Enter(op)
  \/ EnterElse
  \/ \E op \in Jumps : WriteJump(op)
  \/ Leave

RunNext ==
  \/ RunBody
  \/ RunDeclare
  \/ RunUse
  \/ RunAssign
  \/ RunPass
  \/ RunIntoStr
  \/ RunDefer
  \/ RunIf
  \/ RunForIn
  \/ RunClose
  \/ RunBreak
  \/ RunContinue
  \/ RunReturn

Next == AnalysisNext \/ RunNext

Spec == Init /\ [][Next]_vars

(* A program that was started goes on.                                     *)
FairSpec == Spec /\ WF_vars(RunNext)

-------------------------------------------------------------------------------
(* Properties.                                                             *)

(* The blocks around statement i, and whether i stands in the block of b.  *)
Within(b, i) == b < i /\ i < Closing(b)

(* A loop hands on a String declared outside of it: its body was analysed  *)
(* once and runs again.                                                    *)
MovedAgain ==
  \E m, b \in DOMAIN text :
    /\ Op(m) \in Hands /\ Op(b) = "for_in" /\ Within(b, m)
    /\ text[m].of < b

(* A String is handed on after a deferred statement that reads it was      *)
(* analysed and before it runs.                                            *)
MovedUnderDefer ==
  \E i, m \in DOMAIN text :
    /\ Op(i) = "defer" /\ Op(m) \in Hands /\ text[m].of = text[i].of
    /\ i < m /\ m < Closing(text[i].block)

MovedConst == \E m \in DOMAIN text : Op(m) \in Hands /\ Op(text[m].of) = "const"

(* "Move semantics are enforced by semantic analysis" (cg_stmts.c:245): no *)
(* execution of a body analysis accepts reads a String after it was handed *)
(* on, whatever arms it takes and wherever it jumps, unless a loop repeats *)
(* the move, the read was deferred over it, or the variable is a constant. *)
MovesEnforced ==
  phase \in {"running", "done"} /\ ~MovedAgain /\ ~MovedUnderDefer /\ ~MovedConst
    => "use after move" \notin faults

(* A deferred statement that reads a String of its own block.              *)
DefersReadOwn ==
  \E i \in DOMAIN text :
    Op(i) = "defer" /\ text[text[i].of].block = text[i].block

(* cg_emit_scope_drops and the deferred statements after it: no String is  *)
(* read after its drop, and none is dropped twice or before it was         *)
(* declared, unless a deferred statement reads a String of its own block.  *)
DropsInOrder ==
  phase \in {"running", "done"} /\ ~DefersReadOwn
    => {"use after drop", "stray drop"} \cap faults = {}

(* A String is handed by value from d or to it: two variables point to one *)
(* buffer.                                                                 *)
Shares(d) ==
  \E m \in DOMAIN text :
    \/ Op(m) \in {"assign", "pass"} /\ text[m].of = d
    \/ Op(m) = "assign" /\ text[m].to = d

(* Whatever else the body does with its other Strings, a buffer is freed   *)
(* once, and not read after, unless its variable shares it: what was       *)
(* handed by value is freed through the variable it came from as well.     *)
FreedOnce == \A d \in spoiled : Shares(d)

(* The drops at the ends of blocks: a body that ran without a jump has     *)
(* left no variable of its own undropped, moved on the path taken or not,  *)
(* and none that points to a buffer.  (A buffer an assignment stored over  *)
(* is pointed to by none, and leaked.)                                     *)
NothingLeft ==
  phase = "done" /\ ~jumped =>
    \A d \in Declarations : owner[d] \notin {"live", "moved"} /\ holds[d] = 0

(* Every variable is dropped exactly once, after its last read, and the    *)
(* buffers those drops free are distinct unless they were shared.          *)
DropsSound == TypeOK /\ DropsInOrder /\ FreedOnce /\ NothingLeft

(* `continue` goes to the condition of a for-in loop past the code that    *)
(* advances its index (cg_control_flow.c:420).  Without one, every body    *)
(* comes to its end.                                                       *)
NoContinue == \A i \in DOMAIN text : Op(i) # "continue"
LoopsEnd == (phase = "running" /\ NoContinue) ~> (phase = "done")
===============================================================================
