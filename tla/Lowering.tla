------------------------------- MODULE Lowering -------------------------------
(***************************************************************************)
(* One source file on its way through the compiler.  Semantic analysis     *)
(* (sema_check_stmt) and code generation (cg_statement) walk the same tree *)
(* one after the other, each with stacks of its own.  What a stack holds   *)
(* at a node depends only on the constructs around the node and the        *)
(* statements before it, so the two walks are taken together here: an      *)
(* action enters, leaves or visits a node in both, and the tree itself is  *)
(* chosen as the walk goes, so every program the parser accepts up to the  *)
(* bounds is walked.  A program semantic analysis refuses never reaches    *)
(* code generation, and its walk stops.                                    *)
(*                                                                         *)
(* The two walks part in four places, and these make the difficulty: code  *)
(* generation skips what follows a jump in its block, it emits a deferred  *)
(* statement where the scope closes rather than where the statement        *)
(* stands, it does not open scopes where analysis does, and it enters a    *)
(* variable before it evaluates what the variable is initialized with.     *)
(***************************************************************************)
EXTENDS SemaScopes, CgScopes

CONSTANTS
  Ops,         \* bound: the kinds of simple statement the bodies are made of
  MaxDepth,    \* bound: constructs open at a time
  MaxDefers    \* bound: deferred statements registered in one scope

ASSUME BoundAssumption == MaxDepth \in Nat /\ MaxDefers \in Nat

VARIABLES
  path,        \* the constructs around the node being visited, outermost first
  rejected     \* semantic analysis reported an error

walkVars == <<path, rejected>>
vars == <<semaVars, cgVars, walkVars>>

Loops == {"loop", "while", "for", "for_in"}
Cases == {"case", "typed_case"}
Lists == {"root", "block", "else", "switch"}
Kinds == Loops \cup Cases \cup Lists \cup {"if", "fn"}

(* on: code generation descended into the construct (it stood in a live    *)
(* block).  n: children visited, counted where their number is limited.    *)
(* at: how high the stacks were on entry (history, for the invariants).    *)
Heights == [scope : Nat, jump : Nat, defers : Nat, breaks : Nat,
            continues : Nat]

Construct == [kind : Kinds, on : BOOLEAN, n : 0 .. 2, at : Heights]

Here == [scope |-> Len(scope), jump |-> Len(jump), defers |-> Len(defers),
         breaks |-> Len(breaks), continues |-> Len(continues)]

TypeOK ==
  /\ SemaTypeOK
  /\ CgTypeOK
  /\ path \in Seq(Construct) \ {<<>>}
  /\ rejected \in BOOLEAN

Init ==
  /\ SemaInit
  /\ CgInit
  /\ path = <<[kind |-> "root", on |-> TRUE, n |-> 0,
               at |-> [scope |-> 1, jump |-> 0, defers |-> 0, breaks |-> 0,
                       continues |-> 0]]>>
  /\ rejected = FALSE

-------------------------------------------------------------------------------
Top == Last(path)
Depth == Len(path)

Walking == ~rejected /\ panicked = "no" /\ ~closing

(* Where the grammar has room for one more statement: any number in a      *)
(* block and at the top level, one as the body of a loop or of a case.     *)
AtStatement ==
  /\ Walking
  /\ \/ Top.kind \in {"block", "else"}
     \/ Top.kind = "root" /\ Top.n = 0
     \/ Top.kind \in Loops \cup Cases /\ Top.n = 0

(* Braces may also follow a function's head and the two arms of an `if`:   *)
(* sema_check_if_stmt wraps an arm without braces in a block.              *)
AtBlock ==
  \/ AtStatement
  \/ Walking /\ Top.kind = "fn" /\ Top.n = 0
  \/ Walking /\ Top.kind = "if" /\ Top.n < 2

Counted ==
  IF Top.kind \in Lists THEN path ELSE [path EXCEPT ![Depth].n = @ + 1]

Begin(kind, on) ==
  /\ Depth < MaxDepth
  /\ path' = Append(Counted, [kind |-> kind, on |-> on, n |-> 0, at |-> Here])
  /\ UNCHANGED <<pending, closing, misdirected, lost, rejected>>

Descend(kind, on) ==
  Begin(kind, on) /\ UNCHANGED <<panicked, misresolved, displaced>>

Bind(name) == {[name |-> name, id |-> Depth + 1]}

(* Code generation's part of entering a construct, when it enters it.      *)
NoScope == UNCHANGED <<cgScope, defers>>
NoTargets == UNCHANGED <<breaks, continues>>
Skip == NoScope /\ NoTargets

EnterBlock ==
  LET on == IF Top.kind = "if" THEN Top.on ELSE live IN
  /\ AtBlock
  /\ Descend("block", on)
  /\ sema_scope_push({})
  /\ live' = on
  /\ IF on THEN cg_push_scope({}) /\ NoTargets ELSE Skip
  /\ UNCHANGED jump

EnterIf ==
  /\ AtStatement
  /\ Descend("if", live)
  /\ Skip
  /\ UNCHANGED <<scope, jump, live>>

EnterLoop ==
  /\ AtStatement
  /\ Descend("loop", live)
  /\ sema_jump_push(Depth + 1, TRUE)
  /\ IF live
       THEN NoScope /\ push_loop_targets(Depth + 1, Len(defers))
       ELSE Skip
  /\ UNCHANGED <<scope, live>>

EnterWhile ==
  /\ AtStatement
  /\ Descend("while", live)
  /\ sema_jump_push(Depth + 1, TRUE)
  /\ IF live
       THEN cg_push_scope({}) /\ push_loop_targets(Depth + 1, Len(defers) + 1)
       ELSE Skip
  /\ UNCHANGED <<scope, live>>

(* The loops that bind a variable: `for (let name = ...; ...)` and         *)
(* `for (name in ...)`.  NoName is a `for` without a declaration.  What    *)
(* init reads is resolved by analysis before the variable is defined, and  *)
(* looked up by code generation after it was added.                        *)
EnterFor(kind, name, init) ==
  LET decls == IF name = NoName THEN {} ELSE Bind(name) IN
  /\ AtStatement
  /\ kind = "for" \/ (kind = "for_in" /\ name # NoName)
  /\ init # NoName => sema_resolve(init) # 0
  /\ Begin(kind, live)
  /\ sema_scope_push(decls)
  /\ sema_jump_push(Depth + 1, TRUE)
  /\ IF live
       THEN /\ cg_push_scope(decls)
            /\ push_loop_targets(Depth + 1, Len(defers) + 1)
       ELSE Skip
  /\ IF live /\ init # NoName
       THEN cg_lookup(Append(cgScope, decls), init, sema_resolve(init))
       ELSE UNCHANGED <<panicked, misresolved>>
  /\ displaced' = (displaced \/ (init # NoName /\ init = name))
  /\ UNCHANGED live

EnterSwitch ==
  /\ AtStatement
  /\ Descend("switch", live)
  /\ sema_jump_push(Depth + 1, FALSE)
  /\ Skip
  /\ UNCHANGED <<scope, live>>

(* Mutant: the default case of a union does not push its exit block.       *)
EnterCaseWithoutTarget ==
  /\ Walking /\ Top.kind = "switch"
  /\ Descend("case", Top.on)
  /\ live' = Top.on
  /\ IF Top.on THEN cg_push_scope({}) /\ NoTargets ELSE Skip
  /\ UNCHANGED <<scope, jump>>

(* A case without a typed pattern: a string case, or the default of a      *)
(* union.  Analysis opens no scope for it, code generation does.           *)
EnterCase ==
  /\ Walking /\ Top.kind = "switch"
  /\ Descend("case", Top.on)
  /\ live' = Top.on
  /\ IF Top.on
       THEN /\ breaks' = Append(breaks, [node |-> Depth, open |-> Len(defers)])
            /\ cg_push_scope({})
            /\ UNCHANGED continues
       ELSE Skip
  /\ UNCHANGED <<scope, jump>>

EnterTypedCase(name) ==
  /\ Walking /\ Top.kind = "switch"
  /\ Descend("typed_case", Top.on)
  /\ sema_scope_push(Bind(name))
  /\ live' = Top.on
  /\ IF Top.on
       THEN /\ breaks' = Append(breaks, [node |-> Depth, open |-> Len(defers)])
            /\ cg_push_scope(Bind(name))
            /\ UNCHANGED continues
       ELSE Skip
  /\ UNCHANGED jump

(* The block of `result else { ... }`, an expression statement.            *)
EnterElse ==
  /\ AtStatement
  /\ Descend("else", live)
  /\ sema_scope_push({})
  /\ IF live THEN cg_push_scope({}) /\ NoTargets ELSE Skip
  /\ UNCHANGED <<jump, live>>

(* Functions are walked once the file's top-level statements are done.     *)
BeginFunction(params) ==
  LET decls == {[name |-> p, id |-> Depth + 1] : p \in params} IN
  /\ Walking /\ Depth = 1
  /\ Depth < MaxDepth
  /\ path' = Append([path EXCEPT ![1].n = 1],
                    [kind |-> "fn", on |-> TRUE, n |-> 0, at |-> Here])
  /\ sema_scope_push(decls)
  /\ cg_push_scope(decls)
  /\ live' = TRUE
  /\ UNCHANGED <<jump, breaks, continues, pending, closing, panicked,
                 misdirected, misresolved, displaced, lost, rejected>>
-------------------------------------------------------------------------------
InFunction == Depth > 1 /\ path[2].kind = "fn"

(* What analysis resolves a statement's jump or name to, a declaration     *)
(* standing for itself, and what it resolves an initializer to: before the *)
(* name is defined.  (Before `let x = ... else { ... }` it is defined      *)
(* first; an initializer that holds a block is not among these.)           *)
SemaTarget(stmt) ==
  CASE stmt.op = "break" -> sema_find_break_jump
    [] stmt.op = "continue" -> sema_find_loop_jump
    [] stmt.op = "use" -> sema_resolve(stmt.name)
    [] OTHER -> Depth

SemaSource(stmt) == IF stmt.init = NoName THEN 0 ELSE sema_resolve(stmt.init)

SemaAccepts(stmt) ==
  /\ stmt.op \in {"break", "continue", "use"} => SemaTarget(stmt) # 0
  /\ stmt.init # NoName => SemaSource(stmt) # 0
  /\ stmt.op \in {"return", "try"} => InFunction
  /\ stmt.op = "let" => ~sema_resolve_local(stmt.name)

(* sema_check_stmt on a simple statement it accepts.                       *)
sema_check_stmt(stmt) ==
  /\ scope' = IF stmt.op = "let" THEN Define(scope, stmt.name, Depth)
                                 ELSE scope
  /\ UNCHANGED jump

(* A loop whose iterable or initializer reads no variable in scope is      *)
(* refused as the use is.                                                  *)
Refuse(stmt) ==
  /\ AtStatement
  /\ ~SemaAccepts(stmt)
  /\ rejected' = TRUE
  /\ UNCHANGED <<semaVars, cgVars, path>>

(* A declaration that is the whole body of a `while` or of a case (or of a *)
(* `loop` that is) goes to a scope of its own in code generation only.     *)
(* One that follows a `defer` using its name in the same scope is entered  *)
(* before that use is emitted.  One initialized from its own name is       *)
(* entered before the read.                                                *)
Holder == Max({i \in DOMAIN path : path[i].kind # "loop"})

Displaces(stmt) ==
  /\ stmt.op = "let"
  /\ \/ path[Holder].kind \in {"while", "case"}
     \/ stmt.init = stmt.name
     \/ /\ defers # <<>>
        /\ \E i \in DOMAIN Last(defers) :
             Last(defers)[i].stmt =
               [op |-> "use", name |-> stmt.name, init |-> NoName]

Statement(stmt) ==
  /\ AtStatement
  /\ SemaAccepts(stmt)
  /\ sema_check_stmt(stmt)
  /\ cg_statement(stmt, SemaTarget(stmt), SemaSource(stmt))
  /\ path' = Counted
  /\ displaced' = (displaced \/ Displaces(stmt))
  /\ UNCHANGED <<breaks, continues, pending, closing, rejected>>

(* The bound on deferred statements, for the scope a statement is kept in  *)
(* and for the one its last `defer` moves it to.                           *)
Room(nest) ==
  \A i \in DOMAIN defers \cap {Len(defers), Len(defers) - nest} :
    Len(defers[i]) < MaxDefers

(* `defer`, nest + 1 times, and a statement: analysis checks the statement *)
(* where it stands, code generation keeps it for the end of the scope.     *)
Defer(stmt, nest) ==
  /\ AtStatement
  /\ SemaAccepts(stmt)
  /\ Room(nest)
  /\ sema_check_stmt(stmt)
  /\ IF live
       THEN cg_defer([stmt |-> stmt, target |-> SemaTarget(stmt),
                      from |-> SemaSource(stmt), nest |-> nest])
       ELSE cg_plain
  /\ path' = Counted
  /\ displaced' = (displaced \/ nest > 0 \/ stmt.op = "let")
  /\ UNCHANGED <<breaks, continues, pending, closing, rejected>>

-------------------------------------------------------------------------------
Ascend == path' = Front(path)

(* The end of a construct that is a scope in code generation: its deferred *)
(* statements come before the walk goes up.                                *)
CloseScope ==
  /\ IF Top.on
       THEN cg_pop_scope_begin /\ UNCHANGED path
       ELSE Ascend /\ UNCHANGED <<defers, pending, closing>>
  /\ UNCHANGED <<cgScope, panicked, misdirected, misresolved, displaced, lost,
                 rejected>>

NoScopeToClose ==
  /\ Ascend
  /\ UNCHANGED <<cgScope, defers, pending, closing, panicked, misdirected,
                 misresolved, displaced, lost, rejected>>

(* The end of a loop: the insertion point moves to the exit block, and the *)
(* loop is no longer a target.                                             *)
EndLoop ==
  /\ Top.n = 1
  /\ sema_jump_pop
  /\ IF Top.on THEN pop_loop_targets /\ live' = TRUE
               ELSE NoTargets /\ UNCHANGED live

LeaveBlock ==
  /\ Walking /\ Top.kind \in {"block", "else"}
  /\ sema_scope_pop
  /\ CloseScope
  /\ UNCHANGED <<jump, live, breaks, continues>>

LeaveFunction ==
  /\ Walking /\ Top.kind = "fn" /\ Top.n = 1
  /\ sema_scope_pop
  /\ CloseScope
  /\ UNCHANGED <<jump, live, breaks, continues>>

LeaveIf ==
  /\ Walking /\ Top.kind = "if" /\ Top.n > 0
  /\ NoScopeToClose
  /\ live' = Top.on
  /\ UNCHANGED <<scope, jump, breaks, continues>>

LeaveLoop ==
  /\ Walking /\ Top.kind = "loop"
  /\ EndLoop
  /\ NoScopeToClose
  /\ UNCHANGED scope

LeaveWhile ==
  /\ Walking /\ Top.kind = "while"
  /\ EndLoop
  /\ CloseScope
  /\ UNCHANGED scope

LeaveFor ==
  /\ Walking /\ Top.kind \in {"for", "for_in"}
  /\ EndLoop
  /\ sema_scope_pop
  /\ CloseScope

LeaveCase ==
  /\ Walking /\ Top.kind \in Cases /\ Top.n = 1
  /\ IF Top.kind = "typed_case" THEN sema_scope_pop ELSE UNCHANGED scope
  /\ CloseScope
  /\ UNCHANGED <<jump, live, breaks, continues>>

(* Mutant: sema_jump_pop is forgotten after a `switch`.                    *)
LeaveSwitchKeepingJump ==
  /\ Walking /\ Top.kind = "switch"
  /\ NoScopeToClose
  /\ live' = Top.on
  /\ UNCHANGED <<scope, jump, breaks, continues>>

LeaveSwitch ==
  /\ Walking /\ Top.kind = "switch"
  /\ sema_jump_pop
  /\ NoScopeToClose
  /\ live' = Top.on
  /\ UNCHANGED <<scope, breaks, continues>>

EmitDeferred ==
  /\ panicked = "no"
  /\ cg_emit_deferred
  /\ UNCHANGED <<semaVars, walkVars>>

(* cg_pop_scope returns.  A case's exit block is dropped after its scope;  *)
(* behind a case, an `else` block and a function the insertion point is in *)
(* another block.                                                          *)
EndScope ==
  /\ closing /\ pending = <<>> /\ panicked = "no"
  /\ cg_pop_scope_end
  /\ Ascend
  /\ breaks' = IF Top.kind \in Cases THEN Front(breaks) ELSE breaks
  /\ live' = (live \/ Top.kind \in Cases \cup {"else", "fn"})
  /\ UNCHANGED <<semaVars, defers, continues, pending, panicked, misdirected,
                 misresolved, displaced, lost, rejected>>

Enter ==
  \/ EnterBlock \/ EnterIf \/ EnterLoop \/ EnterWhile \/ EnterSwitch
  \/ EnterCase \/ EnterElse
  \/ \E name, init \in Names \cup {NoName} :
       EnterFor("for", name, init) \/ EnterFor("for_in", name, init)
  \/ \E name \in Names : EnterTypedCase(name)
  \/ \E params \in SUBSET Names : BeginFunction(params)

Leave ==
  \/ LeaveBlock \/ LeaveFunction \/ LeaveIf \/ LeaveLoop \/ LeaveWhile
  \/ LeaveFor \/ LeaveCase \/ LeaveSwitch

Visit ==
  \E stmt \in {s \in Simple \cup Naming : s.op \in Ops} :
    \/ Refuse(stmt)
    \/ Statement(stmt)
    \/ \E nest \in 0 .. MaxNest : Defer(stmt, nest)

Next == Enter \/ Leave \/ Visit \/ EmitDeferred \/ EndScope

Spec == Init /\ [][Next]_vars
-------------------------------------------------------------------------------
(***************************************************************************)
(* Properties.                                                             *)
(***************************************************************************)

(* What each construct adds to the stacks while it is open.                *)
One(b) == IF b THEN 1 ELSE 0

SemaScoped == {"fn", "block", "else", "for", "for_in", "typed_case"}
CgScoped == SemaScoped \cup {"while", "case"}

Inside(c) ==
  [scope |-> c.at.scope + One(c.kind \in SemaScoped),
   jump |-> c.at.jump + One(c.kind \in Loops \cup {"switch"}),
   defers |-> c.at.defers + One(c.on /\ c.kind \in CgScoped),
   breaks |-> c.at.breaks + One(c.on /\ c.kind \in Loops \cup Cases),
   continues |-> c.at.continues + One(c.on /\ c.kind \in Loops)]

(* While cg_pop_scope runs only a case's exit block is still there.        *)
Ending(c) == [c.at EXCEPT !.breaks = @ + One(c.kind \in Cases)]

Rooted(p) ==
  /\ p[1].kind = "root"
  /\ p[1].at = [scope |-> 1, jump |-> 0, defers |-> 0, breaks |-> 0,
                continues |-> 0]

Chained(p) == \A i \in 1 .. Len(p) - 1 : p[i + 1].at = Inside(p[i])

(* Every stack is exactly as high as the constructs around the node being  *)
(* visited make it, in dead code as in live code, whatever jumped, panicked *)
(* or was deferred inside the constructs already left.                     *)
Measured ==
  /\ Rooted(path)
  /\ Chained(path)
  /\ Here = IF closing THEN Ending(Top) ELSE Inside(Top)
  /\ Len(cgScope) = Len(defers) + 1 + One(closing)
  /\ closing => Top.on /\ Top.kind \in CgScoped

InOrder(targets) ==
  \A i, j \in DOMAIN targets : i < j => targets[i].node < targets[j].node

(* The generator's stack of exit blocks names the same constructs, in the  *)
(* same order, as analysis' chain of jump contexts, and the loops among    *)
(* them are its stack of continue blocks, as long as it is emitting the    *)
(* construct being visited; in code it skips it has a prefix of them.  A   *)
(* case pushes the exit block its `switch` entered as a jump context, so   *)
(* between the two analysis is one ahead.                                  *)
StackAgreement ==
  Walking =>
    LET contexts == IF Top.kind = "switch" /\ Top.on THEN Front(jump) ELSE jump
    IN
      /\ Len(breaks) <= Len(contexts)
      /\ Top.on => Len(breaks) = Len(contexts)
      /\ \A i \in DOMAIN breaks : breaks[i].node = contexts[i].node
      /\ Range(continues) =
           {t \in Range(breaks) : path[t.node].kind \in Loops}
      /\ InOrder(breaks) /\ InOrder(continues)

(* A jump analysis accepted is emitted where it stands to the construct    *)
(* analysis resolved it to, and finds its stack non-empty: only a jump     *)
(* under a `defer` can miss its construct or trip the generator's panic.   *)
DirectJumpsLand ==
  [][ (misdirected' # misdirected \/ panicked' \in {"break", "continue"})
        => closing ]_vars

(* A deferred jump out of a construct around the scope that holds it still *)
(* reaches that construct when the scope closes: the generator has not yet *)
(* dropped the construct from its stacks, nor entered another.             *)
DeferredJumpsLand ==
  \A i \in DOMAIN pending :
    LET d == pending[i] IN
    (panicked = "no" /\ d.target < Depth) =>
      /\ d.stmt.op = "break" => breaks # <<>> /\ Last(breaks).node = d.target
      /\ d.stmt.op = "continue" =>
           continues # <<>> /\ Last(continues).node = d.target

(* The stacks outlive a function: they are fields of Sema and Codegen.     *)
(* Back at the top level each is as it was before, so no function is       *)
(* compiled against what an earlier one left behind.                       *)
Balanced ==
  Walking /\ Depth = 1 =>
    /\ Len(scope) = 1 /\ jump = <<>>
    /\ Len(cgScope) = 1 /\ defers = <<>>
    /\ breaks = <<>> /\ continues = <<>>

(* A use analysis resolved, deferred or not, is bound to the same          *)
(* declaration by the generator, unless a declaration was the bare body of *)
(* a `while` or of a case, was deferred, came between a deferred use of    *)
(* its name and the end of their scope, or was initialized from (or, in a  *)
(* for loop, goes over) a variable of its own name.                        *)
NamesAgree == ~displaced => ~misresolved /\ panicked # "variable"

(* README.md: "Defer: Cleanup blocks (like Go's `defer`)": they run        *)
(* however their block is left.                                            *)
DefersRunOnEveryExit == ~lost
===============================================================================
