------------------------------- MODULE CgScopes -------------------------------
(***************************************************************************)
(* The stacks the code generator keeps while it emits a function body, and *)
(* the emission of the statements that use them (cg_symbols.c, cg_stmts.c, *)
(* cg_control_flow.c).  A basic block is named by the construct that       *)
(* created it: breaks holds constructs for their exit blocks and continues *)
(* holds loops for their condition (or increment) blocks, each with the    *)
(* number of scopes that are still open at that block.                     *)
(***************************************************************************)
EXTENDS ScopeChain, SequencesExt

CONSTANTS
  NoName,      \* the name of a statement that names no variable
  MaxNest      \* bound: `defer` keywords in front of a deferred statement

ASSUME NoNameAssumption == NoName \notin Names

ASSUME MaxNestAssumption == MaxNest \in Nat

VARIABLES
  cgScope,     \* Codegen.current_scope and its parents, the global one first
  defers,      \* Codegen.defers: one list of deferred statements per scope
  breaks,      \* Codegen.break_stack
  continues,   \* Codegen.continue_stack
  live,        \* the block at the insertion point has no terminator yet
  pending,     \* cg_pop_scope: what is left of the list it took off defers
  closing,     \* cg_pop_scope is running
  panicked,    \* the panic that ended the compiler, or "no"
  misdirected, \* history: a jump was emitted to a construct other than the
               \*   one semantic analysis resolved it to
  misresolved, \* history: a use was bound to another declaration
  displaced,   \* history: some name is entered or used in another scope, or
               \*   at another point, than semantic analysis did it
  lost         \* history: a jump was emitted past deferred statements

cgVars == <<cgScope, defers, breaks, continues, live, pending, closing,
            panicked, misdirected, misresolved, displaced, lost>>

(* The statements a `defer` may hold, by what they do to these stacks when *)
(* they are emitted: "plain" stands for every statement that leaves them   *)
(* as it found them (a call, a print, a braced block, a whole loop), and   *)
(* "try" for `result else return` and `result?`, which return from a block *)
(* of their own.  init is a variable a declaration's initializer reads.    *)
(* target is the construct analysis resolved a jump to, or the declaration *)
(* a name stands for, from the one init stands for, and nest the number of *)
(* further `defer` keywords in front.                                      *)
Simple ==
  [op : {"plain", "break", "continue", "return", "try"}, name : {NoName},
   init : {NoName}]
Naming ==
  [op : {"use"}, name : Names, init : {NoName}]
    \cup [op : {"let"}, name : Names, init : Names \cup {NoName}]

Deferred ==
  [stmt : Simple \cup Naming, target : Nat \ {0}, from : Nat,
   nest : 0 .. MaxNest]

Target == [node : Nat \ {0}, open : Nat]

Panics == {"no", "break", "continue", "defer", "variable"}

CgTypeOK ==
  /\ cgScope \in Seq(SUBSET Declaration)
  /\ defers \in Seq(Seq(Deferred))
  /\ breaks \in Seq(Target)
  /\ continues \in Seq(Target)
  /\ pending \in Seq(Deferred)
  /\ panicked \in Panics
  /\ <<live, closing, misdirected, misresolved, displaced, lost>> \in
       BOOLEAN \X BOOLEAN \X BOOLEAN \X BOOLEAN \X BOOLEAN \X BOOLEAN

CgInit ==
  /\ cgScope = <<{}>>
  /\ defers = <<>>
  /\ breaks = <<>>
  /\ continues = <<>>
  /\ live = TRUE
  /\ pending = <<>>
  /\ closing = FALSE
  /\ panicked = "no"
  /\ misdirected = FALSE
  /\ misresolved = FALSE
  /\ displaced = FALSE
  /\ lost = FALSE

-------------------------------------------------------------------------------
cg_push_scope(decls) ==
  /\ cgScope' = Append(cgScope, decls)
  /\ defers' = Append(defers, <<>>)

(* cg_pop_scope first takes the deferred statements off the stack of       *)
(* lists, then emits them last to first, then drops the symbol table.      *)
cg_pop_scope_begin ==
  /\ defers' = Front(defers)
  /\ pending' = Last(defers)
  /\ closing' = TRUE

(* Mutant: the scope's symbols stay behind.                                *)
cg_pop_scope_keeping_symbols ==
  /\ UNCHANGED cgScope
  /\ closing' = FALSE

cg_pop_scope_end ==
  /\ cgScope' = Front(cgScope)
  /\ closing' = FALSE

(* The loop's exit and continue blocks; open counts the scopes that are    *)
(* open once the loop's own scope, if it has one, is pushed.               *)
push_loop_targets(node, open) ==
  /\ breaks' = Append(breaks, [node |-> node, open |-> open])
  /\ continues' = Append(continues, [node |-> node, open |-> open])

(* Mutant: one of the two List_pop calls is missing.                       *)
pop_break_only ==
  /\ breaks' = Front(breaks)
  /\ UNCHANGED continues

pop_loop_targets ==
  /\ breaks' = Front(breaks)
  /\ continues' = Front(continues)

(* A scope opened inside the first `open` ones holds deferred statements:  *)
(* a jump out of it is emitted without them.                               *)
SkipsDefers(open) == \E i \in (open + 1) .. Len(defers) : defers[i] # <<>>

(* A jump is a terminator: nothing more is emitted into the block.         *)
cg_jump(to, target) ==
  /\ live' = FALSE
  /\ misdirected' = (misdirected \/ to.node # target)
  /\ lost' = (lost \/ SkipsDefers(to.open))
  /\ UNCHANGED <<cgScope, defers, panicked, misresolved>>

cg_panic(why) ==
  /\ panicked' = why
  /\ UNCHANGED <<cgScope, defers, live, misdirected, misresolved, lost>>

cg_break(target) ==
  IF breaks = <<>> THEN cg_panic("break") ELSE cg_jump(Last(breaks), target)

cg_continue(target) ==
  IF continues = <<>>
    THEN cg_panic("continue") ELSE cg_jump(Last(continues), target)

cg_return ==
  /\ live' = FALSE
  /\ lost' = (lost \/ SkipsDefers(0))
  /\ UNCHANGED <<cgScope, defers, panicked, misdirected, misresolved>>

(* The return goes into the error block; emission goes on in the block of  *)
(* the successful result.                                                  *)
cg_binary_else ==
  /\ lost' = (lost \/ SkipsDefers(0))
  /\ UNCHANGED <<cgScope, defers, live, panicked, misdirected, misresolved>>

(* NODE_DEFER: onto the list of the innermost scope.                       *)
cg_defer(d) ==
  IF defers = <<>>
    THEN cg_panic("defer")
    ELSE /\ defers' = [defers EXCEPT ![Len(defers)] = Append(@, d)]
         /\ UNCHANGED <<cgScope, live, panicked, misdirected, misresolved, lost>>

(* Reading a variable: the table is searched by its name.                  *)
cg_lookup(chain, name, target) ==
  LET found == Resolve(chain, name) IN
  IF found = 0
    THEN panicked' = "variable" /\ UNCHANGED misresolved
    ELSE /\ misresolved' = (misresolved \/ found # target)
         /\ UNCHANGED panicked

cg_use(name, target) ==
  /\ cg_lookup(cgScope, name, target)
  /\ UNCHANGED <<cgScope, defers, live, misdirected, lost>>

(* A lookup finds the first symbol of a name in a scope, so entering a     *)
(* second one changes nothing.                                             *)
WithSymbol(name, id) ==
  IF Declared(Last(cgScope), name) THEN cgScope ELSE Define(cgScope, name, id)

(* cg_var_decl: the variable is in the table when its initializer is       *)
(* evaluated.                                                              *)
cg_let(name, id, init, from) ==
  /\ cgScope' = WithSymbol(name, id)
  /\ IF init = NoName
       THEN UNCHANGED <<panicked, misresolved>>
       ELSE cg_lookup(WithSymbol(name, id), init, from)
  /\ UNCHANGED <<defers, live, misdirected, lost>>

cg_plain ==
  UNCHANGED <<cgScope, defers, live, panicked, misdirected, misresolved, lost>>

(* cg_statement on a simple statement: nothing is emitted into a block     *)
(* that already has its terminator.                                        *)
cg_statement(stmt, target, from) ==
  IF ~live
    THEN cg_plain
    ELSE \/ stmt.op = "plain" /\ cg_plain
         \/ stmt.op = "break" /\ cg_break(target)
         \/ stmt.op = "continue" /\ cg_continue(target)
         \/ stmt.op = "return" /\ cg_return
         \/ stmt.op = "try" /\ cg_binary_else
         \/ stmt.op = "let" /\ cg_let(stmt.name, target, stmt.init, from)
         \/ stmt.op = "use" /\ cg_use(stmt.name, target)

(* Mutant: a deferred statement is taken for a `defer` of its own.         *)
cg_emit_deferred_again ==
  LET d == Last(pending) IN
  /\ closing
  /\ pending # <<>>
  /\ pending' = Front(pending)
  /\ IF live
       THEN cg_defer([d EXCEPT !.nest = @ - 1])
       ELSE cg_statement(d.stmt, d.target, d.from)
  /\ UNCHANGED <<breaks, continues, closing, displaced>>

(* One turn of cg_pop_scope's loop: the last deferred statement left, with *)
(* its own `defer` taken off.                                              *)
cg_emit_deferred ==
  LET d == Last(pending) IN
  /\ closing
  /\ pending # <<>>
  /\ pending' = Front(pending)
  /\ IF live /\ d.nest > 0
       THEN cg_defer([d EXCEPT !.nest = @ - 1])
       ELSE cg_statement(d.stmt, d.target, d.from)
  /\ UNCHANGED <<breaks, continues, closing, displaced>>
===============================================================================
