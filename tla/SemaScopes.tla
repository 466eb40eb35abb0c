------------------------------ MODULE SemaScopes ------------------------------
(***************************************************************************)
(* The two stacks semantic analysis keeps while it walks a function body:  *)
(* the scope chain (Sema.scope) and the chain of jump contexts (Sema.jump) *)
(* that `break` and `continue` resolve against.                            *)
(***************************************************************************)
EXTENDS ScopeChain, SequencesExt

VARIABLES
  scope,   \* Sema.scope: Seq of sets of declarations, the module scope first
  jump     \* Sema.jump: Seq of jump contexts, the innermost last

semaVars == <<scope, jump>>

JumpContext == [node : Nat \ {0}, is_loop : BOOLEAN]

SemaTypeOK ==
  /\ scope \in Seq(SUBSET Declaration)
  /\ jump \in Seq(JumpContext)

SemaInit ==
  /\ scope = <<{}>>
  /\ jump = <<>>

(* Every breakable construct is pushed with is_breakable = true, so the    *)
(* context a `break` resolves to is the innermost one.                     *)
sema_jump_push(node, is_loop) ==
  jump' = Append(jump, [node |-> node, is_loop |-> is_loop])

sema_jump_pop == jump' = Front(jump)

sema_scope_push(decls) == scope' = Append(scope, decls)

sema_scope_pop == scope' = Front(scope)

(* The construct a `break` leaves, and the loop a `continue` repeats; 0    *)
(* when there is none.                                                     *)
sema_find_break_jump == IF jump = <<>> THEN 0 ELSE Last(jump).node

LoopJumps == {i \in DOMAIN jump : jump[i].is_loop}

(* Mutant: `continue` resolves as `break` does.                            *)
sema_find_any_jump == IF jump = <<>> THEN 0 ELSE Last(jump).node

sema_find_loop_jump ==
  IF LoopJumps = {} THEN 0 ELSE jump[Max(LoopJumps)].node

sema_resolve(name) == Resolve(scope, name)

(* sema_resolve_local: declared in the innermost scope already.            *)
sema_resolve_local(name) == Declared(Last(scope), name)
===============================================================================
