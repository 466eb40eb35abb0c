------------------------------ MODULE ScopeChain ------------------------------
(***************************************************************************)
(* Chains of scopes, as both compiler passes keep them: semantic analysis  *)
(* in Sema.scope (sema_symbols.c) and code generation in                   *)
(* Codegen.current_scope (cg_symbols.c).  A chain is a sequence of scopes, *)
(* the outermost first.  A scope is the set of declarations entered into   *)
(* it, and a declaration is a name together with the depth of the          *)
(* construct whose walk entered it, which tells two declarations of one    *)
(* name apart.                                                             *)
(***************************************************************************)
EXTENDS Naturals, Sequences, FiniteSetsExt

CONSTANT Names

Declaration == [name : Names, id : Nat \ {0}]

Declared(scope, name) == \E d \in scope : d.name = name

(* What looking a name up yields: the declaration found, or 0.             *)
Visible(chain, name) == {i \in DOMAIN chain : Declared(chain[i], name)}

Resolve(chain, name) ==
  IF Visible(chain, name) = {}
    THEN 0
    ELSE (CHOOSE d \in chain[Max(Visible(chain, name))] : d.name = name).id

(* Enter a declaration into the innermost scope.                           *)
Define(chain, name, id) ==
  [chain EXCEPT ![Len(chain)] = @ \cup {[name |-> name, id |-> id]}]
===============================================================================
