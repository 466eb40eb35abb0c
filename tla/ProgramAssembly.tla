---------------------------- MODULE ProgramAssembly ----------------------------
(***************************************************************************)
(* From analysed modules to one LLVM module.  main() goes through the      *)
(* registry; codegen_module_recursive emits what a module imports first,   *)
(* finding it by the name of the import, then the module; the main file    *)
(* comes last.  Emitting a unit declares its functions in one table for    *)
(* the whole program, appends its top-level statements to the first block  *)
(* of the entry function, and emits the bodies.                            *)
(***************************************************************************)
EXTENDS ModuleLoader, FiniteSets

VARIABLES
  at,          \* index of main()'s loop over the registry
  visits,      \* the calls of codegen_module_recursive in progress
  visited,     \* the modules emitted
  emitted,     \* the units emitted, in order
  owner,       \* LLVM name |-> the unit whose body it runs
  entry,       \* the units with statements in the entry function, in order
  closed,      \* the entry function's first block has a terminator
  runs         \* unit |-> the unit whose function its call runs

assemblyVars == <<at, visits, visited, emitted, owner, entry, closed, runs>>
vars == <<loaderVars, assemblyVars>>

LinkNames == {<<f>> : f \in FnNames}
               \cup {<<Base(u), f>> : u \in Units, f \in FnNames}

TypeOK ==
  /\ LoaderTypeOK
  /\ at \in Nat
  /\ visits \in Seq([unit : Files, next : Nat])
  /\ visited \subseteq Files
  /\ emitted \in Seq(Units)
  /\ DOMAIN owner \subseteq LinkNames
  /\ \A n \in DOMAIN owner : owner[n] \in Units
  /\ entry \in Seq(Units)
  /\ closed \in BOOLEAN
  /\ runs \in [Units -> Units \cup {NoUnit}]

Init ==
  /\ LoaderInit
  /\ at = 1
  /\ visits = <<>>
  /\ visited = {}
  /\ emitted = <<>>
  /\ owner = <<>>
  /\ entry = <<>>
  /\ closed = FALSE
  /\ runs = [u \in Units |-> NoUnit]

-------------------------------------------------------------------------------
(* cg_define_function and cg_emit_function_body: a name that was declared  *)
(* before is the same LLVM function, whose first body is the one that runs *)
(* and whose entry is the one cg_find_function returns.                    *)
Declared(u) ==
  LET own == {LinkName(u, f) : f \in {g \in FnNames :
                                        Source(u).fns[g] # "none"}}
  IN [n \in DOMAIN owner \cup own |->
        IF n \in DOMAIN owner THEN owner[n] ELSE u]

(* cg_call_expr: by the name in the node, then, in a function that carries *)
(* its module's name, by that name under the module's.                     *)
CalleeNames(u) ==
  LET name == called[u].name IN
  IF name = <<>> THEN {}
  ELSE {name} \cup
         (IF Source(u).caller = "pub" THEN {<<Base(u)>> \o name} ELSE {})

Candidates(u) == CalleeNames(u) \cap DOMAIN Declared(u)
Found(u) ==
  CHOOSE n \in Candidates(u) :
    called[u].name \in Candidates(u) => n = called[u].name

HasCall(u) == called[u].state # "no"

(* cg_emit_global_statements: cg_statement does nothing in a block that    *)
(* has a terminator, and a statement that branches leaves one behind in    *)
(* the first block, where the next unit starts.                            *)
EmitStatements(u) ==
  IF Source(u).stmt = "none" \/ closed
  THEN UNCHANGED <<entry, closed>>
  ELSE /\ entry' = Append(entry, u)
       /\ closed' = (Source(u).stmt = "branch")

Codegen_global(u) ==
  /\ emitted' = Append(emitted, u)
  /\ EmitStatements(u)
  /\ owner' = Declared(u)
  /\ runs' = [runs EXCEPT ![u] =
                IF HasCall(u) /\ Candidates(u) # {}
                THEN Declared(u)[Found(u)] ELSE NoUnit]

(* A call whose function is not declared yet, or never, is a panic.        *)
Panics(u) == HasCall(u) /\ Candidates(u) = {}

-------------------------------------------------------------------------------
Loaded == {modules[i] : i \in DOMAIN modules}
Assembling == phase = "codegen"
Visit == Last(visits)

(* Mutant: the dependency is looked up by a path.                          *)
FindByPath(alias) == Loaded \cap {<<alias>>}

(* module_find_by_name: the first registered module of that name.          *)
FindByName(alias) ==
  {m \in Files : \E i \in DOMAIN modules :
     /\ modules[i] = m
     /\ Base(m) = alias
     /\ \A j \in 1 .. i - 1 : Base(modules[j]) # alias}

Enter(m) == visits' = Append(visits, [unit |-> m, next |-> 1])

NextModule ==
  /\ Assembling
  /\ visits = <<>>
  /\ at <= Len(modules)
  /\ at' = at + 1
  /\ IF modules[at] \in visited THEN UNCHANGED visits ELSE Enter(modules[at])
  /\ UNCHANGED <<loaderVars, visited, emitted, owner, entry, closed, runs>>

AtDependency ==
  /\ Assembling
  /\ visits # <<>>
  /\ Visit.next <= Len(Imports(Visit.unit))

Dependency == FindByName(Imports(Visit.unit)[Visit.next].alias)

(* The recursion goes no deeper than there are modules unless it returns   *)
(* to one of them: then it does not end, and the bound stands for the      *)
(* stack that is used up.                                                  *)
MaxVisits == Len(modules)

VisitDependency ==
  /\ AtDependency
  /\ \E m \in Dependency \ visited :
       /\ Len(visits) < MaxVisits
       /\ visits' = Append([visits EXCEPT ![Len(visits)].next = @ + 1],
                           [unit |-> m, next |-> 1])
  /\ UNCHANGED <<loaderVars, at, visited, emitted, owner, entry, closed, runs>>

(* Mutant: a module visited before is looked at again.                     *)
SkipInPlace ==
  /\ AtDependency
  /\ Dependency \subseteq visited
  /\ UNCHANGED vars

(* Mutant: imports are not followed.                                       *)
SkipEveryDependency ==
  /\ AtDependency
  /\ visits' = [visits EXCEPT ![Len(visits)].next = @ + 1]
  /\ UNCHANGED <<loaderVars, at, visited, emitted, owner, entry, closed, runs>>

SkipDependency ==
  /\ AtDependency
  /\ Dependency \subseteq visited
  /\ visits' = [visits EXCEPT ![Len(visits)].next = @ + 1]
  /\ UNCHANGED <<loaderVars, at, visited, emitted, owner, entry, closed, runs>>

StackOverflow ==
  /\ AtDependency
  /\ Dependency \ visited # {}
  /\ Len(visits) = MaxVisits
  /\ phase' = "overflow"
  /\ UNCHANGED <<program, modules, analysed, walks, scope, errors, called>>
  /\ UNCHANGED assemblyVars

EmitModule ==
  /\ Assembling
  /\ visits # <<>>
  /\ Visit.next > Len(Imports(Visit.unit))
  /\ ~Panics(Visit.unit)
  /\ Codegen_global(Visit.unit)
  /\ visited' = visited \cup {Visit.unit}
  /\ visits' = Front(visits)
  /\ UNCHANGED <<loaderVars, at>>

(* Codegen_global and Codegen_program of the main file, and the verifier.  *)
EmitMain ==
  /\ Assembling
  /\ visits = <<>>
  /\ at > Len(modules)
  /\ ~Panics(Main)
  /\ Codegen_global(Main)
  /\ phase' = "done"
  /\ UNCHANGED <<program, modules, analysed, walks, scope, errors, called>>
  /\ UNCHANGED <<at, visits, visited>>

Panic ==
  /\ Assembling
  /\ \/ /\ visits # <<>>
        /\ Visit.next > Len(Imports(Visit.unit))
        /\ Panics(Visit.unit)
     \/ visits = <<>> /\ at > Len(modules) /\ Panics(Main)
  /\ phase' = "panic"
  /\ UNCHANGED <<program, modules, analysed, walks, scope, errors, called>>
  /\ UNCHANGED assemblyVars

Assemble ==
  \/ NextModule \/ VisitDependency \/ SkipDependency \/ StackOverflow
  \/ EmitModule \/ EmitMain \/ Panic

Next == (Analyse /\ UNCHANGED assemblyVars) \/ Assemble

Spec == Init /\ [][Next]_vars

(* The compiler is one thread that runs until it ends.                     *)
FairSpec == Spec /\ WF_vars(Next)

-------------------------------------------------------------------------------
Finished == phase \notin {"analysis", "codegen"}
Roots == Loaded \cup {Main}

ImportTargets(u) ==
  {Resolved(Imports(u)[i].path, u) : i \in DOMAIN Imports(u)} \cap Loaded

(* In every set of files there is one that imports none of the others, nor *)
(* itself: no imports go in a circle.                                      *)
Acyclic ==
  \A S \in SUBSET Loaded :
    S # {} => \E m \in S : ImportTargets(m) \cap S = {}

(* No two units share their file's name, and no import has another name    *)
(* than what it imports.                                                   *)
NamesApart == \A u, v \in Roots : u # v => Base(u) # Base(v)
NamesKept ==
  \A u \in Loaded : \A i \in DOMAIN Imports(u) :
     Imports(u)[i].alias = Last(Imports(u)[i].path)

Plain == Acyclic /\ NamesApart /\ NamesKept

(* No function that is not exported has the name of another one.           *)
PrivateApart ==
  \A u, v \in Roots : \A f \in FnNames :
     u # v /\ Source(u).fns[f] # "none" /\ Source(v).fns[f] # "none"
       => LinkName(u, f) # LinkName(v, f)

Position(u) == CHOOSE i \in DOMAIN emitted : emitted[i] = u
WasEmitted(u) == \E i \in DOMAIN emitted : emitted[i] = u

(* A file is analysed once however often, and by whatever paths, it is     *)
(* imported: the registry holds a path once, and what it holds is either   *)
(* analysed or being walked, once (module_resolve_or_load).                *)
AnalysedOnce ==
  /\ IsInjective(modules)
  /\ \A i, j \in DOMAIN walks : walks[i].unit = walks[j].unit => i = j
  /\ phase = "analysis" =>
       Loaded = analysed \cup ({walks[i].unit : i \in DOMAIN walks} \ {Main})

(* A finished program holds each module exactly once, the main file last   *)
(* (codegen_module_recursive and its list of visited modules).             *)
EmittedOnce ==
  /\ IsInjective(emitted)
  /\ phase = "done" => /\ \A m \in Loaded : WasEmitted(m)
                       /\ Last(emitted) = Main

(* Each file goes through the compiler once, however it is imported.       *)
OncePerFile == TypeOK /\ AnalysedOnce /\ EmittedOnce

(* What a unit imports is emitted before the unit, provided no imports go  *)
(* in a circle, no two files share a name and no import is renamed: the    *)
(* dependency is looked up by the import's name (main.c).                  *)
DependenciesFirst ==
  phase = "done" /\ Plain =>
    \A u \in Roots : \A m \in ImportTargets(u) : Position(m) < Position(u)

(* The top-level statements of every unit reach the program, in the order  *)
(* of the units, as long as no unit before them ends the first block.      *)
StatementsRun ==
  phase = "done" /\ (\A u \in Loaded : Source(u).stmt # "branch") =>
    /\ \A u \in Roots :
         (\E i \in DOMAIN entry : entry[i] = u) <=> Source(u).stmt # "none"
    /\ \A i, j \in DOMAIN entry :
         i < j => Position(entry[i]) < Position(entry[j])

(* The order of the program is that of its imports, for the functions of a *)
(* unit and for its statements.                                            *)
OrderKept == DependenciesFirst /\ StatementsRun

(* A call runs the function analysis resolved it to, when imports are      *)
(* plain and functions of different units have different names in the     *)
(* program; main() is then the main file's.                                *)
CallsAgree ==
  phase = "done" /\ Plain /\ PrivateApart =>
    /\ \A u \in Roots :
         called[u].state = "resolved" => runs[u] = called[u].unit
    /\ "main" \in FnNames /\ Source(Main).fns["main"] # "none"
         => owner[<<"main">>] = Main

(* An import may have the name of a function that is called: analysis then *)
(* takes the call for one of the module, and says nothing.                 *)
AliasesApart ==
  \A u \in Roots : \A i \in DOMAIN Imports(u) :
     Imports(u)[i].mode = "namespace" => Imports(u)[i].alias # Callee

(* A program without an error is compiled: no call is left without a       *)
(* function and no recursion without an end, when imports are plain and    *)
(* none has the name of a function that is called.                         *)
CleanIsCompiled ==
  phase \in {"panic", "overflow", "refused"} /\ Plain /\ AliasesApart
    => errors # {}

(* The compiler comes to an end, if only that of its stack.                *)
Ends == <>Finished
===============================================================================
