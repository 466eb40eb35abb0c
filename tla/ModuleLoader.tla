----------------------------- MODULE ModuleLoader -----------------------------
(***************************************************************************)
(* From the file on the command line to analysed modules.  sema_analyze    *)
(* walks a file's statements; an import resolves to a path, and a module   *)
(* that is not in the registry yet is read, parsed and analysed inside the *)
(* walk of the file that imports it, by a Sema and an error handler of its *)
(* own.  What an importer may call is what the import put into its scope.  *)
(*                                                                         *)
(* A program is chosen at the start and does not change.  Of a file the    *)
(* model keeps the imports, which stand first, the functions it declares,  *)
(* its top-level statement and one function whose body makes one call.     *)
(* stdlib/std.tn, which imports nothing, is left out.                      *)
(***************************************************************************)
EXTENDS Naturals, SequencesExt

CONSTANTS
  Families,    \* the programs the compiler may be given, a sequence of sets
  FnNames,     \* names of functions
  Callee,      \* the function every call names
  NoUnit       \* not a unit

Main == <<>>    \* the root of the file on the command line
MainPath == <<"main">>

(* A program is its readable files: what a file says, by its path.         *)
ImportSet == [path : Seq(STRING) \ {<<>>}, alias : STRING,
              mode : {"namespace", "wildcard", "select"}]

ASSUME ProgramAssumption ==
  /\ FnNames \subseteq STRING
  /\ Callee \in STRING
  /\ \A i \in DOMAIN Families : \A p \in Families[i] :
       /\ MainPath \in DOMAIN p
       /\ \A u \in DOMAIN p :
            /\ u \in Seq(STRING) \ {<<>>}
            /\ p[u].imports \in Seq(ImportSet)
            /\ p[u].fns \in [FnNames -> {"none", "private", "pub"}]
            /\ p[u].parses \in BOOLEAN
            /\ p[u].stmt \in {"none", "plain", "branch"}
            /\ p[u].call \in STRING
            /\ p[u].caller \in {"private", "pub"}

VARIABLES
  program,     \* path |-> source, for the files that can be read
  phase,       \* where the compiler is, or how it ended
  modules,     \* s->modules: the paths registered, in order
  analysed,    \* the paths whose is_analyzed is set
  walks,       \* the calls of sema_analyze in progress, outermost first
  scope,       \* unit |-> the symbols of its root scope
  errors,      \* the units with has_errors in their error handler
  called       \* unit |-> what analysis made of its call

loaderVars == <<program, phase, modules, analysed, walks, scope, errors,
                called>>

(* A unit is a root that is analysed: a registered file, or the main file, *)
(* which is not in the registry.                                           *)
Files ==
  UNION {UNION {DOMAIN p : p \in Families[i]} : i \in DOMAIN Families}
Units == Files \cup {Main}
PathOf(u) == IF u = Main THEN MainPath ELSE u
Source(u) == program[PathOf(u)]

(* module->name: the last component of the import path, which is the name  *)
(* of the file.                                                            *)
Base(u) == Last(PathOf(u))

(* sema_mangle_module_symbol: an exported function carries its module's    *)
(* name, any other keeps its own in the whole program.                     *)
LinkName(u, f) ==
  IF Source(u).fns[f] = "pub" /\ f # "main" THEN <<Base(u), f>> ELSE <<f>>

Names == {"none", "module", "fn"}

Symbol == [name : Seq(STRING), kind : {"module", "fn"}, unit : Units,
           original : STRING, pub : BOOLEAN]

FnSymbol(name, u, f, pub) ==
  [name |-> name, kind |-> "fn", unit |-> u, original |-> f, pub |-> pub]

(* What sema_analyze's first pass puts into a fresh scope.                 *)
Signatures(u) ==
  {FnSymbol(LinkName(u, f), u, f, Source(u).fns[f] = "pub") :
     f \in {g \in FnNames : Source(u).fns[g] # "none"}}

(* path_from_import: std.* is looked up under stdlib, anything else in the *)
(* importer's directory, without a leading component that names it.        *)
Resolved(import, u) ==
  LET dir == Front(PathOf(u)) IN
  CASE import[1] = "std" /\ Len(import) > 1 -> <<"stdlib">> \o Tail(import)
    [] Len(import) > 1 /\ dir # <<>> /\ import[1] = Last(dir)
         /\ import[1] # "std" -> dir \o Tail(import)
    [] OTHER -> dir \o import

Called == [state : {"no", "resolved", "unresolved"}, name : Seq(STRING),
           unit : Units \cup {NoUnit}]

NotCalled == [state |-> "no", name |-> <<>>, unit |-> NoUnit]

Phases == {"analysis", "refused", "codegen", "done", "panic", "overflow"}

LoaderTypeOK ==
  /\ DOMAIN program \subseteq Files
  /\ phase \in Phases
  /\ modules \in Seq(Files)
  /\ analysed \subseteq Files
  /\ walks \in Seq([unit : Units, next : Nat])
  /\ scope \in [Units -> SUBSET Symbol]
  /\ errors \subseteq Units
  /\ called \in [Units -> Called]

LoaderInit ==
  /\ \E i \in DOMAIN Families : program \in Families[i]
  /\ phase = "analysis"
  /\ modules = <<>>
  /\ analysed = {}
  /\ walks = <<[unit |-> Main, next |-> 1]>>
  /\ scope = [u \in Units |-> IF u = Main THEN Signatures(Main) ELSE {}]
  /\ errors = {}
  /\ called = [u \in Units |-> NotCalled]

-------------------------------------------------------------------------------
Walk == Last(walks)
Here == Walk.unit
Imports(u) == Source(u).imports
AtImport == phase = "analysis" /\ Walk.next <= Len(Imports(Here))
Import == Imports(Here)[Walk.next]

Advanced(ws) == [ws EXCEPT ![Len(ws)].next = @ + 1]

Named(syms, name) == {s \in syms : s.name = name}
Exports(m, done) == IF m \in done THEN {s \in scope[m] : s.pub} ELSE {}

(* sema_check_import: a name that is taken stays what it was, and the      *)
(* importer has an error; a selected function has to be exported.          *)
Brings(import, m, done) ==
  CASE import.mode = "namespace" ->
         {[name |-> <<import.alias>>, kind |-> "module", unit |-> m,
           original |-> import.alias, pub |-> FALSE]}
    [] import.mode = "wildcard" ->
         {FnSymbol(<<s.original>>, s.unit, s.original, FALSE) :
            s \in Exports(m, done)}
    [] import.mode = "select" ->
         {FnSymbol(<<s.original>>, s.unit, s.original, FALSE) :
            s \in {e \in Exports(m, done) : e.original = Callee}}

Bound(u, import, m, done) ==
  LET new == Brings(import, m, done)
      free == {s \in new : Named(scope[u], s.name) = {}}
  IN [scope |-> scope[u] \cup free,
      failed |-> free # new \/ (import.mode = "select" /\ new = {})]

Bind(u, import, m, done, reported) ==
  LET b == Bound(u, import, m, done) IN
  /\ scope' = [scope EXCEPT ![u] = b.scope]
  /\ errors' = errors \cup (IF b.failed \/ reported THEN {u} ELSE {})

Target == Resolved(Import.path, Here)
Registered(m) == \E i \in DOMAIN modules : modules[i] = m

(* module_resolve_or_load finds the module, still in analysis in a cycle.  *)
ImportAgain ==
  /\ AtImport
  /\ Registered(Target)
  /\ Bind(Here, Import, Target, analysed, Target \notin analysed)
  /\ walks' = Advanced(walks)
  /\ UNCHANGED <<program, phase, modules, analysed, called>>

(* The file cannot be read, an error of the importer, or does not parse:   *)
(* its errors are shown, and the importer goes on as without the import.   *)
ImportNothing ==
  /\ AtImport
  /\ ~Registered(Target)
  /\ \/ Target \notin DOMAIN program /\ errors' = errors \cup {Here}
     \/ /\ Target \in DOMAIN program
        /\ ~program[Target].parses
        /\ errors' = errors \cup {Target}
  /\ walks' = Advanced(walks)
  /\ UNCHANGED <<program, phase, modules, analysed, scope, called>>

(* Mutant: the module is looked up after it was read and parsed.           *)
ImportLoadTwice ==
  /\ AtImport
  /\ Target \in DOMAIN program
  /\ program[Target].parses
  /\ Len(walks) < 6
  /\ modules' = Append(modules, Target)
  /\ scope' = [scope EXCEPT ![Target] = Signatures(Target)]
  /\ walks' = Append(walks, [unit |-> Target, next |-> 1])
  /\ UNCHANGED <<program, phase, analysed, errors, called>>

(* A new module is registered, then analysed in the middle of the import.  *)
ImportLoad ==
  /\ AtImport
  /\ ~Registered(Target)
  /\ Target \in DOMAIN program
  /\ program[Target].parses
  /\ modules' = Append(modules, Target)
  /\ scope' = [scope EXCEPT ![Target] = Signatures(Target)]
  /\ walks' = Append(walks, [unit |-> Target, next |-> 1])
  /\ UNCHANGED <<program, phase, analysed, errors, called>>

-------------------------------------------------------------------------------
(* The call in the body of the unit's function, after the imports: f() or  *)
(* alias.f().  What code generation sees is the name in the call's node.   *)
AtCall ==
  /\ phase = "analysis"
  /\ Walk.next = Len(Imports(Here)) + 1
  /\ Source(Here).call # "none"

Resolve(name) == Named(scope[Here], name)

(* Mutant: the call keeps the name it was written with.                    *)
CheckCallUnnamed(name, syms) ==
  LET found == {s \in syms : s.name = name} IN
  IF found = {}
  THEN /\ errors' = errors \cup {Here}
       /\ called' = [called EXCEPT ![Here] =
                       [state |-> "unresolved", name |-> name, unit |-> NoUnit]]
  ELSE LET s == CHOOSE s \in found : TRUE IN
       /\ UNCHANGED errors
       /\ called' = [called EXCEPT ![Here] =
                       [state |-> "resolved", name |-> <<s.original>>,
                        unit |-> s.unit]]

(* sema_check_call, from the point where the callee is a plain name.       *)
CheckCall(name, syms) ==
  LET found == {s \in syms : s.name = name} IN
  IF found = {}
  THEN /\ errors' = errors \cup {Here}
       /\ called' = [called EXCEPT ![Here] =
                       [state |-> "unresolved", name |-> name, unit |-> NoUnit]]
  ELSE LET s == CHOOSE s \in found : TRUE IN
       /\ UNCHANGED errors
       /\ called' = [called EXCEPT ![Here] =
            IF s.kind = "fn"
            THEN [state |-> "resolved", name |-> LinkName(s.unit, s.original),
                  unit |-> s.unit]
            ELSE [state |-> "unresolved", name |-> name, unit |-> NoUnit]]

CallOwn ==
  /\ AtCall
  /\ Source(Here).call = "own"
  /\ CheckCall(<<Callee>>, scope[Here])
  /\ walks' = Advanced(walks)
  /\ UNCHANGED <<program, phase, modules, analysed, scope>>

Qualifier == {s \in Resolve(<<Source(Here).call>>) : s.kind = "module"}
Member(m) ==
  {s \in Exports(m, analysed) : s.original = Callee}

(* sema_bind_method_alias: the export is defined under its own name in the *)
(* caller's scope, unless that name means something there already.         *)
CallMember ==
  /\ AtCall
  /\ Source(Here).call # "own"
  /\ \E q \in Qualifier : \E s \in Member(q.unit) :
       LET syms == IF Resolve(s.name) # {} THEN scope[Here]
                   ELSE scope[Here] \cup {FnSymbol(s.name, s.unit, s.original,
                                                   FALSE)}
       IN /\ scope' = [scope EXCEPT ![Here] = syms]
          /\ CheckCall(s.name, syms)
  /\ walks' = Advanced(walks)
  /\ UNCHANGED <<program, phase, modules, analysed>>

(* The module has no such export: the error is reported, the call is said  *)
(* to be resolved although its node did not change, and sema_check_call    *)
(* calls itself on the same node until the stack is gone.                  *)
CallMissing ==
  /\ AtCall
  /\ Source(Here).call # "own"
  /\ \E q \in Qualifier : Member(q.unit) = {}
  /\ errors' = errors \cup {Here}
  /\ phase' = "overflow"
  /\ UNCHANGED <<program, modules, analysed, walks, scope, called>>

(* Nothing of that name was imported.                                      *)
CallUnqualified ==
  /\ AtCall
  /\ Source(Here).call # "own"
  /\ Qualifier = {}
  /\ errors' = errors \cup {Here}
  /\ called' = [called EXCEPT ![Here] =
                  [state |-> "unresolved", name |-> <<>>, unit |-> NoUnit]]
  /\ walks' = Advanced(walks)
  /\ UNCHANGED <<program, phase, modules, analysed, scope>>

-------------------------------------------------------------------------------
Walked ==
  /\ phase = "analysis"
  /\ \/ Walk.next > Len(Imports(Here)) + 1
     \/ Walk.next = Len(Imports(Here)) + 1 /\ Source(Here).call = "none"

(* The end of a module: its symbols are detached, its exports collected,   *)
(* and the import it was loaded for takes place.                           *)
FinishModule ==
  /\ Walked
  /\ Here # Main
  /\ analysed' = analysed \cup {Here}
  /\ LET outer == Front(walks)
         u == Last(outer).unit
     IN /\ Bind(u, Imports(u)[Last(outer).next], Here, analysed', FALSE)
        /\ walks' = Advanced(outer)
  /\ UNCHANGED <<program, phase, modules, called>>

(* The end of the main file, whose handler alone decides what comes next.  *)
FinishMain ==
  /\ Walked
  /\ Here = Main
  /\ phase' = IF Main \in errors THEN "refused" ELSE "codegen"
  /\ walks' = <<>>
  /\ UNCHANGED <<program, modules, analysed, scope, errors, called>>

Analyse ==
  \/ ImportAgain \/ ImportNothing \/ ImportLoad
  \/ CallOwn \/ CallMember \/ CallMissing \/ CallUnqualified
  \/ FinishModule \/ FinishMain
===============================================================================
