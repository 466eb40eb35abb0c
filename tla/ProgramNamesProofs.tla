-------------------------- MODULE ProgramNamesProofs --------------------------
(***************************************************************************)
(* What is proved of names, by which code generation finds the file an     *)
(* import means and the function a call means: when imports are plain,     *)
(* they are the ones analysis found.                                       *)
(***************************************************************************)
EXTENDS ProgramAssemblyProofs, FiniteSetTheorems

(***************************************************************************)
(* The name of an import is that of the file it resolves to.               *)
(***************************************************************************)
LEMMA JoinFacts ==
  ASSUME NEW S, NEW s \in Seq(S), NEW t \in Seq(S), t # <<>>
  PROVE  s \o t # <<>> /\ Last(s \o t) = Last(t)
<1>1. Len(s) \in Nat /\ Len(t) \in Nat \ {0} /\ s \o t \in Seq(S)
        /\ Len(s \o t) = Len(s) + Len(t)
  OBVIOUS
<1>2. s \o t # <<>>
  BY <1>1
<1>3. (s \o t)[Len(s) + Len(t)] = t[Len(t)]
  BY <1>1
<1> QED
  BY <1>1, <1>2, <1>3 DEF Last

LEMMA TailFacts ==
  ASSUME NEW S, NEW s \in Seq(S), Len(s) > 1
  PROVE  Tail(s) \in Seq(S) /\ Tail(s) # <<>> /\ Last(Tail(s)) = Last(s)
<1>1. Tail(s) \in Seq(S) /\ Len(Tail(s)) = Len(s) - 1 /\ Len(s) \in Nat
  OBVIOUS
<1>2. Len(Tail(s)) # 0
  BY <1>1
<1>3. Tail(s)[Len(s) - 1] = s[Len(s)]
  BY <1>1
<1> QED
  BY <1>1, <1>2, <1>3 DEF Last

LEMMA ResolvedName ==
  ASSUME NEW path \in Path, NEW u, PathOf(u) \in Path
  PROVE  /\ Resolved(path, u) # <<>>
         /\ Last(Resolved(path, u)) = Last(path)
<1> DEFINE S == STRING \cup {"stdlib"}
           dir == Front(PathOf(u))
           lib == <<"stdlib">>
<1>1. path \in Seq(S) /\ path # <<>> /\ dir \in Seq(S)
  <2>1. \A s \in Seq(STRING) : s \in Seq(S)
    OBVIOUS
  <2>2. dir \in Seq(STRING)
    BY FrontFacts DEF Path
  <2> QED
    BY <2>1, <2>2 DEF Path
<1>2. lib \in Seq(S)
  BY SmallSequences
<1> HIDE DEF S, dir, lib
<1>0. ASSUME Len(path) > 1, NEW s \in Seq(S)
      PROVE  s \o Tail(path) # <<>> /\ Last(s \o Tail(path)) = Last(path)
  <2>1. Tail(path) \in Seq(S) /\ Tail(path) # <<>>
          /\ Last(Tail(path)) = Last(path)
    BY <1>0, <1>1, TailFacts
  <2> QED
    BY <2>1, JoinFacts
<1>3. CASE Resolved(path, u) = lib \o Tail(path) /\ Len(path) > 1
  BY <1>0, <1>2, <1>3
<1>4. CASE Resolved(path, u) = dir \o Tail(path) /\ Len(path) > 1
  BY <1>0, <1>1, <1>4
<1>5. CASE Resolved(path, u) = dir \o path
  BY <1>1, <1>5, JoinFacts
<1> QED
  BY <1>3, <1>4, <1>5 DEF Resolved, dir, lib

(* A dependency that was loaded is the file found by the import's name.    *)
LEMMA NeedsWhatItImports ==
  ASSUME Inv, NamesApart, NamesKept, NEW u \in Loaded,
         NEW i \in DOMAIN Imports(u),
         Resolved(Imports(u)[i].path, u) \in Loaded
  PROVE  Needs(u, i) = {Resolved(Imports(u)[i].path, u)}
<1> DEFINE m == Resolved(Imports(u)[i].path, u)
           a == Imports(u)[i].alias
<1>1. u \in Roots /\ m \in Roots /\ modules \in Seq(Files)
        /\ IsInjective(modules) /\ Loaded \subseteq Files
  BY DEF Roots, Inv, LoaderInv, LoaderTypeOK, Registry, AnalysedOnce, Loaded
<1>2. Imports(u)[i].path \in Path
  <2>1. Imports(u) \in Seq(ImportSet)
    BY <1>1, SourceFacts DEF Inv, LoaderInv
  <2>2. Imports(u)[i] \in ImportSet
    BY <2>1
  <2> QED
    BY <2>2 DEF ImportSet, Path
<1>3. PathOf(u) \in Path /\ PathOf(m) = m
  BY <1>1, FileFacts DEF PathOf
<1>4. Base(m) = a
  BY <1>2, <1>3, ResolvedName DEF Base, NamesKept
<1>5. PICK j \in DOMAIN modules : modules[j] = m
  BY DEF Loaded
<1>6. ASSUME NEW l \in 1 .. j - 1
      PROVE  Base(modules[l]) # a
  <2>1. l \in DOMAIN modules /\ l # j
    BY <1>1, <1>5
  <2>2. modules[l] # m /\ modules[l] \in Roots
    BY <1>1, <1>5, <2>1 DEF IsInjective, Roots, Loaded
  <2> QED
    BY <1>1, <1>4, <2>2 DEF NamesApart
<1>7. m \in Needs(u, i)
  BY <1>1, <1>4, <1>5, <1>6 DEF Needs, FindByName
<1> HIDE DEF m
<1>8. Needs(u, i) = {m}
  BY <1>1, <1>7, FindFacts DEF Needs
<1> QED
  BY <1>8 DEF m

(***************************************************************************)
(* The order of the program.                                               *)
(***************************************************************************)
LEMMA ImportsComeFirst ==
  ASSUME Inv, NamesApart, NamesKept, NEW j \in DOMAIN emitted,
         emitted[j] # Main, NEW m \in ImportTargets(emitted[j])
  PROVE  \E i \in 1 .. j - 1 : emitted[i] = m
<1> DEFINE u == emitted[j]
<1>1. emitted \in Seq(Units) /\ u \in Loaded
  <2>1. emitted \in Seq(Units) /\ u \in Units
    BY DEF Inv, AssemblyTypeOK
  <2>2. u \in Files /\ Among(u, emitted)
    BY <2>1 DEF Units, Among
  <2> QED
    BY <2>1, <2>2 DEF Inv, EmittedInOrder
<1>2. PICK k \in DOMAIN Imports(u) :
        m = Resolved(Imports(u)[k].path, u) /\ m \in Loaded
  BY DEF ImportTargets
<1>3. Needs(u, k) = {m}
  BY <1>1, <1>2, NeedsWhatItImports
<1>4. k \in 1 .. Count(u)
  <2>1. Imports(u) \in Seq(ImportSet)
    BY <1>1, SourceFacts DEF Inv, LoaderInv, Roots
  <2> QED
    BY <1>2, <2>1 DEF Count
<1> QED
  BY <1>3, <1>4 DEF Inv, EmittedInOrder, Ordered

LEMMA DependenciesFirstFollows == Inv => DependenciesFirst
<1> SUFFICES ASSUME Inv, phase = "done", Plain,
                    NEW u \in Roots, NEW m \in ImportTargets(u)
             PROVE  Position(m) < Position(u)
  BY DEF DependenciesFirst
<1>1. /\ emitted \in Seq(Units) /\ emitted # <<>> /\ Last(emitted) = Main
      /\ Loaded \subseteq visited /\ visited \subseteq Files /\ m \in Loaded
  BY DEF Inv, EmittedInOrder, AssemblyTypeOK, ImportTargets
<1>2. /\ Len(emitted) \in DOMAIN emitted /\ emitted[Len(emitted)] = Main
      /\ Len(emitted) \in Nat \ {0} /\ DOMAIN emitted = 1 .. Len(emitted)
  BY <1>1, LastFacts
<1>3. PICK i \in DOMAIN emitted : emitted[i] = m
  BY <1>1 DEF Inv, EmittedInOrder, Among
<1>4. CASE u = Main
  <2>1. i # Len(emitted)
    BY <1>1, <1>2, <1>3, FileFacts
  <2>2. Position(m) = i /\ Position(u) = Len(emitted)
    BY <1>2, <1>3, <1>4, PositionFacts
  <2> QED
    BY <1>2, <2>1, <2>2
<1>5. CASE u # Main
  <2>1. u \in Loaded
    BY <1>5 DEF Roots
  <2>2. PICK j \in DOMAIN emitted : emitted[j] = u
    BY <1>1, <2>1 DEF Inv, EmittedInOrder, Among
  <2>3. PICK h \in 1 .. j - 1 : emitted[h] = m
    BY <1>5, <2>2, ImportsComeFirst DEF Plain
  <2>4. h \in DOMAIN emitted /\ h < j
    BY <1>2, <2>2, <2>3
  <2>5. Position(m) = h /\ Position(u) = j
    BY <2>2, <2>3, <2>4, PositionFacts
  <2> QED
    BY <2>4, <2>5
<1> QED
  BY <1>4, <1>5

LEMMA StatementsRunFollows == Inv => StatementsRun
<1> SUFFICES ASSUME Inv, phase = "done",
                    \A u \in Loaded : Source(u).stmt # "branch"
             PROVE  /\ \A u \in Roots :
                         (\E i \in DOMAIN entry : entry[i] = u)
                            <=> Source(u).stmt # "none"
                    /\ \A i, j \in DOMAIN entry :
                         i < j => Position(entry[i]) < Position(entry[j])
  BY DEF StatementsRun
<1>1. EntryHolds(entry, emitted)
  BY DEF Inv, EntryInOrder
<1>2. \A u \in Roots : Among(u, emitted)
  <2>1. /\ emitted \in Seq(Units) /\ emitted # <<>> /\ Last(emitted) = Main
        /\ Loaded \subseteq visited /\ visited \subseteq Files
    BY DEF Inv, EmittedInOrder, AssemblyTypeOK
  <2>2. Among(Main, emitted)
    BY <2>1, LastFacts DEF Among
  <2> QED
    BY <2>1, <2>2 DEF Inv, EmittedInOrder, Roots
<1>3. \A u \in Roots :
        (\E i \in DOMAIN entry : entry[i] = u) <=> Source(u).stmt # "none"
  BY <1>1, <1>2 DEF EntryHolds, Among, Speaks
<1>4. ASSUME NEW i \in DOMAIN entry, NEW j \in DOMAIN entry, i < j
      PROVE  Position(entry[i]) < Position(entry[j])
  <2>1. PICK k \in DOMAIN emitted : emitted[k] = entry[i]
    BY <1>1 DEF EntryHolds, Among
  <2>2. PICK l \in DOMAIN emitted : emitted[l] = entry[j]
    BY <1>1 DEF EntryHolds, Among
  <2>3. k < l
    BY <1>1, <1>4, <2>1, <2>2 DEF EntryHolds, InOrder
  <2>4. Position(entry[i]) = k /\ Position(entry[j]) = l
    BY <2>1, <2>2, PositionFacts
  <2> QED
    BY <2>3, <2>4
<1> QED
  BY <1>3, <1>4

(* Functions and statements come in the order of the imports: a unit after *)
(* all it imports, and its statements with it.                             *)
THEOREM ImportsGiveTheOrder == Spec => []OrderKept
<1>1. Inv => OrderKept
  BY DependenciesFirstFollows, StatementsRunFollows DEF OrderKept
<1> QED
  BY <1>1, InvHolds, PTL

(***************************************************************************)
(* What a symbol in a unit's scope means.                                  *)
(***************************************************************************)
Declares(u, f) == f \in FnNames /\ Source(u).fns[f] # "none"

Fits(u, s) ==
  /\ s.pub => /\ s.unit = u /\ s.kind = "fn"
              /\ s.name = LinkName(u, s.original)
  /\ s.kind = "module" =>
       /\ s.unit \in ImportTargets(u)
       /\ \E i \in DOMAIN Imports(u) :
            /\ Imports(u)[i].mode = "namespace"
            /\ s.name = <<Imports(u)[i].alias>>
  /\ s.kind = "fn" =>
       s.unit \in {u} \cup ImportTargets(u) /\ Declares(s.unit, s.original)

SymbolsSound == \A u \in Roots : \A s \in scope[u] : Fits(u, s)

LEMMA TargetsGrow ==
  ASSUME program' = program, Loaded \subseteq Loaded'
  PROVE  \A u : ImportTargets(u) \subseteq ImportTargets(u)'
<1>1. \A u : Imports(u)' = Imports(u)
  BY DEF Imports, Source
<1> QED
  BY <1>1 DEF ImportTargets

LEMMA FitsStays ==
  ASSUME program' = program, Loaded \subseteq Loaded', NEW u, NEW s, Fits(u, s)
  PROVE  Fits(u, s)'
<1>1. ImportTargets(u) \subseteq ImportTargets(u)'
  BY TargetsGrow
<1>2. Imports(u)' = Imports(u) /\ (\A v : Source(v)' = Source(v))
        /\ \A v, f : LinkName(v, f)' = LinkName(v, f)
  BY DEF Imports, Source, LinkName
<1> QED
  BY <1>1, <1>2 DEF Fits, Declares

LEMMA SignaturesFit ==
  ASSUME NEW u, NEW s \in Signatures(u)
  PROVE  Fits(u, s)
<1>1. PICK f \in FnNames :
        /\ Source(u).fns[f] # "none"
        /\ s = FnSymbol(LinkName(u, f), u, f, Source(u).fns[f] = "pub")
  BY DEF Signatures
<1>2. s.name = LinkName(u, f) /\ s.kind = "fn" /\ s.unit = u
        /\ s.original = f
  BY <1>1 DEF FnSymbol
<1> QED
  BY <1>1, <1>2 DEF Fits, Declares

LEMMA ExportsFit ==
  ASSUME SymbolsSound, NEW m \in Loaded, NEW done, NEW s \in Exports(m, done)
  PROVE  /\ s.pub /\ s.unit = m /\ s.kind = "fn"
         /\ s.name = LinkName(m, s.original) /\ Declares(m, s.original)
<1>1. s \in scope[m] /\ s.pub
  BY DEF Exports
<1>2. Fits(m, s)
  BY <1>1 DEF SymbolsSound, Roots
<1> QED
  BY <1>1, <1>2 DEF Fits

LEMMA BringsFit ==
  ASSUME SymbolsSound, NEW u, NEW i \in DOMAIN Imports(u),
         Resolved(Imports(u)[i].path, u) \in Loaded, NEW done,
         Imports(u)[i] \in ImportSet,
         NEW s \in Brings(Imports(u)[i], Resolved(Imports(u)[i].path, u), done)
  PROVE  Fits(u, s)
<1> DEFINE import == Imports(u)[i]
           m == Resolved(import.path, u)
<1>1. m \in ImportTargets(u) /\ m \in Loaded
  BY DEF ImportTargets
<1>2. CASE import.mode = "namespace"
  <2>1. s = [name |-> <<import.alias>>, kind |-> "module", unit |-> m,
             original |-> import.alias, pub |-> FALSE]
    BY <1>2 DEF Brings
  <2>2. s.name = <<import.alias>> /\ s.kind = "module" /\ s.unit = m
          /\ s.pub = FALSE
    BY <2>1
  <2> QED
    BY <1>1, <1>2, <2>2 DEF Fits
<1>3. CASE import.mode # "namespace"
  <2>1. import.mode \in {"wildcard", "select"}
    BY <1>3 DEF ImportSet
  <2>2. PICK e \in Exports(m, done) :
          s = FnSymbol(<<e.original>>, e.unit, e.original, FALSE)
    <3>1. CASE import.mode = "wildcard"
      BY <3>1 DEF Brings
    <3>2. CASE import.mode = "select"
      BY <3>2 DEF Brings
    <3> QED
      BY <2>1, <3>1, <3>2
  <2>3. e.unit = m /\ Declares(m, e.original)
    BY <1>1, ExportsFit
  <2>4. s.kind = "fn" /\ s.unit = m /\ s.original = e.original
          /\ s.pub = FALSE
    BY <2>2, <2>3 DEF FnSymbol
  <2> QED
    BY <1>1, <2>3, <2>4 DEF Fits
<1> QED
  BY <1>2, <1>3

(* Binding an import of u to the module it resolves to.                    *)
LEMMA BindFits ==
  ASSUME LoaderInv, SymbolsSound, NEW u \in Roots,
         NEW i \in DOMAIN Imports(u),
         Resolved(Imports(u)[i].path, u) \in Loaded, NEW done, NEW reported,
         Bind(u, Imports(u)[i], Resolved(Imports(u)[i].path, u), done,
              reported)
  PROVE  /\ \A v \in Roots : \A s \in scope'[v] : Fits(v, s)
         /\ errors \subseteq errors'
<1>1. Imports(u)[i] \in ImportSet /\ u \in Units
  <2>1. Imports(u) \in Seq(ImportSet) /\ u \in Units
    BY SourceFacts DEF LoaderInv
  <2> QED
    BY <2>1
<1> DEFINE import == Imports(u)[i]
           m == Resolved(import.path, u)
           syms == Bound(u, import, m, done).scope
<1>2. \A s \in syms : s \in scope[u] \/ s \in Brings(import, m, done)
  BY DEF Bound
<1>3. \A s \in Brings(import, m, done) : Fits(u, s)
  BY <1>1, BringsFit
<1>4. \A s \in syms : Fits(u, s)
  BY <1>2, <1>3 DEF SymbolsSound
<1>5. scope' = [scope EXCEPT ![u] = syms] /\ errors \subseteq errors'
  BY DEF Bind
<1>6. DOMAIN scope = Units
  BY DEF LoaderInv, LoaderTypeOK
<1> HIDE DEF syms
<1> QED
  BY <1>1, <1>4, <1>5, <1>6 DEF SymbolsSound

(***************************************************************************)
(* What analysis made of a unit's call.  One that stays unresolved without *)
(* an error has the name of an import.                                     *)
(***************************************************************************)
AliasCalled(u) ==
  \E i \in DOMAIN Imports(u) :
    Imports(u)[i].mode = "namespace" /\ Imports(u)[i].alias = Callee

CallFits(u, c) ==
  c.state = "resolved" =>
    /\ c.unit \in {u} \cup ImportTargets(u)
    /\ \E f : Declares(c.unit, f) /\ c.name = LinkName(c.unit, f)

CallExcused(u, c, errs) ==
  c.state = "unresolved" => errs # {} \/ AliasCalled(u)

CalledSound ==
  \A u \in Units :
    CallFits(u, called[u]) /\ CallExcused(u, called[u], errors)

LEMMA CheckCallFits ==
  ASSUME LoaderInv, phase = "analysis", CalledSound,
         NEW name, \A a : name = <<a>> => a = Callee,
         NEW syms \in SUBSET Symbol, \A s \in syms : Fits(Here, s),
         CheckCall(name, syms)
  PROVE  /\ \A u \in Units : /\ CallFits(u, called'[u])
                             /\ CallExcused(u, called'[u], errors')
         /\ errors \subseteq errors'
<1> DEFINE found == {s \in syms : s.name = name}
           none == [state |-> "unresolved", name |-> name, unit |-> NoUnit]
           fn(s) == [state |-> "resolved",
                     name |-> LinkName(s.unit, s.original), unit |-> s.unit]
<1>1. Here \in Units /\ DOMAIN called = Units
  BY HereFacts DEF LoaderInv, LoaderTypeOK
<1>2. CASE found = {}
  <2>1. /\ errors' = errors \cup {Here}
        /\ called' = [called EXCEPT ![Here] = none]
    BY <1>2 DEF CheckCall
  <2>2. CallFits(Here, none) /\ CallExcused(Here, none, errors')
    BY <2>1 DEF CallFits, CallExcused
  <2>3. \A u \in Units : CallExcused(u, called[u], errors')
    BY <2>1 DEF CalledSound, CallExcused
  <2> HIDE DEF none
  <2> QED
    BY <1>1, <2>1, <2>2, <2>3 DEF CalledSound
<1>3. CASE found # {}
  <2> DEFINE s == CHOOSE x \in found : TRUE
  <2>1. s \in syms /\ s.name = name /\ s \in Symbol
    BY <1>3
  <2>2. errors' = errors
          /\ called' = [called EXCEPT ![Here] =
                          IF s.kind = "fn" THEN fn(s) ELSE none]
    BY <1>3 DEF CheckCall
  <2> HIDE DEF s
  <2>3. Fits(Here, s) /\ s.kind \in {"module", "fn"}
    BY <2>1 DEF Symbol
  <2>4. CASE s.kind = "fn"
    <3>1. fn(s).state = "resolved" /\ fn(s).unit = s.unit
            /\ fn(s).name = LinkName(s.unit, s.original)
      OBVIOUS
    <3>2. CallFits(Here, fn(s)) /\ CallExcused(Here, fn(s), errors')
      BY <2>3, <2>4, <3>1 DEF CallFits, CallExcused, Fits
    <3>3. called' = [called EXCEPT ![Here] = fn(s)]
      BY <2>2, <2>4
    <3> HIDE DEF fn
    <3> QED
      BY <1>1, <2>2, <3>2, <3>3 DEF CalledSound
  <2>5. CASE s.kind = "module"
    <3>1. AliasCalled(Here)
      <4>1. PICK i \in DOMAIN Imports(Here) :
              Imports(Here)[i].mode = "namespace"
                /\ name = <<Imports(Here)[i].alias>>
        BY <2>1, <2>3, <2>5 DEF Fits
      <4> QED
        BY <4>1 DEF AliasCalled
    <3>2. CallFits(Here, none) /\ CallExcused(Here, none, errors')
      BY <3>1 DEF CallFits, CallExcused
    <3>3. called' = [called EXCEPT ![Here] = none]
      BY <2>2, <2>5
    <3> HIDE DEF none
    <3> QED
      BY <1>1, <2>2, <3>2, <3>3 DEF CalledSound
  <2> QED
    BY <2>3, <2>4, <2>5
<1> QED
  BY <1>2, <1>3

LEMMA CallFitsStays ==
  ASSUME program' = program, Loaded \subseteq Loaded', NEW u, NEW c,
         CallFits(u, c)
  PROVE  CallFits(u, c)'
<1>1. ImportTargets(u) \subseteq ImportTargets(u)'
  BY TargetsGrow
<1>2. (\A v : Source(v)' = Source(v))
        /\ \A v, f : LinkName(v, f)' = LinkName(v, f)
  BY DEF Source, LinkName
<1> QED
  BY <1>1, <1>2 DEF CallFits, Declares

(* Imports that were passed without an error are in the registry.          *)
Met(u, n) ==
  \A i \in DOMAIN Imports(u) :
    i < n => Resolved(Imports(u)[i].path, u) \in Loaded

(* What a step of analysis leaves in scopes and calls, in terms of the     *)
(* registry before it.                                                     *)
Left ==
  /\ \A u \in Roots : \A s \in scope'[u] : Fits(u, s)
  /\ \A u \in Units : CallFits(u, called'[u])
                      /\ CallExcused(u, called'[u], errors')
  /\ errors \subseteq errors'

LEMMA ImportAgainLeft ==
  ASSUME LoaderInv, SymbolsSound, CalledSound, ImportAgain
  PROVE  Left /\ Target \in Loaded
<1>1. /\ Here \in Roots /\ Walk.next \in DOMAIN Imports(Here)
      /\ Target \in Loaded
      /\ Target = Resolved(Imports(Here)[Walk.next].path, Here)
      /\ Import = Imports(Here)[Walk.next]
  BY ImportFacts, HereFacts DEF ImportAgain, Target, Import
<1>2. Bind(Here, Import, Target, analysed, Target \notin analysed)
        /\ called' = called
  BY DEF ImportAgain
<1>3. /\ \A v \in Roots : \A s \in scope'[v] : Fits(v, s)
      /\ errors \subseteq errors'
  <2> HIDE DEF Here, Target, Import, Walk
  <2> QED
    BY <1>1, <1>2, BindFits
<1>4. \A u \in Units : CallFits(u, called'[u])
                      /\ CallExcused(u, called'[u], errors')
  BY <1>2, <1>3 DEF CalledSound, CallExcused
<1> QED
  BY <1>1, <1>3, <1>4 DEF Left

LEMMA ImportNothingLeft ==
  ASSUME LoaderInv, SymbolsSound, CalledSound, ImportNothing
  PROVE  Left /\ errors' # {}
<1>1. errors \subseteq errors' /\ errors' # {} /\ called' = called
        /\ scope' = scope
  BY DEF ImportNothing
<1> QED
  BY <1>1 DEF Left, CalledSound, CallExcused, SymbolsSound

LEMMA ImportLoadLeft ==
  ASSUME LoaderInv, SymbolsSound, CalledSound, ImportLoad
  PROVE  /\ Left /\ errors' = errors
         /\ \A s \in scope'[Target] : Fits(Target, s)
<1>1. Target \in Units /\ Target \notin Roots
  BY ImportFacts, FileFacts DEF ImportLoad, Roots
<1>2. scope' = [scope EXCEPT ![Target] = Signatures(Target)]
        /\ errors' = errors /\ called' = called
  BY DEF ImportLoad
<1>3. DOMAIN scope = Units
  BY DEF LoaderInv, LoaderTypeOK
<1>4. \A s \in scope'[Target] : Fits(Target, s)
  BY <1>1, <1>2, <1>3, SignaturesFit
<1>5. \A u \in Roots : u # Target /\ scope'[u] = scope[u]
  <2> HIDE DEF Target
  <2> QED
    BY <1>1, <1>2
<1> QED
  BY <1>2, <1>4, <1>5 DEF Left, CalledSound, SymbolsSound

LEMMA CallOwnLeft ==
  ASSUME LoaderInv, SymbolsSound, CalledSound, CallOwn
  PROVE  Left
<1>1. phase = "analysis" /\ Here \in Roots /\ Here \in Units
        /\ scope[Here] \subseteq Symbol
  BY HereFacts DEF CallOwn, AtCall, LoaderInv, LoaderTypeOK
<1>2. CheckCall(<<Callee>>, scope[Here]) /\ scope' = scope
  BY DEF CallOwn
<1>3. \A a : <<Callee>> = <<a>> => a = Callee
  OBVIOUS
<1>4. \A s \in scope[Here] : Fits(Here, s)
  BY <1>1 DEF SymbolsSound
<1>5. /\ \A u \in Units : /\ CallFits(u, called'[u])
                          /\ CallExcused(u, called'[u], errors')
      /\ errors \subseteq errors'
  BY <1>1, <1>2, <1>3, <1>4, CheckCallFits
<1> QED
  BY <1>2, <1>5 DEF Left, SymbolsSound

LEMMA CallMemberLeft ==
  ASSUME LoaderInv, SymbolsSound, CalledSound, CallMember
  PROVE  Left
<1>1. /\ phase = "analysis" /\ Here \in Roots /\ Here \in Units
      /\ scope \in [Units -> SUBSET Symbol]
  BY HereFacts DEF CallMember, AtCall, LoaderInv, LoaderTypeOK
<1>2. PICK q \in Qualifier : \E s \in Member(q.unit) :
        \E syms \in {scope[Here],
                     scope[Here] \cup {FnSymbol(s.name, s.unit, s.original,
                                                FALSE)}} :
          /\ scope' = [scope EXCEPT ![Here] = syms]
          /\ CheckCall(s.name, syms)
  BY DEF CallMember
<1>3. PICK s \in Member(q.unit) :
        \E syms \in {scope[Here],
                     scope[Here] \cup {FnSymbol(s.name, s.unit, s.original,
                                                FALSE)}} :
          /\ scope' = [scope EXCEPT ![Here] = syms]
          /\ CheckCall(s.name, syms)
  BY <1>2
<1> DEFINE e == FnSymbol(s.name, s.unit, s.original, FALSE)
<1>4. PICK syms \in {scope[Here], scope[Here] \cup {e}} :
        /\ scope' = [scope EXCEPT ![Here] = syms]
        /\ CheckCall(s.name, syms)
  BY <1>3
<1>5. q.unit \in ImportTargets(Here) /\ q.unit \in Loaded
  <2>1. Fits(Here, q) /\ q.kind = "module"
    BY <1>1, <1>2 DEF Qualifier, Resolve, Named, SymbolsSound
  <2> QED
    BY <2>1 DEF Fits, ImportTargets
<1>6. s \in Exports(q.unit, analysed) /\ s.original = Callee
  BY <1>3 DEF Member
<1>7. /\ s.unit = q.unit /\ s.name = LinkName(q.unit, s.original)
      /\ Declares(q.unit, s.original)
  BY <1>5, <1>6, ExportsFit
<1>8. Fits(Here, e)
  <2>1. e.kind = "fn" /\ e.unit = q.unit /\ e.original = s.original
          /\ e.pub = FALSE
    BY <1>7 DEF FnSymbol
  <2> QED
    BY <1>5, <1>7, <2>1 DEF Fits
<1>9. e \in Symbol
  <2>1. s \in Symbol
    <3>1. q.unit \in Units
      BY <1>5, SourceFacts DEF Roots, LoaderInv
    <3> QED
      BY <1>1, <1>6, <3>1 DEF Exports
  <2>2. s.name \in Seq(STRING) /\ s.unit \in Units /\ s.original \in STRING
    BY <2>1 DEF Symbol
  <2> QED
    BY <2>2, FnSymbolFacts
<1>10. \A a : s.name = <<a>> => a = Callee
  BY <1>6, <1>7 DEF LinkName
<1> HIDE DEF e
<1>11. syms \in SUBSET Symbol /\ \A x \in syms : Fits(Here, x)
  BY <1>1, <1>4, <1>8, <1>9 DEF SymbolsSound
<1>12. /\ \A u \in Units : /\ CallFits(u, called'[u])
                           /\ CallExcused(u, called'[u], errors')
       /\ errors \subseteq errors'
  BY <1>1, <1>4, <1>10, <1>11, CheckCallFits
<1>13. \A u \in Roots : \A x \in scope'[u] : Fits(u, x)
  <2> SUFFICES ASSUME NEW u \in Roots, NEW x \in scope'[u] PROVE Fits(u, x)
    OBVIOUS
  <2>1. u \in Units
    BY SourceFacts DEF LoaderInv
  <2>2. CASE u = Here
    BY <1>1, <1>4, <1>11, <2>2
  <2>3. CASE u # Here
    <3>1. scope'[u] = scope[u]
      BY <1>1, <1>4, <2>1, <2>3
    <3> QED
      BY <3>1 DEF SymbolsSound
  <2> QED
    BY <2>2, <2>3
<1> QED
  BY <1>12, <1>13 DEF Left

LEMMA CallMissingLeft ==
  ASSUME LoaderInv, SymbolsSound, CalledSound, CallMissing
  PROVE  Left /\ errors' # {}
<1>1. errors' = errors \cup {Here} /\ called' = called /\ scope' = scope
  BY DEF CallMissing
<1> QED
  BY <1>1 DEF Left, CalledSound, CallExcused, SymbolsSound

LEMMA CallUnqualifiedLeft ==
  ASSUME LoaderInv, SymbolsSound, CalledSound, CallUnqualified
  PROVE  Left /\ errors' # {}
<1> DEFINE none == [state |-> "unresolved", name |-> <<>>, unit |-> NoUnit]
<1>1. errors' = errors \cup {Here} /\ called' = [called EXCEPT ![Here] = none]
        /\ scope' = scope
  BY DEF CallUnqualified
<1>2. CallFits(Here, none) /\ CallExcused(Here, none, errors')
  BY <1>1 DEF CallFits, CallExcused
<1>3. Here \in Units /\ DOMAIN called = Units
  BY HereFacts DEF CallUnqualified, AtCall, LoaderInv, LoaderTypeOK
<1> HIDE DEF none
<1>4. \A u \in Units : CallFits(u, called'[u])
                      /\ CallExcused(u, called'[u], errors')
  BY <1>1, <1>2, <1>3 DEF CalledSound, CallExcused
<1> QED
  BY <1>1, <1>4 DEF Left, SymbolsSound

LEMMA FinishModuleLeft ==
  ASSUME LoaderInv, SymbolsSound, CalledSound, FinishModule
  PROVE  Left
<1> DEFINE w == Last(Front(walks))
<1>1. phase = "analysis" /\ Here # Main
  BY DEF FinishModule, Walked
<1>2. /\ w.unit \in Roots /\ w.next \in DOMAIN Imports(w.unit)
      /\ Here = Resolved(Imports(w.unit)[w.next].path, w.unit)
      /\ Here \in Loaded
  BY <1>1, ReturnsFacts DEF Wanted
<1>3. Bind(w.unit, Imports(w.unit)[w.next], Here, analysed', FALSE)
        /\ called' = called
  BY DEF FinishModule
<1> HIDE DEF w, Here
<1>4. /\ \A v \in Roots : \A s \in scope'[v] : Fits(v, s)
      /\ errors \subseteq errors'
  BY <1>2, <1>3, BindFits
<1> QED
  BY <1>3, <1>4 DEF Left, CalledSound, CallExcused

LEMMA FinishMainLeft ==
  ASSUME LoaderInv, SymbolsSound, CalledSound, FinishMain
  PROVE  Left /\ errors' = errors
<1>1. errors' = errors /\ called' = called /\ scope' = scope
  BY DEF FinishMain
<1> QED
  BY <1>1 DEF Left, CalledSound, CallExcused, SymbolsSound

LEMMA AnalyseLeft ==
  ASSUME LoaderInv, SymbolsSound, CalledSound, Analyse
  PROVE  Left
  BY ImportAgainLeft, ImportNothingLeft, ImportLoadLeft, CallOwnLeft,
     CallMemberLeft, CallMissingLeft, CallUnqualifiedLeft, FinishModuleLeft,
     FinishMainLeft DEF Analyse

(* The registry only grows, by the file an import loads.                   *)
LEMMA RegistryGrows ==
  ASSUME LoaderInv, Analyse
  PROVE  /\ program' = program /\ Loaded \subseteq Loaded'
         /\ Loaded' # Loaded => ImportLoad /\ Loaded' = Loaded \cup {Target}
<1>1. CASE ImportLoad
  <2>1. Loads
    BY <1>1 DEF ImportLoad, Loads
  <2> QED
    BY <1>1, <2>1, LoadsKeeps DEF Loads
<1>2. CASE ~ImportLoad
  <2>1. program' = program /\ modules' = modules
    BY <1>2 DEF Analyse, ImportAgain, ImportNothing, CallOwn, CallMember,
       CallMissing, CallUnqualified, FinishModule, FinishMain
  <2> QED
    BY <2>1 DEF Loaded
<1> QED
  BY <1>1, <1>2

LEMMA AnalyseSymbols ==
  ASSUME LoaderInv, SymbolsSound, CalledSound, Analyse
  PROVE  SymbolsSound' /\ CalledSound'
<1>1. program' = program /\ Loaded \subseteq Loaded' /\ Left
  BY RegistryGrows, AnalyseLeft
<1>2. SymbolsSound'
  <2> SUFFICES ASSUME NEW u \in Roots', NEW s \in scope'[u]
               PROVE  Fits(u, s)'
    BY DEF SymbolsSound
  <2>1. Fits(u, s)
    <3>1. CASE u \in Roots
      BY <1>1, <3>1 DEF Left
    <3>2. CASE u \notin Roots
      <4>1. ImportLoad /\ u = Target
        BY <3>2, RegistryGrows DEF Roots
      <4> QED
        BY <4>1, ImportLoadLeft
    <3> QED
      BY <3>1, <3>2
  <2> QED
    BY <1>1, <2>1, FitsStays
<1>3. CalledSound'
  <2>1. \A u, c : CallFits(u, c) => CallFits(u, c)'
    BY <1>1, CallFitsStays
  <2>2. \A u, c, e : CallExcused(u, c, e)' <=> CallExcused(u, c, e)
    BY <1>1 DEF CallExcused, AliasCalled, Imports, Source
  <2> QED
    BY <1>1, <2>1, <2>2 DEF Left, CalledSound
<1> QED
  BY <1>2, <1>3

(***************************************************************************)
(* Imports passed without an error.                                        *)
(***************************************************************************)
AllMet(ws, done) ==
  /\ \A u \in done : Met(u, Count(u) + 1)
  /\ \A k \in DOMAIN ws : Met(ws[k].unit, ws[k].next)

LEMMA AllMetStays ==
  ASSUME program' = program, Loaded \subseteq Loaded',
         AllMet(walks', analysed')
  PROVE  AllMet(walks, analysed)'
<1>1. \A u : Imports(u)' = Imports(u) /\ Count(u)' = Count(u)
  BY DEF Imports, Source, Count
<1>2. \A u, n : Met(u, n) => Met(u, n)'
  BY <1>1 DEF Met
<1> QED
  BY <1>1, <1>2 DEF AllMet

LEMMA AdvancedMet ==
  ASSUME NEW ws \in Seq(WalkSet), ws # <<>>, NEW done, AllMet(ws, done),
         Met(ws[Len(ws)].unit, ws[Len(ws)].next + 1)
  PROVE  AllMet(Advanced(ws), done)
<1> DEFINE n == Len(ws)
           vs == Advanced(ws)
<1>1. /\ DOMAIN vs = DOMAIN ws
      /\ \A i \in DOMAIN ws : vs[i].unit = ws[i].unit
      /\ \A i \in DOMAIN ws : i # n => vs[i] = ws[i]
      /\ vs[n].next = ws[n].next + 1
  BY WalkAdvanced
<1>2. Met(ws[n].unit, ws[n].next + 1)
  OBVIOUS
<1> HIDE DEF n, vs
<1>3. \A i \in DOMAIN vs : Met(vs[i].unit, vs[i].next)
  BY <1>1, <1>2 DEF AllMet
<1>4. AllMet(vs, done)
  BY <1>3 DEF AllMet
<1> QED
  BY <1>4 DEF vs

(* The next import of the walk resolves to m, or there is none left.       *)
LEMMA MetOne ==
  ASSUME NEW u, NEW n \in Nat, Met(u, n), Imports(u) \in Seq(ImportSet),
         n \in DOMAIN Imports(u) =>
           Resolved(Imports(u)[n].path, u) \in Loaded
  PROVE  Met(u, n + 1)
<1> SUFFICES ASSUME NEW i \in DOMAIN Imports(u), i < n + 1
             PROVE  Resolved(Imports(u)[i].path, u) \in Loaded
  BY DEF Met
<1>1. i \in Nat
  OBVIOUS
<1>2. i < n \/ i = n
  BY <1>1
<1> QED
  BY <1>2 DEF Met

LEMMA WalksOnMet ==
  ASSUME LoaderInv, WalksOn, AllMet(walks, analysed),
         Walk.next \in DOMAIN Imports(Here) =>
           Resolved(Imports(Here)[Walk.next].path, Here) \in Loaded
  PROVE  AllMet(walks, analysed)'
<1>1. /\ walks \in Seq(WalkSet) /\ walks # <<>> /\ Walk = walks[Len(walks)]
      /\ Len(walks) \in DOMAIN walks /\ Walk.next \in Nat
      /\ Imports(Here) \in Seq(ImportSet) /\ Here = Walk.unit
  BY HereFacts DEF WalksOn, Here
<1>2. Met(Here, Walk.next)
  BY <1>1 DEF AllMet
<1>3. Met(Here, Walk.next + 1)
  BY <1>1, <1>2, MetOne
<1>4. AllMet(Advanced(walks), analysed)
  BY <1>1, <1>3, AdvancedMet
<1>5. /\ program' = program /\ Loaded' = Loaded /\ analysed' = analysed
      /\ walks' = Advanced(walks)
  BY DEF WalksOn, Loaded
<1> QED
  BY <1>4, <1>5, AllMetStays

LEMMA ImportLoadMet ==
  ASSUME LoaderInv, ImportLoad, AllMet(walks, analysed)
  PROVE  AllMet(walks, analysed)'
<1> DEFINE t == Target
           w == [unit |-> t, next |-> 1]
<1>1. /\ walks' = Append(walks, w) /\ analysed' = analysed
      /\ phase = "analysis"
  BY DEF ImportLoad, AtImport
<1>2. walks \in Seq(WalkSet) /\ t \in Units
  BY <1>1, HereFacts, ImportFacts DEF ImportLoad
<1>3. t \in Roots' /\ ProgramSound' /\ program' = program
        /\ Loaded \subseteq Loaded'
  <2>1. Loads
    BY DEF ImportLoad, Loads
  <2> QED
    BY <2>1, LoadsKeeps, RegistryGrows DEF Roots, Analyse
<1> HIDE DEF t
<1>4. w \in WalkSet /\ w.unit = t /\ w.next = 1
  BY <1>2 DEF WalkSet
<1>5. DOMAIN Imports(t) \subseteq Nat \ {0}
  <2>1. program[PathOf(t)].imports \in Seq(ImportSet)
    <3>1. PathOf(t) \in DOMAIN program
      BY <1>2, <1>3, FileFacts DEF ProgramSound, Roots, PathOf, LoaderInv
    <3>2. PICK i \in DOMAIN Families : program \in Families[i]
      BY DEF LoaderInv, ProgramSound
    <3> QED
      BY <3>1, <3>2, ProgramAssumption
  <2> QED
    BY <2>1 DEF Imports, Source
<1>6. Met(t, 1)
  BY <1>5 DEF Met
<1> HIDE DEF w
<1>7. AllMet(Append(walks, w), analysed)
  <2> DEFINE n == Len(walks)
             ws == Append(walks, w)
  <2>1. n \in Nat /\ DOMAIN walks = 1 .. n
    BY <1>2
  <2>2. /\ DOMAIN ws = 1 .. n + 1 /\ ws[n + 1] = w
        /\ \A i \in 1 .. n : ws[i] = walks[i]
    BY <1>2, <1>4, AppendFacts
  <2> HIDE DEF n, ws
  <2>3. \A i \in 1 .. n + 1 : i \in 1 .. n \/ i = n + 1
    BY <2>1
  <2>4. AllMet(ws, analysed)
    BY <1>4, <1>6, <2>1, <2>2, <2>3 DEF AllMet
  <2> QED
    BY <2>4 DEF ws
<1> QED
  BY <1>1, <1>3, <1>7, AllMetStays

LEMMA FinishModuleMet ==
  ASSUME LoaderInv, FinishModule, AllMet(walks, analysed)
  PROVE  AllMet(walks, analysed)'
<1> DEFINE outer == Front(walks)
           w == Last(outer)
<1>1. /\ phase = "analysis" /\ Here # Main
      /\ walks' = Advanced(outer) /\ analysed' = analysed \cup {Here}
      /\ program' = program /\ Loaded' = Loaded
  <2>1. Walked /\ Here # Main
    BY DEF FinishModule
  <2>2. phase = "analysis"
    BY <2>1 DEF Walked
  <2>3. walks' = Advanced(outer) /\ analysed' = analysed \cup {Here}
    BY DEF FinishModule
  <2>4. program' = program /\ modules' = modules
    BY DEF FinishModule
  <2> QED
    BY <2>1, <2>2, <2>3, <2>4 DEF Loaded
<1>2. /\ outer \in Seq(WalkSet) /\ outer # <<>>
      /\ DOMAIN outer = 1 .. Len(walks) - 1
      /\ \A i \in 1 .. Len(walks) - 1 : outer[i] = walks[i]
      /\ w \in WalkSet /\ w.unit \in Roots
      /\ Here = Wanted(w) /\ Here \in Loaded
  BY <1>1, ReturnsFacts
<1>3. /\ walks \in Seq(WalkSet) /\ walks # <<>> /\ Walk = walks[Len(walks)]
      /\ Len(walks) \in DOMAIN walks /\ Walk.next \in Nat
      /\ Imports(Here) \in Seq(ImportSet) /\ Here = Walk.unit
  BY <1>1, HereFacts DEF Here
<1>4. w = outer[Len(outer)] /\ Len(outer) \in DOMAIN outer
  BY <1>2, LastFacts
<1>5. \A i \in 1 .. Len(walks) - 1 : i \in DOMAIN walks
  BY <1>3
<1> HIDE DEF outer, w
<1>6. Met(Here, Count(Here) + 1)
  <2>1. Met(Here, Walk.next) /\ Count(Here) = Len(Imports(Here))
    BY <1>3 DEF AllMet, Count
  <2>2. \A i \in DOMAIN Imports(Here) : i < Walk.next
    <3>1. Count(Here) \in Nat /\ DOMAIN Imports(Here) = 1 .. Count(Here)
      BY <1>3 DEF Count
    <3>2. \/ Walk.next > Count(Here) + 1
          \/ Walk.next = Count(Here) + 1
      BY DEF FinishModule, Walked, Count
    <3>3. Walk.next > Count(Here)
      BY <1>3, <3>1, <3>2
    <3> QED
      BY <1>3, <3>1, <3>3
  <2> QED
    BY <2>1, <2>2 DEF Met
<1>7. AllMet(outer, analysed)
  BY <1>2, <1>5 DEF AllMet
<1>8. Met(w.unit, w.next + 1)
  <2>1. Imports(w.unit) \in Seq(ImportSet)
    BY <1>2, SourceFacts DEF LoaderInv
  <2>2. Met(w.unit, w.next) /\ w.next \in Nat
    BY <1>2, <1>4, <1>7 DEF AllMet, WalkSet
  <2>3. Resolved(Imports(w.unit)[w.next].path, w.unit) \in Loaded
    BY <1>2 DEF Wanted
  <2> QED
    BY <2>1, <2>2, <2>3, MetOne
<1>9. AllMet(Advanced(outer), analysed)
  BY <1>2, <1>4, <1>7, <1>8, AdvancedMet
<1>10. AllMet(walks', analysed')
  BY <1>1, <1>6, <1>9 DEF AllMet
<1> QED
  BY <1>1, <1>10, AllMetStays

LEMMA AnalyseMet ==
  ASSUME LoaderInv, SymbolsSound, CalledSound, Analyse,
         errors = {} => AllMet(walks, analysed)
  PROVE  errors' = {} => AllMet(walks, analysed)'
<1> SUFFICES ASSUME errors' = {} PROVE AllMet(walks, analysed)'
  OBVIOUS
<1>1. AllMet(walks, analysed)
  BY AnalyseLeft DEF Left
<1>2. CASE ImportAgain
  <2>1. WalksOn
    BY <1>2 DEF ImportAgain, AtImport, WalksOn
  <2>2. Resolved(Imports(Here)[Walk.next].path, Here) \in Loaded
    BY <1>2, ImportAgainLeft DEF Target, Import
  <2> QED
    BY <1>1, <2>1, <2>2, WalksOnMet
<1>3. CASE CallOwn \/ CallMember
  <2>1. WalksOn /\ AtCall
    BY <1>3 DEF CallOwn, CallMember, AtCall, WalksOn
  <2>2. Imports(Here) \in Seq(ImportSet)
    BY <2>1, HereFacts DEF AtCall
  <2>3. Walk.next \notin DOMAIN Imports(Here)
    BY <2>1, <2>2 DEF AtCall
  <2> QED
    BY <1>1, <2>1, <2>3, WalksOnMet
<1>4. CASE ImportNothing \/ CallMissing \/ CallUnqualified
  BY <1>4, ImportNothingLeft, CallMissingLeft, CallUnqualifiedLeft
<1>5. CASE ImportLoad
  BY <1>1, <1>5, ImportLoadMet
<1>6. CASE FinishModule
  BY <1>1, <1>6, FinishModuleMet
<1>7. CASE FinishMain
  <2>1. program' = program /\ Loaded' = Loaded /\ analysed' = analysed
          /\ walks' = <<>>
    BY <1>7 DEF FinishMain, Loaded
  <2>2. AllMet(walks', analysed')
    BY <1>1, <2>1 DEF AllMet
  <2> QED
    BY <2>1, <2>2, AllMetStays
<1> QED
  BY <1>2, <1>3, <1>4, <1>5, <1>6, <1>7 DEF Analyse

(***************************************************************************)
(* What the names in the program run.                                      *)
(***************************************************************************)
OwnerHolds(ow, em) ==
  /\ \A n \in DOMAIN ow :
       /\ Among(ow[n], em)
       /\ \E f : Declares(ow[n], f) /\ n = LinkName(ow[n], f)
  /\ \A u : Among(u, em) =>
       \A f : Declares(u, f) => LinkName(u, f) \in DOMAIN ow

RunsHold(rs, em) ==
  Plain /\ PrivateApart =>
    \A u : Among(u, em) /\ called[u].state = "resolved"
             => rs[u] = called[u].unit

(* A name ends in that of the function.                                    *)
LEMMA LinkNameEnds ==
  ASSUME NEW u, NEW v, NEW f, NEW g, LinkName(u, f) = LinkName(v, g)
  PROVE  f = g
<1>1. \A a, b : Len(<<a>>) = 1 /\ <<a>>[1] = a
                  /\ Len(<<a, b>>) = 2 /\ <<a, b>>[2] = b
  OBVIOUS
<1>2. LinkName(u, f) = <<f>> \/ LinkName(u, f) = <<Base(u), f>>
  BY DEF LinkName
<1>3. LinkName(v, g) = <<g>> \/ LinkName(v, g) = <<Base(v), g>>
  BY DEF LinkName
<1>4. CASE LinkName(u, f) = <<f>>
  <2>1. Len(LinkName(u, f)) = 1 /\ LinkName(u, f)[1] = f
    BY <1>1, <1>4
  <2>2. LinkName(v, g) = <<g>>
    BY <1>1, <1>3, <2>1
  <2> QED
    BY <1>1, <2>1, <2>2
<1>5. CASE LinkName(u, f) = <<Base(u), f>>
  <2>1. Len(LinkName(u, f)) = 2 /\ LinkName(u, f)[2] = f
    BY <1>1, <1>5
  <2>2. LinkName(v, g) = <<Base(v), g>>
    BY <1>1, <1>3, <2>1
  <2> QED
    BY <1>1, <2>1, <2>2
<1> QED
  BY <1>2, <1>4, <1>5

LEMMA EmittedAreRoots ==
  ASSUME Inv, NEW u, Among(u, emitted)
  PROVE  u \in Roots /\ u \in Units
<1>1. u \in Units
  BY DEF Inv, AssemblyTypeOK, Among
<1>2. u \in Files => u \in Loaded
  BY DEF Inv, EmittedInOrder
<1> QED
  BY <1>1, <1>2 DEF Units, Roots

LEMMA DeclaredHolds ==
  ASSUME OwnerHolds(owner, emitted), NEW u
  PROVE  /\ \A n \in DOMAIN Declared(u) :
              LET v == Declared(u)[n] IN
              /\ Among(v, emitted) \/ v = u
              /\ \E f : Declares(v, f) /\ n = LinkName(v, f)
         /\ \A v : Among(v, emitted) \/ v = u =>
              \A f : Declares(v, f) => LinkName(v, f) \in DOMAIN Declared(u)
<1> DEFINE own == {LinkName(u, f) : f \in {g \in FnNames :
                                             Source(u).fns[g] # "none"}}
           d == Declared(u)
<1>1. /\ DOMAIN d = DOMAIN owner \cup own
      /\ \A n \in DOMAIN owner \cup own :
           d[n] = IF n \in DOMAIN owner THEN owner[n] ELSE u
  BY DEF Declared
<1>2. \A n \in own : \E f : Declares(u, f) /\ n = LinkName(u, f)
  BY DEF Declares
<1>3. \A f : Declares(u, f) => LinkName(u, f) \in own
  BY DEF Declares
<1> HIDE DEF own, d
<1>4. ASSUME NEW n \in DOMAIN d
      PROVE  /\ Among(d[n], emitted) \/ d[n] = u
             /\ \E f : Declares(d[n], f) /\ n = LinkName(d[n], f)
  <2>1. CASE n \in DOMAIN owner
    BY <1>1, <2>1 DEF OwnerHolds
  <2>2. CASE n \notin DOMAIN owner
    BY <1>1, <1>2, <1>4, <2>2
  <2> QED
    BY <2>1, <2>2
<1>5. \A v : Among(v, emitted) \/ v = u =>
        \A f : Declares(v, f) => LinkName(v, f) \in DOMAIN d
  BY <1>1, <1>3 DEF OwnerHolds
<1> QED
  BY <1>4, <1>5 DEF d

(* The unit that is to be emitted now.                                     *)
Emitting(u) ==
  \/ visits # <<>> /\ Visit.next > Count(u) /\ u = Visit.unit
  \/ visits = <<>> /\ at > Len(modules) /\ u = Main

(* What a unit imports is emitted when its turn comes.                     *)
LEMMA ImportsAreEmitted ==
  ASSUME Inv, Assembling, NamesApart, NamesKept, NEW u, Emitting(u)
  PROVE  /\ u \in Roots /\ u \in Units /\ ~Among(u, emitted)
         /\ \A m \in ImportTargets(u) : Among(m, emitted)
<1>1. CASE visits # <<>> /\ Visit.next > Count(u) /\ u = Visit.unit
  <2> DEFINE n == Len(visits)
  <2>1. /\ n \in Nat \ {0} /\ Visit = visits[n] /\ Visit.next \in Nat
        /\ Count(u) \in Nat /\ u \in Loaded \ visited /\ u \in Files
        /\ Imports(u) \in Seq(ImportSet)
    BY <1>1, VisitFacts
  <2>2. Stacked(visits, n, visited)
    BY DEF Inv
  <2> HIDE DEF n
  <2>3. ASSUME NEW k \in 1 .. Count(u)
        PROVE  Needs(u, k) \subseteq visited
    <3>1. k \in 1 .. visits[n].next - 1 /\ u = visits[n].unit
      BY <1>1, <2>1
    <3> QED
      BY <2>1, <2>2, <3>1 DEF Stacked
  <2>4. ASSUME NEW m \in ImportTargets(u)
        PROVE  Among(m, emitted)
    <3>1. PICK i \in DOMAIN Imports(u) :
            m = Resolved(Imports(u)[i].path, u) /\ m \in Loaded
      BY DEF ImportTargets
    <3>2. i \in 1 .. Count(u)
      BY <2>1, <3>1 DEF Count
    <3>3. Needs(u, i) = {m}
      BY <2>1, <3>1, NeedsWhatItImports
    <3>4. m \in visited
      BY <2>3, <3>2, <3>3
    <3> QED
      BY <3>4 DEF Inv, EmittedInOrder, AssemblyTypeOK
  <2>5. u \in Roots /\ u \in Units /\ ~Among(u, emitted)
    BY <2>1 DEF Roots, Units, Inv, EmittedInOrder
  <2> QED
    BY <2>4, <2>5
<1>2. CASE visits = <<>> /\ at > Len(modules) /\ u = Main
  <2>1. modules \in Seq(Files) /\ at \in Nat /\ Len(modules) \in Nat
          /\ at \in 1 .. Len(modules) + 1
    BY DEF Inv, LoaderInv, LoaderTypeOK, AssemblyTypeOK, LoopSound
  <2>2. ASSUME NEW k \in DOMAIN modules
        PROVE  modules[k] \in visited
    <3>1. k \in 1 .. at - 1
      BY <1>2, <2>1
    <3> QED
      BY <1>2, <3>1 DEF Inv, LoopSound
  <2>3. \A m \in Loaded : Among(m, emitted)
    BY <2>2 DEF Loaded, Inv, EmittedInOrder, AssemblyTypeOK
  <2>4. ~Among(u, emitted)
    BY <1>2 DEF Assembling, Inv, EmittedInOrder
  <2> QED
    BY <1>2, <2>3, <2>4 DEF ImportTargets, Roots, Units
<1> QED
  BY <1>1, <1>2 DEF Emitting

(* A call that analysis resolved finds the function it was resolved to.    *)
LEMMA ResolvedIsFound ==
  ASSUME Inv, OwnerHolds(owner, emitted), CalledSound, Assembling,
         NamesApart, NamesKept,
         NEW u, Emitting(u), called[u].state = "resolved"
  PROVE  /\ Candidates(u) # {}
         /\ PrivateApart => Declared(u)[Found(u)] = called[u].unit
<1> DEFINE c == called[u]
           d == Declared(u)
<1>1. /\ u \in Roots /\ u \in Units
      /\ \A m \in ImportTargets(u) : Among(m, emitted)
  BY ImportsAreEmitted
<1>2. c.unit \in {u} \cup ImportTargets(u)
  BY <1>1 DEF CalledSound, CallFits
<1>3. PICK f : Declares(c.unit, f) /\ c.name = LinkName(c.unit, f)
  BY <1>1 DEF CalledSound, CallFits
<1>4. c.name \in DOMAIN d
  BY <1>1, <1>2, <1>3, DeclaredHolds
<1>5. c.name # <<>>
  BY <1>3 DEF LinkName
<1>6. c.name \in Candidates(u)
  BY <1>4, <1>5 DEF Candidates, CalleeNames
<1>7. Found(u) = c.name
  <2>1. \E n \in Candidates(u) :
          called[u].name \in Candidates(u) => n = called[u].name
    BY <1>6
  <2> QED
    BY <1>6, <2>1 DEF Found
<1>8. ASSUME PrivateApart
      PROVE  d[c.name] = c.unit
  <2> DEFINE v == d[c.name]
  <2>1. PICK g : Declares(v, g) /\ c.name = LinkName(v, g)
    BY <1>4, DeclaredHolds
  <2>2. Among(v, emitted) \/ v = u
    BY <1>4, DeclaredHolds
  <2>3. v \in Roots /\ c.unit \in Roots
    BY <1>1, <1>2, <2>2, EmittedAreRoots
  <2> HIDE DEF v, c
  <2>4. f = g
    BY <1>3, <2>1, LinkNameEnds
  <2>5. v = c.unit
    BY <1>3, <1>8, <2>1, <2>3, <2>4 DEF PrivateApart, Declares
  <2> QED
    BY <2>5 DEF v
<1> QED
  BY <1>6, <1>7, <1>8

(***************************************************************************)
(* Calls of codegen_module_recursive end, unless imports go in a circle: a *)
(* stack as deep as there are modules, and one more, holds a file twice,   *)
(* and what stands between the two is a circle.                            *)
(***************************************************************************)
LEMMA NoCircle ==
  ASSUME Acyclic, NEW n \in Nat, NEW T,
         \A k \in 1 .. n + 1 : T[k] \in Loaded,
         \A k \in 1 .. n : T[k + 1] \in ImportTargets(T[k]),
         NEW i \in 1 .. n + 1, NEW j \in 1 .. n + 1, i < j
  PROVE  T[i] # T[j]
<1> SUFFICES ASSUME T[i] = T[j] PROVE FALSE
  OBVIOUS
<1> DEFINE S == {T[k] : k \in i .. j - 1}
<1>1. \A k \in i .. j - 1 : k \in 1 .. n /\ k \in 1 .. n + 1
  OBVIOUS
<1>2. S \subseteq Loaded
  BY <1>1
<1>3. i \in i .. j - 1
  OBVIOUS
<1>4. S # {}
  BY <1>3
<1>5. PICK m \in S : ImportTargets(m) \cap S = {}
  BY <1>2, <1>4 DEF Acyclic
<1>6. PICK k \in i .. j - 1 : m = T[k]
  BY <1>5
<1>7. T[k + 1] \in ImportTargets(m)
  BY <1>1, <1>6
<1>8. k + 1 \in i .. j - 1 \/ k + 1 = j
  BY <1>6
<1>9. T[k + 1] \in S
  <2>1. CASE k + 1 \in i .. j - 1
    BY <2>1
  <2>2. CASE k + 1 = j
    BY <1>3, <2>2
  <2> QED
    BY <1>8, <2>1, <2>2
<1> QED
  BY <1>5, <1>7, <1>9

LEMMA NoLongChain ==
  ASSUME Acyclic, modules \in Seq(Files), NEW T,
         \A k \in 1 .. Len(modules) + 1 : T[k] \in Loaded,
         \A k \in 1 .. Len(modules) : T[k + 1] \in ImportTargets(T[k])
  PROVE  FALSE
<1> DEFINE n == Len(modules)
           g == [k \in 1 .. n + 1 |-> CHOOSE i \in 1 .. n : modules[i] = T[k]]
<1>1. n \in Nat /\ DOMAIN modules = 1 .. n
  OBVIOUS
<1>2. \A k \in 1 .. n + 1 : T[k] \in Loaded
  OBVIOUS
<1>3. \A k \in 1 .. n : T[k + 1] \in ImportTargets(T[k])
  OBVIOUS
<1>4. \A k \in 1 .. n + 1 : \E i \in 1 .. n : modules[i] = T[k]
  BY <1>1, <1>2 DEF Loaded
<1> HIDE DEF n
<1>5. \A k \in 1 .. n + 1 : g[k] \in 1 .. n /\ modules[g[k]] = T[k]
  BY <1>4
<1>6. g \in [1 .. n + 1 -> 1 .. n]
  BY <1>5
<1> HIDE DEF g
<1>7. /\ IsFiniteSet(1 .. n + 1) /\ Cardinality(1 .. n + 1) = n + 1
      /\ IsFiniteSet(1 .. n) /\ Cardinality(1 .. n) = n
  <2>1. 1 \in Int /\ n \in Int /\ n + 1 \in Int
    BY <1>1
  <2>2. /\ IsFiniteSet(1 .. n + 1)
        /\ Cardinality(1 .. n + 1) =
             IF 1 > n + 1 THEN 0 ELSE (n + 1) - 1 + 1
    BY <2>1, FS_Interval
  <2>3. /\ IsFiniteSet(1 .. n)
        /\ Cardinality(1 .. n) = IF 1 > n THEN 0 ELSE n - 1 + 1
    BY <2>1, FS_Interval
  <2> QED
    BY <1>1, <2>2, <2>3
<1>8. Cardinality(1 .. n) < Cardinality(1 .. n + 1)
  BY <1>1, <1>7
<1>9. PICK x \in 1 .. n + 1, y \in 1 .. n + 1 : x # y /\ g[x] = g[y]
  BY <1>6, <1>7, <1>8, FS_PigeonHole
<1>10. T[x] = T[y]
  BY <1>5, <1>9
<1>11. x < y \/ y < x
  BY <1>1, <1>9
<1> QED
  BY <1>1, <1>2, <1>3, <1>10, <1>11, NoCircle

(* Without an error, what a loaded file imports is loaded, and what code   *)
(* generation finds for it is that.                                        *)
LEMMA NeedsAreImports ==
  ASSUME Inv, phase = "codegen", AllMet(walks, analysed),
         NamesApart, NamesKept, NEW u \in Loaded, NEW k \in 1 .. Count(u),
         NEW m \in Needs(u, k)
  PROVE  m \in ImportTargets(u)
<1>1. Loaded = analysed
  BY DEF Inv, LoaderInv, Registry
<1>2. Imports(u) \in Seq(ImportSet)
  BY SourceFacts DEF Inv, LoaderInv, Roots
<1>3. k \in DOMAIN Imports(u) /\ k < Count(u) + 1
  BY <1>2 DEF Count
<1>4. Resolved(Imports(u)[k].path, u) \in Loaded
  BY <1>1, <1>3 DEF AllMet, Met
<1>5. m = Resolved(Imports(u)[k].path, u)
  BY <1>3, <1>4, NeedsWhatItImports
<1> QED
  BY <1>3, <1>4, <1>5 DEF ImportTargets

LEMMA StackHasRoom ==
  ASSUME Inv, AllMet(walks, analysed), Plain
  PROVE  ~StackOverflow
<1> SUFFICES ASSUME StackOverflow PROVE FALSE
  OBVIOUS
<1>1. /\ Assembling /\ phase = "codegen" /\ visits # <<>>
      /\ Visit.next <= Count(Visit.unit) /\ Len(visits) = Len(modules)
      /\ Dependency \ visited # {}
  BY DEF StackOverflow, AtDependency, Assembling, MaxVisits, Count
<1> DEFINE n == Len(modules)
<1>2. /\ n \in Nat \ {0} /\ modules \in Seq(Files) /\ Visit = visits[n]
      /\ Visit.next \in Nat /\ Count(Visit.unit) \in Nat
      /\ Dependency = Needs(Visit.unit, Visit.next)
  BY <1>1, VisitFacts
<1>3. PICK d : d \in Needs(Visit.unit, Visit.next)
  BY <1>1, <1>2
<1> DEFINE T == [k \in 1 .. n + 1 |->
                   IF k \in 1 .. n THEN visits[k].unit ELSE d]
<1>4. Stacked(visits, n, visited)
  BY <1>1 DEF Inv
<1>5. n + 1 \notin 1 .. n /\ n \in 1 .. n
      /\ \A k \in 1 .. n + 1 : k \in 1 .. n \/ k = n + 1
  BY <1>2
<1>6. \A k \in 1 .. n : k \in 1 .. n + 1 /\ k + 1 \in 1 .. n + 1
                          /\ ((k \in 1 .. n - 1 /\ k + 1 \in 1 .. n) \/ k = n)
  BY <1>2
<1> HIDE DEF n
<1>7. (\A k \in 1 .. n : T[k] = visits[k].unit) /\ T[n + 1] = d
  BY <1>2, <1>5, <1>6
<1> HIDE DEF T
<1>8. \A k \in 1 .. n : T[k] \in Loaded
  BY <1>4, <1>7 DEF Stacked
<1>9. ASSUME NEW k \in 1 .. n
      PROVE  T[k + 1] \in ImportTargets(T[k])
  <2>1. \E l \in 1 .. Count(T[k]) : T[k + 1] \in Needs(T[k], l)
    <3>1. CASE k \in 1 .. n - 1 /\ k + 1 \in 1 .. n
      <4>1. /\ visits[k].next \in 1 .. Count(visits[k].unit) + 1
            /\ visits[k].next >= 2
            /\ visits[k + 1].unit \in Needs(visits[k].unit, visits[k].next - 1)
        BY <1>4, <3>1 DEF Stacked
      <4>2. Count(visits[k].unit) \in Nat
        BY <1>1, <1>7, <1>8, VisitFacts
      <4>3. visits[k].next - 1 \in 1 .. Count(visits[k].unit)
        BY <4>1, <4>2
      <4> QED
        BY <1>7, <3>1, <4>1, <4>3
    <3>2. CASE k = n
      <4>1. visits[n].next \in 1 .. Count(visits[n].unit) + 1
        BY <1>4, <1>5 DEF Stacked
      <4>2. Visit.next \in 1 .. Count(Visit.unit)
        BY <1>1, <1>2, <4>1
      <4> QED
        BY <1>2, <1>3, <1>5, <1>7, <3>2, <4>2
    <3> QED
      BY <1>6, <3>1, <3>2
  <2> QED
    BY <1>1, <1>8, <2>1, NeedsAreImports DEF Plain
<1>10. T[n + 1] \in Loaded
  BY <1>5, <1>9 DEF ImportTargets
<1>11. \A k \in 1 .. n + 1 : T[k] \in Loaded
  BY <1>5, <1>8, <1>10
<1> QED
  BY <1>2, <1>9, <1>11, NoLongChain DEF n, Plain

(***************************************************************************)
(* The inductive invariant of names.                                       *)
(***************************************************************************)
NamesInv ==
  /\ SymbolsSound
  /\ CalledSound
  /\ errors = {} => AllMet(walks, analysed)
  /\ OwnerHolds(owner, emitted)
  /\ RunsHold(runs, emitted)
  /\ CleanIsCompiled

(* Everything a step does not touch reads as before.                       *)
LEMMA NamesStay ==
  ASSUME program' = program, modules' = modules
  PROVE  /\ \A u, f : Declares(u, f)' <=> Declares(u, f)
         /\ \A u : ImportTargets(u)' = ImportTargets(u)
         /\ \A u, n : Met(u, n)' <=> Met(u, n)
         /\ Plain' <=> Plain
         /\ PrivateApart' <=> PrivateApart
         /\ AliasesApart' <=> AliasesApart
<1>1. /\ Loaded' = Loaded /\ Roots' = Roots
      /\ \A u : Imports(u)' = Imports(u) /\ Source(u)' = Source(u)
      /\ \A u, f : LinkName(u, f)' = LinkName(u, f)
  BY ReadingStays
<1>2. \A u : ImportTargets(u)' = ImportTargets(u)
  BY <1>1 DEF ImportTargets
<1>3. \A u : Base(u)' = Base(u)
  BY DEF Base
<1>4. Plain' <=> Plain
  <2>1. Acyclic' <=> Acyclic
    BY <1>1, <1>2 DEF Acyclic
  <2>2. NamesApart' <=> NamesApart
    BY <1>1, <1>3 DEF NamesApart
  <2>3. NamesKept' <=> NamesKept
    BY <1>1 DEF NamesKept
  <2> QED
    BY <2>1, <2>2, <2>3 DEF Plain
<1>5. PrivateApart' <=> PrivateApart
  BY <1>1 DEF PrivateApart
<1>6. AliasesApart' <=> AliasesApart
  BY <1>1 DEF AliasesApart
<1>7. \A u, n : Met(u, n)' <=> Met(u, n)
  BY <1>1 DEF Met
<1> QED
  BY <1>1, <1>2, <1>4, <1>5, <1>6, <1>7 DEF Declares

LEMMA AnalysisStays ==
  ASSUME UNCHANGED <<program, modules, analysed, walks, scope, errors, called>>
  PROVE  /\ SymbolsSound => SymbolsSound'
         /\ CalledSound => CalledSound'
         /\ AllMet(walks, analysed) => AllMet(walks, analysed)'
<1>1. /\ program' = program /\ modules' = modules /\ analysed' = analysed
      /\ walks' = walks /\ scope' = scope /\ errors' = errors
      /\ called' = called
  OBVIOUS
<1>2. Loaded' = Loaded /\ Roots' = Roots
        /\ \A u : Imports(u)' = Imports(u)
  BY <1>1, ReadingStays
<1>3. SymbolsSound => SymbolsSound'
  BY <1>1, <1>2, FitsStays DEF SymbolsSound
<1>4. CalledSound => CalledSound'
  <2>1. \A u, c : CallFits(u, c) => CallFits(u, c)'
    BY <1>1, <1>2, CallFitsStays
  <2>2. \A u, c, e : CallExcused(u, c, e)' <=> CallExcused(u, c, e)
    BY <1>2 DEF CallExcused, AliasCalled
  <2> QED
    BY <1>1, <2>1, <2>2 DEF CalledSound
<1>5. AllMet(walks, analysed) => AllMet(walks, analysed)'
  BY <1>1, <1>2, AllMetStays
<1> QED
  BY <1>3, <1>4, <1>5

LEMMA OwnerStays ==
  ASSUME program' = program, modules' = modules, OwnerHolds(owner', emitted')
  PROVE  OwnerHolds(owner, emitted)'
  BY NamesStay, ReadingStays DEF OwnerHolds, Among

LEMMA RunsStay ==
  ASSUME program' = program, modules' = modules, called' = called,
         RunsHold(runs', emitted')
  PROVE  RunsHold(runs, emitted)'
  BY NamesStay DEF RunsHold, Among

LEMMA InitNames ==
  ASSUME Init
  PROVE  NamesInv
<1>1. /\ phase = "analysis" /\ modules = <<>> /\ analysed = {}
      /\ walks = <<[unit |-> Main, next |-> 1]>>
      /\ scope = [u \in Units |-> IF u = Main THEN Signatures(Main) ELSE {}]
      /\ called = [u \in Units |-> NotCalled]
      /\ owner = <<>> /\ emitted = <<>> /\ Inv
  BY InitInv DEF Init, LoaderInit
<1>2. SymbolsSound
  <2>1. ASSUME NEW u \in Roots, NEW s \in scope[u]
        PROVE  Fits(u, s)
    <3>1. u \in Units
      BY SourceFacts, <1>1 DEF Inv, LoaderInv
    <3>2. u = Main /\ s \in Signatures(Main)
      BY <1>1, <2>1, <3>1
    <3> QED
      BY <3>2, SignaturesFit
  <2> QED
    BY <2>1 DEF SymbolsSound
<1>3. CalledSound
  <2>1. NotCalled.state = "no"
    BY DEF NotCalled
  <2> QED
    BY <1>1, <2>1 DEF CalledSound, CallFits, CallExcused
<1>4. AllMet(walks, analysed)
  <2>1. DOMAIN walks = {1} /\ walks[1].unit = Main /\ walks[1].next = 1
    BY <1>1
  <2>2. Imports(Main) \in Seq(ImportSet)
    BY <1>1, SourceFacts DEF Inv, LoaderInv, Roots
  <2>3. Met(Main, 1)
    BY <2>2 DEF Met
  <2> QED
    BY <1>1, <2>1, <2>3 DEF AllMet
<1>5. OwnerHolds(owner, emitted) /\ RunsHold(runs, emitted)
  <2>1. DOMAIN owner = {} /\ DOMAIN emitted = {}
    BY <1>1
  <2> QED
    BY <2>1 DEF OwnerHolds, RunsHold, Among
<1>6. CleanIsCompiled
  BY <1>1 DEF CleanIsCompiled
<1> QED
  BY <1>2, <1>3, <1>4, <1>5, <1>6 DEF NamesInv

(* Analysis ends before code generation, or with an error.                 *)
LEMMA AnalyseNames ==
  ASSUME Inv, NamesInv, Analyse, UNCHANGED assemblyVars
  PROVE  NamesInv'
<1>1. phase = "analysis" /\ phase' \in {"analysis", "refused", "codegen",
                                        "overflow"}
  BY AnalyseSteps DEF WalksOn, Loads, Returns, Leaves, AtImport
<1>2. SymbolsSound' /\ CalledSound'
  BY AnalyseSymbols DEF Inv, NamesInv
<1>3. errors' = {} => AllMet(walks, analysed)'
  BY AnalyseMet DEF Inv, NamesInv
<1>4. OwnerHolds(owner, emitted)' /\ RunsHold(runs, emitted)'
  <2>1. DOMAIN owner' = {} /\ DOMAIN emitted' = {}
    BY <1>1 DEF Inv, BeforeAssembly, assemblyVars
  <2> QED
    BY <2>1 DEF OwnerHolds, RunsHold, Among
<1>5. phase' \in {"refused", "overflow"} => errors' # {}
  <2>1. CASE FinishMain
    BY <2>1 DEF FinishMain
  <2>2. CASE CallMissing
    BY <2>2 DEF CallMissing
  <2>3. CASE ~FinishMain /\ ~CallMissing
    BY <1>1, <2>3 DEF Analyse, ImportAgain, ImportNothing, ImportLoad,
       CallOwn, CallMember, CallUnqualified, FinishModule
  <2> QED
    BY <2>1, <2>2, <2>3
<1>6. CleanIsCompiled'
  BY <1>1, <1>5 DEF CleanIsCompiled
<1> QED
  BY <1>2, <1>3, <1>4, <1>6 DEF NamesInv

(* Emitting a unit whose call has a function.                              *)
LEMMA EmitNames ==
  ASSUME Inv, NamesInv, Assemble, phase' # "panic", phase' # "overflow",
         NEW u, Emitting(u), Codegen_global(u)
  PROVE  NamesInv'
<1>1. /\ phase = "codegen" /\ phase' \in {"codegen", "done"}
      /\ UNCHANGED <<program, modules, analysed, walks, scope, errors, called>>
  BY AssembleStays
<1>2. /\ emitted' = Append(emitted, u) /\ owner' = Declared(u)
      /\ runs' = [runs EXCEPT ![u] =
                    IF HasCall(u) /\ Candidates(u) # {}
                    THEN Declared(u)[Found(u)] ELSE NoUnit]
  BY DEF Codegen_global
<1>3. \A v : Among(v, emitted') <=> Among(v, emitted) \/ v = u
  <2>1. emitted \in Seq(Units)
    BY DEF Inv, AssemblyTypeOK
  <2>2. u \in Units
    <3>1. CASE visits # <<>>
      BY <1>1, <3>1, VisitFacts DEF Emitting, Assembling, Units
    <3> QED
      BY <3>1 DEF Emitting, Units
  <2> QED
    BY <1>2, <2>1, <2>2, AmongGrows
<1>4. OwnerHolds(owner', emitted')
  BY <1>2, <1>3, DeclaredHolds DEF OwnerHolds, NamesInv
<1>5. RunsHold(runs', emitted')
  <2> SUFFICES ASSUME Plain, PrivateApart, NEW v, Among(v, emitted'),
                      called[v].state = "resolved"
               PROVE  runs'[v] = called[v].unit
    BY DEF RunsHold
  <2>1. u \in Units /\ ~Among(u, emitted)
    BY <1>1, ImportsAreEmitted DEF Plain, Assembling
  <2>2. runs \in [Units -> Units \cup {NoUnit}]
    BY DEF Inv, AssemblyTypeOK
  <2>3. CASE v = u
    <3>1. Candidates(u) # {} /\ Declared(u)[Found(u)] = called[u].unit
      BY <1>1, <2>3, ResolvedIsFound DEF NamesInv, Plain, Assembling
    <3>2. HasCall(u)
      BY <2>3 DEF HasCall
    <3>3. runs' = [runs EXCEPT ![u] = called[u].unit]
      BY <1>2, <3>1, <3>2
    <3> QED
      BY <2>1, <2>2, <2>3, <3>3
  <2>4. CASE v # u
    <3>1. Among(v, emitted) /\ v \in Units
      BY <1>3, <2>4, EmittedAreRoots
    <3>2. runs'[v] = runs[v]
      BY <1>2, <2>2, <2>4, <3>1
    <3> QED
      BY <3>1, <3>2 DEF NamesInv, RunsHold
  <2> QED
    BY <2>3, <2>4
<1>6. CleanIsCompiled'
  BY <1>1 DEF CleanIsCompiled
<1> QED
  BY <1>1, <1>4, <1>5, <1>6, AnalysisStays, OwnerStays, RunsStay
     DEF NamesInv

(* A panic and a recursion without an end have an error before them.       *)
LEMMA PanicIsExcused ==
  ASSUME Inv, NamesInv, Panic, Plain, AliasesApart
  PROVE  errors # {}
<1>1. PICK u : Emitting(u) /\ Panics(u)
  BY DEF Panic, Emitting, Count
<1>2. Assembling
  BY DEF Panic
<1>3. u \in Roots /\ u \in Units
  BY <1>1, <1>2, ImportsAreEmitted DEF Plain
<1>4. called[u] \in Called
  BY <1>3 DEF Inv, LoaderInv, LoaderTypeOK
<1>5. called[u].state \in {"no", "resolved", "unresolved"}
  BY <1>4 DEF Called
<1>6. called[u].state # "no" /\ Candidates(u) = {}
  BY <1>1 DEF Panics, HasCall
<1>7. called[u].state # "resolved"
  BY <1>1, <1>2, <1>6, ResolvedIsFound DEF NamesInv, Plain
<1>8. called[u].state = "unresolved"
  BY <1>5, <1>6, <1>7
<1>9. errors # {} \/ AliasCalled(u)
  BY <1>3, <1>8 DEF NamesInv, CalledSound, CallExcused
<1>10. ~AliasCalled(u)
  BY <1>3 DEF AliasesApart, AliasCalled
<1> QED
  BY <1>9, <1>10

LEMMA NamesAreInductive ==
  ASSUME Inv, NamesInv, [Next]_vars
  PROVE  NamesInv'
<1>1. CASE Analyse /\ UNCHANGED assemblyVars
  BY <1>1, AnalyseNames
<1>2. CASE EmitModule
  <2>1. Emitting(Visit.unit) /\ Codegen_global(Visit.unit) /\ Assemble
    BY <1>2 DEF EmitModule, Emitting, Count, Assemble
  <2>2. phase' = "codegen"
    BY <1>2 DEF EmitModule, Assembling, loaderVars
  <2> QED
    BY <2>1, <2>2, EmitNames
<1>3. CASE EmitMain
  <2>1. Emitting(Main) /\ Codegen_global(Main) /\ Assemble /\ phase' = "done"
    BY <1>3 DEF EmitMain, Emitting, Assemble
  <2> QED
    BY <2>1, EmitNames
<1>4. ASSUME UNCHANGED <<program, modules, analysed, walks, scope, errors,
                         called, emitted, owner, runs>>,
             \/ phase' = phase
             \/ phase' \in {"panic", "overflow"}
                  /\ (Plain /\ AliasesApart => errors # {})
      PROVE  NamesInv'
  <2>1. /\ program' = program /\ modules' = modules /\ called' = called
        /\ errors' = errors /\ owner' = owner /\ emitted' = emitted
        /\ runs' = runs
    BY <1>4
  <2>2. CleanIsCompiled'
    BY <1>4, <2>1, NamesStay DEF NamesInv, CleanIsCompiled
  <2>3. OwnerHolds(owner, emitted)' /\ RunsHold(runs, emitted)'
    BY <2>1, OwnerStays, RunsStay DEF NamesInv
  <2> QED
    BY <1>4, <2>1, <2>2, <2>3, AnalysisStays DEF NamesInv
<1>5. CASE NextModule \/ VisitDependency \/ SkipDependency
  BY <1>4, <1>5 DEF NextModule, VisitDependency, SkipDependency, loaderVars
<1>6. CASE StackOverflow
  <2>1. Plain => errors # {}
    BY <1>6, StackHasRoom DEF NamesInv
  <2> QED
    BY <1>4, <1>6, <2>1 DEF StackOverflow, assemblyVars
<1>7. CASE Panic
  <2>1. Plain /\ AliasesApart => errors # {}
    BY <1>7, PanicIsExcused
  <2> QED
    BY <1>4, <1>7, <2>1 DEF Panic, assemblyVars
<1>8. CASE UNCHANGED vars
  BY <1>4, <1>8 DEF vars, loaderVars, assemblyVars
<1> QED
  BY <1>1, <1>2, <1>3, <1>5, <1>6, <1>7, <1>8 DEF Next, Assemble

LEMMA NamesHold == Spec => [](Inv /\ NamesInv)
<1>1. Init => Inv /\ NamesInv
  BY InitInv, InitNames
<1>2. Inv /\ NamesInv /\ [Next]_vars => (Inv /\ NamesInv)'
  BY InvIsInductive, NamesAreInductive
<1> QED
  BY <1>1, <1>2, PTL DEF Spec

LEMMA CallsAgreeFollows == Inv /\ NamesInv => CallsAgree
<1> SUFFICES ASSUME Inv, NamesInv, phase = "done", Plain, PrivateApart
             PROVE  /\ \A u \in Roots :
                         called[u].state = "resolved"
                           => runs[u] = called[u].unit
                    /\ "main" \in FnNames /\ Source(Main).fns["main"] # "none"
                         => owner[<<"main">>] = Main
  BY DEF CallsAgree
<1>1. \A u \in Roots : Among(u, emitted)
  <2>1. /\ emitted \in Seq(Units) /\ emitted # <<>> /\ Last(emitted) = Main
        /\ Loaded \subseteq visited /\ visited \subseteq Files
    BY DEF Inv, EmittedInOrder, AssemblyTypeOK
  <2>2. Among(Main, emitted)
    BY <2>1, LastFacts DEF Among
  <2> QED
    BY <2>1, <2>2 DEF Inv, EmittedInOrder, Roots
<1>2. \A u \in Roots : called[u].state = "resolved"
        => runs[u] = called[u].unit
  BY <1>1 DEF NamesInv, RunsHold
<1>3. ASSUME "main" \in FnNames, Source(Main).fns["main"] # "none"
      PROVE  owner[<<"main">>] = Main
  <2> DEFINE v == owner[<<"main">>]
  <2>1. Declares(Main, "main") /\ LinkName(Main, "main") = <<"main">>
          /\ Main \in Roots
    BY <1>3 DEF Declares, LinkName, Roots
  <2>2. <<"main">> \in DOMAIN owner
    BY <1>1, <2>1 DEF NamesInv, OwnerHolds
  <2>3. PICK g : Declares(v, g) /\ <<"main">> = LinkName(v, g)
    BY <2>2 DEF NamesInv, OwnerHolds
  <2>4. v \in Roots
    BY <2>2, EmittedAreRoots DEF NamesInv, OwnerHolds
  <2> HIDE DEF v
  <2>5. g = "main"
    BY <2>1, <2>3, LinkNameEnds
  <2>6. v = Main
    BY <1>3, <2>1, <2>3, <2>4, <2>5 DEF PrivateApart, Declares
  <2> QED
    BY <2>6 DEF v
<1> QED
  BY <1>2, <1>3

(* In a finished program every call runs the function analysis resolved it *)
(* to, and main() is the main file's, provided that imports are plain and  *)
(* that functions of different files have different names: the name the    *)
(* call carries is looked up in one table for the whole program.           *)
THEOREM CallsRunWhatWasMeant == Spec => []CallsAgree
  BY NamesHold, CallsAgreeFollows, PTL

(* A program without an error is compiled: the compiler neither refuses it *)
(* nor panics over a call nor runs out of stack, provided that imports are *)
(* plain and none has the name of a function that is called.               *)
THEOREM NoErrorNoFailure == Spec => []CleanIsCompiled
<1>1. Inv /\ NamesInv => CleanIsCompiled
  BY DEF NamesInv
<1> QED
  BY <1>1, NamesHold, PTL
===============================================================================
