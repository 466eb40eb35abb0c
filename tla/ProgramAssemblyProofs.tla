------------------------- MODULE ProgramAssemblyProofs -------------------------
(***************************************************************************)
(* What is proved of the order in which files are analysed and emitted,    *)
(* for every program and every graph of imports.                           *)
(***************************************************************************)
EXTENDS ProgramAssembly, SequenceTheorems, TLAPS

(***************************************************************************)
(* Stacks.                                                                 *)
(***************************************************************************)
LEMMA FrontFacts ==
  ASSUME NEW S, NEW s \in Seq(S), s # <<>>
  PROVE  /\ Front(s) \in Seq(S)
         /\ Len(s) \in Nat \ {0}
         /\ Len(Front(s)) = Len(s) - 1
         /\ DOMAIN Front(s) = 1 .. Len(s) - 1
         /\ \A i \in 1 .. Len(s) - 1 : Front(s)[i] = s[i]
<1>1. PICK n \in Nat : n = Len(s) - 1
  OBVIOUS
<1>2. \A i \in 1 .. n : s[i] \in S
  BY <1>1
<1>3. SubSeq(s, 1, n) \in Seq(S)
  BY <1>2, SubSeqProperties
<1>4. Len(SubSeq(s, 1, n)) = n
  BY <1>2, SubSeqProperties
<1>5. \A i \in 1 .. n : SubSeq(s, 1, n)[i] = s[i]
  BY <1>2, SubSeqProperties
<1>6. Front(s) = SubSeq(s, 1, n)
  BY <1>1 DEF Front
<1>7. Len(s) \in Nat \ {0}
  OBVIOUS
<1> QED
  BY <1>1, <1>3, <1>4, <1>5, <1>6, <1>7

LEMMA LastFacts ==
  ASSUME NEW S, NEW s \in Seq(S), s # <<>>
  PROVE  Last(s) \in S /\ Last(s) = s[Len(s)] /\ Len(s) \in DOMAIN s
  BY DEF Last

LEMMA AppendFacts ==
  ASSUME NEW S, NEW s \in Seq(S), NEW e \in S
  PROVE  /\ Append(s, e) \in Seq(S)
         /\ Append(s, e) # <<>>
         /\ Len(Append(s, e)) = Len(s) + 1
         /\ DOMAIN Append(s, e) = 1 .. Len(s) + 1
         /\ Append(s, e)[Len(s) + 1] = e
         /\ Last(Append(s, e)) = e
         /\ \A i \in 1 .. Len(s) : Append(s, e)[i] = s[i]
  BY DEF Last

LEMMA SmallSequences ==
  ASSUME NEW S, NEW a \in S, NEW b \in S
  PROVE  <<a>> \in Seq(S) /\ <<a, b>> \in Seq(S) /\ <<a>> # <<>>
<1>1. <<>> \in Seq(S)
  OBVIOUS
<1>2. <<a>> = Append(<<>>, a) /\ <<a, b>> = Append(Append(<<>>, a), b)
  OBVIOUS
<1>3. Append(<<>>, a) \in Seq(S) /\ Append(Append(<<>>, a), b) \in Seq(S)
  BY <1>1, AppendFacts
<1> QED
  BY <1>2, <1>3

(***************************************************************************)
(* Files and what they say.                                                *)
(***************************************************************************)
Path == Seq(STRING) \ {<<>>}

LEMMA FileFacts ==
  /\ Files \subseteq Path
  /\ Main \notin Files
  /\ \A p \in UNION {Families[i] : i \in DOMAIN Families} :
       DOMAIN p \subseteq Files /\ MainPath \in DOMAIN p
<1>1. Files \subseteq Path
  BY ProgramAssumption DEF Files, Path
<1>2. Main \notin Files
  BY <1>1 DEF Main, Path
<1>3. \A p \in UNION {Families[i] : i \in DOMAIN Families} :
        DOMAIN p \subseteq Files /\ MainPath \in DOMAIN p
  BY ProgramAssumption DEF Files
<1> QED
  BY <1>1, <1>2, <1>3

(* The files that are registered can be read.                              *)
ProgramSound ==
  /\ \E i \in DOMAIN Families : program \in Families[i]
  /\ Loaded \subseteq DOMAIN program

LEMMA UnitFacts ==
  ASSUME ProgramSound, NEW u \in Units
  PROVE  PathOf(u) \in Path /\ Base(u) \in STRING
<1>1. MainPath \in Files
  BY FileFacts DEF ProgramSound
<1>2. PathOf(u) \in Path
  BY <1>1, FileFacts DEF Units, PathOf
<1> QED
  BY <1>2, LastFacts DEF Base, Path

LEMMA SourceFacts ==
  ASSUME ProgramSound, NEW u \in Roots
  PROVE  /\ u \in Units
         /\ PathOf(u) \in DOMAIN program
         /\ Imports(u) \in Seq(ImportSet)
         /\ Source(u).fns \in [FnNames -> {"none", "private", "pub"}]
         /\ Source(u).stmt \in {"none", "plain", "branch"}
         /\ Source(u).call \in STRING
<1>1. PICK i \in DOMAIN Families : program \in Families[i]
  BY DEF ProgramSound
<1>2. DOMAIN program \subseteq Files /\ MainPath \in DOMAIN program
  BY <1>1, FileFacts
<1>3. u \in Units
  BY <1>2 DEF ProgramSound, Roots, Units
<1>4. PathOf(u) \in DOMAIN program
  BY <1>2 DEF ProgramSound, Roots, PathOf
<1>5. /\ program[PathOf(u)].imports \in Seq(ImportSet)
      /\ program[PathOf(u)].fns \in [FnNames -> {"none", "private", "pub"}]
      /\ program[PathOf(u)].stmt \in {"none", "plain", "branch"}
      /\ program[PathOf(u)].call \in STRING
  BY <1>1, <1>4, ProgramAssumption
<1> QED
  BY <1>3, <1>4, <1>5 DEF Imports, Source

LEMMA FnSymbolFacts ==
  ASSUME NEW n \in Seq(STRING), NEW u \in Units, NEW f \in STRING,
         NEW p \in BOOLEAN
  PROVE  FnSymbol(n, u, f, p) \in Symbol
  BY DEF FnSymbol, Symbol

LEMMA LinkNameFacts ==
  ASSUME ProgramSound, NEW u \in Units, NEW f \in FnNames
  PROVE  LinkName(u, f) \in LinkNames
  BY DEF LinkName, LinkNames

LEMMA LinkNameIsText ==
  ASSUME ProgramSound, NEW u \in Units, NEW f \in STRING
  PROVE  LinkName(u, f) \in Seq(STRING)
<1>1. Base(u) \in STRING
  BY UnitFacts
<1>2. <<f>> \in Seq(STRING) /\ <<Base(u), f>> \in Seq(STRING)
  BY <1>1, SmallSequences
<1> QED
  BY <1>2 DEF LinkName

LEMMA SignaturesFacts ==
  ASSUME ProgramSound, NEW u \in Units
  PROVE  Signatures(u) \subseteq Symbol
<1> SUFFICES ASSUME NEW f \in FnNames
             PROVE  FnSymbol(LinkName(u, f), u, f, Source(u).fns[f] = "pub")
                      \in Symbol
  BY DEF Signatures
<1>1. f \in STRING /\ LinkName(u, f) \in Seq(STRING)
  BY LinkNameIsText, ProgramAssumption
<1>2. (Source(u).fns[f] = "pub") \in BOOLEAN
  OBVIOUS
<1> QED
  BY <1>1, <1>2, FnSymbolFacts

(***************************************************************************)
(* The calls of sema_analyze in progress: the outermost walks the main     *)
(* file, and each but the last stands at the import that the next one      *)
(* walks the module of.                                                    *)
(***************************************************************************)
Wanted(w) == Resolved(Imports(w.unit)[w.next].path, w.unit)

Chained(ws) ==
  /\ \A i \in DOMAIN ws : ws[i].next >= 1
  /\ \A i \in DOMAIN ws : ws[i].unit = Main <=> i = 1
  /\ \A i \in 1 .. Len(ws) - 1 :
       /\ ws[i].next \in DOMAIN Imports(ws[i].unit)
       /\ ws[i + 1].unit = Wanted(ws[i])
  /\ \A i, j \in DOMAIN ws : ws[i].unit = ws[j].unit => i = j

WalksNested == Chained(walks) /\ (phase = "analysis" => walks # <<>>)

Registry ==
  /\ AnalysedOnce
  /\ phase \in {"codegen", "done", "panic"} => Loaded = analysed

LoaderInv == LoaderTypeOK /\ ProgramSound /\ WalksNested /\ Registry

WalkSet == [unit : Units, next : Nat]

LEMMA HereFacts ==
  ASSUME LoaderInv, phase = "analysis"
  PROVE  /\ walks \in Seq(WalkSet) /\ walks # <<>>
         /\ Len(walks) \in DOMAIN walks /\ Walk = walks[Len(walks)]
         /\ Walk \in WalkSet /\ Walk.next \in Nat \ {0}
         /\ Here \in Roots /\ Here \in Units
         /\ Imports(Here) \in Seq(ImportSet)
         /\ \A i \in DOMAIN walks : walks[i].unit \in Roots
         /\ Loaded \subseteq Files
<1>1. walks \in Seq(WalkSet) /\ walks # <<>>
  BY DEF LoaderInv, LoaderTypeOK, WalksNested, WalkSet
<1>2. Walk \in WalkSet /\ Walk = walks[Len(walks)]
        /\ Len(walks) \in DOMAIN walks
  BY <1>1, LastFacts DEF Walk
<1>3. Walk.next \in Nat \ {0}
  BY <1>2 DEF LoaderInv, WalksNested, Chained, WalkSet
<1>4. \A i \in DOMAIN walks : walks[i].unit \in Roots
  BY DEF LoaderInv, Registry, AnalysedOnce, Roots
<1>5. Here \in Roots
  BY <1>2, <1>4 DEF Here
<1>6. Imports(Here) \in Seq(ImportSet) /\ Here \in Units
  BY <1>5, SourceFacts DEF LoaderInv
<1>7. Loaded \subseteq Files
  BY DEF LoaderInv, LoaderTypeOK, Loaded
<1> QED
  BY <1>1, <1>2, <1>3, <1>4, <1>5, <1>6, <1>7

LEMMA ImportFacts ==
  ASSUME LoaderInv, AtImport
  PROVE  /\ phase = "analysis"
         /\ Import \in ImportSet
         /\ Walk.next \in DOMAIN Imports(Here)
         /\ Target = Wanted(Walk)
         /\ Registered(Target) => Target \in Loaded /\ Target \in Units
         /\ ~Registered(Target) => Target \notin Loaded
         /\ Target \in DOMAIN program => Target \in Files
                                       /\ Target \in Units
<1>1. phase = "analysis" /\ Walk.next <= Len(Imports(Here))
  BY DEF AtImport
<1>2. Walk.next \in DOMAIN Imports(Here)
  BY <1>1, HereFacts
<1>3. Import \in ImportSet
  BY <1>1, <1>2, HereFacts DEF Import
<1>4. Target = Wanted(Walk)
  BY DEF Target, Wanted, Import, Here
<1>5. /\ Registered(Target) => Target \in Loaded
      /\ ~Registered(Target) => Target \notin Loaded
  BY DEF Registered, Loaded
<1>6. Loaded \subseteq Units
  BY <1>1, HereFacts DEF Units
<1>7. DOMAIN program \subseteq Files
  BY FileFacts DEF LoaderInv, ProgramSound
<1> QED
  BY <1>1, <1>2, <1>3, <1>4, <1>5, <1>6, <1>7 DEF Units

LEMMA AdvancedFacts ==
  ASSUME NEW U, NEW ws \in Seq([unit : U, next : Nat]), ws # <<>>
  PROVE  /\ Advanced(ws) \in Seq([unit : U, next : Nat])
         /\ Len(Advanced(ws)) = Len(ws)
         /\ DOMAIN Advanced(ws) = DOMAIN ws
         /\ \A i \in DOMAIN ws : Advanced(ws)[i].unit = ws[i].unit
         /\ \A i \in DOMAIN ws : i # Len(ws) => Advanced(ws)[i] = ws[i]
         /\ Advanced(ws)[Len(ws)].next = ws[Len(ws)].next + 1
<1> DEFINE n == Len(ws)
           w == [ws[n] EXCEPT !.next = @ + 1]
           R == [unit : U, next : Nat]
<1>1. n \in DOMAIN ws /\ ws[n] \in [unit : U, next : Nat]
  <2>1. ws \in Seq(R)
    OBVIOUS
  <2> HIDE DEF R
  <2>2. n \in DOMAIN ws /\ ws[n] \in R
    BY <2>1
  <2> QED
    BY <2>2 DEF R
<1>2. /\ w \in [unit : U, next : Nat]
      /\ w.unit = ws[n].unit /\ w.next = ws[n].next + 1
  BY <1>1
<1>3. Advanced(ws) = [ws EXCEPT ![n] = w]
  BY DEF Advanced
<1> HIDE DEF w
<1> QED
  BY <1>1, <1>2, <1>3

LEMMA WalkAdvanced ==
  ASSUME NEW ws \in Seq(WalkSet), ws # <<>>
  PROVE  /\ Advanced(ws) \in Seq(WalkSet)
         /\ Len(Advanced(ws)) = Len(ws)
         /\ DOMAIN Advanced(ws) = DOMAIN ws
         /\ \A i \in DOMAIN ws : Advanced(ws)[i].unit = ws[i].unit
         /\ \A i \in DOMAIN ws : i # Len(ws) => Advanced(ws)[i] = ws[i]
         /\ Advanced(ws)[Len(ws)].next = ws[Len(ws)].next + 1
  BY AdvancedFacts DEF WalkSet

(***************************************************************************)
(* What a step of analysis does to the walks and the registry.             *)
(***************************************************************************)
WalksOn ==
  /\ phase = "analysis"
  /\ walks' = Advanced(walks)
  /\ UNCHANGED <<program, phase, modules, analysed>>

Loads ==
  /\ AtImport
  /\ ~Registered(Target)
  /\ Target \in DOMAIN program
  /\ modules' = Append(modules, Target)
  /\ walks' = Append(walks, [unit |-> Target, next |-> 1])
  /\ UNCHANGED <<program, phase, analysed>>

Returns ==
  /\ phase = "analysis"
  /\ Here # Main
  /\ analysed' = analysed \cup {Here}
  /\ walks' = Advanced(Front(walks))
  /\ UNCHANGED <<program, phase, modules>>

Leaves ==
  /\ phase = "analysis"
  /\ \/ phase' = "overflow" /\ walks' = walks
     \/ Here = Main /\ phase' \in {"refused", "codegen"} /\ walks' = <<>>
  /\ UNCHANGED <<program, modules, analysed>>

LEMMA AnalyseSteps ==
  ASSUME Analyse
  PROVE  WalksOn \/ Loads \/ Returns \/ Leaves
<1>1. CASE ImportAgain
  BY <1>1 DEF ImportAgain, AtImport, WalksOn
<1>2. CASE ImportNothing
  BY <1>2 DEF ImportNothing, AtImport, WalksOn
<1>3. CASE ImportLoad
  BY <1>3 DEF ImportLoad, Loads
<1>4. CASE CallOwn
  BY <1>4 DEF CallOwn, AtCall, WalksOn
<1>5. CASE CallMember
  BY <1>5 DEF CallMember, AtCall, WalksOn
<1>6. CASE CallMissing
  BY <1>6 DEF CallMissing, AtCall, Leaves
<1>7. CASE CallUnqualified
  BY <1>7 DEF CallUnqualified, AtCall, WalksOn
<1>8. CASE FinishModule
  BY <1>8 DEF FinishModule, Walked, Returns
<1>9. CASE FinishMain
  BY <1>9 DEF FinishMain, Walked, Leaves
<1> QED
  BY <1>1, <1>2, <1>3, <1>4, <1>5, <1>6, <1>7, <1>8, <1>9 DEF Analyse

LEMMA ReturnsFacts ==
  ASSUME LoaderInv, phase = "analysis", Here # Main
  PROVE  /\ Len(walks) - 1 \in Nat \ {0}
         /\ Front(walks) \in Seq(WalkSet) /\ Front(walks) # <<>>
         /\ Len(Front(walks)) = Len(walks) - 1
         /\ DOMAIN Front(walks) = 1 .. Len(walks) - 1
         /\ \A i \in 1 .. Len(walks) - 1 : Front(walks)[i] = walks[i]
         /\ Last(Front(walks)) = walks[Len(walks) - 1]
         /\ Last(Front(walks)) \in WalkSet
         /\ Last(Front(walks)).unit \in Roots
         /\ Last(Front(walks)).next
              \in DOMAIN Imports(Last(Front(walks)).unit)
         /\ Here = Wanted(Last(Front(walks)))
         /\ Here \in Loaded
<1>1. walks \in Seq(WalkSet) /\ Len(walks) \in DOMAIN walks
        /\ Here = walks[Len(walks)].unit /\ walks # <<>>
  BY HereFacts DEF Here
<1>2. Len(walks) # 1
  BY <1>1 DEF LoaderInv, WalksNested, Chained
<1>3. Len(walks) - 1 \in Nat \ {0} /\ Len(walks) - 1 \in DOMAIN walks
        /\ Len(walks) - 1 \in 1 .. Len(walks) - 1
        /\ (Len(walks) - 1) + 1 = Len(walks)
  BY <1>1, <1>2, SMTT(30)
<1>4. /\ Front(walks) \in Seq(WalkSet)
      /\ Len(Front(walks)) = Len(walks) - 1
      /\ DOMAIN Front(walks) = 1 .. Len(walks) - 1
      /\ \A i \in 1 .. Len(walks) - 1 : Front(walks)[i] = walks[i]
  BY <1>1, FrontFacts
<1>5. Front(walks) # <<>>
  BY <1>3, <1>4
<1>6. Last(Front(walks)) = walks[Len(walks) - 1]
        /\ Last(Front(walks)) \in WalkSet
  BY <1>3, <1>4, <1>5, LastFacts
<1>7. walks[Len(walks) - 1].unit \in Roots
  BY <1>3, HereFacts
<1>8. /\ walks[Len(walks) - 1].next
            \in DOMAIN Imports(walks[Len(walks) - 1].unit)
      /\ walks[(Len(walks) - 1) + 1].unit = Wanted(walks[Len(walks) - 1])
  BY <1>3 DEF LoaderInv, WalksNested, Chained
<1>9. Here \in Loaded
  BY HereFacts DEF Roots
<1> QED
  BY <1>1, <1>3, <1>4, <1>5, <1>6, <1>7, <1>8, <1>9

(***************************************************************************)
(* Chains of walks.                                                        *)
(***************************************************************************)
LEMMA ChainAdvanced ==
  ASSUME NEW ws \in Seq(WalkSet), ws # <<>>, Chained(ws)
  PROVE  Chained(Advanced(ws))
<1> DEFINE vs == Advanced(ws)
           n == Len(ws)
<1>1. n \in Nat \ {0} /\ DOMAIN ws = 1 .. n
  OBVIOUS
<1>2. /\ Len(vs) = n /\ DOMAIN vs = 1 .. n
      /\ \A i \in 1 .. n : vs[i].unit = ws[i].unit
      /\ \A i \in 1 .. n : i # n => vs[i] = ws[i]
      /\ vs[n].next = ws[n].next + 1
  BY WalkAdvanced, <1>1
<1>3. \A i \in 1 .. n : ws[i].next \in Nat /\ ws[i].next >= 1
  <2>1. \A i \in 1 .. n : ws[i] \in WalkSet
    BY <1>1
  <2>2. \A i \in 1 .. n : ws[i].next \in Nat
    BY <2>1 DEF WalkSet
  <2> QED
    BY <1>1, <2>2 DEF Chained
<1> HIDE DEF vs, n
<1>4. \A i \in DOMAIN vs : vs[i].next >= 1
  BY <1>1, <1>2, <1>3
<1>5. ASSUME NEW i \in 1 .. Len(vs) - 1
      PROVE  vs[i].next \in DOMAIN Imports(vs[i].unit)
               /\ vs[i + 1].unit = Wanted(vs[i])
  <2>1. i \in 1 .. n - 1 /\ i \in 1 .. n /\ i + 1 \in 1 .. n /\ i # n
    BY <1>1, <1>2
  <2>2. vs[i] = ws[i] /\ vs[i + 1].unit = ws[i + 1].unit
    BY <1>2, <2>1
  <2> QED
    BY <2>1, <2>2 DEF Chained, n
<1>6. /\ \A i \in DOMAIN vs : vs[i].unit = Main <=> i = 1
      /\ \A i, j \in DOMAIN vs : vs[i].unit = vs[j].unit => i = j
  BY <1>1, <1>2 DEF Chained
<1> QED
  BY <1>4, <1>5, <1>6 DEF Chained, vs

LEMMA ChainFront ==
  ASSUME NEW ws \in Seq(WalkSet), ws # <<>>, Chained(ws)
  PROVE  Chained(Front(ws))
<1> DEFINE vs == Front(ws)
           n == Len(ws) - 1
<1>1. /\ n \in Nat /\ Len(ws) = n + 1 /\ DOMAIN ws = 1 .. n + 1
      /\ Len(vs) = n /\ DOMAIN vs = 1 .. n
      /\ \A i \in 1 .. n : vs[i] = ws[i]
  BY FrontFacts
<1> HIDE DEF vs, n
<1>2. \A i \in 1 .. n : i \in DOMAIN ws
  BY <1>1
<1>3. ASSUME NEW i \in 1 .. Len(vs) - 1
      PROVE  vs[i].next \in DOMAIN Imports(vs[i].unit)
               /\ vs[i + 1].unit = Wanted(vs[i])
  <2>1. i \in 1 .. n /\ i + 1 \in 1 .. n /\ i \in 1 .. Len(ws) - 1
    BY <1>1
  <2> QED
    BY <1>1, <2>1 DEF Chained
<1>4. /\ \A i \in DOMAIN vs : vs[i].next >= 1
      /\ \A i \in DOMAIN vs : vs[i].unit = Main <=> i = 1
      /\ \A i, j \in DOMAIN vs : vs[i].unit = vs[j].unit => i = j
  BY <1>1, <1>2, SMTT(30) DEF Chained
<1> QED
  BY <1>3, <1>4 DEF Chained, vs

LEMMA ChainAppend ==
  ASSUME NEW ws \in Seq(WalkSet), ws # <<>>, Chained(ws),
         NEW u \in Units, u # Main, \A i \in DOMAIN ws : ws[i].unit # u,
         ws[Len(ws)].next \in DOMAIN Imports(ws[Len(ws)].unit),
         u = Wanted(ws[Len(ws)])
  PROVE  Chained(Append(ws, [unit |-> u, next |-> 1]))
<1> DEFINE w == [unit |-> u, next |-> 1]
           vs == Append(ws, w)
<1>1. w \in WalkSet /\ w.unit = u /\ w.next = 1
  BY DEF WalkSet
<1> HIDE DEF w
<1>2. /\ Len(vs) = Len(ws) + 1 /\ DOMAIN vs = 1 .. Len(ws) + 1
      /\ vs[Len(ws) + 1] = w /\ \A i \in 1 .. Len(ws) : vs[i] = ws[i]
  BY <1>1, AppendFacts
<1> HIDE DEF vs
<1>3. Len(ws) \in Nat \ {0} /\ DOMAIN ws = 1 .. Len(ws)
  OBVIOUS
<1>4. ASSUME NEW i \in DOMAIN vs
      PROVE  vs[i].next >= 1 /\ (vs[i].unit = Main <=> i = 1)
  BY <1>1, <1>2, <1>3 DEF Chained
<1>5. ASSUME NEW i \in 1 .. Len(vs) - 1
      PROVE  vs[i].next \in DOMAIN Imports(vs[i].unit)
               /\ vs[i + 1].unit = Wanted(vs[i])
  <2>1. i \in DOMAIN ws /\ vs[i] = ws[i]
    BY <1>2, <1>3
  <2>2. CASE i = Len(ws)
    BY <1>1, <1>2, <2>1, <2>2
  <2>3. CASE i # Len(ws)
    <3>1. i \in 1 .. Len(ws) - 1 /\ i + 1 \in 1 .. Len(ws)
      <4> DEFINE n == Len(ws)
      <4>1. n \in Nat \ {0} /\ i \in 1 .. n /\ i # n
        BY <1>3, <2>1, <2>3
      <4> HIDE DEF n
      <4>2. i \in 1 .. n - 1 /\ i + 1 \in 1 .. n
        BY <4>1
      <4> QED
        BY <4>2 DEF n
    <3> QED
      BY <1>2, <2>1, <3>1 DEF Chained
  <2> QED
    BY <2>2, <2>3
<1>6. ASSUME NEW i \in DOMAIN vs, NEW j \in DOMAIN vs,
             vs[i].unit = vs[j].unit
      PROVE  i = j
  BY <1>1, <1>2, <1>3, <1>6 DEF Chained
<1>7. Chained(vs)
  BY <1>4, <1>5, <1>6 DEF Chained
<1> QED
  BY <1>7 DEF vs, w

LEMMA ChainStays ==
  ASSUME program' = program, Chained(walks')
  PROVE  Chained(walks)'
<1>1. \A u : Imports(u)' = Imports(u)
  BY DEF Imports, Source
<1>2. \A w : Wanted(w)' = Wanted(w)
  BY <1>1 DEF Wanted
<1> QED
  BY <1>1, <1>2 DEF Chained

(***************************************************************************)
(* A step of analysis keeps the walks nested and the registry sound.       *)
(***************************************************************************)
LEMMA WalksOnKeeps ==
  ASSUME LoaderInv, WalksOn
  PROVE  /\ ProgramSound' /\ WalksNested' /\ Registry'
         /\ walks' \in Seq(WalkSet) /\ modules' \in Seq(Files)
         /\ analysed' \subseteq Files /\ phase' \in Phases
<1>1. /\ program' = program /\ phase' = phase /\ modules' = modules
      /\ analysed' = analysed /\ walks' = Advanced(walks)
      /\ phase = "analysis" /\ Loaded' = Loaded
  BY DEF WalksOn, Loaded
<1>2. walks \in Seq(WalkSet) /\ walks # <<>>
  BY <1>1, HereFacts
<1>3. /\ walks' \in Seq(WalkSet) /\ DOMAIN walks' = DOMAIN walks
      /\ \A i \in DOMAIN walks : walks'[i].unit = walks[i].unit
      /\ Len(walks') = Len(walks)
  BY <1>1, <1>2, WalkAdvanced
<1>4. ProgramSound'
  BY <1>1 DEF LoaderInv, ProgramSound
<1>5. WalksNested'
  <2>1. Chained(walks')
    BY <1>1, <1>2, ChainAdvanced DEF LoaderInv, WalksNested
  <2>2. walks' # <<>>
    BY <1>2, <1>3
  <2> QED
    BY <1>1, <2>1, <2>2, ChainStays DEF WalksNested
<1>6. {walks'[i].unit : i \in DOMAIN walks'}
        = {walks[i].unit : i \in DOMAIN walks}
  BY <1>3
<1>7. Registry'
  BY <1>1, <1>3, <1>6 DEF LoaderInv, Registry, AnalysedOnce
<1> QED
  BY <1>1, <1>3, <1>4, <1>5, <1>7 DEF LoaderInv, LoaderTypeOK

LEMMA LoadsKeeps ==
  ASSUME LoaderInv, Loads
  PROVE  /\ ProgramSound' /\ WalksNested' /\ Registry'
         /\ walks' \in Seq(WalkSet) /\ modules' \in Seq(Files)
         /\ analysed' \subseteq Files /\ phase' \in Phases
         /\ Loaded' = Loaded \cup {Target}
<1> DEFINE t == Target
           w == [unit |-> t, next |-> 1]
<1>1. /\ program' = program /\ phase' = phase /\ phase = "analysis"
      /\ modules' = Append(modules, t) /\ analysed' = analysed
      /\ walks' = Append(walks, w)
  BY DEF Loads, AtImport
<1>2. /\ walks \in Seq(WalkSet) /\ walks # <<>> /\ Walk = walks[Len(walks)]
      /\ \A i \in DOMAIN walks : walks[i].unit \in Roots
  BY <1>1, HereFacts
<1>3. /\ t \in Files /\ t \in Units /\ t \notin Loaded /\ t # Main
      /\ t \in DOMAIN program /\ Walk.next \in DOMAIN Imports(Here)
      /\ t = Wanted(Walk)
  BY ImportFacts, FileFacts DEF Loads
<1> HIDE DEF t
<1>4. w \in WalkSet /\ w.unit = t
  BY <1>3 DEF WalkSet
<1> HIDE DEF w
<1>5. modules \in Seq(Files)
  BY DEF LoaderInv, LoaderTypeOK
<1>6. /\ modules' \in Seq(Files) /\ DOMAIN modules' = 1 .. Len(modules) + 1
      /\ modules'[Len(modules) + 1] = t
      /\ \A i \in 1 .. Len(modules) : modules'[i] = modules[i]
      /\ Len(modules) \in Nat /\ DOMAIN modules = 1 .. Len(modules)
  BY <1>1, <1>3, <1>5, AppendFacts
<1>7. Loaded' = Loaded \cup {t}
  <2>1. \A i \in DOMAIN modules' : modules'[i] \in Loaded \cup {t}
    BY <1>6 DEF Loaded
  <2>2. \A i \in DOMAIN modules :
          i \in DOMAIN modules' /\ modules'[i] = modules[i]
    BY <1>6
  <2>3. Len(modules) + 1 \in DOMAIN modules'
    BY <1>6
  <2> QED
    BY <1>6, <2>1, <2>2, <2>3 DEF Loaded
<1>8. ProgramSound'
  BY <1>1, <1>3, <1>7 DEF LoaderInv, ProgramSound
<1>9. /\ walks' \in Seq(WalkSet) /\ DOMAIN walks' = 1 .. Len(walks) + 1
      /\ walks'[Len(walks) + 1] = w
      /\ \A i \in 1 .. Len(walks) : walks'[i] = walks[i]
      /\ Len(walks) \in Nat /\ DOMAIN walks = 1 .. Len(walks)
      /\ walks' # <<>>
  BY <1>1, <1>2, <1>4, AppendFacts
<1>10. WalksNested'
  <2>1. Chained(Append(walks, [unit |-> t, next |-> 1]))
    BY <1>2, <1>3, ChainAppend DEF LoaderInv, WalksNested, Roots, Here
  <2>2. Chained(walks')
    BY <1>1, <2>1 DEF w
  <2> QED
    BY <1>1, <1>9, <2>2, ChainStays DEF WalksNested
<1>11. {walks'[i].unit : i \in DOMAIN walks'}
         = {walks[i].unit : i \in DOMAIN walks} \cup {t}
  <2>1. \A i \in DOMAIN walks :
          i \in DOMAIN walks' /\ walks'[i] = walks[i]
    BY <1>9
  <2>2. Len(walks) + 1 \in DOMAIN walks'
    BY <1>9
  <2>3. \A i \in DOMAIN walks' : i \in DOMAIN walks \/ i = Len(walks) + 1
    BY <1>9
  <2> QED
    BY <1>4, <1>9, <2>1, <2>2, <2>3
<1>12. IsInjective(modules)'
  <2>1. IsInjective(modules)
    BY DEF LoaderInv, Registry, AnalysedOnce
  <2>2. ASSUME NEW i \in DOMAIN modules', NEW j \in DOMAIN modules',
               modules'[i] = modules'[j]
        PROVE  i = j
    BY <1>3, <1>6, <2>1, <2>2 DEF IsInjective, Loaded
  <2> QED
    BY <2>2 DEF IsInjective
<1>13. Registry'
  BY <1>1, <1>3, <1>7, <1>10, <1>11, <1>12
     DEF LoaderInv, Registry, AnalysedOnce, WalksNested, Chained
<1> QED
  BY <1>1, <1>6, <1>7, <1>8, <1>9, <1>10, <1>13
     DEF LoaderInv, LoaderTypeOK, t

LEMMA ReturnsKeeps ==
  ASSUME LoaderInv, Returns
  PROVE  /\ ProgramSound' /\ WalksNested' /\ Registry'
         /\ walks' \in Seq(WalkSet) /\ modules' \in Seq(Files)
         /\ analysed' \subseteq Files /\ phase' \in Phases
<1> DEFINE outer == Front(walks)
<1>1. /\ program' = program /\ phase' = phase /\ phase = "analysis"
      /\ modules' = modules /\ analysed' = analysed \cup {Here}
      /\ walks' = Advanced(outer) /\ Here # Main /\ Loaded' = Loaded
  BY DEF Returns, Loaded
<1>2. /\ walks \in Seq(WalkSet) /\ walks # <<>>
      /\ Here = walks[Len(walks)].unit
  BY <1>1, HereFacts DEF Here
<1>3. /\ outer \in Seq(WalkSet) /\ outer # <<>> /\ Here \in Loaded
      /\ DOMAIN outer = 1 .. Len(walks) - 1
      /\ \A i \in 1 .. Len(walks) - 1 : outer[i] = walks[i]
  BY <1>1, ReturnsFacts
<1>4. Chained(outer)
  BY <1>2, ChainFront DEF LoaderInv, WalksNested
<1> HIDE DEF outer
<1>5. /\ walks' \in Seq(WalkSet) /\ DOMAIN walks' = DOMAIN outer
      /\ \A i \in DOMAIN outer : walks'[i].unit = outer[i].unit
      /\ Len(walks') = Len(outer)
  BY <1>1, <1>3, WalkAdvanced
<1>6. ProgramSound'
  BY <1>1 DEF LoaderInv, ProgramSound
<1>7. WalksNested'
  <2>1. Chained(walks')
    BY <1>1, <1>3, <1>4, ChainAdvanced
  <2>2. walks' # <<>>
    BY <1>3, <1>5
  <2> QED
    BY <1>1, <2>1, <2>2, ChainStays DEF WalksNested
<1>8. \A i \in DOMAIN walks' : walks'[i].unit = walks[i].unit
  BY <1>3, <1>5
<1>9. {walks[i].unit : i \in DOMAIN walks}
        = {walks'[i].unit : i \in DOMAIN walks'} \cup {Here}
  <2> DEFINE n == Len(walks)
  <2>1. n \in Nat \ {0} /\ DOMAIN walks = 1 .. n
    BY <1>2
  <2>2. DOMAIN walks' = 1 .. n - 1
    BY <1>3, <1>5
  <2>3. Here = walks[n].unit
    BY <1>2
  <2> HIDE DEF n
  <2>4. DOMAIN walks = DOMAIN walks' \cup {n}
    BY <2>1, <2>2
  <2> QED
    BY <2>3, <2>4, <1>8
<1>10. Registry'
  <2>1. Loaded' = analysed' \cup ({walks'[i].unit : i \in DOMAIN walks'}
                                    \ {Main})
    BY <1>1, <1>9 DEF LoaderInv, Registry, AnalysedOnce
  <2> QED
    BY <1>1, <1>7, <2>1
       DEF LoaderInv, Registry, AnalysedOnce, WalksNested, Chained
<1>11. analysed' \subseteq Files
  BY <1>1, <1>3, HereFacts DEF LoaderInv, LoaderTypeOK
<1> QED
  BY <1>1, <1>5, <1>6, <1>7, <1>10, <1>11 DEF LoaderInv, LoaderTypeOK

LEMMA LeavesKeeps ==
  ASSUME LoaderInv, Leaves
  PROVE  /\ ProgramSound' /\ WalksNested' /\ Registry'
         /\ walks' \in Seq(WalkSet) /\ modules' \in Seq(Files)
         /\ analysed' \subseteq Files /\ phase' \in Phases
<1>1. /\ program' = program /\ modules' = modules /\ analysed' = analysed
      /\ phase = "analysis" /\ Loaded' = Loaded
      /\ phase' \in Phases /\ phase' # "analysis"
  BY DEF Leaves, Loaded, Phases
<1>2. walks \in Seq(WalkSet) /\ Here = walks[Len(walks)].unit
        /\ walks # <<>>
  BY <1>1, HereFacts DEF Here
<1>3. ProgramSound'
  BY <1>1 DEF LoaderInv, ProgramSound
<1>4. walks' \in Seq(WalkSet)
  <2>1. <<>> \in Seq(WalkSet)
    OBVIOUS
  <2> QED
    BY <1>2, <2>1 DEF Leaves
<1>5. Chained(walks')
  <2>1. Chained(walks)
    BY DEF LoaderInv, WalksNested
  <2>2. Chained(<<>>)
    BY DEF Chained
  <2> QED
    BY <2>1, <2>2 DEF Leaves
<1>6. WalksNested'
  BY <1>1, <1>5, ChainStays DEF WalksNested
<1>7. Registry'
  <2>1. CASE phase' = "overflow"
    BY <1>1, <1>6, <2>1 DEF LoaderInv, Registry, AnalysedOnce,
       WalksNested, Chained
  <2>2. CASE Here = Main
    <3>1. Len(walks) \in DOMAIN walks /\ DOMAIN walks = 1 .. Len(walks)
      BY <1>2
    <3>2. Len(walks) = 1
      BY <1>2, <2>2, <3>1 DEF LoaderInv, WalksNested, Chained
    <3>3. DOMAIN walks = {1} /\ walks[1].unit = Main
      <4>1. walks[1].unit = Main /\ DOMAIN walks = 1 .. 1
        BY <1>2, <2>2, <3>1, <3>2
      <4> QED
        BY <4>1
    <3>4. {walks[i].unit : i \in DOMAIN walks} = {Main}
      BY <3>3
    <3>5. Loaded = analysed
      BY <1>1, <3>4, FileFacts, HereFacts
         DEF LoaderInv, Registry, AnalysedOnce
    <3> QED
      BY <1>1, <1>6, <3>5 DEF LoaderInv, Registry, AnalysedOnce,
         WalksNested, Chained
  <2> QED
    BY <2>1, <2>2 DEF Leaves
<1> QED
  BY <1>1, <1>3, <1>4, <1>6, <1>7 DEF LoaderInv, LoaderTypeOK

(***************************************************************************)
(* What is put into scopes.                                                *)
(***************************************************************************)
LEMMA BringsFacts ==
  ASSUME LoaderInv, NEW import \in ImportSet, NEW m \in Units, NEW done
  PROVE  Brings(import, m, done) \subseteq Symbol
<1>1. Exports(m, done) \subseteq Symbol
  BY DEF Exports, LoaderInv, LoaderTypeOK
<1>2. \A s \in Exports(m, done) :
        FnSymbol(<<s.original>>, s.unit, s.original, FALSE) \in Symbol
  <2> SUFFICES ASSUME NEW s \in Symbol
      PROVE FnSymbol(<<s.original>>, s.unit, s.original, FALSE) \in Symbol
    BY <1>1
  <2>1. s.original \in STRING /\ s.unit \in Units
    BY DEF Symbol
  <2> QED
    BY <2>1, SmallSequences, FnSymbolFacts
<1>3. [name |-> <<import.alias>>, kind |-> "module", unit |-> m,
       original |-> import.alias, pub |-> FALSE] \in Symbol
  <2>1. import.alias \in STRING
    BY DEF ImportSet
  <2>2. <<import.alias>> \in Seq(STRING)
    BY <2>1, SmallSequences
  <2> QED
    BY <2>1, <2>2 DEF Symbol
<1>4. CASE import.mode = "namespace"
  BY <1>3, <1>4 DEF Brings
<1>5. CASE import.mode = "wildcard"
  BY <1>2, <1>5 DEF Brings
<1>6. CASE import.mode = "select"
  BY <1>2, <1>6 DEF Brings
<1> QED
  BY <1>4, <1>5, <1>6 DEF ImportSet

LEMMA BindFacts ==
  ASSUME LoaderInv, NEW import \in ImportSet, NEW m \in Units, NEW done,
         NEW u \in Units, NEW reported, Bind(u, import, m, done, reported)
  PROVE  /\ scope' \in [Units -> SUBSET Symbol]
         /\ errors' \subseteq Units
<1>1. Bound(u, import, m, done).scope \subseteq Symbol
  BY BringsFacts DEF Bound, LoaderInv, LoaderTypeOK
<1>2. scope' = [scope EXCEPT ![u] = Bound(u, import, m, done).scope]
  BY DEF Bind
<1>3. errors' \subseteq errors \cup {u}
  BY DEF Bind
<1> QED
  BY <1>1, <1>2, <1>3 DEF LoaderInv, LoaderTypeOK

LEMMA CheckCallFacts ==
  ASSUME LoaderInv, phase = "analysis", NEW name \in Seq(STRING),
         NEW syms \in SUBSET Symbol, CheckCall(name, syms)
  PROVE  called' \in [Units -> Called] /\ errors' \subseteq Units
<1> DEFINE found == {s \in syms : s.name = name}
           none == [state |-> "unresolved", name |-> name, unit |-> NoUnit]
           fn(s) == [state |-> "resolved",
                     name |-> LinkName(s.unit, s.original), unit |-> s.unit]
<1>1. Here \in Units /\ called \in [Units -> Called] /\ errors \subseteq Units
  BY HereFacts DEF LoaderInv, LoaderTypeOK
<1>2. none \in Called
  BY DEF Called
<1>3. ASSUME NEW s \in Symbol
      PROVE  fn(s) \in Called
  <2>1. s.unit \in Units /\ s.original \in STRING
    BY DEF Symbol
  <2>2. LinkName(s.unit, s.original) \in Seq(STRING)
    BY <2>1, LinkNameIsText DEF LoaderInv
  <2> QED
    BY <2>1, <2>2 DEF Called
<1>4. CASE found = {}
  BY <1>1, <1>2, <1>4 DEF CheckCall
<1>5. CASE found # {}
  <2> DEFINE s == CHOOSE x \in found : TRUE
  <2>1. s \in Symbol
    BY <1>5
  <2>2. UNCHANGED errors
          /\ called' = [called EXCEPT ![Here] =
                          IF s.kind = "fn" THEN fn(s) ELSE none]
    BY <1>5 DEF CheckCall
  <2> HIDE DEF s, fn, none
  <2>3. (IF s.kind = "fn" THEN fn(s) ELSE none) \in Called
    BY <2>1, <1>2, <1>3
  <2> QED
    BY <1>1, <2>2, <2>3
<1> QED
  BY <1>4, <1>5

(***************************************************************************)
(* Analysis keeps the loader's invariant.                                  *)
(***************************************************************************)
LEMMA AnalyseTypes ==
  ASSUME LoaderInv, Analyse
  PROVE  /\ scope' \in [Units -> SUBSET Symbol]
         /\ errors' \subseteq Units
         /\ called' \in [Units -> Called]
<1>0. /\ scope \in [Units -> SUBSET Symbol] /\ errors \subseteq Units
      /\ called \in [Units -> Called]
  BY DEF LoaderInv, LoaderTypeOK
<1>1. CASE ImportAgain
  <2>1. Import \in ImportSet /\ Target \in Units /\ Here \in Units
    BY <1>1, ImportFacts, HereFacts DEF ImportAgain
  <2>2. Bind(Here, Import, Target, analysed, Target \notin analysed)
          /\ called' = called
    BY <1>1 DEF ImportAgain
  <2> HIDE DEF Import, Target, Here
  <2> QED
    BY <1>0, <2>1, <2>2, BindFacts
<1>2. CASE ImportNothing
  <2>1. Here \in Units /\ (Target \in DOMAIN program => Target \in Units)
    BY <1>2, ImportFacts, HereFacts DEF ImportNothing
  <2> QED
    BY <1>0, <1>2, <2>1 DEF ImportNothing
<1>3. CASE ImportLoad
  <2>1. Target \in Units
    BY <1>3, ImportFacts DEF ImportLoad
  <2>2. Signatures(Target) \subseteq Symbol
    BY <2>1, SignaturesFacts DEF LoaderInv
  <2> QED
    BY <1>0, <1>3, <2>1, <2>2 DEF ImportLoad
<1>4. CASE CallOwn
  <2>1. <<Callee>> \in Seq(STRING)
    BY ProgramAssumption, SmallSequences
  <2>2. scope[Here] \subseteq Symbol /\ phase = "analysis"
    BY <1>0, <1>4, HereFacts DEF CallOwn, AtCall
  <2> QED
    BY <1>0, <1>4, <2>1, <2>2, CheckCallFacts DEF CallOwn
<1>5. CASE CallMember
  <2>1. phase = "analysis" /\ Here \in Units
    BY <1>5, HereFacts DEF CallMember, AtCall
  <2>20. PICK q \in Qualifier : \E s \in Member(q.unit) :
           \E syms \in {scope[Here],
                        scope[Here] \cup {FnSymbol(s.name, s.unit, s.original,
                                                   FALSE)}} :
             /\ scope' = [scope EXCEPT ![Here] = syms]
             /\ CheckCall(s.name, syms)
    BY <1>5 DEF CallMember
  <2>2. PICK s \in Member(q.unit) :
          \E syms \in {scope[Here],
                       scope[Here] \cup {FnSymbol(s.name, s.unit, s.original,
                                                  FALSE)}} :
            /\ scope' = [scope EXCEPT ![Here] = syms]
            /\ CheckCall(s.name, syms)
    BY <2>20
  <2>3. s \in Symbol
    <3>1. q \in Symbol
      BY <1>0, <2>1, <2>20 DEF Qualifier, Resolve, Named
    <3>2. q.unit \in Units
      BY <3>1 DEF Symbol
    <3>3. s \in scope[q.unit]
      BY <2>2 DEF Member, Exports
    <3> QED
      BY <1>0, <3>2, <3>3
  <2>4. PICK syms \in {scope[Here],
                       scope[Here] \cup {FnSymbol(s.name, s.unit, s.original,
                                                  FALSE)}} :
            /\ scope' = [scope EXCEPT ![Here] = syms]
            /\ CheckCall(s.name, syms)
    BY <2>2
  <2>5. s.name \in Seq(STRING) /\ s.unit \in Units /\ s.original \in STRING
    BY <2>3 DEF Symbol
  <2>6. FnSymbol(s.name, s.unit, s.original, FALSE) \in Symbol
    BY <2>5, FnSymbolFacts
  <2>7. scope[Here] \subseteq Symbol
    BY <1>0, <2>1
  <2>8. syms \subseteq Symbol
    BY <2>4, <2>6, <2>7
  <2> QED
    BY <1>0, <2>1, <2>4, <2>5, <2>8, CheckCallFacts
<1>6. CASE CallMissing
  BY <1>0, <1>6, HereFacts DEF CallMissing, AtCall
<1>7. CASE CallUnqualified
  <2>1. phase = "analysis" /\ Here \in Units
    BY <1>7, HereFacts DEF CallUnqualified, AtCall
  <2>2. [state |-> "unresolved", name |-> <<>>, unit |-> NoUnit] \in Called
    BY DEF Called
  <2> QED
    BY <1>0, <1>7, <2>1, <2>2 DEF CallUnqualified
<1>8. CASE FinishModule
  <2> DEFINE outer == Last(Front(walks))
             import == Imports(outer.unit)[outer.next]
  <2>1. phase = "analysis" /\ Here # Main
    BY <1>8 DEF FinishModule, Walked
  <2>2. outer.unit \in Roots /\ outer.next \in DOMAIN Imports(outer.unit)
          /\ Here \in Units
    BY <2>1, ReturnsFacts, HereFacts
  <2>3. outer.unit \in Units /\ Imports(outer.unit) \in Seq(ImportSet)
    BY <2>2, SourceFacts DEF LoaderInv
  <2>4. import \in ImportSet
    BY <2>2, <2>3
  <2>5. Bind(outer.unit, import, Here, analysed', FALSE) /\ called' = called
    BY <1>8 DEF FinishModule
  <2> HIDE DEF import, outer, Here
  <2> QED
    BY <1>0, <2>2, <2>3, <2>4, <2>5, BindFacts
<1>9. CASE FinishMain
  BY <1>0, <1>9 DEF FinishMain
<1> QED
  BY <1>1, <1>2, <1>3, <1>4, <1>5, <1>6, <1>7, <1>8, <1>9 DEF Analyse

LEMMA AnalyseKeeps ==
  ASSUME LoaderInv, Analyse
  PROVE  LoaderInv'
<1>1. /\ ProgramSound' /\ WalksNested' /\ Registry'
      /\ walks' \in Seq(WalkSet) /\ modules' \in Seq(Files)
      /\ analysed' \subseteq Files /\ phase' \in Phases
  BY AnalyseSteps, WalksOnKeeps, LoadsKeeps, ReturnsKeeps, LeavesKeeps
<1>2. DOMAIN program' \subseteq Files
  BY <1>1, FileFacts DEF ProgramSound
<1> QED
  BY <1>1, <1>2, AnalyseTypes DEF LoaderInv, LoaderTypeOK, WalkSet

(***************************************************************************)
(* The calls of codegen_module_recursive in progress.  A file on the stack *)
(* is not emitted; what it needed before is, but for the dependency in     *)
(* progress, which stands next on the stack.  Hence a file can stand on    *)
(* the stack twice only below a call that does not end.                    *)
(***************************************************************************)
Needs(u, k) == FindByName(Imports(u)[k].alias)

VisitSet == [unit : Files, next : Nat]

Count(u) == Len(Imports(u))

Stacked(vs, n, done) ==
  /\ \A i \in 1 .. n :
       /\ vs[i].unit \in Loaded \ done
       /\ vs[i].next \in 1 .. Count(vs[i].unit) + 1
       /\ \A k \in 1 .. vs[i].next - 1 :
            i = n \/ k # vs[i].next - 1 => Needs(vs[i].unit, k) \subseteq done
  /\ \A i \in 1 .. n - 1 :
       /\ vs[i].next >= 2
       /\ vs[i + 1].unit \in Needs(vs[i].unit, vs[i].next - 1)

(* The stack us is vs after its top looked at one more dependency.         *)
Counted(vs, us, n) ==
  /\ \A i \in 1 .. n : us[i].unit = vs[i].unit
  /\ \A i \in 1 .. n - 1 : us[i] = vs[i]
  /\ us[n].next = vs[n].next + 1

LEMMA FindFacts ==
  ASSUME modules \in Seq(Files), NEW a
  PROVE  /\ FindByName(a) \subseteq Loaded
         /\ \A m, n \in FindByName(a) : m = n
<1>1. FindByName(a) \subseteq Loaded
  BY DEF FindByName, Loaded
<1>2. ASSUME NEW m \in FindByName(a), NEW n \in FindByName(a)
      PROVE  m = n
  <2>1. PICK i \in DOMAIN modules : modules[i] = m /\ Base(m) = a
           /\ \A l \in 1 .. i - 1 : Base(modules[l]) # a
    BY DEF FindByName
  <2>2. PICK j \in DOMAIN modules : modules[j] = n /\ Base(n) = a
           /\ \A l \in 1 .. j - 1 : Base(modules[l]) # a
    BY DEF FindByName
  <2>3. i \in Nat \ {0} /\ j \in Nat \ {0}
    OBVIOUS
  <2>4. ~(i < j) /\ ~(j < i)
    BY <2>1, <2>2, <2>3
  <2> QED
    BY <2>1, <2>2, <2>3, <2>4
<1> QED
  BY <1>1, <1>2

LEMMA StackEnters ==
  ASSUME NEW done, NEW m \in Loaded \ done, Count(m) \in Nat,
         NEW vs, vs[1].unit = m, vs[1].next = 1
  PROVE  Stacked(vs, 1, done)
<1>1. ASSUME NEW i \in 1 .. 1
      PROVE  i = 1
  OBVIOUS
<1>2. 1 \in 1 .. Count(m) + 1 /\ 1 .. vs[1].next - 1 = {}
  OBVIOUS
<1>3. 1 .. 1 - 1 = {}
  OBVIOUS
<1> QED
  BY <1>1, <1>2, <1>3 DEF Stacked

LEMMA StackSkips ==
  ASSUME NEW n \in Nat \ {0}, NEW vs, NEW us, NEW done,
         Stacked(vs, n, done), Counted(vs, us, n), vs[n].next \in Nat,
         Count(vs[n].unit) \in Nat, vs[n].next <= Count(vs[n].unit),
         Needs(vs[n].unit, vs[n].next) \subseteq done
  PROVE  Stacked(us, n, done)
<1>1. ASSUME NEW i \in 1 .. n
      PROVE  /\ us[i].unit \in Loaded \ done
             /\ us[i].next \in 1 .. Count(us[i].unit) + 1
             /\ \A k \in 1 .. us[i].next - 1 :
                  i = n \/ k # us[i].next - 1
                    => Needs(us[i].unit, k) \subseteq done
  <2>1. CASE i # n
    <3>1. i \in 1 .. n - 1
      BY <2>1
    <3> QED
      BY <3>1 DEF Stacked, Counted
  <2>2. CASE i = n
    <3>1. us[n].unit \in Loaded \ done /\ us[n].unit = vs[n].unit
            /\ us[n].next = vs[n].next + 1
      BY DEF Stacked, Counted
    <3>2. us[n].next \in 1 .. Count(us[n].unit) + 1
      BY <3>1
    <3>3. ASSUME NEW k \in 1 .. us[n].next - 1
          PROVE  Needs(us[n].unit, k) \subseteq done
      <4>1. k \in 1 .. vs[n].next - 1 \/ k = vs[n].next
        BY <3>1
      <4> QED
        BY <3>1, <4>1 DEF Stacked
    <3> QED
      BY <2>2, <3>1, <3>2, <3>3
  <2> QED
    BY <2>1, <2>2
<1>2. ASSUME NEW i \in 1 .. n - 1
      PROVE  /\ us[i].next >= 2
             /\ us[i + 1].unit \in Needs(us[i].unit, us[i].next - 1)
  <2>1. i + 1 \in 1 .. n
    OBVIOUS
  <2>2. us[i] = vs[i] /\ us[i + 1].unit = vs[i + 1].unit
    BY <2>1 DEF Counted
  <2> QED
    BY <2>2 DEF Stacked
<1> QED
  BY <1>1, <1>2 DEF Stacked

(* The next stack of VisitDependency is that of SkipDependency, with the   *)
(* dependency, which is not emitted, on top.                               *)
LEMMA StackPushes ==
  ASSUME NEW n \in Nat \ {0}, NEW vs, NEW us, NEW done,
         Stacked(vs, n, done), Counted(vs, us, n), vs[n].next \in Nat,
         Count(vs[n].unit) \in Nat, vs[n].next <= Count(vs[n].unit),
         NEW m \in Needs(vs[n].unit, vs[n].next) \ done,
         m \in Loaded, Count(m) \in Nat,
         us[n + 1].unit = m, us[n + 1].next = 1
  PROVE  Stacked(us, n + 1, done)
<1>1. ASSUME NEW i \in 1 .. n + 1
      PROVE  /\ us[i].unit \in Loaded \ done
             /\ us[i].next \in 1 .. Count(us[i].unit) + 1
             /\ \A k \in 1 .. us[i].next - 1 :
                  i = n + 1 \/ k # us[i].next - 1
                    => Needs(us[i].unit, k) \subseteq done
  <2>1. CASE i = n + 1
    BY <2>1
  <2>2. CASE i = n
    <3>1. us[n].unit \in Loaded \ done /\ us[n].unit = vs[n].unit
            /\ us[n].next = vs[n].next + 1 /\ vs[n].next >= 1
      BY DEF Stacked, Counted
    <3>2. us[n].next \in 1 .. Count(us[n].unit) + 1
      BY <3>1
    <3>3. ASSUME NEW k \in 1 .. us[n].next - 1, k # us[n].next - 1
          PROVE  Needs(us[n].unit, k) \subseteq done
      <4>1. k \in 1 .. vs[n].next - 1
        BY <3>1, <3>3
      <4> QED
        BY <3>1, <4>1 DEF Stacked
    <3> QED
      BY <2>2, <3>1, <3>2, <3>3
  <2>3. CASE i \in 1 .. n - 1
    <3>1. us[i] = vs[i] /\ i \in 1 .. n /\ i # n /\ i # n + 1
      BY <2>3 DEF Counted
    <3> QED
      BY <3>1 DEF Stacked
  <2> QED
    BY <2>1, <2>2, <2>3
<1>2. ASSUME NEW i \in 1 .. (n + 1) - 1
      PROVE  /\ us[i].next >= 2
             /\ us[i + 1].unit \in Needs(us[i].unit, us[i].next - 1)
  <2>1. CASE i = n
    <3>1. us[n].unit = vs[n].unit /\ us[n].next = vs[n].next + 1
            /\ vs[n].next >= 1
      BY DEF Stacked, Counted
    <3>2. us[n].next >= 2 /\ us[n].next - 1 = vs[n].next
      BY <3>1
    <3> QED
      BY <2>1, <3>1, <3>2
  <2>2. CASE i \in 1 .. n - 1
    <3>1. i + 1 \in 1 .. n
      BY <2>2
    <3>2. us[i] = vs[i] /\ us[i + 1].unit = vs[i + 1].unit
      BY <2>2, <3>1 DEF Counted
    <3> QED
      BY <2>2, <3>2 DEF Stacked
  <2> QED
    BY <2>1, <2>2
<1> QED
  BY <1>1, <1>2 DEF Stacked

(* A file that is emitted stands on the stack once: below the top, what it *)
(* needs in progress would be on the stack and emitted.                    *)
LEMMA TopStandsOnce ==
  ASSUME NEW n \in Nat \ {0}, NEW vs, NEW done, Stacked(vs, n, done),
         vs[n].next \in Nat,
         Count(vs[n].unit) \in Nat, vs[n].next > Count(vs[n].unit),
         NEW i \in 1 .. n - 1
  PROVE  vs[i].unit # vs[n].unit
<1> SUFFICES ASSUME vs[i].unit = vs[n].unit PROVE FALSE
  OBVIOUS
<1>1. i \in 1 .. n /\ i + 1 \in 1 .. n
  OBVIOUS
<1>2. /\ vs[i].next \in 1 .. Count(vs[n].unit) + 1
      /\ vs[i].next >= 2
      /\ vs[i + 1].unit \in Needs(vs[n].unit, vs[i].next - 1)
      /\ vs[i + 1].unit \notin done
  BY <1>1 DEF Stacked
<1>3. vs[i].next - 1 \in 1 .. vs[n].next - 1
  BY <1>2
<1>4. Needs(vs[n].unit, vs[i].next - 1) \subseteq done
  BY <1>3 DEF Stacked
<1> QED
  BY <1>2, <1>4

LEMMA StackPops ==
  ASSUME modules \in Seq(Files),
         NEW n \in Nat \ {0}, NEW vs, NEW us, NEW done,
         Stacked(vs, n, done), \A i \in 1 .. n - 1 : us[i] = vs[i],
         vs[n].next \in Nat,
         Count(vs[n].unit) \in Nat, vs[n].next > Count(vs[n].unit)
  PROVE  Stacked(us, n - 1, done \cup {vs[n].unit})
<1> DEFINE u == vs[n].unit
           more == done \cup {u}
<1>1. ASSUME NEW i \in 1 .. n - 1
      PROVE  /\ us[i].unit \in Loaded \ more
             /\ us[i].next \in 1 .. Count(us[i].unit) + 1
             /\ \A k \in 1 .. us[i].next - 1 :
                  i = n - 1 \/ k # us[i].next - 1
                    => Needs(us[i].unit, k) \subseteq more
  <2>1. us[i] = vs[i] /\ i \in 1 .. n /\ i # n
    OBVIOUS
  <2>2. vs[i].unit # u
    BY TopStandsOnce
  <2>3. us[i].unit \in Loaded \ more
          /\ us[i].next \in 1 .. Count(us[i].unit) + 1
    BY <2>1, <2>2 DEF Stacked
  <2>4. ASSUME NEW k \in 1 .. us[i].next - 1,
               i = n - 1 \/ k # us[i].next - 1
        PROVE  Needs(us[i].unit, k) \subseteq more
    <3>1. CASE k # us[i].next - 1
      BY <2>1, <3>1 DEF Stacked
    <3>2. CASE k = us[i].next - 1
      <4>1. i + 1 = n
        BY <2>4, <3>2
      <4>2. u \in Needs(us[i].unit, k)
        BY <2>1, <3>2, <4>1 DEF Stacked
      <4>3. \A m \in Needs(us[i].unit, k) : m = u
        BY <4>2, FindFacts DEF Needs
      <4> QED
        BY <4>3
    <3> QED
      BY <3>1, <3>2
  <2> QED
    BY <2>3, <2>4
<1>2. ASSUME NEW i \in 1 .. (n - 1) - 1
      PROVE  /\ us[i].next >= 2
             /\ us[i + 1].unit \in Needs(us[i].unit, us[i].next - 1)
  <2>1. i \in 1 .. n - 1 /\ i + 1 \in 1 .. n - 1
    OBVIOUS
  <2>2. us[i] = vs[i] /\ us[i + 1] = vs[i + 1]
    BY <2>1
  <2> QED
    BY <2>1, <2>2 DEF Stacked
<1> QED
  BY <1>1, <1>2 DEF Stacked

(***************************************************************************)
(* Code generation reads what analysis left behind.                        *)
(***************************************************************************)
LEMMA AssembleStays ==
  ASSUME Assemble
  PROVE  /\ phase = "codegen"
         /\ phase' \in {"codegen", "overflow", "done", "panic"}
         /\ UNCHANGED <<program, modules, analysed, walks, scope, errors,
                        called>>
<1>1. CASE NextModule
  BY <1>1 DEF NextModule, Assembling, loaderVars
<1>2. CASE VisitDependency
  BY <1>2 DEF VisitDependency, AtDependency, Assembling, loaderVars
<1>3. CASE SkipDependency
  BY <1>3 DEF SkipDependency, AtDependency, Assembling, loaderVars
<1>4. CASE StackOverflow
  BY <1>4 DEF StackOverflow, AtDependency, Assembling
<1>5. CASE EmitModule
  BY <1>5 DEF EmitModule, Assembling, loaderVars
<1>6. CASE EmitMain
  BY <1>6 DEF EmitMain, Assembling
<1>7. CASE Panic
  BY <1>7 DEF Panic, Assembling
<1> QED
  BY <1>1, <1>2, <1>3, <1>4, <1>5, <1>6, <1>7 DEF Assemble

LEMMA ReadingStays ==
  ASSUME program' = program, modules' = modules
  PROVE  /\ Loaded' = Loaded /\ Roots' = Roots
         /\ \A u : Imports(u)' = Imports(u) /\ Source(u)' = Source(u)
         /\ \A u : Count(u)' = Count(u)
         /\ \A u, k : Needs(u, k)' = Needs(u, k)
         /\ \A u, f : LinkName(u, f)' = LinkName(u, f)
<1>1. \A u : Imports(u)' = Imports(u) /\ Source(u)' = Source(u)
  BY DEF Imports, Source
<1>2. \A a : FindByName(a)' = FindByName(a)
  BY DEF FindByName
<1>3. Loaded' = Loaded
  BY DEF Loaded
<1> QED
  BY <1>1, <1>2, <1>3 DEF Roots, Count, Needs, LinkName

LEMMA AssembleLoader ==
  ASSUME LoaderInv, Assemble
  PROVE  LoaderInv'
<1>1. /\ phase = "codegen"
      /\ phase' \in {"codegen", "overflow", "done", "panic"}
      /\ UNCHANGED <<program, modules, analysed, walks, scope, errors, called>>
  BY AssembleStays
<1>2. LoaderTypeOK'
  BY <1>1 DEF LoaderInv, LoaderTypeOK, Phases
<1>3. ProgramSound'
  BY <1>1, ReadingStays DEF LoaderInv, ProgramSound
<1>4. WalksNested'
  BY <1>1, ChainStays DEF LoaderInv, WalksNested
<1>5. Registry'
  BY <1>1, ReadingStays DEF LoaderInv, Registry, AnalysedOnce
<1> QED
  BY <1>2, <1>3, <1>4, <1>5 DEF LoaderInv

LEMMA StackStays ==
  ASSUME program' = program, modules' = modules,
         Stacked(visits', Len(visits'), visited')
  PROVE  Stacked(visits, Len(visits), visited)'
  BY ReadingStays DEF Stacked

(***************************************************************************)
(* The units emitted.                                                      *)
(***************************************************************************)
Among(u, em) == \E i \in DOMAIN em : em[i] = u

Ordered(em) ==
  \A j \in DOMAIN em : em[j] # Main =>
    \A k \in 1 .. Count(em[j]) : \A m \in Needs(em[j], k) :
      \E i \in 1 .. j - 1 : em[i] = m

LoopSound ==
  /\ at \in 1 .. Len(modules) + 1
  /\ \A k \in 1 .. at - 1 :
       modules[k] \in visited
         \/ (visits # <<>> /\ k = at - 1 /\ visits[1].unit = modules[k])

EmittedInOrder ==
  /\ IsInjective(emitted)
  /\ Ordered(emitted)
  /\ \A u \in Files : u \in visited <=> Among(u, emitted)
  /\ visited \subseteq Loaded
  /\ phase # "done" => ~Among(Main, emitted)
  /\ phase = "done" => /\ Loaded \subseteq visited
                       /\ emitted # <<>> /\ Last(emitted) = Main

LEMMA EmittedGrows ==
  ASSUME NEW em \in Seq(Units), NEW u \in Units, ~Among(u, em),
         IsInjective(em), Ordered(em),
         u # Main => \A k \in 1 .. Count(u) : \A m \in Needs(u, k) :
                       Among(m, em)
  PROVE  /\ Append(em, u) \in Seq(Units) /\ Append(em, u) # <<>>
         /\ Last(Append(em, u)) = u
         /\ IsInjective(Append(em, u)) /\ Ordered(Append(em, u))
         /\ \A v : Among(v, Append(em, u)) <=> Among(v, em) \/ v = u
<1> DEFINE n == Len(em)
           es == Append(em, u)
<1>1. n \in Nat /\ DOMAIN em = 1 .. n
  OBVIOUS
<1>2. /\ es \in Seq(Units) /\ es # <<>> /\ Last(es) = u
      /\ DOMAIN es = 1 .. n + 1 /\ es[n + 1] = u
      /\ \A i \in 1 .. n : es[i] = em[i]
  BY AppendFacts
<1> HIDE DEF n, es
<1>3. \A v : Among(v, es) <=> Among(v, em) \/ v = u
  <2> SUFFICES ASSUME NEW v
               PROVE  Among(v, es) <=> Among(v, em) \/ v = u
    OBVIOUS
  <2>1. ASSUME Among(v, es) PROVE Among(v, em) \/ v = u
    <3>1. PICK i \in 1 .. n + 1 : es[i] = v
      BY <1>2, <2>1 DEF Among
    <3>2. CASE i = n + 1
      BY <1>2, <3>1, <3>2
    <3>3. CASE i \in 1 .. n
      BY <1>1, <1>2, <3>1, <3>3 DEF Among
    <3> QED
      BY <1>1, <3>2, <3>3
  <2>2. ASSUME Among(v, em) PROVE Among(v, es)
    <3>1. PICK i \in 1 .. n : em[i] = v
      BY <1>1, <2>2 DEF Among
    <3>2. i \in 1 .. n + 1
      BY <1>1
    <3> QED
      BY <1>2, <3>1, <3>2 DEF Among
  <2>3. Among(u, es)
    <3>1. n + 1 \in 1 .. n + 1
      BY <1>1
    <3> QED
      BY <1>2, <3>1 DEF Among
  <2> QED
    BY <2>1, <2>2, <2>3
<1>4. IsInjective(es)
  <2> SUFFICES ASSUME NEW i \in 1 .. n + 1, NEW j \in 1 .. n + 1, es[i] = es[j]
               PROVE  i = j
    BY <1>2 DEF IsInjective
  <2>1. i \in 1 .. n \/ i = n + 1
    BY <1>1
  <2>2. j \in 1 .. n \/ j = n + 1
    BY <1>1
  <2>3. \A k \in 1 .. n : es[k] # u
    BY <1>1, <1>2 DEF Among
  <2> QED
    BY <1>1, <1>2, <2>1, <2>2, <2>3 DEF IsInjective
<1>5. Ordered(es)
  <2> SUFFICES ASSUME NEW j \in 1 .. n + 1, es[j] # Main,
                      NEW k \in 1 .. Count(es[j]), NEW m \in Needs(es[j], k)
               PROVE  \E i \in 1 .. j - 1 : es[i] = m
    BY <1>2 DEF Ordered
  <2>1. CASE j = n + 1
    <3>1. PICK i \in 1 .. n : em[i] = m
      BY <1>1, <1>2, <2>1 DEF Among
    <3>2. i \in 1 .. j - 1
      BY <1>1, <2>1
    <3> QED
      BY <1>2, <3>1, <3>2
  <2>2. CASE j \in 1 .. n
    <3>1. es[j] = em[j] /\ j \in DOMAIN em
      BY <1>1, <1>2, <2>2
    <3>2. PICK i \in 1 .. j - 1 : em[i] = m
      BY <3>1 DEF Ordered
    <3>3. i \in 1 .. n
      BY <1>1, <2>2
    <3> QED
      BY <1>2, <3>2, <3>3
  <2> QED
    BY <1>1, <2>1, <2>2
<1> QED
  BY <1>2, <1>3, <1>4, <1>5 DEF es

(***************************************************************************)
(* The units whose statements are in the entry function.                   *)
(***************************************************************************)
Speaks(u) == Source(u).stmt # "none"

InOrder(en, em) ==
  \A i1, i2 \in DOMAIN en : \A j1, j2 \in DOMAIN em :
    i1 < i2 /\ em[j1] = en[i1] /\ em[j2] = en[i2] => j1 < j2

EntryHolds(en, em) ==
  /\ \A u : Among(u, en) <=> Among(u, em) /\ Speaks(u)
  /\ InOrder(en, em)

EntryInOrder ==
  (\A u \in Loaded : Source(u).stmt # "branch") =>
    /\ phase # "done" => ~closed
    /\ EntryHolds(entry, emitted)

LEMMA AmongGrows ==
  ASSUME NEW em \in Seq(Units), NEW u \in Units
  PROVE  \A v : Among(v, Append(em, u)) <=> Among(v, em) \/ v = u
<1> SUFFICES ASSUME NEW v
             PROVE  Among(v, Append(em, u)) <=> Among(v, em) \/ v = u
  OBVIOUS
<1> DEFINE n == Len(em)
           es == Append(em, u)
<1>1. n \in Nat /\ DOMAIN em = 1 .. n
  OBVIOUS
<1>2. /\ DOMAIN es = 1 .. n + 1 /\ es[n + 1] = u
      /\ \A i \in 1 .. n : es[i] = em[i]
  BY AppendFacts
<1> HIDE DEF n, es
<1>3. \A i \in 1 .. n + 1 : i \in 1 .. n \/ i = n + 1
  BY <1>1
<1>4. n + 1 \in 1 .. n + 1 /\ \A i \in 1 .. n : i \in 1 .. n + 1
  BY <1>1
<1>5. Among(v, es) <=> Among(v, em) \/ v = u
  BY <1>1, <1>2, <1>3, <1>4 DEF Among
<1> QED
  BY <1>5 DEF es

LEMMA EntrySilent ==
  ASSUME NEW en \in Seq(Units), NEW em \in Seq(Units), NEW u \in Units,
         EntryHolds(en, em), ~Among(u, em), ~Speaks(u)
  PROVE  EntryHolds(en, Append(em, u))
<1> DEFINE n == Len(em)
           es == Append(em, u)
<1>1. n \in Nat /\ DOMAIN em = 1 .. n
  OBVIOUS
<1>2. /\ DOMAIN es = 1 .. n + 1 /\ es[n + 1] = u
      /\ \A i \in 1 .. n : es[i] = em[i]
  BY AppendFacts
<1>3. \A v : Among(v, es) <=> Among(v, em) \/ v = u
  BY AmongGrows
<1> HIDE DEF n, es
<1>4. \A i \in 1 .. n + 1 : i \in 1 .. n \/ i = n + 1
  BY <1>1
<1>5. \A i \in DOMAIN en : en[i] # u
  BY DEF EntryHolds, Among
<1>6. InOrder(en, es)
  BY <1>1, <1>2, <1>4, <1>5 DEF InOrder, EntryHolds
<1>7. EntryHolds(en, es)
  BY <1>3, <1>6 DEF EntryHolds
<1> QED
  BY <1>7 DEF es

LEMMA EntryGrows ==
  ASSUME NEW en \in Seq(Units), NEW em \in Seq(Units), NEW u \in Units,
         EntryHolds(en, em), ~Among(u, em), Speaks(u)
  PROVE  EntryHolds(Append(en, u), Append(em, u))
<1> DEFINE n == Len(em)
           es == Append(em, u)
           m == Len(en)
           eu == Append(en, u)
<1>1. /\ n \in Nat /\ DOMAIN em = 1 .. n
      /\ m \in Nat /\ DOMAIN en = 1 .. m
  OBVIOUS
<1>2. /\ DOMAIN es = 1 .. n + 1 /\ es[n + 1] = u
      /\ \A i \in 1 .. n : es[i] = em[i]
      /\ DOMAIN eu = 1 .. m + 1 /\ eu[m + 1] = u
      /\ \A i \in 1 .. m : eu[i] = en[i]
  BY AppendFacts
<1>3. /\ \A v : Among(v, es) <=> Among(v, em) \/ v = u
      /\ \A v : Among(v, eu) <=> Among(v, en) \/ v = u
  BY AmongGrows
<1> HIDE DEF n, es, m, eu
<1>4. /\ \A i \in 1 .. n + 1 : i \in 1 .. n \/ i = n + 1
      /\ \A i \in 1 .. m + 1 : i \in 1 .. m \/ i = m + 1
  BY <1>1
<1>5. /\ \A i \in 1 .. m : en[i] # u
      /\ \A j \in 1 .. n : em[j] # u
  BY <1>1 DEF EntryHolds, Among
<1>6. ASSUME NEW i1 \in 1 .. m + 1, NEW i2 \in 1 .. m + 1,
             NEW j1 \in 1 .. n + 1, NEW j2 \in 1 .. n + 1,
             i1 < i2, es[j1] = eu[i1], es[j2] = eu[i2]
      PROVE  j1 < j2
  <2>1. i1 \in 1 .. m
    BY <1>1, <1>6
  <2>2. eu[i1] = en[i1] /\ eu[i1] # u
    BY <1>2, <1>5, <2>1
  <2>3. j1 \in 1 .. n /\ es[j1] = em[j1]
    BY <1>2, <1>4, <1>6, <2>2
  <2>4. CASE i2 = m + 1
    <3>1. j2 = n + 1
      BY <1>2, <1>4, <1>5, <1>6, <2>4
    <3> QED
      BY <1>1, <2>3, <3>1
  <2>5. CASE i2 \in 1 .. m
    <3>1. eu[i2] = en[i2] /\ eu[i2] # u
      BY <1>2, <1>5, <2>5
    <3>2. j2 \in 1 .. n /\ es[j2] = em[j2]
      BY <1>2, <1>4, <1>6, <3>1
    <3> QED
      BY <1>1, <1>6, <2>1, <2>2, <2>3, <2>5, <3>1, <3>2
         DEF EntryHolds, InOrder
  <2> QED
    BY <1>4, <2>4, <2>5
<1>7. EntryHolds(eu, es)
  BY <1>2, <1>3, <1>6 DEF EntryHolds, InOrder
<1> QED
  BY <1>7 DEF es, eu

(***************************************************************************)
(* The inductive invariant.                                                *)
(***************************************************************************)
AssemblyTypeOK ==
  /\ at \in Nat
  /\ visits \in Seq(VisitSet)
  /\ visited \subseteq Files
  /\ emitted \in Seq(Units)
  /\ DOMAIN owner \subseteq LinkNames
  /\ \A n \in DOMAIN owner : owner[n] \in Units
  /\ entry \in Seq(Units)
  /\ closed \in BOOLEAN
  /\ runs \in [Units -> Units \cup {NoUnit}]

(* Nothing is emitted while files are analysed.                            *)
BeforeAssembly ==
  phase = "analysis" =>
    /\ at = 1 /\ visits = <<>> /\ visited = {} /\ emitted = <<>>
    /\ owner = <<>> /\ entry = <<>> /\ closed = FALSE

Inv ==
  /\ LoaderInv
  /\ AssemblyTypeOK
  /\ BeforeAssembly
  /\ Stacked(visits, Len(visits), visited)
  /\ LoopSound
  /\ EmittedInOrder
  /\ EntryInOrder

LEMMA InitInv ==
  ASSUME Init
  PROVE  Inv
<1> USE DEF Init
<1>1. /\ modules = <<>> /\ analysed = {} /\ phase = "analysis"
      /\ walks = <<[unit |-> Main, next |-> 1]>>
      /\ errors = {} /\ Loaded = {}
      /\ \E i \in DOMAIN Families : program \in Families[i]
  BY DEF LoaderInit, Loaded
<1>2. ProgramSound
  BY <1>1 DEF ProgramSound
<1>3. [unit |-> Main, next |-> 1] \in WalkSet
  BY DEF WalkSet, Units
<1>4. walks \in Seq(WalkSet) /\ walks # <<>>
  BY <1>1, <1>3, SmallSequences
<1>5. LoaderTypeOK
  <2>1. scope \in [Units -> SUBSET Symbol]
    <3>1. Main \in Units
      BY DEF Units
    <3>2. Signatures(Main) \subseteq Symbol
      BY <1>2, <3>1, SignaturesFacts
    <3> QED
      BY <3>2 DEF LoaderInit
  <2>2. called \in [Units -> Called]
    BY DEF LoaderInit, NotCalled, Called
  <2>3. DOMAIN program \subseteq Files
    BY <1>2, FileFacts DEF ProgramSound
  <2>4. modules \in Seq(Files)
    BY <1>1
  <2> QED
    BY <1>1, <1>4, <2>1, <2>2, <2>3, <2>4 DEF LoaderTypeOK, WalkSet, Phases
<1>6. /\ DOMAIN walks = {1} /\ walks[1].unit = Main /\ walks[1].next = 1
      /\ Len(walks) = 1
  BY <1>1
<1>7. WalksNested
  BY <1>1, <1>4, <1>6 DEF WalksNested, Chained
<1>8. Registry
  BY <1>1, <1>6 DEF Registry, AnalysedOnce, IsInjective
<1>9. AssemblyTypeOK /\ BeforeAssembly
  <2>1. DOMAIN owner = {}
    OBVIOUS
  <2>2. /\ DOMAIN owner \subseteq LinkNames
        /\ \A n \in DOMAIN owner : owner[n] \in Units
    BY <2>1
  <2>3. runs \in [Units -> Units \cup {NoUnit}]
    OBVIOUS
  <2>4. visits \in Seq(VisitSet) /\ emitted \in Seq(Units)
          /\ entry \in Seq(Units)
    OBVIOUS
  <2>5. at \in Nat /\ visited \subseteq Files /\ closed \in BOOLEAN
    OBVIOUS
  <2>6. AssemblyTypeOK
    BY <2>2, <2>3, <2>4, <2>5 DEF AssemblyTypeOK
  <2> QED
    BY <2>6, <1>1 DEF BeforeAssembly
<1>10. Stacked(visits, Len(visits), visited)
  BY DEF Stacked
<1>11. LoopSound
  BY <1>1 DEF LoopSound
<1>12. EmittedInOrder
  BY <1>1 DEF EmittedInOrder, IsInjective, Ordered, Among
<1>13. EntryInOrder
  BY DEF EntryInOrder, EntryHolds, InOrder, Among
<1> QED
  BY <1>2, <1>5, <1>7, <1>8, <1>9, <1>10, <1>11, <1>12, <1>13
     DEF Inv, LoaderInv

(* Analysis keeps it: nothing is emitted yet.                              *)
LEMMA AnalyseInv ==
  ASSUME Inv, Analyse, UNCHANGED assemblyVars
  PROVE  Inv'
<1>1. LoaderInv'
  BY AnalyseKeeps DEF Inv
<1>2. phase = "analysis"
  BY AnalyseSteps DEF WalksOn, Loads, Returns, Leaves, AtImport
<1>3. /\ at = 1 /\ visits = <<>> /\ visited = {} /\ emitted = <<>>
      /\ owner = <<>> /\ entry = <<>> /\ closed = FALSE
  BY <1>2 DEF Inv, BeforeAssembly
<1>4. /\ at' = 1 /\ visits' = <<>> /\ visited' = {} /\ emitted' = <<>>
      /\ owner' = owner /\ owner' = <<>> /\ entry' = <<>>
      /\ closed' = FALSE /\ runs' = runs
  BY <1>3 DEF assemblyVars
<1>5. AssemblyTypeOK' /\ BeforeAssembly'
  <2>1. /\ at' = at /\ visits' = visits /\ visited' = visited
        /\ emitted' = emitted /\ entry' = entry /\ closed' = closed
        /\ owner' = owner /\ runs' = runs
    BY DEF assemblyVars
  <2>2. AssemblyTypeOK
    BY DEF Inv
  <2>3. AssemblyTypeOK'
    BY <2>1, <2>2 DEF AssemblyTypeOK
  <2> QED
    BY <1>4, <2>3 DEF BeforeAssembly
<1>6. Stacked(visits, Len(visits), visited)'
  BY <1>4 DEF Stacked
<1>7. LoopSound'
  <2>1. Len(modules') \in Nat
    BY <1>1 DEF LoaderInv, LoaderTypeOK
  <2> QED
    BY <1>4, <2>1 DEF LoopSound
<1>8. phase' # "done"
  BY AnalyseSteps DEF WalksOn, Loads, Returns, Leaves, AtImport
<1>9. EmittedInOrder'
  BY <1>4, <1>8 DEF EmittedInOrder, IsInjective, Ordered, Among
<1>10. EntryInOrder'
  BY <1>4 DEF EntryInOrder, EntryHolds, InOrder, Among
<1> QED
  BY <1>1, <1>5, <1>6, <1>7, <1>9, <1>10 DEF Inv

(***************************************************************************)
(* The steps of code generation.                                           *)
(***************************************************************************)
LEMMA VisitFacts ==
  ASSUME Inv, Assembling, visits # <<>>
  PROVE  /\ visits \in Seq(VisitSet) /\ modules \in Seq(Files)
         /\ Len(visits) \in Nat \ {0} /\ DOMAIN visits = 1 .. Len(visits)
         /\ Visit = visits[Len(visits)] /\ Visit \in VisitSet
         /\ Visit.next \in Nat /\ Visit.unit \in Files
         /\ Visit.unit \in Loaded \ visited /\ Visit.unit \in Roots
         /\ Count(Visit.unit) \in Nat
         /\ Imports(Visit.unit) \in Seq(ImportSet)
         /\ Dependency = Needs(Visit.unit, Visit.next)
         /\ \A m \in Loaded : Count(m) \in Nat
<1>1. visits \in Seq(VisitSet) /\ modules \in Seq(Files)
  BY DEF Inv, AssemblyTypeOK, LoaderInv, LoaderTypeOK
<1>2. Len(visits) \in Nat \ {0} /\ DOMAIN visits = 1 .. Len(visits)
        /\ Visit = visits[Len(visits)] /\ Visit \in VisitSet
        /\ Len(visits) \in 1 .. Len(visits)
  BY <1>1, LastFacts DEF Visit
<1>3. Visit.unit \in Loaded \ visited
  BY <1>2 DEF Inv, Stacked
<1>4. \A m \in Loaded : Imports(m) \in Seq(ImportSet)
  BY SourceFacts DEF Inv, LoaderInv, Roots
<1>5. \A m \in Loaded : Count(m) \in Nat
  BY <1>4 DEF Count
<1>6. Dependency = Needs(Visit.unit, Visit.next)
  BY DEF Dependency, Needs
<1> QED
  BY <1>1, <1>2, <1>3, <1>4, <1>5, <1>6 DEF VisitSet, Roots

(* What only moves the stack.                                              *)
Unemitted ==
  UNCHANGED <<visited, emitted, owner, entry, closed, runs, phase>>

LEMMA UnemittedKeeps ==
  ASSUME Inv, Assemble, Unemitted, at' \in Nat, visits' \in Seq(VisitSet)
  PROVE  /\ AssemblyTypeOK' /\ BeforeAssembly' /\ EmittedInOrder'
         /\ EntryInOrder'
<1>1. /\ program' = program /\ modules' = modules /\ phase = "codegen"
      /\ phase' = phase /\ visited' = visited /\ emitted' = emitted
      /\ owner' = owner /\ entry' = entry /\ closed' = closed /\ runs' = runs
  BY AssembleStays DEF Unemitted
<1>2. AssemblyTypeOK' /\ BeforeAssembly'
  BY <1>1 DEF Inv, AssemblyTypeOK, BeforeAssembly
<1>3. Ordered(emitted)'
  BY <1>1, ReadingStays DEF Inv, EmittedInOrder, Ordered
<1>4. EmittedInOrder'
  BY <1>1, <1>3, ReadingStays DEF Inv, EmittedInOrder, Among
<1>5. EntryInOrder'
  BY <1>1, ReadingStays DEF Inv, EntryInOrder, EntryHolds, InOrder, Among,
     Speaks
<1> QED
  BY <1>2, <1>4, <1>5

LEMMA NextModuleInv ==
  ASSUME Inv, NextModule
  PROVE  Inv'
<1>1. /\ phase = "codegen" /\ visits = <<>> /\ at <= Len(modules)
      /\ at' = at + 1 /\ program' = program /\ modules' = modules
      /\ visited' = visited /\ phase' = phase
      /\ Unemitted
  BY DEF NextModule, Assembling, Unemitted, loaderVars
<1>2. Assemble
  BY DEF Assemble
<1>3. LoaderInv'
  BY <1>2, AssembleLoader DEF Inv
<1>4. at \in 1 .. Len(modules) /\ at \in Nat /\ modules \in Seq(Files)
        /\ Len(modules) \in Nat
  BY <1>1 DEF Inv, LoopSound, AssemblyTypeOK, LoaderInv, LoaderTypeOK
<1> DEFINE m == modules[at]
<1>5. m \in Files /\ m \in Loaded
  BY <1>4 DEF Loaded
<1>6. Count(m) \in Nat
  BY <1>5, SourceFacts DEF Inv, LoaderInv, Roots, Count
<1>7. \A k \in 1 .. at - 1 : modules[k] \in visited
  BY <1>1 DEF Inv, LoopSound
<1>8. CASE m \in visited
  <2>1. visits' = visits
    BY <1>8 DEF NextModule
  <2>2. Stacked(visits', Len(visits'), visited')
    BY <1>1, <2>1 DEF Inv
  <2>3. LoopSound'
    <3>1. \A k \in 1 .. (at + 1) - 1 : k \in 1 .. at - 1 \/ k = at
      BY <1>4
    <3>2. \A k \in 1 .. (at + 1) - 1 : modules[k] \in visited
      BY <1>7, <1>8, <3>1
    <3>3. at + 1 \in 1 .. Len(modules) + 1
      BY <1>4
    <3> QED
      BY <1>1, <3>2, <3>3 DEF LoopSound
  <2>4. visits' \in Seq(VisitSet) /\ at' \in Nat
    BY <1>1, <1>4, <2>1 DEF Inv, AssemblyTypeOK
  <2> QED
    BY <1>1, <1>2, <1>3, <2>2, <2>3, <2>4, StackStays, UnemittedKeeps DEF Inv
<1>9. CASE m \notin visited
  <2> DEFINE v == [unit |-> m, next |-> 1]
  <2>1. visits' = <<v>>
    BY <1>1, <1>9 DEF NextModule, Enter
  <2>2. v \in VisitSet /\ v.unit = m /\ v.next = 1
    BY <1>5 DEF VisitSet
  <2> HIDE DEF v, m
  <2>3. visits' \in Seq(VisitSet) /\ visits' # <<>>
    BY <2>1, <2>2, SmallSequences
  <2>4. Len(visits') = 1 /\ visits'[1] = v
    BY <2>1
  <2>5. Stacked(visits', 1, visited')
    BY <1>1, <1>5, <1>6, <1>9, <2>2, <2>4, StackEnters
  <2>6. LoopSound'
    <3>1. \A k \in 1 .. (at + 1) - 1 : k \in 1 .. at - 1 \/ k = at
      BY <1>4
    <3>2. \A k \in 1 .. (at + 1) - 1 :
            modules[k] \in visited \/ (k = (at + 1) - 1 /\ v.unit = modules[k])
      BY <1>4, <1>7, <2>2, <3>1 DEF m
    <3>3. at + 1 \in 1 .. Len(modules) + 1
      BY <1>4
    <3> QED
      BY <1>1, <2>3, <2>4, <3>2, <3>3 DEF LoopSound
  <2>7. at' \in Nat
    BY <1>1, <1>4
  <2> QED
    BY <1>1, <1>2, <1>3, <2>3, <2>4, <2>5, <2>6, <2>7, StackStays,
       UnemittedKeeps DEF Inv
<1> QED
  BY <1>8, <1>9

LEMMA CountedFacts ==
  ASSUME NEW vs \in Seq(VisitSet), NEW n \in Nat \ {0}, n = Len(vs)
  PROVE  /\ Advanced(vs) \in Seq(VisitSet) /\ Len(Advanced(vs)) = n
         /\ Advanced(vs) # <<>>
         /\ Counted(vs, Advanced(vs), n)
<1>1. vs # <<>> /\ DOMAIN vs = 1 .. n
  OBVIOUS
<1>2. /\ Advanced(vs) \in Seq(VisitSet)
      /\ Len(Advanced(vs)) = n
      /\ \A i \in 1 .. n : Advanced(vs)[i].unit = vs[i].unit
      /\ \A i \in 1 .. n : i # n => Advanced(vs)[i] = vs[i]
      /\ Advanced(vs)[n].next = vs[n].next + 1
  <2>1. vs \in Seq([unit : Files, next : Nat])
    BY DEF VisitSet
  <2>2. /\ Advanced(vs) \in Seq([unit : Files, next : Nat])
        /\ Len(Advanced(vs)) = Len(vs)
        /\ \A i \in DOMAIN vs : Advanced(vs)[i].unit = vs[i].unit
        /\ \A i \in DOMAIN vs : i # Len(vs) => Advanced(vs)[i] = vs[i]
        /\ Advanced(vs)[Len(vs)].next = vs[Len(vs)].next + 1
    BY <1>1, <2>1, AdvancedFacts
  <2>3. DOMAIN vs = 1 .. n /\ n = Len(vs)
    BY <1>1
  <2> QED
    BY <2>2, <2>3, Zenon DEF VisitSet
<1>3. \A i \in 1 .. n - 1 : i \in 1 .. n /\ i # n
  OBVIOUS
<1> QED
  BY <1>2, <1>3 DEF Counted

LEMMA LoopStays ==
  ASSUME Inv, modules' = modules, at' = at, visited \subseteq visited',
         visits # <<>>, visits' # <<>>, visits'[1].unit = visits[1].unit
  PROVE  LoopSound'
  BY DEF Inv, LoopSound

LEMMA SkipDependencyInv ==
  ASSUME Inv, SkipDependency
  PROVE  Inv'
<1> DEFINE n == Len(visits)
           us == Advanced(visits)
<1>1. /\ Assembling /\ visits # <<>> /\ Visit.next <= Count(Visit.unit)
      /\ Dependency \subseteq visited /\ visits' = us
      /\ program' = program /\ modules' = modules /\ at' = at
      /\ visited' = visited /\ Unemitted
  BY DEF SkipDependency, AtDependency, Unemitted, loaderVars, Advanced, Count
<1>2. Assemble
  BY DEF Assemble
<1>3. LoaderInv'
  BY <1>2, AssembleLoader DEF Inv
<1>4. /\ visits \in Seq(VisitSet) /\ n \in Nat \ {0} /\ Visit = visits[n]
      /\ Visit.next \in Nat /\ Count(Visit.unit) \in Nat
      /\ Dependency = Needs(Visit.unit, Visit.next)
  BY <1>1, VisitFacts
<1>5. us \in Seq(VisitSet) /\ Len(us) = n /\ us # <<>>
        /\ Counted(visits, us, n)
  BY <1>4, CountedFacts
<1>6. Stacked(visits, n, visited)
  BY DEF Inv
<1> HIDE DEF n, us
<1>7. Stacked(us, n, visited)
  BY <1>1, <1>4, <1>5, <1>6, StackSkips
<1>8. us[1].unit = visits[1].unit
  BY <1>4, <1>5 DEF Counted
<1>9. LoopSound'
  BY <1>1, <1>5, <1>8, LoopStays
<1>10. at' \in Nat
  BY <1>1 DEF Inv, AssemblyTypeOK
<1> QED
  BY <1>1, <1>2, <1>3, <1>5, <1>7, <1>9, <1>10, StackStays, UnemittedKeeps
     DEF Inv

LEMMA VisitDependencyInv ==
  ASSUME Inv, VisitDependency
  PROVE  Inv'
<1> DEFINE n == Len(visits)
           us == Advanced(visits)
<1>1. /\ Assembling /\ visits # <<>> /\ Visit.next <= Count(Visit.unit)
      /\ program' = program /\ modules' = modules /\ at' = at
      /\ visited' = visited /\ Unemitted
  BY DEF VisitDependency, AtDependency, Unemitted, loaderVars, Count
<1>2. PICK m \in Dependency \ visited :
        visits' = Append(us, [unit |-> m, next |-> 1])
  BY DEF VisitDependency, Advanced
<1>3. Assemble
  BY DEF Assemble
<1>4. LoaderInv'
  BY <1>3, AssembleLoader DEF Inv
<1>5. /\ visits \in Seq(VisitSet) /\ n \in Nat \ {0} /\ Visit = visits[n]
      /\ Visit.next \in Nat /\ Count(Visit.unit) \in Nat
      /\ Dependency = Needs(Visit.unit, Visit.next)
      /\ modules \in Seq(Files)
  BY <1>1, VisitFacts
<1>6. us \in Seq(VisitSet) /\ Len(us) = n /\ us # <<>>
        /\ Counted(visits, us, n)
  BY <1>5, CountedFacts
<1>7. Stacked(visits, n, visited)
  BY DEF Inv
<1>8. m \in Loaded /\ m \in Files /\ Count(m) \in Nat
  <2>1. m \in Loaded
    BY <1>5, FindFacts DEF Needs
  <2>2. Loaded \subseteq Files
    BY <1>5 DEF Loaded
  <2> QED
    BY <1>1, <2>1, <2>2, VisitFacts
<1> DEFINE v == [unit |-> m, next |-> 1]
           ws == Append(us, v)
<1>9. v \in VisitSet /\ v.unit = m /\ v.next = 1
  BY <1>8 DEF VisitSet
<1> HIDE DEF n, us, v
<1>10. /\ ws \in Seq(VisitSet) /\ Len(ws) = n + 1 /\ ws # <<>>
       /\ ws[n + 1] = v /\ \A i \in 1 .. n : ws[i] = us[i]
  BY <1>6, <1>9, AppendFacts
<1> HIDE DEF ws
<1>11. Counted(visits, ws, n)
  <2>1. n \in 1 .. n /\ \A i \in 1 .. n - 1 : i \in 1 .. n
    BY <1>5
  <2>2. ws[n].next = visits[n].next + 1
    BY <1>6, <1>10, <2>1 DEF Counted
  <2>3. \A i \in 1 .. n : ws[i].unit = visits[i].unit
    BY <1>6, <1>10 DEF Counted
  <2>4. \A i \in 1 .. n - 1 : ws[i] = visits[i]
    BY <1>6, <1>10, <2>1 DEF Counted
  <2> QED
    BY <2>2, <2>3, <2>4 DEF Counted
<1>12. Stacked(ws, n + 1, visited)
  BY <1>1, <1>2, <1>5, <1>7, <1>8, <1>9, <1>10, <1>11, StackPushes
<1>13. visits' = ws
  BY <1>2 DEF ws, v
<1>14. ws[1].unit = visits[1].unit
  BY <1>5, <1>11 DEF Counted
<1>15. LoopSound'
  BY <1>1, <1>10, <1>13, <1>14, LoopStays
<1>16. at' \in Nat
  BY <1>1 DEF Inv, AssemblyTypeOK
<1> QED
  BY <1>1, <1>3, <1>4, <1>10, <1>12, <1>13, <1>15, <1>16, StackStays,
     UnemittedKeeps DEF Inv

(* What emitting a unit does, whichever it is.                             *)
LEMMA DeclaredFacts ==
  ASSUME Inv, NEW u \in Roots
  PROVE  /\ DOMAIN Declared(u) \subseteq LinkNames
         /\ \A n \in DOMAIN Declared(u) : Declared(u)[n] \in Units
         /\ Candidates(u) # {} => Found(u) \in Candidates(u)
<1>1. u \in Units
  BY SourceFacts DEF Inv, LoaderInv
<1>2. {LinkName(u, f) : f \in {g \in FnNames : Source(u).fns[g] # "none"}}
        \subseteq LinkNames
  BY <1>1, LinkNameFacts DEF Inv, LoaderInv
<1>3. DOMAIN owner \subseteq LinkNames
        /\ \A n \in DOMAIN owner : owner[n] \in Units
  BY DEF Inv, AssemblyTypeOK
<1>4. ASSUME Candidates(u) # {}
      PROVE  Found(u) \in Candidates(u)
  <2>1. \E n \in Candidates(u) :
          called[u].name \in Candidates(u) => n = called[u].name
    BY <1>4
  <2> QED
    BY <2>1 DEF Found
<1> QED
  BY <1>1, <1>2, <1>3, <1>4 DEF Declared

LEMMA EmitTypes ==
  ASSUME Inv, NEW u \in Roots, Codegen_global(u)
  PROVE  /\ emitted' \in Seq(Units)
         /\ DOMAIN owner' \subseteq LinkNames
         /\ \A n \in DOMAIN owner' : owner'[n] \in Units
         /\ entry' \in Seq(Units)
         /\ closed' \in BOOLEAN
         /\ runs' \in [Units -> Units \cup {NoUnit}]
<1>1. u \in Units
  BY SourceFacts DEF Inv, LoaderInv
<1>2. /\ emitted \in Seq(Units) /\ entry \in Seq(Units) /\ closed \in BOOLEAN
      /\ runs \in [Units -> Units \cup {NoUnit}]
  BY DEF Inv, AssemblyTypeOK
<1>3. emitted' \in Seq(Units)
  BY <1>1, <1>2, AppendFacts DEF Codegen_global
<1>4. entry' \in Seq(Units) /\ closed' \in BOOLEAN
  <2>1. CASE Source(u).stmt = "none" \/ closed
    BY <1>2, <2>1 DEF Codegen_global, EmitStatements
  <2>2. CASE ~(Source(u).stmt = "none" \/ closed)
    <3>1. entry' = Append(entry, u) /\ closed' = (Source(u).stmt = "branch")
      BY <2>2 DEF Codegen_global, EmitStatements
    <3>2. closed' \in BOOLEAN
      BY <3>1
    <3> QED
      BY <1>1, <1>2, <3>1, <3>2, AppendFacts
  <2> QED
    BY <2>1, <2>2
<1>5. runs' \in [Units -> Units \cup {NoUnit}]
  <2> DEFINE r == IF HasCall(u) /\ Candidates(u) # {}
                  THEN Declared(u)[Found(u)] ELSE NoUnit
  <2>1. r \in Units \cup {NoUnit}
    BY DeclaredFacts DEF Candidates
  <2>2. runs' = [runs EXCEPT ![u] = r]
    BY DEF Codegen_global
  <2> HIDE DEF r
  <2> QED
    BY <1>1, <1>2, <2>1, <2>2
<1> QED
  BY <1>3, <1>4, <1>5, DeclaredFacts DEF Codegen_global

LEMMA EmitOrder ==
  ASSUME Inv, phase = "codegen", program' = program, modules' = modules,
         NEW u \in Roots, Codegen_global(u), ~Among(u, emitted),
         u # Main => \A k \in 1 .. Count(u) : Needs(u, k) \subseteq visited,
         u = Main => phase' = "done"
  PROVE  /\ IsInjective(emitted') /\ Ordered(emitted)'
         /\ emitted' # <<>> /\ Last(emitted') = u
         /\ \A v : Among(v, emitted') <=> Among(v, emitted) \/ v = u
         /\ EntryInOrder'
<1>1. u \in Units
  BY SourceFacts DEF Inv, LoaderInv
<1>2. /\ emitted \in Seq(Units) /\ entry \in Seq(Units)
      /\ IsInjective(emitted) /\ Ordered(emitted)
      /\ visited \subseteq Files
      /\ \A m \in visited : Among(m, emitted)
  BY DEF Inv, AssemblyTypeOK, EmittedInOrder
<1>3. emitted' = Append(emitted, u)
  BY DEF Codegen_global
<1>4. u # Main => \A k \in 1 .. Count(u) : \A m \in Needs(u, k) :
                    Among(m, emitted)
  BY <1>2
<1>5. /\ emitted' # <<>> /\ Last(emitted') = u
      /\ IsInjective(emitted') /\ Ordered(emitted')
      /\ \A v : Among(v, emitted') <=> Among(v, emitted) \/ v = u
  BY <1>1, <1>2, <1>3, <1>4, EmittedGrows
<1>6. Ordered(emitted)'
  BY <1>5, ReadingStays DEF Ordered
<1>7. EntryInOrder'
  <2> SUFFICES ASSUME \A v \in Loaded : Source(v).stmt # "branch"
               PROVE  /\ phase' # "done" => ~closed'
                      /\ EntryHolds(entry', emitted')
    BY ReadingStays DEF EntryInOrder, EntryHolds, InOrder, Among, Speaks
  <2>1. ~closed /\ EntryHolds(entry, emitted)
    BY DEF Inv, EntryInOrder
  <2>2. u \in Loaded \/ u = Main
    BY DEF Roots
  <2>3. CASE ~Speaks(u)
    <3>1. entry' = entry /\ closed' = closed
      BY <2>3 DEF Codegen_global, EmitStatements, Speaks
    <3> QED
      BY <1>1, <1>2, <1>3, <2>1, <2>3, <3>1, EntrySilent
  <2>4. CASE Speaks(u)
    <3>1. entry' = Append(entry, u) /\ closed' = (Source(u).stmt = "branch")
      BY <2>1, <2>4 DEF Codegen_global, EmitStatements, Speaks
    <3>2. phase' # "done" => ~closed'
      BY <2>2, <3>1
    <3>3. EntryHolds(entry', emitted')
      BY <1>1, <1>2, <1>3, <2>1, <2>4, <3>1, EntryGrows
    <3> QED
      BY <3>2, <3>3
  <2> QED
    BY <2>3, <2>4
<1> QED
  BY <1>5, <1>6, <1>7

LEMMA EmitModuleInv ==
  ASSUME Inv, EmitModule
  PROVE  Inv'
<1> DEFINE n == Len(visits)
           u == Visit.unit
           us == Front(visits)
<1>1. /\ Assembling /\ visits # <<>> /\ Visit.next > Count(u)
      /\ visited' = visited \cup {u} /\ visits' = us
      /\ program' = program /\ modules' = modules /\ at' = at
      /\ phase' = phase /\ phase = "codegen" /\ Codegen_global(u)
  BY DEF EmitModule, Count, loaderVars, Assembling
<1>2. LoaderInv'
  BY AssembleLoader DEF Inv, Assemble
<1>3. /\ visits \in Seq(VisitSet) /\ n \in Nat \ {0} /\ Visit = visits[n]
      /\ Visit.next \in Nat /\ Count(u) \in Nat /\ u \in Files
      /\ u \in Loaded \ visited /\ u \in Roots /\ modules \in Seq(Files)
  BY <1>1, VisitFacts
<1>4. u = visits[n].unit
  BY <1>3
<1>5. us \in Seq(VisitSet) /\ Len(us) = n - 1
        /\ \A i \in 1 .. n - 1 : us[i] = visits[i]
  BY <1>1, <1>3, FrontFacts
<1>6. Stacked(visits, n, visited)
  BY DEF Inv
<1> HIDE DEF n, us, u
<1>7. Stacked(us, n - 1, visited \cup {u})
  BY <1>1, <1>3, <1>4, <1>5, <1>6, StackPops
<1>8. \A k \in 1 .. Count(u) : Needs(u, k) \subseteq visited
  <2>1. ASSUME NEW k \in 1 .. Count(u)
        PROVE  k \in 1 .. visits[n].next - 1
    BY <1>1, <1>3
  <2> QED
    BY <1>3, <1>4, <1>6, <2>1 DEF Stacked
<1>9. ~Among(u, emitted) /\ u # Main
  BY <1>3, FileFacts DEF Inv, EmittedInOrder
<1>10. /\ IsInjective(emitted') /\ Ordered(emitted)'
       /\ \A v : Among(v, emitted') <=> Among(v, emitted) \/ v = u
       /\ EntryInOrder'
  BY <1>1, <1>3, <1>8, <1>9, EmitOrder
<1>11. AssemblyTypeOK'
  <2>1. at' \in Nat /\ visited' \subseteq Files /\ visits' \in Seq(VisitSet)
    BY <1>1, <1>3, <1>5 DEF Inv, AssemblyTypeOK
  <2> QED
    BY <1>1, <1>3, <2>1, EmitTypes DEF AssemblyTypeOK
<1>12. BeforeAssembly'
  BY <1>1 DEF BeforeAssembly
<1>13. EmittedInOrder'
  <2>1. \A v \in Files : v \in visited' <=> Among(v, emitted')
    BY <1>1, <1>10 DEF Inv, EmittedInOrder
  <2>2. visited' \subseteq Loaded'
    BY <1>1, <1>3, ReadingStays DEF Inv, EmittedInOrder
  <2>3. ~Among(Main, emitted')
    BY <1>1, <1>9, <1>10 DEF Inv, EmittedInOrder
  <2>4. Among(Main, emitted)' <=> Among(Main, emitted')
    BY DEF Among
  <2>5. \A v \in Files : v \in visited' <=> Among(v, emitted)'
    BY <2>1 DEF Among
  <2> QED
    BY <1>1, <1>10, <2>2, <2>3, <2>4, <2>5 DEF EmittedInOrder
<1>14. LoopSound'
  <2>1. ASSUME NEW k \in 1 .. at - 1
        PROVE  modules[k] \in visited'
                 \/ (us # <<>> /\ k = at - 1 /\ us[1].unit = modules[k])
    <3>1. CASE modules[k] \in visited
      BY <1>1, <3>1
    <3>2. CASE k = at - 1 /\ visits[1].unit = modules[k]
      <4>1. CASE n = 1
        BY <1>1, <1>4, <3>2, <4>1
      <4>2. CASE n # 1
        <5>1. 1 \in 1 .. n - 1 /\ Len(us) # 0
          BY <1>3, <1>5, <4>2
        <5>2. us # <<>> /\ us[1] = visits[1]
          BY <1>5, <5>1
        <5> QED
          BY <3>2, <5>2
      <4> QED
        BY <4>1, <4>2
    <3> QED
      BY <3>1, <3>2 DEF Inv, LoopSound
  <2>2. at \in 1 .. Len(modules) + 1
    BY DEF Inv, LoopSound
  <2> QED
    BY <1>1, <2>1, <2>2 DEF LoopSound
<1>15. Stacked(visits, Len(visits), visited)'
  BY <1>1, <1>5, <1>7, StackStays
<1> QED
  BY <1>2, <1>10, <1>11, <1>12, <1>13, <1>14, <1>15 DEF Inv

LEMMA EmitMainInv ==
  ASSUME Inv, EmitMain
  PROVE  Inv'
<1>1. /\ phase = "codegen" /\ phase' = "done" /\ visits = <<>>
      /\ at > Len(modules) /\ Codegen_global(Main)
      /\ program' = program /\ modules' = modules /\ at' = at
      /\ visits' = visits /\ visited' = visited
  BY DEF EmitMain, Assembling
<1>2. LoaderInv'
  BY AssembleLoader DEF Inv, Assemble
<1>3. Main \in Roots /\ ~Among(Main, emitted)
  BY <1>1 DEF Inv, EmittedInOrder, Roots
<1>4. /\ IsInjective(emitted') /\ Ordered(emitted)'
      /\ emitted' # <<>> /\ Last(emitted') = Main
      /\ \A v : Among(v, emitted') <=> Among(v, emitted) \/ v = Main
      /\ EntryInOrder'
  BY <1>1, <1>3, EmitOrder
<1>5. AssemblyTypeOK'
  BY <1>1, <1>3, EmitTypes DEF Inv, AssemblyTypeOK
<1>6. BeforeAssembly'
  BY <1>1 DEF BeforeAssembly
<1>7. modules \in Seq(Files) /\ at \in Nat /\ Len(modules) \in Nat
        /\ at \in 1 .. Len(modules) + 1
  BY DEF Inv, LoaderInv, LoaderTypeOK, AssemblyTypeOK, LoopSound
<1>8. Loaded \subseteq visited
  <2>1. ASSUME NEW k \in DOMAIN modules
        PROVE  modules[k] \in visited
    <3>1. k \in 1 .. at - 1
      BY <1>1, <1>7
    <3> QED
      BY <1>1, <3>1 DEF Inv, LoopSound
  <2> QED
    BY <2>1 DEF Loaded
<1>9. EmittedInOrder'
  <2>1. \A v \in Files : v \in visited' <=> Among(v, emitted)'
    BY <1>1, <1>4, FileFacts DEF Inv, EmittedInOrder, Among
  <2>2. visited' \subseteq Loaded' /\ Loaded' \subseteq visited'
    BY <1>1, <1>8, ReadingStays DEF Inv, EmittedInOrder
  <2> QED
    BY <1>1, <1>4, <2>1, <2>2 DEF EmittedInOrder
<1>10. LoopSound'
  BY <1>1 DEF Inv, LoopSound
<1>11. Stacked(visits, Len(visits), visited)'
  BY <1>1, StackStays DEF Inv
<1> QED
  BY <1>2, <1>4, <1>5, <1>6, <1>9, <1>10, <1>11 DEF Inv

(* Out of stack, or without a function to call.                            *)
LEMMA StopsInv ==
  ASSUME Inv, StackOverflow \/ Panic
  PROVE  Inv'
<1>1. /\ phase = "codegen" /\ phase' \in {"overflow", "panic"}
      /\ program' = program /\ modules' = modules /\ at' = at
      /\ visits' = visits /\ visited' = visited /\ emitted' = emitted
      /\ owner' = owner /\ entry' = entry /\ closed' = closed
      /\ runs' = runs
  BY DEF StackOverflow, Panic, AtDependency, Assembling, assemblyVars
<1>2. LoaderInv'
  BY AssembleLoader DEF Inv, Assemble
<1>3. AssemblyTypeOK' /\ BeforeAssembly'
  BY <1>1 DEF Inv, AssemblyTypeOK, BeforeAssembly
<1>4. Ordered(emitted)'
  BY <1>1, ReadingStays DEF Inv, EmittedInOrder, Ordered
<1>5. EmittedInOrder'
  BY <1>1, <1>4, ReadingStays DEF Inv, EmittedInOrder, Among
<1>6. EntryInOrder'
  BY <1>1, ReadingStays DEF Inv, EntryInOrder, EntryHolds, InOrder, Among,
     Speaks
<1>7. LoopSound'
  BY <1>1 DEF Inv, LoopSound
<1>8. Stacked(visits, Len(visits), visited)'
  BY <1>1, StackStays DEF Inv
<1> QED
  BY <1>2, <1>3, <1>5, <1>6, <1>7, <1>8 DEF Inv

LEMMA InvIsInductive ==
  ASSUME Inv, [Next]_vars
  PROVE  Inv'
<1>1. CASE Analyse /\ UNCHANGED assemblyVars
  BY <1>1, AnalyseInv
<1>2. CASE Assemble
  BY <1>2, NextModuleInv, VisitDependencyInv, SkipDependencyInv, StopsInv,
     EmitModuleInv, EmitMainInv DEF Assemble
<1>3. CASE UNCHANGED vars
  <2>1. /\ program' = program /\ phase' = phase /\ modules' = modules
        /\ analysed' = analysed /\ walks' = walks /\ scope' = scope
        /\ errors' = errors /\ called' = called
        /\ at' = at /\ visits' = visits /\ visited' = visited
        /\ emitted' = emitted /\ owner' = owner /\ entry' = entry
        /\ closed' = closed /\ runs' = runs
    BY <1>3 DEF vars, loaderVars, assemblyVars
  <2>2. LoaderInv'
    <3>1. LoaderTypeOK'
      BY <2>1 DEF Inv, LoaderInv, LoaderTypeOK
    <3>2. ProgramSound'
      BY <2>1, ReadingStays DEF Inv, LoaderInv, ProgramSound
    <3>3. WalksNested'
      BY <2>1, ChainStays DEF Inv, LoaderInv, WalksNested
    <3>4. Registry'
      BY <2>1, ReadingStays DEF Inv, LoaderInv, Registry, AnalysedOnce
    <3> QED
      BY <3>1, <3>2, <3>3, <3>4 DEF LoaderInv
  <2>3. AssemblyTypeOK' /\ BeforeAssembly' /\ LoopSound'
    BY <2>1 DEF Inv, AssemblyTypeOK, BeforeAssembly, LoopSound
  <2>4. Stacked(visits, Len(visits), visited)'
    BY <2>1, StackStays DEF Inv
  <2>5. Ordered(emitted)'
    BY <2>1, ReadingStays DEF Inv, EmittedInOrder, Ordered
  <2>6. EmittedInOrder'
    BY <2>1, <2>5, ReadingStays DEF Inv, EmittedInOrder, Among
  <2>7. EntryInOrder'
    BY <2>1, ReadingStays DEF Inv, EntryInOrder, EntryHolds, InOrder, Among,
       Speaks
  <2> QED
    BY <2>2, <2>3, <2>4, <2>6, <2>7 DEF Inv
<1> QED
  BY <1>1, <1>2, <1>3 DEF Next

(* The invariant holds, whatever the files import and however the loader,  *)
(* the analysis and the code generation of a program take turns.           *)
THEOREM InvHolds == Spec => []Inv
<1>1. Init => Inv
  BY InitInv
<1>2. Inv /\ [Next]_vars => Inv'
  BY InvIsInductive
<1> QED
  BY <1>1, <1>2, PTL DEF Spec

(***************************************************************************)
(* What follows.                                                           *)
(***************************************************************************)
LEMMA OncePerFileFollows == Inv => OncePerFile
<1> SUFFICES ASSUME Inv PROVE OncePerFile
  OBVIOUS
<1>1. TypeOK
  BY DEF Inv, LoaderInv, AssemblyTypeOK, TypeOK, VisitSet
<1>2. AnalysedOnce
  BY DEF Inv, LoaderInv, Registry
<1>3. EmittedOnce
  <2>1. \A m \in Loaded : m \in Files
    BY DEF Inv, LoaderInv, LoaderTypeOK, Loaded
  <2> QED
    BY <2>1 DEF Inv, EmittedInOrder, EmittedOnce, WasEmitted, Among
<1> QED
  BY <1>1, <1>2, <1>3 DEF OncePerFile

(* Every file is analysed once and emitted once, the main file last,       *)
(* however often and in whatever circles files are imported.               *)
THEOREM FilesGoThroughOnce == Spec => []OncePerFile
  BY InvHolds, OncePerFileFollows, PTL

LEMMA PositionFacts ==
  ASSUME Inv, NEW i \in DOMAIN emitted
  PROVE  Position(emitted[i]) = i
  BY DEF Inv, EmittedInOrder, IsInjective, Position

===============================================================================
