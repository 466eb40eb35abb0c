---------------------------- MODULE LoweringProofs ----------------------------
(***************************************************************************)
(* What is proved of Lowering for every set of names, every kind of        *)
(* statement and every nesting depth.                                      *)
(***************************************************************************)
EXTENDS Lowering, SequenceTheorems, WellFoundedInduction, TLAPS

(***************************************************************************)
(* Stacks.                                                                 *)
(***************************************************************************)
LEMMA FrontFacts ==
  ASSUME NEW S, NEW s \in Seq(S), s # <<>>
  PROVE  /\ Front(s) \in Seq(S)
         /\ Len(s) \in Nat \ {0}
         /\ Len(Front(s)) = Len(s) - 1
         /\ \A i \in 1 .. Len(s) - 1 : Front(s)[i] = s[i]
<1>1. PICK n \in Nat : n = Len(s) - 1
  OBVIOUS
<1>2. \A i \in 1 .. n : s[i] \in S
  BY <1>1
<1>3. SubSeq(s, 1, n) \in Seq(S)
  BY <1>2, SubSeqProperties
<1>4. Len(SubSeq(s, 1, n)) = n
  BY <1>2, SubSeqProperties
<1>5. \A i \in 1 .. n : SubSeq(s, 1, n)[i] = s[i]
  BY <1>2, SubSeqProperties
<1>6. Front(s) = SubSeq(s, 1, n)
  BY <1>1 DEF Front
<1>7. Len(s) \in Nat \ {0}
  OBVIOUS
<1> QED
  BY <1>1, <1>3, <1>4, <1>5, <1>6, <1>7

LEMMA LastFacts ==
  ASSUME NEW S, NEW s \in Seq(S), s # <<>>
  PROVE  Last(s) \in S /\ Last(s) = s[Len(s)] /\ Len(s) \in DOMAIN s
  BY DEF Last

LEMMA AppendFacts ==
  ASSUME NEW S, NEW s \in Seq(S), NEW e \in S
  PROVE  /\ Append(s, e) \in Seq(S)
         /\ Append(s, e) # <<>>
         /\ Len(Append(s, e)) = Len(s) + 1
         /\ Append(s, e)[Len(s) + 1] = e
         /\ Last(Append(s, e)) = e
         /\ \A i \in 1 .. Len(s) : Append(s, e)[i] = s[i]
  BY DEF Last

LEMMA ExceptFacts ==
  ASSUME NEW S, NEW s \in Seq(S), NEW i \in DOMAIN s, NEW e \in S
  PROVE  /\ [s EXCEPT ![i] = e] \in Seq(S)
         /\ Len([s EXCEPT ![i] = e]) = Len(s)
  OBVIOUS

(* The largest of a bounded set of positions: n - Max(S) is the least of   *)
(* the distances from n.                                                   *)
LEMMA MaxFacts ==
  ASSUME NEW n \in Nat, NEW S \in SUBSET (1 .. n), S # {}
  PROVE  Max(S) \in S /\ \A y \in S : Max(S) >= y
<1> DEFINE T == {t \in Nat : n - t \in S}
           R == OpToRel(<, Nat)
<1>1. T \subseteq Nat /\ T # {}
  <2>1. PICK x \in S : TRUE
    OBVIOUS
  <2>2. n - x \in Nat /\ n - (n - x) = x
    BY <2>1
  <2> QED
    BY <2>1, <2>2
<1>2. IsWellFoundedOn(R, Nat)
  BY NatLessThanWellFounded
<1>3. \A x, y \in Nat : y < x => <<y, x>> \in R
  BY DEF OpToRel
<1> HIDE DEF R
<1>4. PICK m \in T : \A y \in T : ~ (<<y, m>> \in R)
  BY <1>1, <1>2, WFMin
<1>5. \A y \in T : ~ (y < m)
  BY <1>1, <1>3, <1>4
<1>6. n - m \in S
  OBVIOUS
<1>7. ASSUME NEW y \in S
      PROVE  n - m >= y
  <2>1. n - y \in T /\ y \in Nat
    OBVIOUS
  <2>2. ~ (n - y < m) /\ m \in Nat
    BY <2>1, <1>5
  <2> QED
    BY <2>1, <2>2
<1> QED
  BY <1>6, <1>7 DEF Max

(***************************************************************************)
(* The path.                                                               *)
(***************************************************************************)
Inv == TypeOK /\ Measured

LEMMA TopFacts ==
  ASSUME Inv
  PROVE  /\ path \in Seq(Construct) /\ path # <<>>
         /\ Depth \in DOMAIN path /\ Depth \in Nat \ {0}
         /\ Depth + 1 \in Nat \ {0}
         /\ Top = path[Depth] /\ Top \in Construct
         /\ Top.kind # "root" => Depth > 1
  BY LastFacts DEF Inv, TypeOK, Measured, Rooted, Top, Depth

(* Counting a child changes no kind, no `on` and no height.                *)
SameConstructs(p, q) ==
  /\ Len(p) = Len(q)
  /\ \A i \in 1 .. Len(p) :
       /\ p[i].kind = q[i].kind /\ p[i].on = q[i].on /\ p[i].at = q[i].at
       /\ Inside(p[i]) = Inside(q[i])

LEMMA CountedFacts ==
  ASSUME Inv, Top.kind \in Lists \/ Top.n < 2
  PROVE  Counted \in Seq(Construct) /\ SameConstructs(Counted, path)
<1>1. CASE Top.kind \in Lists
  BY <1>1, TopFacts DEF Counted, SameConstructs
<1>2. CASE Top.kind \notin Lists
  <2>1. Top.n \in {0, 1}
    BY <1>2, TopFacts DEF Construct
  <2>2. [path[Depth] EXCEPT !.n = @ + 1] \in Construct
    BY <2>1, TopFacts DEF Construct
  <2>3. Counted = [path EXCEPT ![Depth] = [path[Depth] EXCEPT !.n = @ + 1]]
    BY <1>2, TopFacts DEF Counted
  <2>4. Counted \in Seq(Construct) /\ Len(Counted) = Len(path)
    BY <2>2, <2>3, TopFacts, ExceptFacts
  <2>5. ASSUME NEW i \in 1 .. Len(path)
        PROVE  /\ Counted[i].kind = path[i].kind
               /\ Counted[i].on = path[i].on
               /\ Counted[i].at = path[i].at
    BY <2>3, TopFacts DEF Construct
  <2> QED
    BY <2>4, <2>5 DEF SameConstructs, Inside
<1> QED
  BY <1>1, <1>2

LEMMA Pushed ==
  ASSUME Inv, ~closing,
         NEW p \in Seq(Construct), SameConstructs(p, path),
         NEW c \in Construct, c.at = Here,
         path' = Append(p, c)
  PROVE  /\ path' \in Seq(Construct) \ {<<>>}
         /\ Rooted(path') /\ Chained(path') /\ Last(path') = c
<1>1. /\ path' \in Seq(Construct) \ {<<>>} /\ Last(path') = c
      /\ Len(path') = Len(path) + 1
      /\ path'[Len(path) + 1] = c
      /\ \A i \in 1 .. Len(path) : path'[i] = p[i]
  BY AppendFacts DEF SameConstructs
<1>2. Rooted(path')
  <2>1. 1 \in 1 .. Len(path) /\ Rooted(path)
    BY TopFacts DEF Inv, Measured
  <2>2. path'[1].kind = path[1].kind /\ path'[1].at = path[1].at
    BY <1>1, <2>1 DEF SameConstructs
  <2> QED
    BY <2>1, <2>2, Zenon DEF Rooted
<1>3. ASSUME NEW i \in 1 .. Len(path') - 1
      PROVE  path'[i + 1].at = Inside(path'[i])
  <2>1. CASE i = Len(path)
    <3>1. c.at = Inside(path[Len(path)])
      BY TopFacts DEF Inv, Measured, Depth
    <3> QED
      BY <1>1, <2>1, <3>1, TopFacts DEF SameConstructs, Depth
  <2>2. CASE i # Len(path)
    <3>1. i \in 1 .. Len(path) - 1
      BY <1>1, <2>2, TopFacts DEF Depth
    <3>2. path[i + 1].at = Inside(path[i])
      BY <3>1 DEF Inv, Measured, Chained
    <3> QED
      BY <1>1, <3>1, <3>2, TopFacts DEF SameConstructs, Depth
  <2> QED
    BY <2>1, <2>2
<1> QED
  BY <1>1, <1>2, <1>3 DEF Chained

LEMMA Popped ==
  ASSUME Inv, Depth > 1, path' = Front(path)
  PROVE  /\ path' \in Seq(Construct) \ {<<>>}
         /\ Rooted(path') /\ Chained(path')
         /\ Last(path') \in Construct
         /\ Inside(Last(path')) = Top.at
<1>1. /\ path' \in Seq(Construct)
      /\ Len(path') = Len(path) - 1
      /\ \A i \in 1 .. Len(path) - 1 : path'[i] = path[i]
  BY FrontFacts, TopFacts
<1>2. path' # <<>>
  BY <1>1, TopFacts DEF Depth
<1>3. Rooted(path')
  BY <1>1, TopFacts DEF Inv, Measured, Rooted, Depth
<1>4. Chained(path')
  BY <1>1, TopFacts, SMTT(30) DEF Inv, Measured, Chained, Depth
<1>5. Last(path') = path[Len(path) - 1] /\ Last(path') \in Construct
  BY <1>1, <1>2, LastFacts, TopFacts DEF Depth
<1>6. Inside(path[Len(path) - 1]) = Top.at
  <2>1. Len(path) - 1 \in 1 .. Len(path) - 1
    BY TopFacts DEF Depth
  <2>2. path[(Len(path) - 1) + 1].at = Inside(path[Len(path) - 1])
    BY <2>1 DEF Inv, Measured, Chained
  <2> QED
    BY <2>2, TopFacts DEF Depth
<1> QED
  BY <1>1, <1>2, <1>3, <1>4, <1>5, <1>6

(***************************************************************************)
(* The stack operations.                                                   *)
(***************************************************************************)
LEMMA Types ==
  ASSUME Inv
  PROVE  /\ scope \in Seq(SUBSET Declaration) /\ Len(scope) \in Nat
         /\ jump \in Seq(JumpContext) /\ Len(jump) \in Nat
         /\ cgScope \in Seq(SUBSET Declaration) /\ Len(cgScope) \in Nat
         /\ defers \in Seq(Seq(Deferred)) /\ Len(defers) \in Nat
         /\ breaks \in Seq(Target) /\ Len(breaks) \in Nat
         /\ continues \in Seq(Target) /\ Len(continues) \in Nat
         /\ pending \in Seq(Deferred)
         /\ panicked \in Panics
         /\ live \in BOOLEAN /\ closing \in BOOLEAN
         /\ misdirected \in BOOLEAN /\ misresolved \in BOOLEAN
         /\ displaced \in BOOLEAN /\ lost \in BOOLEAN
         /\ rejected \in BOOLEAN
         /\ Here \in Heights
<1>1. /\ scope \in Seq(SUBSET Declaration) /\ jump \in Seq(JumpContext)
      /\ cgScope \in Seq(SUBSET Declaration)
      /\ defers \in Seq(Seq(Deferred))
      /\ breaks \in Seq(Target) /\ continues \in Seq(Target)
  BY DEF Inv, TypeOK, SemaTypeOK, CgTypeOK
<1>2. /\ Len(scope) \in Nat /\ Len(jump) \in Nat /\ Len(cgScope) \in Nat
      /\ Len(defers) \in Nat /\ Len(breaks) \in Nat /\ Len(continues) \in Nat
  BY <1>1, LenProperties
<1>3. Here \in Heights
  BY <1>2 DEF Here, Heights
<1> QED
  BY <1>1, <1>2, <1>3 DEF Inv, TypeOK, CgTypeOK

(* A lookup finds a declaration or ends in the generator's panic.          *)
LEMMA LookupFacts ==
  ASSUME Inv, NEW chain, NEW name, NEW target, cg_lookup(chain, name, target)
  PROVE  /\ panicked' \in Panics /\ panicked' \in {panicked, "variable"}
         /\ misresolved' \in BOOLEAN
  BY Types DEF cg_lookup, Panics

LEMMA ScopePush ==
  ASSUME Inv, NEW decls \in SUBSET Declaration, sema_scope_push(decls)
  PROVE  scope' \in Seq(SUBSET Declaration) /\ Len(scope') = Len(scope) + 1
  BY AppendFacts, Types DEF sema_scope_push

LEMMA ScopePop ==
  ASSUME Inv, scope # <<>>, sema_scope_pop
  PROVE  scope' \in Seq(SUBSET Declaration) /\ Len(scope') = Len(scope) - 1
  BY FrontFacts, Types DEF sema_scope_pop

LEMMA JumpPush ==
  ASSUME Inv, NEW node \in Nat \ {0}, NEW is_loop \in BOOLEAN,
         sema_jump_push(node, is_loop)
  PROVE  jump' \in Seq(JumpContext) /\ Len(jump') = Len(jump) + 1
  BY AppendFacts, Types DEF sema_jump_push, JumpContext

LEMMA JumpPop ==
  ASSUME Inv, jump # <<>>, sema_jump_pop
  PROVE  jump' \in Seq(JumpContext) /\ Len(jump') = Len(jump) - 1
  BY FrontFacts, Types DEF sema_jump_pop

LEMMA CgPushScope ==
  ASSUME Inv, NEW decls \in SUBSET Declaration, cg_push_scope(decls)
  PROVE  /\ cgScope' \in Seq(SUBSET Declaration)
         /\ Len(cgScope') = Len(cgScope) + 1
         /\ defers' \in Seq(Seq(Deferred)) /\ Len(defers') = Len(defers) + 1
<1>1. <<>> \in Seq(Deferred)
  OBVIOUS
<1> QED
  BY <1>1, AppendFacts, Types DEF cg_push_scope

LEMMA PushLoopTargets ==
  ASSUME Inv, NEW node \in Nat \ {0}, NEW open \in Nat,
         push_loop_targets(node, open)
  PROVE  /\ breaks' \in Seq(Target) /\ Len(breaks') = Len(breaks) + 1
         /\ continues' \in Seq(Target)
         /\ Len(continues') = Len(continues) + 1
  BY AppendFacts, Types DEF push_loop_targets, Target

LEMMA PopLoopTargets ==
  ASSUME Inv, breaks # <<>>, continues # <<>>, pop_loop_targets
  PROVE  /\ breaks' \in Seq(Target) /\ Len(breaks') = Len(breaks) - 1
         /\ continues' \in Seq(Target)
         /\ Len(continues') = Len(continues) - 1
  BY FrontFacts, Types DEF pop_loop_targets

(***************************************************************************)
(* Going down: a construct entered with the stacks as its kind has them.   *)
(***************************************************************************)
LEMMA Entered ==
  ASSUME Inv, Walking, Top.kind \in Lists \/ Top.n < 2,
         NEW kind \in Kinds, NEW on \in BOOLEAN,
         Begin(kind, on),
         Len(scope') = Len(scope) + One(kind \in SemaScoped),
         Len(jump') = Len(jump) + One(kind \in Loops \cup {"switch"}),
         Len(defers') = Len(defers) + One(on /\ kind \in CgScoped),
         Len(cgScope') = Len(cgScope) + One(on /\ kind \in CgScoped),
         Len(breaks') = Len(breaks) + One(on /\ kind \in Loops \cup Cases),
         Len(continues') = Len(continues) + One(on /\ kind \in Loops)
  PROVE  Measured' /\ path' \in Seq(Construct) \ {<<>>}
<1> DEFINE c == [kind |-> kind, on |-> on, n |-> 0, at |-> Here]
<1>1. c \in Construct /\ c.at = Here
  BY Types DEF Construct
<1>2. ~closing /\ ~closing'
  BY DEF Walking, Begin
<1>3. path' = Append(Counted, c)
  BY DEF Begin
<1>4. Here' = Inside(c)
  BY DEF Here, Inside
<1> HIDE DEF c
<1>5. /\ path' \in Seq(Construct) \ {<<>>}
      /\ Rooted(path') /\ Chained(path') /\ Last(path') = c
  BY <1>1, <1>2, <1>3, CountedFacts, Pushed
<1>6. Len(cgScope') = Len(defers') + 1
  BY <1>2, Types DEF Inv, Measured, One
<1> QED
  BY <1>2, <1>4, <1>5, <1>6, Types DEF Measured, Top, One

LEMMA EnterBlockInv ==
  ASSUME Inv, EnterBlock
  PROVE  Inv'
<1> DEFINE on == IF Top.kind = "if" THEN Top.on ELSE live
<1>1. Walking /\ (Top.kind \in Lists \/ Top.n < 2)
  BY DEF EnterBlock, AtBlock, AtStatement, Walking, Lists, Loops, Cases
<1>2. Descend("block", on) /\ "block" \in Kinds /\ on \in BOOLEAN
  BY TopFacts, Types DEF EnterBlock, Kinds, Lists, Loops, Cases, Construct
<1>3. /\ scope' \in Seq(SUBSET Declaration)
      /\ Len(scope') = Len(scope) + One("block" \in SemaScoped)
  BY ScopePush, Types DEF EnterBlock, One, SemaScoped
<1>4. /\ jump' \in Seq(JumpContext)
      /\ Len(jump') = Len(jump) + One("block" \in Loops \cup {"switch"})
  BY Types DEF EnterBlock, One, Loops
<1>5. /\ cgScope' \in Seq(SUBSET Declaration)
      /\ defers' \in Seq(Seq(Deferred))
      /\ Len(cgScope') = Len(cgScope) + One(on /\ "block" \in CgScoped)
      /\ Len(defers') = Len(defers) + One(on /\ "block" \in CgScoped)
  <2>1. CASE on
    BY <2>1, CgPushScope, Types DEF EnterBlock, One, CgScoped, SemaScoped
  <2>2. CASE ~on
    BY <2>2, Types DEF EnterBlock, Skip, NoScope, One
  <2> QED
    BY <2>1, <2>2
<1>6. /\ breaks' \in Seq(Target) /\ continues' \in Seq(Target)
      /\ Len(breaks') = Len(breaks) + One(on /\ "block" \in Loops \cup Cases)
      /\ Len(continues') = Len(continues) + One(on /\ "block" \in Loops)
  BY Types DEF EnterBlock, Skip, NoTargets, One, Loops, Cases
<1>7. live' \in BOOLEAN
  BY <1>2, Types DEF EnterBlock
<1> HIDE DEF on
<1>8. Measured' /\ path' \in Seq(Construct) \ {<<>>}
  BY <1>1, <1>2, <1>3, <1>4, <1>5, <1>6, Entered DEF Descend
<1>9. TypeOK'
  BY <1>2, <1>3, <1>4, <1>5, <1>6, <1>7, <1>8, Types
     DEF Descend, Begin, TypeOK, SemaTypeOK, CgTypeOK
<1> QED
  BY <1>8, <1>9 DEF Inv

LEMMA EnterIfInv ==
  ASSUME Inv, EnterIf
  PROVE  Inv'
<1> DEFINE on == live
<1>1. Walking /\ (Top.kind \in Lists \/ Top.n < 2)
  BY DEF EnterIf, AtStatement, Walking, Lists, Loops, Cases
<1>2. Descend("if", on) /\ "if" \in Kinds /\ on \in BOOLEAN
  BY TopFacts, Types DEF EnterIf, Kinds, Lists, Loops, Cases, Construct
<1>3. /\ scope' \in Seq(SUBSET Declaration)
      /\ Len(scope') = Len(scope) + One("if" \in SemaScoped)
  BY Types DEF EnterIf, One, SemaScoped
<1>4. /\ jump' \in Seq(JumpContext)
      /\ Len(jump') = Len(jump) + One("if" \in Loops \cup {"switch"})
  BY Types DEF EnterIf, One, Loops
<1>5. /\ cgScope' \in Seq(SUBSET Declaration)
      /\ defers' \in Seq(Seq(Deferred))
      /\ Len(cgScope') = Len(cgScope) + One(on /\ "if" \in CgScoped)
      /\ Len(defers') = Len(defers) + One(on /\ "if" \in CgScoped)
  BY Types DEF EnterIf, Skip, NoScope, One, CgScoped, SemaScoped
<1>6. /\ breaks' \in Seq(Target) /\ continues' \in Seq(Target)
      /\ Len(breaks') = Len(breaks) + One(on /\ "if" \in Loops \cup Cases)
      /\ Len(continues') = Len(continues) + One(on /\ "if" \in Loops)
  BY Types DEF EnterIf, Skip, NoTargets, One, Loops, Cases
<1>7. live' \in BOOLEAN
  BY <1>2, Types DEF EnterIf
<1> HIDE DEF on
<1>8. Measured' /\ path' \in Seq(Construct) \ {<<>>}
  BY <1>1, <1>2, <1>3, <1>4, <1>5, <1>6, Entered DEF Descend
<1>9. TypeOK'
  BY <1>2, <1>3, <1>4, <1>5, <1>6, <1>7, <1>8, Types
     DEF Descend, Begin, TypeOK, SemaTypeOK, CgTypeOK
<1> QED
  BY <1>8, <1>9 DEF Inv

LEMMA EnterLoopInv ==
  ASSUME Inv, EnterLoop
  PROVE  Inv'
<1> DEFINE on == live
<1>1. Walking /\ (Top.kind \in Lists \/ Top.n < 2)
  BY DEF EnterLoop, AtStatement, Walking, Lists, Loops, Cases
<1>2. Descend("loop", on) /\ "loop" \in Kinds /\ on \in BOOLEAN
  BY TopFacts, Types DEF EnterLoop, Kinds, Lists, Loops, Cases, Construct
<1>3. /\ scope' \in Seq(SUBSET Declaration)
      /\ Len(scope') = Len(scope) + One("loop" \in SemaScoped)
  BY Types DEF EnterLoop, One, SemaScoped
<1>4. /\ jump' \in Seq(JumpContext)
      /\ Len(jump') = Len(jump) + One("loop" \in Loops \cup {"switch"})
  <2>1. Depth + 1 \in Nat \ {0} /\ sema_jump_push(Depth + 1, TRUE)
    BY TopFacts DEF EnterLoop
  <2>2. jump' \in Seq(JumpContext) /\ Len(jump') = Len(jump) + 1
    BY ONLY <2>1, Inv, JumpPush
  <2> QED
    BY <2>2 DEF One, Loops
<1>5. /\ cgScope' \in Seq(SUBSET Declaration)
      /\ defers' \in Seq(Seq(Deferred))
      /\ Len(cgScope') = Len(cgScope) + One(on /\ "loop" \in CgScoped)
      /\ Len(defers') = Len(defers) + One(on /\ "loop" \in CgScoped)
  BY Types DEF EnterLoop, Skip, NoScope, One, CgScoped, SemaScoped
<1>6. /\ breaks' \in Seq(Target) /\ continues' \in Seq(Target)
      /\ Len(breaks') = Len(breaks) + One(on /\ "loop" \in Loops \cup Cases)
      /\ Len(continues') = Len(continues) + One(on /\ "loop" \in Loops)
  <2>1. CASE on
    BY <2>1, PushLoopTargets, TopFacts, Types DEF EnterLoop, One, Loops
  <2>2. CASE ~on
    BY <2>2, Types DEF EnterLoop, Skip, NoTargets, One
  <2> QED
    BY <2>1, <2>2
<1>7. live' \in BOOLEAN
  BY <1>2, Types DEF EnterLoop
<1> HIDE DEF on
<1>8. Measured' /\ path' \in Seq(Construct) \ {<<>>}
  BY <1>1, <1>2, <1>3, <1>4, <1>5, <1>6, Entered DEF Descend
<1>9. TypeOK'
  BY <1>2, <1>3, <1>4, <1>5, <1>6, <1>7, <1>8, Types
     DEF Descend, Begin, TypeOK, SemaTypeOK, CgTypeOK
<1> QED
  BY <1>8, <1>9 DEF Inv

LEMMA EnterWhileInv ==
  ASSUME Inv, EnterWhile
  PROVE  Inv'
<1> DEFINE on == live
<1>1. Walking /\ (Top.kind \in Lists \/ Top.n < 2)
  BY DEF EnterWhile, AtStatement, Walking, Lists, Loops, Cases
<1>2. Descend("while", on) /\ "while" \in Kinds /\ on \in BOOLEAN
  BY TopFacts, Types DEF EnterWhile, Kinds, Lists, Loops, Cases, Construct
<1>3. /\ scope' \in Seq(SUBSET Declaration)
      /\ Len(scope') = Len(scope) + One("while" \in SemaScoped)
  BY Types DEF EnterWhile, One, SemaScoped
<1>4. /\ jump' \in Seq(JumpContext)
      /\ Len(jump') = Len(jump) + One("while" \in Loops \cup {"switch"})
  <2>1. Depth + 1 \in Nat \ {0} /\ sema_jump_push(Depth + 1, TRUE)
    BY TopFacts DEF EnterWhile
  <2>2. jump' \in Seq(JumpContext) /\ Len(jump') = Len(jump) + 1
    BY ONLY <2>1, Inv, JumpPush
  <2> QED
    BY <2>2 DEF One, Loops
<1>5. /\ cgScope' \in Seq(SUBSET Declaration)
      /\ defers' \in Seq(Seq(Deferred))
      /\ Len(cgScope') = Len(cgScope) + One(on /\ "while" \in CgScoped)
      /\ Len(defers') = Len(defers) + One(on /\ "while" \in CgScoped)
  <2>1. CASE on
    BY <2>1, CgPushScope, Types DEF EnterWhile, One, CgScoped, SemaScoped
  <2>2. CASE ~on
    BY <2>2, Types DEF EnterWhile, Skip, NoScope, One
  <2> QED
    BY <2>1, <2>2
<1>6. /\ breaks' \in Seq(Target) /\ continues' \in Seq(Target)
      /\ Len(breaks') = Len(breaks) + One(on /\ "while" \in Loops \cup Cases)
      /\ Len(continues') = Len(continues) + One(on /\ "while" \in Loops)
  <2>1. CASE on
    BY <2>1, PushLoopTargets, TopFacts, Types DEF EnterWhile, One, Loops
  <2>2. CASE ~on
    BY <2>2, Types DEF EnterWhile, Skip, NoTargets, One
  <2> QED
    BY <2>1, <2>2
<1>7. live' \in BOOLEAN
  BY <1>2, Types DEF EnterWhile
<1> HIDE DEF on
<1>8. Measured' /\ path' \in Seq(Construct) \ {<<>>}
  BY <1>1, <1>2, <1>3, <1>4, <1>5, <1>6, Entered DEF Descend
<1>9. TypeOK'
  BY <1>2, <1>3, <1>4, <1>5, <1>6, <1>7, <1>8, Types
     DEF Descend, Begin, TypeOK, SemaTypeOK, CgTypeOK
<1> QED
  BY <1>8, <1>9 DEF Inv

LEMMA EnterForInv ==
  ASSUME Inv, NEW kind \in {"for", "for_in"}, NEW name \in Names \cup {NoName},
         NEW init, EnterFor(kind, name, init)
  PROVE  Inv'
<1> DEFINE on == live
           decls == IF name = NoName THEN {} ELSE Bind(name)
<1>1. Walking /\ (Top.kind \in Lists \/ Top.n < 2)
  BY DEF EnterFor, AtStatement, Walking, Lists, Loops, Cases
<1>2. Begin(kind, on) /\ kind \in Kinds /\ on \in BOOLEAN
  BY TopFacts, Types DEF EnterFor, Kinds, Lists, Loops, Cases, Construct
<1>3. decls \in SUBSET Declaration
  BY TopFacts, NoNameAssumption DEF Bind, Declaration
<1>4. /\ scope' \in Seq(SUBSET Declaration)
      /\ Len(scope') = Len(scope) + One(kind \in SemaScoped)
  BY <1>3, ScopePush, Types DEF EnterFor, One, SemaScoped
<1>5. /\ jump' \in Seq(JumpContext)
      /\ Len(jump') = Len(jump) + One(kind \in Loops \cup {"switch"})
  <2>1. Depth + 1 \in Nat \ {0} /\ sema_jump_push(Depth + 1, TRUE)
    BY TopFacts DEF EnterFor
  <2>2. jump' \in Seq(JumpContext) /\ Len(jump') = Len(jump) + 1
    BY ONLY <2>1, Inv, JumpPush
  <2> QED
    BY <2>2 DEF One, Loops
<1>6. /\ cgScope' \in Seq(SUBSET Declaration)
      /\ defers' \in Seq(Seq(Deferred))
      /\ Len(cgScope') = Len(cgScope) + One(on /\ kind \in CgScoped)
      /\ Len(defers') = Len(defers) + One(on /\ kind \in CgScoped)
  <2>1. CASE on
    BY <2>1, <1>3, CgPushScope, Types DEF EnterFor, One, CgScoped, SemaScoped
  <2>2. CASE ~on
    BY <2>2, Types DEF EnterFor, Skip, NoScope, One
  <2> QED
    BY <2>1, <2>2
<1>7. /\ breaks' \in Seq(Target) /\ continues' \in Seq(Target)
      /\ Len(breaks') = Len(breaks) + One(on /\ kind \in Loops \cup Cases)
      /\ Len(continues') = Len(continues) + One(on /\ kind \in Loops)
  <2>1. CASE on
    BY <2>1, PushLoopTargets, TopFacts, Types, SMTT(30) DEF EnterFor, One, Loops
  <2>2. CASE ~on
    BY <2>2, Types DEF EnterFor, Skip, NoTargets, One
  <2> QED
    BY <2>1, <2>2
<1>8. live' \in BOOLEAN
  BY <1>2, Types DEF EnterFor
<1>11. /\ panicked' \in Panics /\ misresolved' \in BOOLEAN
       /\ displaced' \in BOOLEAN
  BY LookupFacts, Types DEF EnterFor
<1> HIDE DEF on, decls
<1>9. Measured' /\ path' \in Seq(Construct) \ {<<>>}
  BY <1>1, <1>2, <1>4, <1>5, <1>6, <1>7, Entered
<1>10. TypeOK'
  BY <1>2, <1>4, <1>5, <1>6, <1>7, <1>8, <1>9, <1>11, Types
     DEF Begin, TypeOK, SemaTypeOK, CgTypeOK
<1> QED
  BY <1>9, <1>10 DEF Inv

LEMMA EnterSwitchInv ==
  ASSUME Inv, EnterSwitch
  PROVE  Inv'
<1> DEFINE on == live
<1>1. Walking /\ (Top.kind \in Lists \/ Top.n < 2)
  BY DEF EnterSwitch, AtStatement, Walking, Lists, Loops, Cases
<1>2. Descend("switch", on) /\ "switch" \in Kinds /\ on \in BOOLEAN
  BY TopFacts, Types DEF EnterSwitch, Kinds, Lists, Loops, Cases, Construct
<1>3. /\ scope' \in Seq(SUBSET Declaration)
      /\ Len(scope') = Len(scope) + One("switch" \in SemaScoped)
  BY Types DEF EnterSwitch, One, SemaScoped
<1>4. /\ jump' \in Seq(JumpContext)
      /\ Len(jump') = Len(jump) + One("switch" \in Loops \cup {"switch"})
  <2>1. Depth + 1 \in Nat \ {0} /\ sema_jump_push(Depth + 1, FALSE)
    BY TopFacts DEF EnterSwitch
  <2>2. jump' \in Seq(JumpContext) /\ Len(jump') = Len(jump) + 1
    BY ONLY <2>1, Inv, JumpPush
  <2> QED
    BY <2>2 DEF One, Loops
<1>5. /\ cgScope' \in Seq(SUBSET Declaration)
      /\ defers' \in Seq(Seq(Deferred))
      /\ Len(cgScope') = Len(cgScope) + One(on /\ "switch" \in CgScoped)
      /\ Len(defers') = Len(defers) + One(on /\ "switch" \in CgScoped)
  BY Types DEF EnterSwitch, Skip, NoScope, One, CgScoped, SemaScoped
<1>6. /\ breaks' \in Seq(Target) /\ continues' \in Seq(Target)
      /\ Len(breaks') = Len(breaks) + One(on /\ "switch" \in Loops \cup Cases)
      /\ Len(continues') = Len(continues) + One(on /\ "switch" \in Loops)
  BY Types DEF EnterSwitch, Skip, NoTargets, One, Loops, Cases
<1>7. live' \in BOOLEAN
  BY <1>2, Types DEF EnterSwitch
<1> HIDE DEF on
<1>8. Measured' /\ path' \in Seq(Construct) \ {<<>>}
  BY <1>1, <1>2, <1>3, <1>4, <1>5, <1>6, Entered DEF Descend
<1>9. TypeOK'
  BY <1>2, <1>3, <1>4, <1>5, <1>6, <1>7, <1>8, Types
     DEF Descend, Begin, TypeOK, SemaTypeOK, CgTypeOK
<1> QED
  BY <1>8, <1>9 DEF Inv

LEMMA EnterCaseInv ==
  ASSUME Inv, EnterCase
  PROVE  Inv'
<1> DEFINE on == Top.on
<1>1. Walking /\ (Top.kind \in Lists \/ Top.n < 2)
  BY DEF EnterCase, AtStatement, Walking, Lists, Loops, Cases
<1>2. Descend("case", on) /\ "case" \in Kinds /\ on \in BOOLEAN
  BY TopFacts, Types DEF EnterCase, Kinds, Lists, Loops, Cases, Construct
<1>3. /\ scope' \in Seq(SUBSET Declaration)
      /\ Len(scope') = Len(scope) + One("case" \in SemaScoped)
  BY Types DEF EnterCase, One, SemaScoped
<1>4. /\ jump' \in Seq(JumpContext)
      /\ Len(jump') = Len(jump) + One("case" \in Loops \cup {"switch"})
  BY Types DEF EnterCase, One, Loops
<1>5. /\ cgScope' \in Seq(SUBSET Declaration)
      /\ defers' \in Seq(Seq(Deferred))
      /\ Len(cgScope') = Len(cgScope) + One(on /\ "case" \in CgScoped)
      /\ Len(defers') = Len(defers) + One(on /\ "case" \in CgScoped)
  <2>1. CASE on
    BY <2>1, CgPushScope, Types DEF EnterCase, One, CgScoped, SemaScoped
  <2>2. CASE ~on
    BY <2>2, Types DEF EnterCase, Skip, NoScope, One
  <2> QED
    BY <2>1, <2>2
<1>6. /\ breaks' \in Seq(Target) /\ continues' \in Seq(Target)
      /\ Len(breaks') = Len(breaks) + One(on /\ "case" \in Loops \cup Cases)
      /\ Len(continues') = Len(continues) + One(on /\ "case" \in Loops)
  <2>1. CASE on
    <3>1. [node |-> Depth, open |-> Len(defers)] \in Target
      BY TopFacts, Types DEF Target
    <3>2. /\ breaks' = Append(breaks, [node |-> Depth, open |-> Len(defers)])
          /\ continues' = continues
      BY <2>1 DEF EnterCase
    <3>3. breaks' \in Seq(Target) /\ Len(breaks') = Len(breaks) + 1
      BY <3>1, <3>2, AppendFacts, Types
    <3> QED
      BY <2>1, <3>2, <3>3, Types DEF One, Loops, Cases
  <2>2. CASE ~on
    BY <2>2, Types DEF EnterCase, Skip, NoTargets, One
  <2> QED
    BY <2>1, <2>2
<1>7. live' \in BOOLEAN
  BY <1>2, Types DEF EnterCase
<1> HIDE DEF on
<1>8. Measured' /\ path' \in Seq(Construct) \ {<<>>}
  BY <1>1, <1>2, <1>3, <1>4, <1>5, <1>6, Entered DEF Descend
<1>9. TypeOK'
  BY <1>2, <1>3, <1>4, <1>5, <1>6, <1>7, <1>8, Types
     DEF Descend, Begin, TypeOK, SemaTypeOK, CgTypeOK
<1> QED
  BY <1>8, <1>9 DEF Inv

LEMMA EnterTypedCaseInv ==
  ASSUME Inv, NEW name \in Names, EnterTypedCase(name)
  PROVE  Inv'
<1> DEFINE on == Top.on
           decls == Bind(name)
<1>1. Walking /\ (Top.kind \in Lists \/ Top.n < 2)
  BY DEF EnterTypedCase, AtStatement, Walking, Lists, Loops, Cases
<1>2. Descend("typed_case", on) /\ "typed_case" \in Kinds /\ on \in BOOLEAN
  BY TopFacts, Types DEF EnterTypedCase, Kinds, Lists, Loops, Cases, Construct
<1>3. decls \in SUBSET Declaration
  BY TopFacts DEF Bind, Declaration
<1>4. /\ scope' \in Seq(SUBSET Declaration)
      /\ Len(scope') = Len(scope) + One("typed_case" \in SemaScoped)
  BY <1>3, ScopePush, Types DEF EnterTypedCase, One, SemaScoped
<1>5. /\ jump' \in Seq(JumpContext)
      /\ Len(jump') = Len(jump) + One("typed_case" \in Loops \cup {"switch"})
  BY Types DEF EnterTypedCase, One, Loops
<1>6. /\ cgScope' \in Seq(SUBSET Declaration)
      /\ defers' \in Seq(Seq(Deferred))
      /\ Len(cgScope') = Len(cgScope) + One(on /\ "typed_case" \in CgScoped)
      /\ Len(defers') = Len(defers) + One(on /\ "typed_case" \in CgScoped)
  <2>1. CASE on
    BY <2>1, <1>3, CgPushScope, Types DEF EnterTypedCase, One, CgScoped, SemaScoped
  <2>2. CASE ~on
    BY <2>2, Types DEF EnterTypedCase, Skip, NoScope, One
  <2> QED
    BY <2>1, <2>2
<1>7. /\ breaks' \in Seq(Target) /\ continues' \in Seq(Target)
      /\ Len(breaks') = Len(breaks) + One(on /\ "typed_case" \in Loops \cup Cases)
      /\ Len(continues') = Len(continues) + One(on /\ "typed_case" \in Loops)
  <2>1. CASE on
    <3>1. [node |-> Depth, open |-> Len(defers)] \in Target
      BY TopFacts, Types DEF Target
    <3>2. /\ breaks' = Append(breaks, [node |-> Depth, open |-> Len(defers)])
          /\ continues' = continues
      BY <2>1 DEF EnterTypedCase
    <3>3. breaks' \in Seq(Target) /\ Len(breaks') = Len(breaks) + 1
      BY <3>1, <3>2, AppendFacts, Types
    <3> QED
      BY <2>1, <3>2, <3>3, Types DEF One, Loops, Cases
  <2>2. CASE ~on
    BY <2>2, Types DEF EnterTypedCase, Skip, NoTargets, One
  <2> QED
    BY <2>1, <2>2
<1>8. live' \in BOOLEAN
  BY <1>2, Types DEF EnterTypedCase
<1> HIDE DEF on, decls
<1>9. Measured' /\ path' \in Seq(Construct) \ {<<>>}
  BY <1>1, <1>2, <1>4, <1>5, <1>6, <1>7, Entered DEF Descend
<1>10. TypeOK'
  BY <1>2, <1>4, <1>5, <1>6, <1>7, <1>8, <1>9, Types
     DEF Descend, Begin, TypeOK, SemaTypeOK, CgTypeOK
<1> QED
  BY <1>9, <1>10 DEF Inv

LEMMA EnterElseInv ==
  ASSUME Inv, EnterElse
  PROVE  Inv'
<1> DEFINE on == live
<1>1. Walking /\ (Top.kind \in Lists \/ Top.n < 2)
  BY DEF EnterElse, AtStatement, Walking, Lists, Loops, Cases
<1>2. Descend("else", on) /\ "else" \in Kinds /\ on \in BOOLEAN
  BY TopFacts, Types DEF EnterElse, Kinds, Lists, Loops, Cases, Construct
<1>3. /\ scope' \in Seq(SUBSET Declaration)
      /\ Len(scope') = Len(scope) + One("else" \in SemaScoped)
  BY ScopePush, Types DEF EnterElse, One, SemaScoped
<1>4. /\ jump' \in Seq(JumpContext)
      /\ Len(jump') = Len(jump) + One("else" \in Loops \cup {"switch"})
  BY Types DEF EnterElse, One, Loops
<1>5. /\ cgScope' \in Seq(SUBSET Declaration)
      /\ defers' \in Seq(Seq(Deferred))
      /\ Len(cgScope') = Len(cgScope) + One(on /\ "else" \in CgScoped)
      /\ Len(defers') = Len(defers) + One(on /\ "else" \in CgScoped)
  <2>1. CASE on
    BY <2>1, CgPushScope, Types DEF EnterElse, One, CgScoped, SemaScoped
  <2>2. CASE ~on
    BY <2>2, Types DEF EnterElse, Skip, NoScope, One
  <2> QED
    BY <2>1, <2>2
<1>6. /\ breaks' \in Seq(Target) /\ continues' \in Seq(Target)
      /\ Len(breaks') = Len(breaks) + One(on /\ "else" \in Loops \cup Cases)
      /\ Len(continues') = Len(continues) + One(on /\ "else" \in Loops)
  BY Types DEF EnterElse, Skip, NoTargets, One, Loops, Cases
<1>7. live' \in BOOLEAN
  BY <1>2, Types DEF EnterElse
<1> HIDE DEF on
<1>8. Measured' /\ path' \in Seq(Construct) \ {<<>>}
  BY <1>1, <1>2, <1>3, <1>4, <1>5, <1>6, Entered DEF Descend
<1>9. TypeOK'
  BY <1>2, <1>3, <1>4, <1>5, <1>6, <1>7, <1>8, Types
     DEF Descend, Begin, TypeOK, SemaTypeOK, CgTypeOK
<1> QED
  BY <1>8, <1>9 DEF Inv

LEMMA BeginFunctionInv ==
  ASSUME Inv, NEW params \in SUBSET Names, BeginFunction(params)
  PROVE  Inv'
<1> DEFINE decls == {[name |-> q, id |-> Depth + 1] : q \in params}
           c == [kind |-> "fn", on |-> TRUE, n |-> 0, at |-> Here]
           p == [path EXCEPT ![1].n = 1]
<1>1. decls \in SUBSET Declaration
  BY TopFacts DEF Declaration
<1>2. /\ scope' \in Seq(SUBSET Declaration) /\ Len(scope') = Len(scope) + 1
      /\ cgScope' \in Seq(SUBSET Declaration)
      /\ Len(cgScope') = Len(cgScope) + 1
      /\ defers' \in Seq(Seq(Deferred)) /\ Len(defers') = Len(defers) + 1
  BY <1>1, ScopePush, CgPushScope DEF BeginFunction
<1>3. UNCHANGED <<jump, breaks, continues, pending, closing, panicked,
                  misdirected, misresolved, displaced, lost, rejected>>
  BY DEF BeginFunction
<1>4. path' = Append(p, c) /\ ~closing /\ live' = TRUE
  BY DEF BeginFunction, Walking
<1>5. c \in Construct /\ c.at = Here
  BY Types DEF Construct, Kinds
<1>6. p \in Seq(Construct) /\ SameConstructs(p, path)
  <2>1. 1 \in DOMAIN path /\ path[1] \in Construct
    BY TopFacts
  <2>2. [path[1] EXCEPT !.n = 1] \in Construct
    BY <2>1 DEF Construct
  <2>3. p = [path EXCEPT ![1] = [path[1] EXCEPT !.n = 1]]
    BY <2>1
  <2>4. p \in Seq(Construct) /\ Len(p) = Len(path)
    BY <2>1, <2>2, <2>3, TopFacts, ExceptFacts
  <2>5. ASSUME NEW i \in 1 .. Len(path)
        PROVE  p[i].kind = path[i].kind /\ p[i].on = path[i].on
                 /\ p[i].at = path[i].at
    BY <2>1, <2>3, TopFacts DEF Construct
  <2> QED
    BY <2>4, <2>5 DEF SameConstructs, Inside
<1>7. Here' = Inside(c)
  <2>1. /\ One(c.kind \in SemaScoped) = 1 /\ One(c.on /\ c.kind \in CgScoped) = 1
        /\ One(c.kind \in Loops \cup {"switch"}) = 0
        /\ One(c.on /\ c.kind \in Loops \cup Cases) = 0
        /\ One(c.on /\ c.kind \in Loops) = 0
    BY DEF One, SemaScoped, CgScoped, Loops, Cases
  <2>2. Inside(c) = [scope |-> Len(scope) + 1, jump |-> Len(jump) + 0,
                     defers |-> Len(defers) + 1, breaks |-> Len(breaks) + 0,
                     continues |-> Len(continues) + 0]
    BY <2>1 DEF Here, Inside
  <2> QED
    BY <1>2, <1>3, <2>2, Types DEF Here
<1> HIDE DEF p, c
<1>8. /\ path' \in Seq(Construct) \ {<<>>}
      /\ Rooted(path') /\ Chained(path') /\ Last(path') = c
  BY <1>4, <1>5, <1>6, Pushed
<1>9. Len(cgScope') = Len(defers') + 1
  BY <1>2, <1>4, Types DEF Inv, Measured, One
<1>10. Measured'
  BY <1>2, <1>3, <1>4, <1>7, <1>8, <1>9, Types DEF Measured, Top, One
<1>11. TypeOK'
  BY <1>2, <1>3, <1>4, <1>8, Types DEF TypeOK, SemaTypeOK, CgTypeOK
<1> QED
  BY <1>10, <1>11 DEF Inv

(***************************************************************************)
(* Going up: a construct is left with the stacks as it found them, at once *)
(* or once cg_pop_scope has run.                                           *)
(***************************************************************************)
LEMMA HeightFacts ==
  ASSUME Inv, ~closing
  PROVE  /\ Top.at \in Heights /\ Top.on \in BOOLEAN
         /\ Top.at.scope \in Nat /\ Top.at.jump \in Nat
         /\ Top.at.defers \in Nat /\ Top.at.breaks \in Nat
         /\ Top.at.continues \in Nat
         /\ Len(scope) = Top.at.scope + One(Top.kind \in SemaScoped)
         /\ Len(jump) = Top.at.jump + One(Top.kind \in Loops \cup {"switch"})
         /\ Len(defers) = Top.at.defers + One(Top.on /\ Top.kind \in CgScoped)
         /\ Len(breaks) =
              Top.at.breaks + One(Top.on /\ Top.kind \in Loops \cup Cases)
         /\ Len(continues) = Top.at.continues + One(Top.on /\ Top.kind \in Loops)
         /\ Len(cgScope) = Len(defers) + 1
<1>1. Here = Inside(Top)
  BY DEF Inv, Measured
<1>2. Len(cgScope) = Len(defers) + 1
  BY Types DEF Inv, Measured, One
<1> QED
  BY <1>1, <1>2, TopFacts DEF Here, Inside, Construct, Heights

LEMMA HereIsAt ==
  ASSUME Inv, Len(scope') = Top.at.scope, Len(jump') = Top.at.jump,
         Len(defers') = Top.at.defers, Len(breaks') = Top.at.breaks,
         Len(continues') = Top.at.continues
  PROVE  Here' = Top.at
  BY TopFacts DEF Here, Construct, Heights

LEMMA Left ==
  ASSUME Inv, ~closing, Depth > 1, NoScopeToClose, Here' = Top.at
  PROVE  Measured' /\ path' \in Seq(Construct) \ {<<>>}
<1>1. path' = Front(path) /\ ~closing' /\ UNCHANGED <<cgScope, defers>>
  BY DEF NoScopeToClose, Ascend
<1>2. /\ path' \in Seq(Construct) \ {<<>>}
      /\ Rooted(path') /\ Chained(path')
      /\ Here' = Inside(Last(path'))
  BY <1>1, Popped
<1>3. Len(cgScope') = Len(defers') + 1
  BY <1>1, Types DEF Inv, Measured, One
<1> QED
  BY <1>1, <1>2, <1>3, Types DEF Measured, Top, One

LEMMA LeftScope ==
  ASSUME Inv, ~closing, Depth > 1, Top.kind \in CgScoped, CloseScope,
         Len(scope') = Top.at.scope, Len(jump') = Top.at.jump,
         Len(breaks') = Top.at.breaks + One(Top.on /\ Top.kind \in Cases),
         Len(continues') = Top.at.continues
  PROVE  /\ Measured' /\ path' \in Seq(Construct) \ {<<>>}
         /\ defers' \in Seq(Seq(Deferred)) /\ pending' \in Seq(Deferred)
         /\ closing' \in BOOLEAN
<1>1. Top.at \in Heights /\ Top.on \in BOOLEAN
  BY TopFacts DEF Construct
<1>2. Len(defers) = Top.at.defers + One(Top.on) /\ Len(cgScope) = Len(defers) + 1
  BY Types DEF Inv, Measured, Here, Inside, One
<1>3. CASE Top.on
  <2>1. /\ defers' = Front(defers) /\ pending' = Last(defers) /\ closing' = TRUE
        /\ path' = path /\ cgScope' = cgScope
    BY <1>3 DEF CloseScope, cg_pop_scope_begin
  <2>2. defers # <<>>
    BY <1>1, <1>2, <1>3 DEF Heights, One
  <2>3. /\ defers' \in Seq(Seq(Deferred)) /\ Len(defers') = Len(defers) - 1
        /\ pending' \in Seq(Deferred)
    BY <2>1, <2>2, FrontFacts, LastFacts, Types
  <2>4. Len(defers') = Top.at.defers
    BY <1>1, <1>2, <1>3, <2>3 DEF Heights, One
  <2>5. Here' = Ending(Top)
    BY <1>1, <1>3, <2>4 DEF Here, Ending, Heights, One
  <2>6. Len(cgScope') = Len(defers') + 2
    BY <1>1, <1>2, <1>3, <2>1, <2>4 DEF Heights, One
  <2>7. Measured'
    BY <1>3, <2>1, <2>5, <2>6, TopFacts DEF Measured, Top, One, Inv
  <2> QED
    BY <2>1, <2>3, <2>7, TopFacts
<1>4. CASE ~Top.on
  <2>1. path' = Front(path) /\ UNCHANGED <<defers, pending, closing, cgScope>>
    BY <1>4 DEF CloseScope, Ascend
  <2>2. Here' = Top.at
    BY <1>1, <1>2, <1>4, <2>1 DEF Here, Heights, One
  <2>3. /\ path' \in Seq(Construct) \ {<<>>}
        /\ Rooted(path') /\ Chained(path')
        /\ Here' = Inside(Last(path'))
    BY <2>1, <2>2, Popped
  <2>4. Measured'
    BY <1>2, <2>1, <2>3, Types DEF Measured, Top, One
  <2> QED
    BY <2>1, <2>3, <2>4, Types
<1> QED
  BY <1>1, <1>3, <1>4

LEMMA LeaveBlockInv ==
  ASSUME Inv, LeaveBlock
  PROVE  Inv'
<1>1. ~closing /\ Top.kind \in {"block", "else"} /\ Depth > 1
  BY TopFacts DEF LeaveBlock, Walking
<1>2. scope' \in Seq(SUBSET Declaration) /\ Len(scope') = Top.at.scope
  <2>1. scope # <<>> /\ Len(scope) = Top.at.scope + 1
    BY <1>1, HeightFacts DEF One, SemaScoped
  <2> QED
    BY <1>1, <2>1, HeightFacts, ScopePop, SMTT(30) DEF LeaveBlock
<1>3. jump' \in Seq(JumpContext) /\ Len(jump') = Top.at.jump
  BY <1>1, HeightFacts, Types, SMTT(30) DEF LeaveBlock, One, Loops
<1>4. /\ breaks' \in Seq(Target)
      /\ Len(breaks') = Top.at.breaks + One(Top.on /\ Top.kind \in Cases)
      /\ continues' \in Seq(Target) /\ Len(continues') = Top.at.continues
  BY <1>1, HeightFacts, Types, SMTT(30) DEF LeaveBlock, One, Loops, Cases
<1>5. live' \in BOOLEAN
  BY Types, HeightFacts, <1>1 DEF LeaveBlock
<1>7. CloseScope /\ Top.kind \in CgScoped
  BY <1>1 DEF LeaveBlock, CgScoped, SemaScoped, Cases
<1>8. /\ Measured' /\ path' \in Seq(Construct) \ {<<>>}
      /\ defers' \in Seq(Seq(Deferred)) /\ pending' \in Seq(Deferred)
      /\ closing' \in BOOLEAN
  BY <1>1, <1>2, <1>3, <1>4, <1>7, LeftScope
<1>9. UNCHANGED <<cgScope, panicked, misdirected, misresolved, displaced, lost,
                  rejected>>
  BY <1>7 DEF CloseScope
<1>10. TypeOK'
  BY <1>2, <1>3, <1>4, <1>5, <1>8, <1>9, Types DEF TypeOK, SemaTypeOK, CgTypeOK
<1> QED
  BY <1>8, <1>10 DEF Inv

LEMMA LeaveFunctionInv ==
  ASSUME Inv, LeaveFunction
  PROVE  Inv'
<1>1. ~closing /\ Top.kind \in {"fn"} /\ Depth > 1
  BY TopFacts DEF LeaveFunction, Walking
<1>2. scope' \in Seq(SUBSET Declaration) /\ Len(scope') = Top.at.scope
  <2>1. scope # <<>> /\ Len(scope) = Top.at.scope + 1
    BY <1>1, HeightFacts DEF One, SemaScoped
  <2> QED
    BY <1>1, <2>1, HeightFacts, ScopePop, SMTT(30) DEF LeaveFunction
<1>3. jump' \in Seq(JumpContext) /\ Len(jump') = Top.at.jump
  BY <1>1, HeightFacts, Types DEF LeaveFunction, One, Loops
<1>4. /\ breaks' \in Seq(Target)
      /\ Len(breaks') = Top.at.breaks + One(Top.on /\ Top.kind \in Cases)
      /\ continues' \in Seq(Target) /\ Len(continues') = Top.at.continues
  BY <1>1, HeightFacts, Types DEF LeaveFunction, One, Loops, Cases
<1>5. live' \in BOOLEAN
  BY Types, HeightFacts, <1>1 DEF LeaveFunction
<1>7. CloseScope /\ Top.kind \in CgScoped
  BY <1>1 DEF LeaveFunction, CgScoped, SemaScoped, Cases
<1>8. /\ Measured' /\ path' \in Seq(Construct) \ {<<>>}
      /\ defers' \in Seq(Seq(Deferred)) /\ pending' \in Seq(Deferred)
      /\ closing' \in BOOLEAN
  BY <1>1, <1>2, <1>3, <1>4, <1>7, LeftScope
<1>9. UNCHANGED <<cgScope, panicked, misdirected, misresolved, displaced, lost,
                  rejected>>
  BY <1>7 DEF CloseScope
<1>10. TypeOK'
  BY <1>2, <1>3, <1>4, <1>5, <1>8, <1>9, Types DEF TypeOK, SemaTypeOK, CgTypeOK
<1> QED
  BY <1>8, <1>10 DEF Inv

LEMMA LeaveIfInv ==
  ASSUME Inv, LeaveIf
  PROVE  Inv'
<1>1. ~closing /\ Top.kind \in {"if"} /\ Depth > 1
  BY TopFacts DEF LeaveIf, Walking
<1>2. scope' \in Seq(SUBSET Declaration) /\ Len(scope') = Top.at.scope
  BY <1>1, HeightFacts, Types DEF LeaveIf, One, SemaScoped
<1>3. jump' \in Seq(JumpContext) /\ Len(jump') = Top.at.jump
  BY <1>1, HeightFacts, Types DEF LeaveIf, One, Loops
<1>4. /\ breaks' \in Seq(Target)
      /\ Len(breaks') = Top.at.breaks + One(Top.on /\ Top.kind \in Cases)
      /\ continues' \in Seq(Target) /\ Len(continues') = Top.at.continues
  BY <1>1, HeightFacts, Types DEF LeaveIf, One, Loops, Cases
<1>5. live' \in BOOLEAN
  BY Types, HeightFacts, <1>1 DEF LeaveIf
<1>6. UNCHANGED <<cgScope, defers, pending, closing, panicked, misdirected,
                  misresolved, displaced, lost, rejected>>
  BY DEF LeaveIf, NoScopeToClose
<1>7. Here' = Top.at
  <2>1. Len(defers') = Top.at.defers
    BY <1>1, <1>6, HeightFacts DEF One, CgScoped, SemaScoped
  <2>2. Len(breaks') = Top.at.breaks
    BY <1>1, <1>4, HeightFacts DEF One, Cases
  <2> QED
    BY <1>2, <1>3, <1>4, <2>1, <2>2, HereIsAt
<1>8. /\ Measured' /\ path' \in Seq(Construct) \ {<<>>}
  BY <1>1, <1>7, Left DEF LeaveIf
<1>9. /\ defers' \in Seq(Seq(Deferred)) /\ pending' \in Seq(Deferred)
      /\ closing' \in BOOLEAN
  BY <1>6, Types
<1>10. TypeOK'
  BY <1>2, <1>3, <1>4, <1>5, <1>6, <1>8, <1>9, Types DEF TypeOK, SemaTypeOK, CgTypeOK
<1> QED
  BY <1>8, <1>10 DEF Inv

LEMMA LeaveLoopInv ==
  ASSUME Inv, LeaveLoop
  PROVE  Inv'
<1>1. ~closing /\ Top.kind \in {"loop"} /\ Depth > 1
  BY TopFacts DEF LeaveLoop, Walking
<1>2. scope' \in Seq(SUBSET Declaration) /\ Len(scope') = Top.at.scope
  BY <1>1, HeightFacts, Types DEF LeaveLoop, One, SemaScoped
<1>3. jump' \in Seq(JumpContext) /\ Len(jump') = Top.at.jump
  <2>1. jump # <<>> /\ Len(jump) = Top.at.jump + 1
    BY <1>1, HeightFacts DEF One, Loops
  <2> QED
    BY <1>1, <2>1, HeightFacts, JumpPop, SMTT(30) DEF LeaveLoop, EndLoop
<1>4. /\ breaks' \in Seq(Target) /\ Len(breaks') = Top.at.breaks
      /\ continues' \in Seq(Target) /\ Len(continues') = Top.at.continues
  <2>1. CASE Top.on
    <3>1. breaks # <<>> /\ continues # <<>> /\ pop_loop_targets
      BY <1>1, <2>1, HeightFacts, SMTT(30) DEF LeaveLoop, EndLoop, One, Loops, Cases
    <3>2. /\ Len(breaks) = Top.at.breaks + 1
          /\ Len(continues) = Top.at.continues + 1
      BY <1>1, <2>1, HeightFacts DEF One, Loops, Cases
    <3>3. /\ breaks' \in Seq(Target) /\ Len(breaks') = Len(breaks) - 1
          /\ continues' \in Seq(Target)
          /\ Len(continues') = Len(continues) - 1
      BY <3>1, PopLoopTargets
    <3>4. Top.at.breaks \in Nat /\ Top.at.continues \in Nat
      BY <1>1, HeightFacts
    <3> QED
      BY <3>2, <3>3, <3>4, SMTT(30)
  <2>2. CASE ~Top.on
    BY <1>1, <2>2, HeightFacts, Types, SMTT(30) DEF LeaveLoop, EndLoop, NoTargets, One
  <2> QED
    BY <2>1, <2>2
<1>5. live' \in BOOLEAN
  BY Types, HeightFacts, <1>1 DEF LeaveLoop, EndLoop
<1>6. UNCHANGED <<cgScope, defers, pending, closing, panicked, misdirected,
                  misresolved, displaced, lost, rejected>>
  BY DEF LeaveLoop, NoScopeToClose
<1>7. Here' = Top.at
  <2>1. Len(defers') = Top.at.defers
    BY <1>1, <1>6, HeightFacts DEF One, CgScoped, SemaScoped
  <2>2. Len(breaks') = Top.at.breaks
    BY <1>1, <1>4, HeightFacts DEF One, Cases
  <2> QED
    BY <1>2, <1>3, <1>4, <2>1, <2>2, HereIsAt
<1>8. /\ Measured' /\ path' \in Seq(Construct) \ {<<>>}
  BY <1>1, <1>7, Left DEF LeaveLoop
<1>9. /\ defers' \in Seq(Seq(Deferred)) /\ pending' \in Seq(Deferred)
      /\ closing' \in BOOLEAN
  BY <1>6, Types
<1>10. TypeOK'
  BY <1>2, <1>3, <1>4, <1>5, <1>6, <1>8, <1>9, Types DEF TypeOK, SemaTypeOK, CgTypeOK
<1> QED
  BY <1>8, <1>10 DEF Inv

LEMMA LeaveWhileInv ==
  ASSUME Inv, LeaveWhile
  PROVE  Inv'
<1>1. ~closing /\ Top.kind \in {"while"} /\ Depth > 1
  BY TopFacts DEF LeaveWhile, Walking
<1>2. scope' \in Seq(SUBSET Declaration) /\ Len(scope') = Top.at.scope
  BY <1>1, HeightFacts, Types DEF LeaveWhile, One, SemaScoped
<1>3. jump' \in Seq(JumpContext) /\ Len(jump') = Top.at.jump
  <2>1. jump # <<>> /\ Len(jump) = Top.at.jump + 1
    BY <1>1, HeightFacts DEF One, Loops
  <2> QED
    BY <1>1, <2>1, HeightFacts, JumpPop, SMTT(30) DEF LeaveWhile, EndLoop
<1>4. /\ breaks' \in Seq(Target) /\ Len(breaks') = Top.at.breaks
      /\ continues' \in Seq(Target) /\ Len(continues') = Top.at.continues
  <2>1. CASE Top.on
    <3>1. breaks # <<>> /\ continues # <<>> /\ pop_loop_targets
      BY <1>1, <2>1, HeightFacts, SMTT(30) DEF LeaveWhile, EndLoop, One, Loops, Cases
    <3>2. /\ Len(breaks) = Top.at.breaks + 1
          /\ Len(continues) = Top.at.continues + 1
      BY <1>1, <2>1, HeightFacts DEF One, Loops, Cases
    <3>3. /\ breaks' \in Seq(Target) /\ Len(breaks') = Len(breaks) - 1
          /\ continues' \in Seq(Target)
          /\ Len(continues') = Len(continues) - 1
      BY <3>1, PopLoopTargets
    <3>4. Top.at.breaks \in Nat /\ Top.at.continues \in Nat
      BY <1>1, HeightFacts
    <3> QED
      BY <3>2, <3>3, <3>4, SMTT(30)
  <2>2. CASE ~Top.on
    BY <1>1, <2>2, HeightFacts, Types, SMTT(30) DEF LeaveWhile, EndLoop, NoTargets, One
  <2> QED
    BY <2>1, <2>2
<1>5. live' \in BOOLEAN
  BY Types, HeightFacts, <1>1 DEF LeaveWhile, EndLoop
<1>6. Len(breaks') = Top.at.breaks + One(Top.on /\ Top.kind \in Cases)
  BY <1>1, <1>4, HeightFacts DEF One, Cases
<1>7. CloseScope /\ Top.kind \in CgScoped
  BY <1>1 DEF LeaveWhile, CgScoped, SemaScoped, Cases
<1>8. /\ Measured' /\ path' \in Seq(Construct) \ {<<>>}
      /\ defers' \in Seq(Seq(Deferred)) /\ pending' \in Seq(Deferred)
      /\ closing' \in BOOLEAN
  BY <1>1, <1>2, <1>3, <1>4, <1>6, <1>7, LeftScope
<1>9. UNCHANGED <<cgScope, panicked, misdirected, misresolved, displaced, lost,
                  rejected>>
  BY <1>7 DEF CloseScope
<1>10. TypeOK'
  BY <1>2, <1>3, <1>4, <1>5, <1>8, <1>9, Types DEF TypeOK, SemaTypeOK, CgTypeOK
<1> QED
  BY <1>8, <1>10 DEF Inv

LEMMA LeaveForInv ==
  ASSUME Inv, LeaveFor
  PROVE  Inv'
<1>1. ~closing /\ Top.kind \in {"for", "for_in"} /\ Depth > 1
  BY TopFacts DEF LeaveFor, Walking
<1>2. scope' \in Seq(SUBSET Declaration) /\ Len(scope') = Top.at.scope
  <2>1. scope # <<>> /\ Len(scope) = Top.at.scope + 1
    BY <1>1, HeightFacts DEF One, SemaScoped
  <2> QED
    BY <1>1, <2>1, HeightFacts, ScopePop, SMTT(30) DEF LeaveFor
<1>3. jump' \in Seq(JumpContext) /\ Len(jump') = Top.at.jump
  <2>1. jump # <<>> /\ Len(jump) = Top.at.jump + 1
    BY <1>1, HeightFacts DEF One, Loops
  <2> QED
    BY <1>1, <2>1, HeightFacts, JumpPop, SMTT(30) DEF LeaveFor, EndLoop
<1>4. /\ breaks' \in Seq(Target) /\ Len(breaks') = Top.at.breaks
      /\ continues' \in Seq(Target) /\ Len(continues') = Top.at.continues
  <2>1. CASE Top.on
    <3>1. breaks # <<>> /\ continues # <<>> /\ pop_loop_targets
      BY <1>1, <2>1, HeightFacts DEF LeaveFor, EndLoop, One, Loops, Cases
    <3>2. /\ Len(breaks) = Top.at.breaks + 1
          /\ Len(continues) = Top.at.continues + 1
      BY <1>1, <2>1, HeightFacts DEF One, Loops, Cases
    <3>3. /\ breaks' \in Seq(Target) /\ Len(breaks') = Len(breaks) - 1
          /\ continues' \in Seq(Target)
          /\ Len(continues') = Len(continues) - 1
      BY <3>1, PopLoopTargets
    <3>4. Top.at.breaks \in Nat /\ Top.at.continues \in Nat
      BY <1>1, HeightFacts
    <3> QED
      BY <3>2, <3>3, <3>4, SMTT(30)
  <2>2. CASE ~Top.on
    BY <1>1, <2>2, HeightFacts, Types, SMTT(30) DEF LeaveFor, EndLoop, NoTargets, One
  <2> QED
    BY <2>1, <2>2
<1>5. live' \in BOOLEAN
  BY Types, HeightFacts, <1>1 DEF LeaveFor, EndLoop
<1>6. Len(breaks') = Top.at.breaks + One(Top.on /\ Top.kind \in Cases)
  BY <1>1, <1>4, HeightFacts DEF One, Cases
<1>7. CloseScope /\ Top.kind \in CgScoped
  BY <1>1 DEF LeaveFor, CgScoped, SemaScoped, Cases
<1>8. /\ Measured' /\ path' \in Seq(Construct) \ {<<>>}
      /\ defers' \in Seq(Seq(Deferred)) /\ pending' \in Seq(Deferred)
      /\ closing' \in BOOLEAN
  BY <1>1, <1>2, <1>3, <1>4, <1>6, <1>7, LeftScope
<1>9. UNCHANGED <<cgScope, panicked, misdirected, misresolved, displaced, lost,
                  rejected>>
  BY <1>7 DEF CloseScope
<1>10. TypeOK'
  BY <1>2, <1>3, <1>4, <1>5, <1>8, <1>9, Types DEF TypeOK, SemaTypeOK, CgTypeOK
<1> QED
  BY <1>8, <1>10 DEF Inv

LEMMA LeaveCaseInv ==
  ASSUME Inv, LeaveCase
  PROVE  Inv'
<1>1. ~closing /\ Top.kind \in {"case", "typed_case"} /\ Depth > 1
  BY TopFacts DEF LeaveCase, Walking, Cases
<1>2. scope' \in Seq(SUBSET Declaration) /\ Len(scope') = Top.at.scope
  <2>1. CASE Top.kind = "typed_case"
    <3>1. sema_scope_pop
      BY <2>1 DEF LeaveCase
    <3>2. scope # <<>> /\ Len(scope) = Top.at.scope + 1
      BY <1>1, <2>1, HeightFacts DEF One, SemaScoped
    <3>3. Top.at.scope \in Nat
      BY <1>1, HeightFacts
    <3> QED
      BY <3>1, <3>2, <3>3, ScopePop
  <2>2. CASE Top.kind = "case"
    <3>1. scope' = scope
      BY <2>2 DEF LeaveCase
    <3>2. Len(scope) = Top.at.scope
      BY <1>1, <2>2, HeightFacts DEF One, SemaScoped
    <3> QED
      BY <3>1, <3>2, Types
  <2> QED
    BY <1>1, <2>1, <2>2
<1>3. jump' \in Seq(JumpContext) /\ Len(jump') = Top.at.jump
  BY <1>1, HeightFacts, Types, SMTT(30) DEF LeaveCase, One, Loops
<1>4. /\ breaks' \in Seq(Target)
      /\ Len(breaks') = Top.at.breaks + One(Top.on /\ Top.kind \in Cases)
      /\ continues' \in Seq(Target) /\ Len(continues') = Top.at.continues
  BY <1>1, HeightFacts, Types, SMTT(30) DEF LeaveCase, One, Loops, Cases
<1>5. live' \in BOOLEAN
  BY Types, HeightFacts, <1>1 DEF LeaveCase
<1>7. CloseScope /\ Top.kind \in CgScoped
  BY <1>1 DEF LeaveCase, CgScoped, SemaScoped, Cases
<1>8. /\ Measured' /\ path' \in Seq(Construct) \ {<<>>}
      /\ defers' \in Seq(Seq(Deferred)) /\ pending' \in Seq(Deferred)
      /\ closing' \in BOOLEAN
  BY <1>1, <1>2, <1>3, <1>4, <1>7, LeftScope
<1>9. UNCHANGED <<cgScope, panicked, misdirected, misresolved, displaced, lost,
                  rejected>>
  BY <1>7 DEF CloseScope
<1>10. TypeOK'
  BY <1>2, <1>3, <1>4, <1>5, <1>8, <1>9, Types DEF TypeOK, SemaTypeOK, CgTypeOK
<1> QED
  BY <1>8, <1>10 DEF Inv

LEMMA LeaveSwitchInv ==
  ASSUME Inv, LeaveSwitch
  PROVE  Inv'
<1>1. ~closing /\ Top.kind \in {"switch"} /\ Depth > 1
  BY TopFacts DEF LeaveSwitch, Walking
<1>2. scope' \in Seq(SUBSET Declaration) /\ Len(scope') = Top.at.scope
  BY <1>1, HeightFacts, Types DEF LeaveSwitch, One, SemaScoped
<1>3. jump' \in Seq(JumpContext) /\ Len(jump') = Top.at.jump
  <2>1. jump # <<>> /\ Len(jump) = Top.at.jump + 1
    BY <1>1, HeightFacts DEF One, Loops
  <2> QED
    BY <1>1, <2>1, HeightFacts, JumpPop, SMTT(30) DEF LeaveSwitch, EndLoop
<1>4. /\ breaks' \in Seq(Target)
      /\ Len(breaks') = Top.at.breaks + One(Top.on /\ Top.kind \in Cases)
      /\ continues' \in Seq(Target) /\ Len(continues') = Top.at.continues
  BY <1>1, HeightFacts, Types DEF LeaveSwitch, One, Loops, Cases
<1>5. live' \in BOOLEAN
  BY Types, HeightFacts, <1>1 DEF LeaveSwitch
<1>6. UNCHANGED <<cgScope, defers, pending, closing, panicked, misdirected,
                  misresolved, displaced, lost, rejected>>
  BY DEF LeaveSwitch, NoScopeToClose
<1>7. Here' = Top.at
  <2>1. Len(defers') = Top.at.defers
    BY <1>1, <1>6, HeightFacts, SMTT(30) DEF One, CgScoped, SemaScoped
  <2>2. Len(breaks') = Top.at.breaks
    BY <1>1, <1>4, HeightFacts DEF One, Cases
  <2> QED
    BY <1>2, <1>3, <1>4, <2>1, <2>2, HereIsAt
<1>8. /\ Measured' /\ path' \in Seq(Construct) \ {<<>>}
  BY <1>1, <1>7, Left DEF LeaveSwitch
<1>9. /\ defers' \in Seq(Seq(Deferred)) /\ pending' \in Seq(Deferred)
      /\ closing' \in BOOLEAN
  BY <1>6, Types
<1>10. TypeOK'
  BY <1>2, <1>3, <1>4, <1>5, <1>6, <1>8, <1>9, Types DEF TypeOK, SemaTypeOK, CgTypeOK
<1> QED
  BY <1>8, <1>10 DEF Inv

(***************************************************************************)
(* Visiting a statement.                                                   *)
(***************************************************************************)
LEMMA DefineFacts ==
  ASSUME NEW chain \in Seq(SUBSET Declaration), NEW name \in Names,
         NEW id \in Nat \ {0}
  PROVE  /\ Define(chain, name, id) \in Seq(SUBSET Declaration)
         /\ Len(Define(chain, name, id)) = Len(chain)
<1> DEFINE d == [name |-> name, id |-> id]
<1>1. d \in Declaration
  BY DEF Declaration
<1>2. Define(chain, name, id) = [chain EXCEPT ![Len(chain)] = @ \cup {d}]
  BY DEF Define
<1> HIDE DEF d
<1>3. CASE Len(chain) \in DOMAIN chain
  <2>1. chain[Len(chain)] \cup {d} \in SUBSET Declaration
    BY <1>1, <1>3
  <2>2. Define(chain, name, id) =
          [chain EXCEPT ![Len(chain)] = chain[Len(chain)] \cup {d}]
    BY <1>2
  <2> QED
    BY <1>3, <2>1, <2>2, ExceptFacts
<1>4. CASE Len(chain) \notin DOMAIN chain
  <2>1. chain = [i \in DOMAIN chain |-> chain[i]]
    OBVIOUS
  <2>2. [chain EXCEPT ![Len(chain)] = @ \cup {d}] =
          [i \in DOMAIN chain |-> chain[i]]
    BY <1>4
  <2> QED
    BY <1>2, <2>1, <2>2
<1> QED
  BY <1>3, <1>4

LEMMA ResolveFacts ==
  ASSUME NEW chain \in Seq(SUBSET Declaration), NEW name \in Names
  PROVE  Resolve(chain, name) \in Nat
<1>1. CASE Visible(chain, name) = {}
  BY <1>1 DEF Resolve
<1>2. CASE Visible(chain, name) # {}
  <2>1. Visible(chain, name) \in SUBSET (1 .. Len(chain)) /\ Len(chain) \in Nat
    BY DEF Visible
  <2>2. Max(Visible(chain, name)) \in Visible(chain, name)
    BY <1>2, <2>1, MaxFacts
  <2>3. PICK i \in DOMAIN chain :
          i = Max(Visible(chain, name)) /\ Declared(chain[i], name)
    BY <2>2 DEF Visible
  <2>4. chain[i] \in SUBSET Declaration
    BY <2>3
  <2>5. (CHOOSE d \in chain[i] : d.name = name) \in chain[i]
    BY <2>3 DEF Declared
  <2>6. (CHOOSE d \in chain[i] : d.name = name).id \in Nat
    BY <2>4, <2>5 DEF Declaration
  <2> QED
    BY <1>2, <2>3, <2>6 DEF Resolve
<1> QED
  BY <1>1, <1>2

LEMMA JumpTargetFacts ==
  ASSUME Inv
  PROVE  sema_find_break_jump \in Nat /\ sema_find_loop_jump \in Nat
<1>1. sema_find_break_jump \in Nat
  <2>1. jump # <<>> => Last(jump) \in JumpContext
    BY Types, LastFacts
  <2> QED
    BY <2>1 DEF sema_find_break_jump, JumpContext
<1>2. sema_find_loop_jump \in Nat
  <2>1. CASE LoopJumps = {}
    BY <2>1 DEF sema_find_loop_jump
  <2>2. CASE LoopJumps # {}
    <3>1. LoopJumps \in SUBSET (1 .. Len(jump)) /\ Len(jump) \in Nat
      BY Types DEF LoopJumps
    <3>2. Max(LoopJumps) \in LoopJumps
      BY <2>2, <3>1, MaxFacts
    <3>3. PICK i \in 1 .. Len(jump) : i = Max(LoopJumps)
      BY <3>1, <3>2
    <3>4. jump[i] \in JumpContext
      BY <3>3, Types
    <3> QED
      BY <2>2, <3>3, <3>4 DEF sema_find_loop_jump, JumpContext
  <2> QED
    BY <2>1, <2>2
<1> QED
  BY <1>1, <1>2

Statements == Simple \cup Naming

LEMMA SemaTargetFacts ==
  ASSUME Inv, NEW stmt \in Statements, SemaAccepts(stmt)
  PROVE  SemaTarget(stmt) \in Nat \ {0}
<1>1. CASE stmt.op \in {"break", "continue"}
  BY <1>1, JumpTargetFacts DEF SemaTarget, SemaAccepts
<1>2. CASE stmt.op = "use"
  <2>1. stmt.name \in Names
    BY <1>2 DEF Statements, Simple, Naming
  <2>2. sema_resolve(stmt.name) \in Nat
    BY <2>1, ResolveFacts, Types DEF sema_resolve
  <2> QED
    BY <1>2, <2>2 DEF SemaTarget, SemaAccepts
<1>3. CASE stmt.op \notin {"break", "continue", "use"}
  BY <1>3, TopFacts DEF SemaTarget
<1> QED
  BY <1>1, <1>2, <1>3

LEMMA SemaSourceFacts ==
  ASSUME Inv, NEW stmt \in Statements
  PROVE  SemaSource(stmt) \in Nat
<1>1. stmt.init # NoName => stmt.init \in Names
  BY DEF Statements, Simple, Naming
<1> QED
  BY <1>1, ResolveFacts, Types DEF SemaSource, sema_resolve

LEMMA SemaCheckFacts ==
  ASSUME Inv, NEW stmt \in Statements, sema_check_stmt(stmt)
  PROVE  /\ scope' \in Seq(SUBSET Declaration) /\ Len(scope') = Len(scope)
         /\ jump' = jump
<1>1. CASE stmt.op = "let"
  <2>1. stmt.name \in Names
    BY <1>1 DEF Statements, Simple, Naming
  <2>2. scope' = Define(scope, stmt.name, Depth)
    BY <1>1 DEF sema_check_stmt
  <2>3. /\ Define(scope, stmt.name, Depth) \in Seq(SUBSET Declaration)
        /\ Len(Define(scope, stmt.name, Depth)) = Len(scope)
    BY <2>1, DefineFacts, Types, TopFacts
  <2>4. jump' = jump
    BY DEF sema_check_stmt
  <2> QED
    BY <2>2, <2>3, <2>4
<1>2. CASE stmt.op # "let"
  BY <1>2, Types DEF sema_check_stmt
<1> QED
  BY <1>1, <1>2

LEMMA CgDeferFacts ==
  ASSUME Inv, NEW d \in Deferred, cg_defer(d)
  PROVE  /\ cgScope' = cgScope
         /\ defers' \in Seq(Seq(Deferred)) /\ Len(defers') = Len(defers)
         /\ live' \in BOOLEAN /\ panicked' \in Panics
         /\ UNCHANGED <<misdirected, misresolved, lost>>
<1>1. CASE defers = <<>>
  BY <1>1, Types DEF cg_defer, cg_panic, Panics
<1>2. CASE defers # <<>>
  <2>1. Len(defers) \in DOMAIN defers /\ defers[Len(defers)] \in Seq(Deferred)
    BY <1>2, Types
  <2>2. Append(defers[Len(defers)], d) \in Seq(Deferred)
    BY <2>1, AppendFacts
  <2>3. defers' = [defers EXCEPT ![Len(defers)] = Append(defers[Len(defers)], d)]
    BY <1>2 DEF cg_defer
  <2>4. defers' \in Seq(Seq(Deferred)) /\ Len(defers') = Len(defers)
    BY <2>1, <2>2, <2>3, ExceptFacts, Types
  <2> QED
    BY <1>2, <2>4, Types DEF cg_defer
<1> QED
  BY <1>1, <1>2

LEMMA CgStatementFacts ==
  ASSUME Inv, NEW stmt \in Statements, NEW target \in Nat \ {0},
         NEW from, cg_statement(stmt, target, from)
  PROVE  /\ cgScope' \in Seq(SUBSET Declaration) /\ Len(cgScope') = Len(cgScope)
         /\ defers' = defers
         /\ live' \in BOOLEAN /\ panicked' \in Panics
         /\ misdirected' \in BOOLEAN /\ misresolved' \in BOOLEAN
         /\ lost' \in BOOLEAN
<1>1. CASE cg_plain
  BY <1>1, Types DEF cg_plain
<1>2. CASE cg_break(target) \/ cg_continue(target)
  BY <1>2, Types DEF cg_break, cg_continue, cg_jump, cg_panic, Panics
<1>3. CASE cg_return \/ cg_binary_else
  BY <1>3, Types DEF cg_return, cg_binary_else
<1>4. CASE stmt.op = "let" /\ cg_let(stmt.name, target, stmt.init, from)
  <2>1. stmt.name \in Names
    BY <1>4 DEF Statements, Simple, Naming
  <2>2. cgScope' \in {cgScope, Define(cgScope, stmt.name, target)}
    BY <1>4 DEF cg_let, WithSymbol
  <2>3. cgScope' \in Seq(SUBSET Declaration) /\ Len(cgScope') = Len(cgScope)
    BY <2>1, <2>2, DefineFacts, Types
  <2>4. panicked' \in Panics /\ misresolved' \in BOOLEAN
    BY <1>4, LookupFacts, Types DEF cg_let
  <2> QED
    BY <1>4, <2>3, <2>4, Types DEF cg_let
<1>5. CASE cg_use(stmt.name, target)
  BY <1>5, LookupFacts, Types DEF cg_use
<1> QED
  BY <1>1, <1>2, <1>3, <1>4, <1>5 DEF cg_statement

(* A statement leaves every stack as high as it was.                       *)
LEMMA Visited ==
  ASSUME Inv, ~closing, ~closing', Top.kind \in Lists \/ Top.n < 2,
         path' = Counted, Here' = Here, Len(cgScope') = Len(cgScope),
         Len(defers') = Len(defers)
  PROVE  Measured' /\ path' \in Seq(Construct) \ {<<>>}
<1>1. path' \in Seq(Construct) /\ SameConstructs(path', path)
  BY CountedFacts
<1>2. path' # <<>> /\ Len(path') = Len(path)
  BY <1>1, TopFacts DEF SameConstructs, Depth
<1>3. Rooted(path')
  BY <1>1, TopFacts DEF Inv, Measured, Rooted, SameConstructs, Depth
<1>4. Chained(path')
  <2>1. ASSUME NEW i \in 1 .. Len(path) - 1
        PROVE  path'[i + 1].at = Inside(path'[i])
    <3>1. path[i + 1].at = Inside(path[i])
      BY DEF Inv, Measured, Chained
    <3>2. i \in 1 .. Len(path') /\ i + 1 \in 1 .. Len(path')
      BY <1>2, TopFacts
    <3> QED
      BY <1>1, <3>1, <3>2 DEF SameConstructs
  <2> QED
    BY <1>2, <2>1 DEF Chained
<1>5. Here' = Inside(Last(path'))
  <2>1. Last(path') = path'[Len(path)] /\ Len(path) \in 1 .. Len(path')
    BY <1>2, TopFacts DEF Last
  <2>2. Inside(path'[Len(path)]) = Inside(path[Len(path)])
    BY <1>1, <2>1 DEF SameConstructs
  <2>3. Here = Inside(path[Len(path)])
    BY TopFacts DEF Inv, Measured, Depth
  <2> QED
    BY <2>1, <2>2, <2>3
<1>6. Len(cgScope') = Len(defers') + 1
  BY Types DEF Inv, Measured, One
<1> QED
  BY <1>1, <1>2, <1>3, <1>4, <1>5, <1>6, Types DEF Measured, Top, One

LEMMA StatementInv ==
  ASSUME Inv, NEW stmt \in Statements, Statement(stmt)
  PROVE  Inv'
<1>1. ~closing /\ ~closing' /\ (Top.kind \in Lists \/ Top.n < 2)
  BY DEF Statement, AtStatement, Walking, Lists, Loops, Cases
<1>2. /\ scope' \in Seq(SUBSET Declaration) /\ Len(scope') = Len(scope)
      /\ jump' = jump
  BY SemaCheckFacts DEF Statement
<1>3. /\ SemaTarget(stmt) \in Nat \ {0}
      /\ cg_statement(stmt, SemaTarget(stmt), SemaSource(stmt))
  BY SemaTargetFacts DEF Statement
<1>4. /\ cgScope' \in Seq(SUBSET Declaration) /\ Len(cgScope') = Len(cgScope)
      /\ defers' = defers
      /\ live' \in BOOLEAN /\ panicked' \in Panics
      /\ misdirected' \in BOOLEAN /\ misresolved' \in BOOLEAN
      /\ lost' \in BOOLEAN
  BY <1>3, CgStatementFacts
<1>5. /\ UNCHANGED <<breaks, continues, pending, closing, rejected>>
      /\ path' = Counted
      /\ displaced' \in BOOLEAN
  BY DEF Statement
<1>6. Here' = Here
  BY <1>2, <1>4, <1>5 DEF Here
<1>7. Measured' /\ path' \in Seq(Construct) \ {<<>>}
  BY <1>1, <1>4, <1>5, <1>6, Visited
<1>8. TypeOK'
  BY <1>2, <1>4, <1>5, <1>7, Types DEF TypeOK, SemaTypeOK, CgTypeOK
<1> QED
  BY <1>7, <1>8 DEF Inv

LEMMA DeferInv ==
  ASSUME Inv, NEW stmt \in Statements, NEW nest \in 0 .. MaxNest,
         Defer(stmt, nest)
  PROVE  Inv'
<1> DEFINE d == [stmt |-> stmt, target |-> SemaTarget(stmt),
                 from |-> SemaSource(stmt), nest |-> nest]
<1>1. ~closing /\ ~closing' /\ (Top.kind \in Lists \/ Top.n < 2)
  BY DEF Defer, AtStatement, Walking, Lists, Loops, Cases
<1>2. /\ scope' \in Seq(SUBSET Declaration) /\ Len(scope') = Len(scope)
      /\ jump' = jump
  BY SemaCheckFacts DEF Defer
<1>3. d \in Deferred
  <2>1. SemaTarget(stmt) \in Nat \ {0} /\ SemaSource(stmt) \in Nat
    BY SemaTargetFacts, SemaSourceFacts DEF Defer
  <2> QED
    BY <2>1 DEF Deferred, Statements
<1>4. /\ cgScope' = cgScope
      /\ defers' \in Seq(Seq(Deferred)) /\ Len(defers') = Len(defers)
      /\ live' \in BOOLEAN /\ panicked' \in Panics
      /\ UNCHANGED <<misdirected, misresolved, lost>>
  <2>1. CASE live
    <3>1. cg_defer(d)
      BY <2>1 DEF Defer
    <3> QED
      BY <1>3, <3>1, CgDeferFacts
  <2>2. CASE ~live
    BY <2>2, Types DEF Defer, cg_plain
  <2> QED
    BY <2>1, <2>2
<1>5. /\ UNCHANGED <<breaks, continues, pending, closing, rejected>>
      /\ path' = Counted
      /\ displaced' \in BOOLEAN
  BY DEF Defer
<1>6. Here' = Here
  BY <1>2, <1>4, <1>5 DEF Here
<1>7. Measured' /\ path' \in Seq(Construct) \ {<<>>}
  BY <1>1, <1>4, <1>5, <1>6, Visited
<1>8. TypeOK'
  BY <1>2, <1>4, <1>5, <1>7, Types DEF TypeOK, SemaTypeOK, CgTypeOK
<1> QED
  BY <1>7, <1>8 DEF Inv

(***************************************************************************)
(* Closing a scope.                                                        *)
(***************************************************************************)
LEMMA LessNested ==
  ASSUME NEW d \in Deferred, d.nest > 0
  PROVE  [d EXCEPT !.nest = @ - 1] \in Deferred
<1> PICK n : n = d.nest - 1
  OBVIOUS
<1>1. /\ d.stmt \in Statements /\ d.target \in Nat \ {0} /\ d.from \in Nat
      /\ n \in 0 .. MaxNest
  BY MaxNestAssumption DEF Deferred, Statements
<1>2. [d EXCEPT !.nest = @ - 1] =
        [stmt |-> d.stmt, target |-> d.target, from |-> d.from, nest |-> n]
  BY DEF Deferred
<1> QED
  BY <1>1, <1>2 DEF Deferred, Statements

LEMMA EmitDeferredInv ==
  ASSUME Inv, EmitDeferred
  PROVE  Inv'
<1> DEFINE d == Last(pending)
           e == [d EXCEPT !.nest = @ - 1]
<1>1. closing /\ pending # <<>> /\ pending' = Front(pending)
  BY DEF EmitDeferred, cg_emit_deferred
<1>2. d \in Deferred /\ pending' \in Seq(Deferred)
  BY <1>1, LastFacts, FrontFacts, Types
<1>3. d.stmt \in Statements /\ d.target \in Nat \ {0}
      /\ d.nest \in 0 .. MaxNest
  BY <1>2 DEF Deferred, Statements
<1>4. /\ cgScope' \in Seq(SUBSET Declaration) /\ Len(cgScope') = Len(cgScope)
      /\ defers' \in Seq(Seq(Deferred)) /\ Len(defers') = Len(defers)
      /\ live' \in BOOLEAN /\ panicked' \in Panics
      /\ misdirected' \in BOOLEAN /\ misresolved' \in BOOLEAN
      /\ lost' \in BOOLEAN
  <2>1. CASE live /\ d.nest > 0
    <3>1. e \in Deferred
      BY <1>2, <2>1, LessNested
    <3>2. cg_defer(e)
      BY <2>1 DEF EmitDeferred, cg_emit_deferred
    <3> QED
      BY <3>1, <3>2, CgDeferFacts, Types
  <2>2. CASE ~ (live /\ d.nest > 0)
    <3>1. cg_statement(d.stmt, d.target, d.from)
      BY <2>2 DEF EmitDeferred, cg_emit_deferred
    <3> QED
      BY <1>3, <3>1, CgStatementFacts, Types
  <2> QED
    BY <2>1, <2>2
<1>5. UNCHANGED <<scope, jump, path, rejected, breaks, continues, closing,
                  displaced>>
  BY DEF EmitDeferred, cg_emit_deferred, semaVars, walkVars
<1>6. Here' = Here
  BY <1>4, <1>5 DEF Here
<1>7. Measured'
  BY <1>4, <1>5, <1>6 DEF Inv, Measured, Top
<1>8. TypeOK'
  BY <1>2, <1>4, <1>5, <1>7, TopFacts, Types DEF TypeOK, SemaTypeOK, CgTypeOK
<1> QED
  BY <1>7, <1>8 DEF Inv

LEMMA EndScopeInv ==
  ASSUME Inv, EndScope
  PROVE  Inv'
<1>1. /\ closing /\ closing' = FALSE /\ path' = Front(path)
      /\ cgScope' = Front(cgScope)
      /\ UNCHANGED <<scope, jump, defers, continues, pending, panicked,
                     misdirected, misresolved, displaced, lost, rejected>>
  BY DEF EndScope, cg_pop_scope_end, Ascend, semaVars
<1>2. /\ Here = Ending(Top) /\ Len(cgScope) = Len(defers) + 2
      /\ Top.kind \in CgScoped
  BY <1>1, Types DEF Inv, Measured, One
<1>3. Depth > 1
  BY <1>2, TopFacts DEF CgScoped, SemaScoped
<1>4. cgScope' \in Seq(SUBSET Declaration) /\ Len(cgScope') = Len(defers) + 1
  <2>1. cgScope # <<>>
    BY <1>2, Types
  <2> QED
    BY <1>1, <1>2, <2>1, FrontFacts, Types
<1>5. /\ Top.at.breaks \in Nat
      /\ Len(scope) = Top.at.scope /\ Len(jump) = Top.at.jump
      /\ Len(defers) = Top.at.defers /\ Len(continues) = Top.at.continues
      /\ Len(breaks) = Top.at.breaks + One(Top.kind \in Cases)
  BY <1>2, TopFacts DEF Here, Ending, Construct, Heights
<1>6. breaks' \in Seq(Target) /\ Len(breaks') = Top.at.breaks
  <2>1. CASE Top.kind \in Cases
    <3>1. breaks' = Front(breaks)
      BY <2>1 DEF EndScope
    <3>2. Len(breaks) = Top.at.breaks + 1 /\ breaks # <<>>
      BY <1>5, <2>1 DEF One
    <3> QED
      BY <1>5, <3>1, <3>2, FrontFacts, Types
  <2>2. CASE Top.kind \notin Cases
    BY <1>5, <2>2, Types DEF EndScope, One
  <2> QED
    BY <2>1, <2>2
<1>7. Here' = Top.at
  BY <1>1, <1>5, <1>6, HereIsAt
<1>8. /\ path' \in Seq(Construct) \ {<<>>}
      /\ Rooted(path') /\ Chained(path')
      /\ Here' = Inside(Last(path'))
  BY <1>1, <1>3, <1>7, Popped
<1>9. Measured'
  BY <1>1, <1>4, <1>8, Types DEF Measured, Top, One
<1>10. live' \in BOOLEAN
  BY Types DEF EndScope
<1>11. TypeOK'
  BY <1>1, <1>4, <1>6, <1>8, <1>10, Types DEF TypeOK, SemaTypeOK, CgTypeOK
<1> QED
  BY <1>9, <1>11 DEF Inv

(***************************************************************************)
(* The theorems.                                                           *)
(***************************************************************************)
LEMMA InvInit == Init => Inv
<1> SUFFICES ASSUME Init
             PROVE  Inv
  OBVIOUS
<1>1. TypeOK
  <2>1. SemaTypeOK
    <3>1. {} \in SUBSET Declaration
      OBVIOUS
    <3>2. <<{}>> \in Seq(SUBSET Declaration)
      BY <3>1
    <3> QED
      BY <3>2 DEF Init, SemaInit, SemaTypeOK
  <2>2. CgTypeOK
    <3>1. {} \in SUBSET Declaration
      OBVIOUS
    <3>2. <<{}>> \in Seq(SUBSET Declaration)
      BY <3>1
    <3>3. \A S : <<>> \in Seq(S)
      OBVIOUS
    <3>4. cgScope \in Seq(SUBSET Declaration)
      BY <3>2 DEF Init, CgInit
    <3>5. /\ defers \in Seq(Seq(Deferred)) /\ breaks \in Seq(Target)
          /\ continues \in Seq(Target) /\ pending \in Seq(Deferred)
      BY <3>3, Zenon DEF Init, CgInit
    <3> QED
      BY <3>4, <3>5 DEF Init, CgInit, CgTypeOK, Panics
  <2>3. path \in Seq(Construct) \ {<<>>} /\ rejected \in BOOLEAN
    <3>1. path[1] \in Construct
      BY DEF Init, Construct, Heights, Kinds, Lists
    <3>2. \A c \in Construct : <<c>> \in Seq(Construct) \ {<<>>}
      OBVIOUS
    <3> QED
      BY <3>1, <3>2 DEF Init
  <2> QED
    BY <2>1, <2>2, <2>3 DEF TypeOK
<1>2. Measured
  BY DEF Init, SemaInit, CgInit, Measured, Rooted, Chained, Top, Here, Inside,
         One, SemaScoped, CgScoped, Loops, Cases, Last
<1> QED
  BY <1>1, <1>2 DEF Inv

LEMMA InvNext == Inv /\ [Next]_vars => Inv'
<1> SUFFICES ASSUME Inv, [Next]_vars
             PROVE  Inv'
  OBVIOUS
<1>1. CASE Enter
  <2>1. ASSUME NEW name \in Names \cup {NoName}, NEW init,
               EnterFor("for", name, init) \/ EnterFor("for_in", name, init)
        PROVE  Inv'
    BY <2>1, EnterForInv
  <2>2. ASSUME NEW name \in Names, EnterTypedCase(name)
        PROVE  Inv'
    BY <2>2, EnterTypedCaseInv
  <2>3. ASSUME NEW params \in SUBSET Names, BeginFunction(params)
        PROVE  Inv'
    BY <2>3, BeginFunctionInv
  <2> QED
    BY <1>1, <2>1, <2>2, <2>3, EnterBlockInv, EnterIfInv, EnterLoopInv,
       EnterWhileInv, EnterSwitchInv, EnterCaseInv, EnterElseInv DEF Enter
<1>2. CASE Leave
  BY <1>2, LeaveBlockInv, LeaveFunctionInv, LeaveIfInv, LeaveLoopInv,
     LeaveWhileInv, LeaveForInv, LeaveCaseInv, LeaveSwitchInv DEF Leave
<1>3. CASE Visit
  <2>1. PICK stmt \in Statements :
          \/ Refuse(stmt) \/ Statement(stmt)
          \/ \E nest \in 0 .. MaxNest : Defer(stmt, nest)
    BY <1>3 DEF Visit, Statements
  <2>2. CASE Refuse(stmt)
    BY <2>2 DEF Refuse, semaVars, cgVars, Inv, Measured, Here, Top,
       TypeOK, SemaTypeOK, CgTypeOK
  <2> QED
    BY <2>1, <2>2, StatementInv, DeferInv
<1>4. CASE EmitDeferred
  BY <1>4, EmitDeferredInv
<1>5. CASE EndScope
  BY <1>5, EndScopeInv
<1>6. CASE UNCHANGED vars
  BY <1>6 DEF vars, semaVars, cgVars, walkVars, Inv, Measured, Here, Top,
     TypeOK, SemaTypeOK, CgTypeOK
<1> QED
  BY <1>1, <1>2, <1>3, <1>4, <1>5, <1>6 DEF Next

(* Every stack of both passes keeps its type, and none is ever popped or   *)
(* looked into when it is empty, at any nesting depth.                     *)
THEOREM TypeCorrect == Spec => []TypeOK
<1>1. Spec => []Inv
  BY InvInit, InvNext, PTL DEF Spec
<1> QED
  BY <1>1, PTL DEF Inv

(* The height of each stack is a function of the constructs open around    *)
(* the node being visited.                                                 *)
THEOREM StacksMeasured == Spec => []Measured
<1>1. Spec => []Inv
  BY InvInit, InvNext, PTL DEF Spec
<1> QED
  BY <1>1, PTL DEF Inv

(* Back at the top level every stack is as it was at the start, however    *)
(* deep the functions before were nested and whatever they deferred: a     *)
(* function never sees a scope, a target or a deferred statement of the    *)
(* one compiled before it.                                                 *)
THEOREM FunctionsIndependent == Spec => []Balanced
<1>1. Inv => Balanced
  <2> SUFFICES ASSUME Inv, Walking, Depth = 1
               PROVE  /\ Len(scope) = 1 /\ jump = <<>>
                      /\ Len(cgScope) = 1 /\ defers = <<>>
                      /\ breaks = <<>> /\ continues = <<>>
    BY DEF Balanced
  <2>1. Top.kind = "root" /\ Top.at = [scope |-> 1, jump |-> 0, defers |-> 0,
                                      breaks |-> 0, continues |-> 0]
    BY TopFacts DEF Inv, Measured, Rooted
  <2>2. /\ Len(scope) = 1 /\ Len(jump) = 0 /\ Len(defers) = 0
        /\ Len(breaks) = 0 /\ Len(continues) = 0 /\ Len(cgScope) = 1
    BY <2>1, HeightFacts
       DEF Walking, One, SemaScoped, CgScoped, Loops, Cases
  <2> QED
    BY <2>2, Types
<1>2. Spec => []Inv
  BY InvInit, InvNext, PTL DEF Spec
<1> QED
  BY <1>1, <1>2, PTL

(***************************************************************************)
(* What the entries of the stacks name.                                    *)
(***************************************************************************)
JumpKinds == Loops \cup {"switch"}

(* Stacks are no lower inside a construct than around it.  In code that is *)
(* generated there is an exit block for every jump context, but for the    *)
(* one of the `switch` a case has just been entered from, and nothing is   *)
(* pushed inside a construct that is skipped.                              *)
LevelOrder(c) ==
  /\ c.at.breaks <= c.at.jump
  /\ c.on => c.at.breaks + One(c.kind \in Cases) = c.at.jump

Around(c, d) ==
  /\ Inside(c).jump <= d.at.jump
  /\ Inside(c).defers <= d.at.defers
  /\ Inside(c).breaks <= d.at.breaks
  /\ Inside(c).continues <= d.at.continues
  /\ d.on => c.on
  /\ ~c.on => d.at.breaks = Inside(c).breaks

PathOrder(p) ==
  /\ p[1].on
  /\ \A a \in DOMAIN p : LevelOrder(p[a])
  /\ \A a, b \in DOMAIN p : a < b => Around(p[a], p[b])

(* The jump contexts are the loops and switches among the first m          *)
(* constructs, each at the height it was entered at.                       *)
Contexts(p, j, m) ==
  /\ \A i \in DOMAIN j :
       /\ j[i].node \in 1 .. m
       /\ p[j[i].node].kind \in JumpKinds /\ p[j[i].node].at.jump = i - 1
       /\ j[i].is_loop <=> p[j[i].node].kind \in Loops
  /\ \A a \in 1 .. m : p[a].kind \in JumpKinds =>
       p[a].at.jump + 1 \in DOMAIN j /\ j[p[a].at.jump + 1].node = a

(* Exit blocks name what the jump contexts name.                           *)
ExitsNamed(j, b) ==
  \A i \in DOMAIN b : i \in DOMAIN j /\ b[i].node = j[i].node

(* The continue blocks are those of the loops that are generated, and each *)
(* of them has an exit block.                                              *)
LoopsNamed(p, b, c, m) ==
  /\ \A k \in DOMAIN c :
       /\ c[k].node \in 1 .. m
       /\ p[c[k].node].kind \in Loops /\ p[c[k].node].on
       /\ p[c[k].node].at.continues = k - 1
       /\ p[c[k].node].at.breaks + 1 \in DOMAIN b
       /\ b[p[c[k].node].at.breaks + 1] = c[k]
  /\ \A a \in 1 .. m : p[a].kind \in Loops /\ p[a].on =>
       p[a].at.continues + 1 \in DOMAIN c /\ c[p[a].at.continues + 1].node = a

(* A deferred jump out of construct n, around which there are h contexts,  *)
(* goes to the innermost of these, or to the innermost loop.               *)
Lands(j, h, d, n) ==
  d.target < n =>
    /\ d.stmt.op = "break" => h >= 1 /\ j[h].node = d.target
    /\ d.stmt.op = "continue" =>
         \E i \in 1 .. h : /\ j[i].node = d.target /\ j[i].is_loop
                           /\ \A k \in i + 1 .. h : ~j[k].is_loop

ListLands(j, h, list, n) == \A x \in DOMAIN list : Lands(j, h, list[x], n)

DefersLand(p, j, lists) ==
  \A n \in DOMAIN p :
    p[n].on /\ p[n].kind \in CgScoped /\ p[n].at.defers + 1 \in DOMAIN lists
      => ListLands(j, p[n].at.jump, lists[p[n].at.defers + 1], n)

(* Analysis has left a loop when the generator closes its scope.           *)
Open == Depth - One(closing)

Agreed ==
  /\ PathOrder(path)
  /\ Contexts(path, jump, Open)
  /\ ExitsNamed(jump, breaks)
  /\ LoopsNamed(path, breaks, continues, Open)
  /\ ~closing /\ live => Top.on
  /\ DefersLand(path, jump, defers)
  /\ closing => ListLands(jump, Top.at.jump, pending, Depth)
  /\ ~closing => pending = <<>>

LEMMA ConstructFacts ==
  ASSUME NEW c \in Construct
  PROVE  /\ c.at.jump \in Nat /\ c.at.defers \in Nat
         /\ c.at.breaks \in Nat /\ c.at.continues \in Nat
         /\ c.on \in BOOLEAN /\ c.kind \in Kinds
         /\ Inside(c).jump = c.at.jump + One(c.kind \in JumpKinds)
         /\ Inside(c).defers = c.at.defers + One(c.on /\ c.kind \in CgScoped)
         /\ Inside(c).breaks =
              c.at.breaks + One(c.on /\ c.kind \in Loops \cup Cases)
         /\ Inside(c).continues =
              c.at.continues + One(c.on /\ c.kind \in Loops)
  BY DEF Construct, Heights, Inside, JumpKinds

LEMMA OneFacts == One(TRUE) = 1 /\ One(FALSE) = 0 /\ \A b : One(b) \in {0, 1}
  BY DEF One

LEMMA InsideFacts ==
  ASSUME NEW c \in Construct
  PROVE  /\ Inside(c).jump >= c.at.jump /\ Inside(c).defers >= c.at.defers
         /\ Inside(c).breaks >= c.at.breaks
         /\ Inside(c).continues >= c.at.continues
         /\ c.at.jump \in Nat /\ Inside(c).jump \in Nat
         /\ c.at.defers \in Nat /\ Inside(c).defers \in Nat
         /\ c.at.breaks \in Nat /\ Inside(c).breaks \in Nat
         /\ c.at.continues \in Nat /\ Inside(c).continues \in Nat
<1>1. /\ One(c.kind \in JumpKinds) \in Nat
      /\ One(c.on /\ c.kind \in CgScoped) \in Nat
      /\ One(c.on /\ c.kind \in Loops \cup Cases) \in Nat
      /\ One(c.on /\ c.kind \in Loops) \in Nat
  BY DEF One
<1> QED
  BY <1>1, ConstructFacts

LEMMA PlaceFacts ==
  ASSUME Inv, NEW a \in DOMAIN path
  PROVE  path[a] \in Construct /\ a \in 1 .. Depth /\ a \in Nat
  BY TopFacts DEF Depth

(* The heights now, by the construct being visited.                        *)
LEMMA NowFacts ==
  ASSUME Inv
  PROVE  /\ ~closing => /\ Len(jump) = Inside(Top).jump
                        /\ Len(defers) = Inside(Top).defers
                        /\ Len(breaks) = Inside(Top).breaks
                        /\ Len(continues) = Inside(Top).continues
         /\ closing => /\ Top.on /\ Top.kind \in CgScoped
                       /\ Len(jump) = Top.at.jump
                       /\ Len(defers) = Top.at.defers
                       /\ Len(breaks) = Top.at.breaks + One(Top.kind \in Cases)
                       /\ Len(continues) = Top.at.continues
<1>1. Top \in Construct
  BY TopFacts
<1>2. closing => Here = Ending(Top)
  BY DEF Inv, Measured
<1>3. ~closing => Here = Inside(Top)
  BY DEF Inv, Measured
<1>4. closing => Top.on /\ Top.kind \in CgScoped
  BY DEF Inv, Measured
<1>5. closing => /\ Len(jump) = Top.at.jump
                 /\ Len(defers) = Top.at.defers
                 /\ Len(breaks) = Top.at.breaks + One(Top.kind \in Cases)
                 /\ Len(continues) = Top.at.continues
  BY <1>1, <1>2 DEF Here, Ending, Construct, Heights
<1>6. ~closing => /\ Len(jump) = Inside(Top).jump
                  /\ Len(defers) = Inside(Top).defers
                  /\ Len(breaks) = Inside(Top).breaks
                  /\ Len(continues) = Inside(Top).continues
  BY <1>3 DEF Here, Inside
<1> QED
  BY <1>4, <1>5, <1>6

(* As many contexts as there were around a construct are there now.        *)
LEMMA ContextsAround ==
  ASSUME Inv, PathOrder(path), NEW a \in DOMAIN path
  PROVE  path[a].at.jump \in 0 .. Len(jump) /\ Len(jump) \in Nat
<1>1. Top = path[Depth] /\ Depth \in DOMAIN path /\ Len(jump) \in Nat
  BY TopFacts, Types
<1>2. Top \in Construct /\ path[a] \in Construct /\ a \in 1 .. Depth
  BY TopFacts, PlaceFacts
<1>3. Len(jump) >= Top.at.jump
  <2>1. Inside(Top).jump >= Top.at.jump /\ Top.at.jump \in Nat
    BY <1>2, ConstructFacts, OneFacts
  <2>2. Len(jump) = Inside(Top).jump \/ Len(jump) = Top.at.jump
    BY NowFacts
  <2> QED
    BY <2>1, <2>2
<1>4. CASE a < Depth
  <2>1. Inside(path[a]).jump <= Top.at.jump
    BY <1>1, <1>4 DEF PathOrder, Around
  <2> QED
    BY <1>1, <1>2, <1>3, <2>1, ConstructFacts, OneFacts, SMTT(30)
<1>5. CASE a = Depth
  BY <1>1, <1>2, <1>3, <1>5, ConstructFacts
<1> QED
  BY <1>1, <1>2, <1>4, <1>5

LEMMA OpenFacts ==
  ASSUME Inv
  PROVE  /\ Open \in {Depth - 1, Depth} /\ Open \in Nat
         /\ Depth \in Nat \ {0} /\ DOMAIN path = 1 .. Depth
         /\ (~closing => Open = Depth) /\ (closing => Open = Depth - 1)
  BY TopFacts, Types DEF Open, One, Depth

(***************************************************************************)
(* What was around a construct stays when the stacks are cut to it.        *)
(***************************************************************************)
Cut(t, s, n) == Len(t) = n /\ n <= Len(s) /\ \A i \in 1 .. n : t[i] = s[i]

LEMMA CutFacts ==
  ASSUME NEW S, NEW t \in Seq(S), NEW s \in Seq(S), NEW n \in Nat, Cut(t, s, n)
  PROVE  /\ DOMAIN t = 1 .. n /\ DOMAIN s = 1 .. Len(s) /\ Len(s) \in Nat
         /\ n <= Len(s)
         /\ \A i \in 1 .. n : i \in DOMAIN s /\ t[i] = s[i]
  BY DEF Cut

LEMMA LandsKept ==
  ASSUME NEW h \in Nat, NEW j, NEW i, \A k \in 1 .. h : i[k] = j[k],
         NEW d, NEW n, Lands(j, h, d, n)
  PROVE  Lands(i, h, d, n)
<1> SUFFICES ASSUME d.target < n
             PROVE  /\ d.stmt.op = "break" => h >= 1 /\ i[h].node = d.target
                    /\ d.stmt.op = "continue" =>
                         \E x \in 1 .. h :
                           /\ i[x].node = d.target /\ i[x].is_loop
                           /\ \A k \in x + 1 .. h : ~i[k].is_loop
  BY DEF Lands
<1>1. CASE d.stmt.op = "break"
  BY <1>1 DEF Lands
<1>2. CASE d.stmt.op = "continue"
  <2>1. PICK x \in 1 .. h : /\ j[x].node = d.target /\ j[x].is_loop
                            /\ \A k \in x + 1 .. h : ~j[k].is_loop
    BY <1>2 DEF Lands
  <2>2. \A k \in x + 1 .. h : k \in 1 .. h
    BY <2>1
  <2> QED
    BY <1>2, <2>1, <2>2
<1> QED
  BY <1>1, <1>2

LEMMA CutContexts ==
  ASSUME Inv, Agreed, NEW j \in Seq(JumpContext), Cut(j, jump, Top.at.jump)
  PROVE  Contexts(path, j, Depth - 1)
<1>1. /\ Top \in Construct /\ Top = path[Depth] /\ Top.at.jump \in Nat
      /\ DOMAIN path = 1 .. Depth /\ Depth \in Nat \ {0}
      /\ Open \in {Depth - 1, Depth}
  BY TopFacts, OpenFacts, ConstructFacts
<1>2. DOMAIN j = 1 .. Top.at.jump
      /\ \A i \in 1 .. Top.at.jump : i \in DOMAIN jump /\ j[i] = jump[i]
  BY <1>1, Types DEF Cut
<1>3. ASSUME NEW i \in DOMAIN j
      PROVE  /\ j[i].node \in 1 .. Depth - 1
             /\ path[j[i].node].kind \in JumpKinds
             /\ path[j[i].node].at.jump = i - 1
             /\ j[i].is_loop <=> path[j[i].node].kind \in Loops
  <2>1. /\ jump[i].node \in 1 .. Open
        /\ path[jump[i].node].kind \in JumpKinds
        /\ path[jump[i].node].at.jump = i - 1
        /\ jump[i].is_loop <=> path[jump[i].node].kind \in Loops
        /\ j[i] = jump[i] /\ i \in 1 .. Top.at.jump
    BY <1>2 DEF Agreed, Contexts
  <2>2. jump[i].node # Depth
    BY <1>1, <2>1
  <2> QED
    BY <1>1, <2>1, <2>2
<1>4. ASSUME NEW a \in 1 .. Depth - 1, path[a].kind \in JumpKinds
      PROVE  path[a].at.jump + 1 \in DOMAIN j
             /\ j[path[a].at.jump + 1].node = a
  <2>1. a \in 1 .. Open /\ a < Depth /\ a \in DOMAIN path /\ Depth \in DOMAIN path
    BY <1>1
  <2>2. /\ path[a].at.jump + 1 \in DOMAIN jump
        /\ jump[path[a].at.jump + 1].node = a
    BY <1>4, <2>1 DEF Agreed, Contexts
  <2>3. Inside(path[a]).jump <= Top.at.jump
    BY <1>1, <2>1 DEF Agreed, PathOrder, Around
  <2>4. path[a].at.jump \in Nat /\ Inside(path[a]).jump = path[a].at.jump + 1
    BY <1>4, <2>1, PlaceFacts, ConstructFacts, OneFacts
  <2> QED
    BY <1>1, <1>2, <2>2, <2>3, <2>4
<1> QED
  BY <1>3, <1>4 DEF Contexts

LEMMA CutLoops ==
  ASSUME Inv, Agreed, NEW b \in Seq(Target), NEW c \in Seq(Target),
         NEW n \in Nat, n >= Top.at.breaks,
         Cut(b, breaks, n), Cut(c, continues, Top.at.continues)
  PROVE  LoopsNamed(path, b, c, Depth - 1)
<1>1. /\ Top \in Construct /\ Top = path[Depth]
      /\ Top.at.continues \in Nat /\ Top.at.breaks \in Nat
      /\ DOMAIN path = 1 .. Depth /\ Depth \in Nat \ {0}
      /\ Open \in {Depth - 1, Depth}
  BY TopFacts, OpenFacts, ConstructFacts
<1>2. DOMAIN b = 1 .. n /\ \A i \in 1 .. n : b[i] = breaks[i]
  BY DEF Cut
<1>3. DOMAIN c = 1 .. Top.at.continues
      /\ \A i \in 1 .. Top.at.continues :
           i \in DOMAIN continues /\ c[i] = continues[i]
  <2>1. continues \in Seq(Target)
    BY Types
  <2> QED
    BY <1>1, <2>1, CutFacts
<1>4. ASSUME NEW k \in DOMAIN c
      PROVE  /\ c[k].node \in 1 .. Depth - 1
             /\ path[c[k].node].kind \in Loops /\ path[c[k].node].on
             /\ path[c[k].node].at.continues = k - 1
             /\ path[c[k].node].at.breaks + 1 \in DOMAIN b
             /\ b[path[c[k].node].at.breaks + 1] = c[k]
  <2> DEFINE a == continues[k].node
  <2>1. /\ a \in 1 .. Open /\ path[a].kind \in Loops /\ path[a].on
        /\ path[a].at.continues = k - 1
        /\ path[a].at.breaks + 1 \in DOMAIN breaks
        /\ breaks[path[a].at.breaks + 1] = continues[k]
        /\ c[k] = continues[k] /\ k \in 1 .. Top.at.continues
    BY <1>3 DEF Agreed, LoopsNamed
  <2>2. a # Depth
    BY <1>1, <2>1
  <2>3. a \in 1 .. Depth - 1 /\ a < Depth /\ a \in DOMAIN path
          /\ Depth \in DOMAIN path
    BY <1>1, <2>1, <2>2
  <2> HIDE DEF a
  <2>4. Inside(path[a]).breaks <= Top.at.breaks
    BY <1>1, <2>3 DEF Agreed, PathOrder, Around
  <2>5. path[a].at.breaks \in Nat
          /\ Inside(path[a]).breaks = path[a].at.breaks + 1
    BY <2>1, <2>3, PlaceFacts, ConstructFacts, OneFacts
  <2>6. path[a].at.breaks + 1 \in 1 .. n
    <3>1. path[a].at.breaks + 1 <= Top.at.breaks /\ Top.at.breaks <= n
      BY <2>4, <2>5
    <3>2. Top.at.breaks \in Nat
      BY <1>1
    <3> HIDE DEF a
    <3> DEFINE x == path[a].at.breaks  y == Top.at.breaks
    <3>3. x \in Nat /\ y \in Nat /\ x + 1 <= y /\ y <= n
      BY <2>5, <3>1, <3>2
    <3> HIDE DEF x, y
    <3>4. x + 1 \in 1 .. n
      BY <3>3
    <3> QED
      BY <3>4 DEF x
  <2> QED
    BY <1>2, <2>1, <2>3, <2>6 DEF a
<1>5. ASSUME NEW a \in 1 .. Depth - 1, path[a].kind \in Loops, path[a].on
      PROVE  path[a].at.continues + 1 \in DOMAIN c
             /\ c[path[a].at.continues + 1].node = a
  <2>1. a \in 1 .. Open /\ a < Depth /\ a \in DOMAIN path /\ Depth \in DOMAIN path
    BY <1>1
  <2>2. /\ path[a].at.continues + 1 \in DOMAIN continues
        /\ continues[path[a].at.continues + 1].node = a
    BY <1>5, <2>1 DEF Agreed, LoopsNamed
  <2>3. Inside(path[a]).continues <= Top.at.continues
    BY <1>1, <2>1 DEF Agreed, PathOrder, Around
  <2>4. path[a].at.continues \in Nat
          /\ Inside(path[a]).continues = path[a].at.continues + 1
    BY <1>5, <2>1, PlaceFacts, ConstructFacts, OneFacts
  <2> QED
    BY <1>1, <1>3, <2>2, <2>3, <2>4
<1> QED
  BY <1>4, <1>5 DEF LoopsNamed

LEMMA CutExits ==
  ASSUME Inv, Agreed, NEW j \in Seq(JumpContext), NEW b \in Seq(Target),
         NEW m \in Nat, NEW n \in Nat, n <= m,
         Cut(j, jump, m), Cut(b, breaks, n)
  PROVE  ExitsNamed(j, b)
<1>1. /\ DOMAIN b = 1 .. n /\ DOMAIN j = 1 .. m
      /\ \A i \in 1 .. n : i \in DOMAIN breaks /\ b[i] = breaks[i]
      /\ \A i \in 1 .. m : j[i] = jump[i]
  BY Types DEF Cut
<1>2. \A i \in 1 .. n : i \in 1 .. m
  OBVIOUS
<1> QED
  BY <1>1, <1>2 DEF Agreed, ExitsNamed

LEMMA CutLists ==
  ASSUME Inv, Agreed, NEW j \in Seq(JumpContext), NEW l \in Seq(Seq(Deferred)),
         Cut(j, jump, Top.at.jump), Cut(l, defers, Top.at.defers),
         NEW n \in 1 .. Depth - 1, path[n].on, path[n].kind \in CgScoped
  PROVE  /\ path[n].at.defers + 1 \in DOMAIN l
         /\ ListLands(j, path[n].at.jump, l[path[n].at.defers + 1], n)
<1>1. /\ Top = path[Depth] /\ n \in DOMAIN path /\ Depth \in DOMAIN path
      /\ n < Depth /\ path[n] \in Construct /\ Top \in Construct
  BY TopFacts, OpenFacts, PlaceFacts
<1>2. Around(path[n], Top)
  BY <1>1 DEF Agreed, PathOrder
<1>3. /\ path[n].at.defers \in Nat /\ path[n].at.jump \in Nat
      /\ Top.at.defers \in Nat /\ Top.at.jump \in Nat
      /\ path[n].at.defers + 1 <= Top.at.defers
      /\ path[n].at.jump <= Top.at.jump
  <2>1. /\ Inside(path[n]).jump <= Top.at.jump
        /\ Inside(path[n]).defers <= Top.at.defers
    BY <1>2 DEF Around
  <2>2. /\ Inside(path[n]).jump >= path[n].at.jump
        /\ Inside(path[n]).defers = path[n].at.defers + 1
        /\ Inside(path[n]).jump \in Nat
        /\ path[n].at.defers \in Nat /\ path[n].at.jump \in Nat
    <3>1. One(path[n].on /\ path[n].kind \in CgScoped) = 1
      BY DEF One
    <3>2. One(path[n].kind \in JumpKinds) \in {0, 1}
      BY OneFacts
    <3> QED
      BY <1>1, <3>1, <3>2, ConstructFacts
  <2>3. Top.at.defers \in Nat /\ Top.at.jump \in Nat
    BY <1>1, ConstructFacts
  <2> QED
    BY <2>1, <2>2, <2>3
<1>4. path[n].at.defers + 1 \in 1 .. Top.at.defers
  BY <1>3
<1>5. /\ path[n].at.defers + 1 \in DOMAIN l
      /\ path[n].at.defers + 1 \in DOMAIN defers
      /\ l[path[n].at.defers + 1] = defers[path[n].at.defers + 1]
  <2>1. defers \in Seq(Seq(Deferred))
    BY Types
  <2>2. /\ DOMAIN l = 1 .. Top.at.defers
        /\ \A i \in 1 .. Top.at.defers : i \in DOMAIN defers /\ l[i] = defers[i]
    <3> DEFINE S == Seq(Deferred)
    <3>1. l \in Seq(S) /\ defers \in Seq(S)
      BY <2>1
    <3> HIDE DEF S
    <3> QED
      BY <1>3, <3>1, CutFacts
  <2> QED
    BY <1>4, <2>2
<1>6. ListLands(jump, path[n].at.jump, defers[path[n].at.defers + 1], n)
  BY <1>1, <1>5 DEF Agreed, DefersLand
<1>7. \A k \in 1 .. path[n].at.jump : j[k] = jump[k]
  <2>1. \A k \in 1 .. path[n].at.jump : k \in 1 .. Top.at.jump
    BY <1>3
  <2> QED
    BY <2>1 DEF Cut
<1> QED
  BY <1>3, <1>5, <1>6, <1>7, LandsKept DEF ListLands

(***************************************************************************)
(* Going up, closing a scope, and staying in the same construct.           *)
(***************************************************************************)
Alike(q, p, m) ==
  \A i \in 1 .. m : /\ q[i].kind = p[i].kind /\ q[i].on = p[i].on
                    /\ q[i].at = p[i].at /\ Inside(q[i]) = Inside(p[i])

LEMMA StillContexts ==
  ASSUME NEW p, NEW q, NEW m \in Nat, Alike(q, p, m), NEW j, Contexts(p, j, m)
  PROVE  Contexts(q, j, m)
<1>1. ASSUME NEW i \in DOMAIN j
      PROVE  /\ j[i].node \in 1 .. m
             /\ q[j[i].node].kind \in JumpKinds
             /\ q[j[i].node].at.jump = i - 1
             /\ j[i].is_loop <=> q[j[i].node].kind \in Loops
  BY Zenon DEF Contexts, Alike
<1>2. ASSUME NEW a \in 1 .. m, q[a].kind \in JumpKinds
      PROVE  q[a].at.jump + 1 \in DOMAIN j /\ j[q[a].at.jump + 1].node = a
  BY <1>2, Zenon DEF Contexts, Alike
<1> QED
  BY <1>1, <1>2 DEF Contexts

LEMMA StillLoops ==
  ASSUME NEW p, NEW q, NEW m \in Nat, Alike(q, p, m), NEW b, NEW c,
         LoopsNamed(p, b, c, m)
  PROVE  LoopsNamed(q, b, c, m)
<1>1. ASSUME NEW k \in DOMAIN c
      PROVE  /\ c[k].node \in 1 .. m
             /\ q[c[k].node].kind \in Loops /\ q[c[k].node].on
             /\ q[c[k].node].at.continues = k - 1
             /\ q[c[k].node].at.breaks + 1 \in DOMAIN b
             /\ b[q[c[k].node].at.breaks + 1] = c[k]
  <2>1. /\ c[k].node \in 1 .. m
        /\ p[c[k].node].kind \in Loops /\ p[c[k].node].on
        /\ p[c[k].node].at.continues = k - 1
        /\ p[c[k].node].at.breaks + 1 \in DOMAIN b
        /\ b[p[c[k].node].at.breaks + 1] = c[k]
    BY DEF LoopsNamed
  <2>2. /\ q[c[k].node].kind = p[c[k].node].kind
        /\ q[c[k].node].on = p[c[k].node].on
        /\ q[c[k].node].at = p[c[k].node].at
    BY <2>1 DEF Alike
  <2> QED
    BY <2>1, <2>2
<1>2. ASSUME NEW a \in 1 .. m, q[a].kind \in Loops, q[a].on
      PROVE  q[a].at.continues + 1 \in DOMAIN c
             /\ c[q[a].at.continues + 1].node = a
  BY <1>2, Zenon DEF LoopsNamed, Alike
<1> QED
  BY <1>1, <1>2 DEF LoopsNamed

LEMMA StillOrdered ==
  ASSUME NEW p, NEW q, NEW m \in Nat, NEW n \in 1 .. m,
         DOMAIN p = 1 .. m, DOMAIN q = 1 .. n, Alike(q, p, n), PathOrder(p)
  PROVE  PathOrder(q)
<1>1. \A a \in 1 .. n : a \in 1 .. m
  OBVIOUS
<1>2. q[1].on
  BY DEF PathOrder, Alike
<1>3. ASSUME NEW a \in 1 .. n
      PROVE  LevelOrder(q[a])
  BY <1>1 DEF PathOrder, Alike, LevelOrder
<1>4. ASSUME NEW a \in 1 .. n, NEW b \in 1 .. n, a < b
      PROVE  Around(q[a], q[b])
  BY <1>1, <1>4 DEF PathOrder, Alike, Around
<1> QED
  BY <1>2, <1>3, <1>4 DEF PathOrder

LEMMA NextTypes ==
  ASSUME Inv'
  PROVE  /\ jump' \in Seq(JumpContext) /\ breaks' \in Seq(Target)
         /\ continues' \in Seq(Target) /\ defers' \in Seq(Seq(Deferred))
         /\ path' \in Seq(Construct) /\ path' # <<>>
         /\ closing' \in BOOLEAN
  BY DEF Inv, TypeOK, SemaTypeOK, CgTypeOK

LEMMA UpAgreed ==
  ASSUME Inv, Inv', Agreed, Depth > 1, path' = Front(path), ~closing',
         Cut(jump', jump, Top.at.jump), Cut(breaks', breaks, Top.at.breaks),
         Cut(continues', continues, Top.at.continues),
         Cut(defers', defers, Top.at.defers),
         pending' = <<>>, live' => path[Depth - 1].on
  PROVE  Agreed'
<1>1. /\ path \in Seq(Construct) /\ path # <<>> /\ Depth = Len(path)
      /\ Top = path[Depth] /\ Top \in Construct
      /\ DOMAIN path = 1 .. Depth /\ Depth \in Nat
  BY TopFacts, OpenFacts DEF Depth
<1>2. /\ path' \in Seq(Construct) /\ Len(path') = Depth - 1
      /\ DOMAIN path' = 1 .. Depth - 1
      /\ \A i \in 1 .. Depth - 1 : path'[i] = path[i]
  BY <1>1, FrontFacts
<1>3. Depth' = Depth - 1 /\ Open' = Depth - 1 /\ Depth - 1 \in 1 .. Depth
  BY <1>1, <1>2, NextTypes DEF Depth, Open, One
<1>4. Alike(path', path, Depth - 1)
  BY <1>2 DEF Alike
<1>5. PathOrder(path')
  BY <1>1, <1>2, <1>3, <1>4, StillOrdered DEF Agreed
<1>6. Contexts(path', jump', Depth - 1)
  BY <1>3, <1>4, CutContexts, StillContexts, NextTypes
<1>7. LevelOrder(Top) /\ Top.at.breaks \in Nat /\ Top.at.jump \in Nat
  BY <1>1, ConstructFacts DEF Agreed, PathOrder
<1>8. LoopsNamed(path', breaks', continues', Depth - 1)
  <2>1. LoopsNamed(path, breaks', continues', Depth - 1)
    BY <1>7, CutLoops, NextTypes
  <2> QED
    BY <2>1, <1>3, <1>4, StillLoops
<1>9. ExitsNamed(jump', breaks')
  BY <1>7, CutExits, NextTypes DEF LevelOrder
<1>10. DefersLand(path', jump', defers')
  <2> SUFFICES ASSUME NEW n \in 1 .. Depth - 1, path'[n].on,
                      path'[n].kind \in CgScoped
               PROVE  ListLands(jump', path'[n].at.jump,
                                defers'[path'[n].at.defers + 1], n)
    BY <1>2 DEF DefersLand
  <2>1. path'[n] = path[n]
    BY <1>2
  <2>2. ListLands(jump', path[n].at.jump, defers'[path[n].at.defers + 1], n)
    BY <2>1, CutLists, NextTypes
  <2> QED
    BY <2>1, <2>2
<1>11. live' => Top'.on
  <2>1. Top' = path'[Depth - 1]
    BY <1>2, <1>3, NextTypes, LastFacts DEF Top
  <2> QED
    BY <1>2, <1>3, <2>1
<1> QED
  BY <1>3, <1>5, <1>6, <1>8, <1>9, <1>10, <1>11 DEF Agreed

LEMMA ClosingAgreed ==
  ASSUME Inv, Inv', Agreed, ~closing, closing', path' = path,
         Top.on, Top.kind \in CgScoped,
         Cut(jump', jump, Top.at.jump),
         Cut(breaks', breaks, Top.at.breaks + One(Top.kind \in Cases)),
         Cut(continues', continues, Top.at.continues),
         Cut(defers', defers, Top.at.defers),
         pending' = defers[Top.at.defers + 1]
  PROVE  Agreed'
<1>1. /\ Top = path[Depth] /\ Top \in Construct
      /\ DOMAIN path = 1 .. Depth /\ Depth \in Nat \ {0}
  BY TopFacts, OpenFacts
<1>2. Depth' = Depth /\ Open' = Depth - 1 /\ Top' = Top
  BY <1>1, NextTypes DEF Depth, Open, One, Top
<1>3. Contexts(path, jump', Depth - 1)
  BY CutContexts, NextTypes
<1>4. /\ LevelOrder(Top) /\ Top.at.breaks \in Nat /\ Top.at.jump \in Nat
      /\ Top.at.defers \in Nat /\ One(Top.kind \in Cases) \in {0, 1}
  BY <1>1, ConstructFacts, OneFacts DEF Agreed, PathOrder
<1>5. LoopsNamed(path, breaks', continues', Depth - 1)
  <2>1. /\ Top.at.breaks + One(Top.kind \in Cases) \in Nat
        /\ Top.at.breaks + One(Top.kind \in Cases) >= Top.at.breaks
    BY <1>4
  <2> QED
    BY <2>1, CutLoops, NextTypes
<1>6. ExitsNamed(jump', breaks')
  <2>1. Top.at.breaks + One(Top.kind \in Cases) = Top.at.jump
    BY <1>4 DEF LevelOrder
  <2>2. Top.at.jump <= Top.at.jump /\ Cut(breaks', breaks, Top.at.jump)
    BY <1>4, <2>1
  <2> QED
    BY <1>4, <2>2, CutExits, NextTypes
<1>7. DefersLand(path, jump', defers')
  <2> SUFFICES ASSUME NEW n \in 1 .. Depth, path[n].on,
                      path[n].kind \in CgScoped,
                      path[n].at.defers + 1 \in DOMAIN defers'
               PROVE  ListLands(jump', path[n].at.jump,
                                defers'[path[n].at.defers + 1], n)
    BY <1>1 DEF DefersLand
  <2>1. n # Depth
    <3>1. DOMAIN defers' = 1 .. Top.at.defers
      BY NextTypes, SMTT(30) DEF Cut
    <3> QED
      BY <1>1, <1>4, <3>1
  <2>2. n \in 1 .. Depth - 1
    BY <1>1, <2>1
  <2> QED
    BY <2>2, CutLists, NextTypes
<1>8. ListLands(jump', Top.at.jump, pending', Depth)
  <2>1. Len(defers) = Top.at.defers + 1
    <3>1. One(Top.on /\ Top.kind \in CgScoped) = 1
      BY DEF One
    <3> QED
      BY <1>1, <3>1, NowFacts, ConstructFacts
  <2>2. Top.at.defers + 1 \in DOMAIN defers
    BY <1>4, <2>1, Types, SMTT(30)
  <2>3. ListLands(jump, Top.at.jump, defers[Top.at.defers + 1], Depth)
    BY <1>1, <2>2 DEF Agreed, DefersLand
  <2>4. \A k \in 1 .. Top.at.jump : jump'[k] = jump[k]
    BY DEF Cut
  <2> QED
    BY <1>4, <2>3, <2>4, LandsKept DEF ListLands
<1> QED
  BY <1>2, <1>3, <1>5, <1>6, <1>7, <1>8 DEF Agreed

LEMMA StayAgreed ==
  ASSUME Inv, Inv', Agreed, SameConstructs(path', path),
         UNCHANGED <<jump, breaks, continues, closing>>,
         live' => live \/ closing,
         DefersLand(path, jump, defers'),
         closing => ListLands(jump, Top.at.jump, pending', Depth),
         ~closing => pending' = <<>>
  PROVE  Agreed'
<1>1. /\ path \in Seq(Construct) /\ path # <<>> /\ Depth = Len(path)
      /\ Top = path[Depth] /\ Top \in Construct
      /\ DOMAIN path = 1 .. Depth /\ Depth \in Nat \ {0}
      /\ Open \in 0 .. Depth
  BY TopFacts, OpenFacts DEF Depth
<1>2. path' \in Seq(Construct) /\ Len(path') = Depth /\ DOMAIN path' = 1 .. Depth
  BY <1>1, NextTypes DEF SameConstructs
<1>3. Depth' = Depth /\ Open' = Open /\ Depth \in 1 .. Depth /\ Open \in Nat
  BY <1>1, <1>2 DEF Depth, Open
<1>4. Alike(path', path, Depth) /\ Alike(path', path, Open)
  <2>1. Alike(path', path, Depth)
    BY <1>2 DEF Alike, SameConstructs
  <2>2. \A i \in 1 .. Open : i \in 1 .. Depth
    BY <1>1
  <2> QED
    BY <2>1, <2>2 DEF Alike
<1>5. PathOrder(path')
  BY <1>1, <1>2, <1>3, <1>4, StillOrdered DEF Agreed
<1>6. Contexts(path', jump', Open)
  BY <1>3, <1>4, StillContexts DEF Agreed
<1>7. LoopsNamed(path', breaks', continues', Open)
  <2>1. LoopsNamed(path', breaks, continues, Open)
    BY <1>3, <1>4, StillLoops DEF Agreed
  <2> QED
    BY <2>1
<1>8. Top'.on = Top.on /\ Top'.at = Top.at
  <2>1. Top' = path'[Depth]
    BY <1>2, <1>3, NextTypes, LastFacts DEF Top
  <2> QED
    BY <1>1, <1>4, <2>1 DEF Alike
<1>9. ~closing' /\ live' => Top'.on
  BY <1>8 DEF Agreed
<1>10. DefersLand(path', jump', defers')
  BY <1>1, <1>2, <1>4 DEF DefersLand, Alike
<1>11. closing' => ListLands(jump', Top'.at.jump, pending', Depth')
  BY <1>3, <1>8
<1>12. ExitsNamed(jump', breaks')
  BY DEF Agreed
<1> QED
  BY <1>3, <1>5, <1>6, <1>7, <1>9, <1>10, <1>11, <1>12 DEF Agreed

(***************************************************************************)
(* Going down.                                                             *)
(***************************************************************************)

(* Nothing around a construct is higher than what is inside the one being  *)
(* visited.                                                                *)
LEMMA UnderNow ==
  ASSUME Inv, Agreed, NEW a \in 1 .. Depth
  PROVE  /\ Inside(path[a]).jump <= Inside(Top).jump
         /\ Inside(path[a]).defers <= Inside(Top).defers
         /\ Inside(path[a]).breaks <= Inside(Top).breaks
         /\ Inside(path[a]).continues <= Inside(Top).continues
         /\ Top.on => path[a].on
         /\ ~path[a].on => Inside(Top).breaks = Inside(path[a]).breaks
<1>1. /\ Top = path[Depth] /\ Top \in Construct
      /\ DOMAIN path = 1 .. Depth /\ Depth \in Nat /\ Depth \in 1 .. Depth
      /\ path[a] \in Construct
  BY TopFacts, OpenFacts, PlaceFacts
<1>2. /\ Inside(Top).jump >= Top.at.jump
      /\ Inside(Top).defers >= Top.at.defers
      /\ Inside(Top).breaks >= Top.at.breaks
      /\ Inside(Top).continues >= Top.at.continues
      /\ Top.at.jump \in Nat /\ Inside(Top).jump \in Nat
      /\ Top.at.defers \in Nat /\ Inside(Top).defers \in Nat
      /\ Top.at.breaks \in Nat /\ Inside(Top).breaks \in Nat
      /\ Top.at.continues \in Nat /\ Inside(Top).continues \in Nat
  BY <1>1, InsideFacts
<1>3. /\ Inside(path[a]).jump \in Nat /\ Inside(path[a]).defers \in Nat
      /\ Inside(path[a]).breaks \in Nat /\ Inside(path[a]).continues \in Nat
  BY <1>1, InsideFacts
<1>4. CASE a = Depth
  BY <1>1, <1>2, <1>4
<1>5. CASE a # Depth
  <2>1. Around(path[a], Top)
    <3>1. a < Depth
      BY <1>1, <1>5
    <3> QED
      BY <1>1, <3>1 DEF Agreed, PathOrder
  <2>2. ~Top.on => Inside(Top).breaks = Top.at.breaks
    BY <1>1, <1>2, ConstructFacts DEF One
  <2> QED
    BY <1>2, <1>3, <2>1, <2>2 DEF Around
<1> QED
  BY <1>4, <1>5

(* In code that is generated every context has its exit block, but that of *)
(* a `switch` before a case is entered.                                    *)
LEMMA Level ==
  ASSUME Inv, Agreed
  PROVE  /\ Inside(Top).breaks <= Inside(Top).jump
         /\ Top.on => Inside(Top).breaks + One(Top.kind = "switch")
                        = Inside(Top).jump
<1>1. /\ Top = path[Depth] /\ Top \in Construct /\ Depth \in DOMAIN path
      /\ LevelOrder(Top)
  BY TopFacts DEF Agreed, PathOrder
<1>2. /\ Top.at.jump \in Nat /\ Top.at.breaks \in Nat /\ Top.on \in BOOLEAN
      /\ Inside(Top).jump = Top.at.jump + One(Top.kind \in JumpKinds)
      /\ Inside(Top).breaks =
           Top.at.breaks + One(Top.on /\ Top.kind \in Loops \cup Cases)
  BY <1>1, ConstructFacts
<1>3. CASE Top.kind \in Loops
  BY <1>1, <1>2, <1>3 DEF LevelOrder, One, JumpKinds, Loops, Cases
<1>4. CASE Top.kind \in Cases
  BY <1>1, <1>2, <1>4 DEF LevelOrder, One, JumpKinds, Loops, Cases
<1>5. CASE Top.kind \notin Loops \cup Cases
  BY <1>1, <1>2, <1>5 DEF LevelOrder, One, JumpKinds, Loops, Cases
<1> QED
  BY <1>3, <1>4, <1>5

(* The context of the construct being visited is the last.                 *)
LEMMA LastContext ==
  ASSUME Inv, Agreed, ~closing, Top.kind \in JumpKinds
  PROVE  /\ jump # <<>> /\ Len(jump) = Top.at.jump + 1
         /\ jump[Len(jump)].node = Depth
<1>1. /\ Top = path[Depth] /\ Top \in Construct /\ Open = Depth
      /\ Depth \in 1 .. Depth
  BY TopFacts, OpenFacts
<1>2. Len(jump) = Top.at.jump + 1 /\ Top.at.jump \in Nat
  BY <1>1, NowFacts, ConstructFacts, OneFacts
<1>3. jump[Top.at.jump + 1].node = Depth
  BY <1>1 DEF Agreed, Contexts
<1> QED
  BY <1>2, <1>3

Entering(c) ==
  /\ jump' = IF c.kind \in JumpKinds
               THEN Append(jump, [node |-> Depth + 1,
                                  is_loop |-> c.kind \in Loops])
               ELSE jump
  /\ defers' = IF c.on /\ c.kind \in CgScoped
                 THEN Append(defers, <<>>) ELSE defers
  /\ IF c.on /\ c.kind \in Loops \cup Cases
       THEN \E open \in Nat :
              breaks' = Append(breaks,
                               [node |-> IF c.kind \in Loops THEN Depth + 1
                                                             ELSE Depth,
                                open |-> open])
       ELSE breaks' = breaks
  /\ continues' = IF c.on /\ c.kind \in Loops
                    THEN Append(continues, Last(breaks')) ELSE continues

LEMMA PushFacts ==
  ASSUME NEW S, NEW s \in Seq(S), NEW e, NEW t \in Seq(S), t = Append(s, e)
  PROVE  /\ DOMAIN s = 1 .. Len(s) /\ DOMAIN t = 1 .. Len(s) + 1
         /\ Len(s) \in Nat /\ Len(t) = Len(s) + 1
         /\ t[Len(s) + 1] = e /\ Last(t) = e
         /\ \A i \in 1 .. Len(s) : t[i] = s[i]
<1>1. Len(s) \in Nat /\ DOMAIN s = 1 .. Len(s)
  OBVIOUS
<1>2. /\ DOMAIN t = 1 .. Len(s) + 1 /\ Len(t) = Len(s) + 1
      /\ t[Len(s) + 1] = e
      /\ \A i \in 1 .. Len(s) : t[i] = s[i]
  OBVIOUS
<1> QED
  BY <1>1, <1>2 DEF Last

LEMMA EnterContexts ==
  ASSUME Inv, Inv', Agreed, ~closing, NEW c \in Construct, c.at = Here,
         Entering(c),
         NEW q, Alike(q, path, Depth), q[Depth + 1] = c
  PROVE  Contexts(q, jump', Depth + 1)
<1>1. Open = Depth /\ Depth \in Nat \ {0} /\ DOMAIN path = 1 .. Depth
  BY OpenFacts
<1>2. c.at.jump = Len(jump) /\ Len(jump) \in Nat /\ DOMAIN jump = 1 .. Len(jump)
  BY Types DEF Here
<1>3. Contexts(q, jump, Depth)
  BY <1>1, StillContexts DEF Agreed
<1>4. CASE c.kind \in JumpKinds
  <2> DEFINE e == [node |-> Depth + 1, is_loop |-> c.kind \in Loops]
  <2>1. jump' = Append(jump, e) /\ e.node = Depth + 1
          /\ (e.is_loop <=> c.kind \in Loops)
    BY <1>4 DEF Entering
  <2> HIDE DEF e
  <2>2. /\ DOMAIN jump' = 1 .. Len(jump) + 1 /\ jump'[Len(jump) + 1] = e
        /\ \A i \in 1 .. Len(jump) : jump'[i] = jump[i]
    BY <2>1, PushFacts, NextTypes, Types
  <2>3. ASSUME NEW i \in DOMAIN jump'
        PROVE  /\ jump'[i].node \in 1 .. Depth + 1
               /\ q[jump'[i].node].kind \in JumpKinds
               /\ q[jump'[i].node].at.jump = i - 1
               /\ jump'[i].is_loop <=> q[jump'[i].node].kind \in Loops
    <3>1. CASE i \in 1 .. Len(jump)
      <4>1. /\ jump[i].node \in 1 .. Depth
            /\ q[jump[i].node].kind \in JumpKinds
            /\ q[jump[i].node].at.jump = i - 1
            /\ jump[i].is_loop <=> q[jump[i].node].kind \in Loops
            /\ jump'[i] = jump[i]
        BY <1>2, <1>3, <2>2, <3>1 DEF Contexts
      <4> QED
        BY <1>1, <4>1
    <3>2. CASE i = Len(jump) + 1
      BY <1>1, <1>2, <1>4, <2>1, <2>2, <3>2
    <3> QED
      BY <1>2, <2>2, <3>1, <3>2
  <2>4. ASSUME NEW a \in 1 .. Depth + 1, q[a].kind \in JumpKinds
        PROVE  q[a].at.jump + 1 \in DOMAIN jump'
               /\ jump'[q[a].at.jump + 1].node = a
    <3>1. CASE a \in 1 .. Depth
      <4>1. q[a].at.jump + 1 \in DOMAIN jump /\ jump[q[a].at.jump + 1].node = a
        BY <1>3, <2>4, <3>1 DEF Contexts
      <4> QED
        BY <1>2, <2>2, <4>1
    <3>2. CASE a = Depth + 1
      BY <1>2, <2>1, <2>2, <3>2
    <3> QED
      BY <1>1, <3>1, <3>2
  <2> QED
    BY <2>3, <2>4 DEF Contexts
<1>5. CASE c.kind \notin JumpKinds
  <2>1. jump' = jump
    BY <1>5 DEF Entering
  <2>2. \A i \in 1 .. Depth : i \in 1 .. Depth + 1
    BY <1>1
  <2>3. \A a \in 1 .. Depth + 1 : a \in 1 .. Depth \/ a = Depth + 1
    BY <1>1
  <2>4. Contexts(q, jump, Depth + 1)
    BY <1>3, <1>5, <2>2, <2>3 DEF Contexts
  <2> QED
    BY <2>1, <2>4
<1> QED
  BY <1>4, <1>5

LEMMA EnterExits ==
  ASSUME Inv, Inv', Agreed, ~closing, NEW c \in Construct, Entering(c),
         c.on => Top.on, c.kind \in Cases <=> Top.kind = "switch"
  PROVE  ExitsNamed(jump', breaks')
<1>1. /\ Len(jump) = Inside(Top).jump /\ Len(breaks) = Inside(Top).breaks
      /\ Len(jump) \in Nat /\ Len(breaks) \in Nat
      /\ DOMAIN jump = 1 .. Len(jump) /\ DOMAIN breaks = 1 .. Len(breaks)
  BY NowFacts, Types
<1>2. \A i \in DOMAIN jump : i \in DOMAIN jump' /\ jump'[i] = jump[i]
  <2>1. CASE c.kind \in JumpKinds
    BY <1>1, <2>1, PushFacts, NextTypes, Types DEF Entering
  <2>2. CASE c.kind \notin JumpKinds
    BY <2>2 DEF Entering
  <2> QED
    BY <2>1, <2>2
<1>3. ExitsNamed(jump', breaks)
  BY <1>2 DEF Agreed, ExitsNamed
<1>4. CASE c.on /\ c.kind \in Loops \cup Cases
  <2> DEFINE node == IF c.kind \in Loops THEN Depth + 1 ELSE Depth
  <2>1. PICK e : breaks' = Append(breaks, e) /\ e.node = node
    <3>1. PICK open \in Nat :
            breaks' = Append(breaks, [node |-> node, open |-> open])
      BY <1>4 DEF Entering
    <3>2. [node |-> node, open |-> open].node = node
      OBVIOUS
    <3> QED
      BY <3>1, <3>2
  <2>2. /\ DOMAIN breaks' = 1 .. Len(breaks) + 1
        /\ breaks'[Len(breaks) + 1] = e
        /\ \A i \in 1 .. Len(breaks) : breaks'[i] = breaks[i]
    BY <2>1, PushFacts, NextTypes, Types
  <2>3. Len(breaks) + 1 \in DOMAIN jump' /\ jump'[Len(breaks) + 1].node = node
    <3>1. CASE c.kind \in Loops
      <4>1. Top.kind # "switch"
        BY <3>1 DEF Loops, Cases
      <4>2. Len(breaks) = Len(jump)
        BY <1>1, <1>4, <4>1, Level DEF One
      <4>3. c.kind \in JumpKinds
        BY <3>1 DEF JumpKinds
      <4> DEFINE d == [node |-> Depth + 1, is_loop |-> c.kind \in Loops]
      <4>4. jump' = Append(jump, d) /\ d.node = Depth + 1
        BY <4>3 DEF Entering
      <4> HIDE DEF d
      <4>5. Len(jump) + 1 \in DOMAIN jump' /\ jump'[Len(jump) + 1] = d
        <5>1. jump \in Seq(JumpContext) /\ jump' \in Seq(JumpContext)
          BY NextTypes, Types
        <5>2. /\ DOMAIN jump' = 1 .. Len(jump) + 1
              /\ jump'[Len(jump) + 1] = d
          BY <4>4, <5>1, PushFacts
        <5> QED
          BY <1>1, <5>2
      <4> QED
        BY <3>1, <4>2, <4>4, <4>5
    <3>2. CASE c.kind \in Cases
      <4>1. Top.kind = "switch" /\ c.kind \notin Loops /\ Top.kind \in JumpKinds
        BY <3>2 DEF Loops, Cases, JumpKinds
      <4>2. Len(breaks) + 1 = Len(jump)
        BY <1>1, <1>4, <4>1, Level DEF One
      <4>3. jump[Len(jump)].node = Depth /\ Len(jump) \in DOMAIN jump
        BY <1>1, <4>1, <4>2, LastContext
      <4> QED
        BY <1>2, <4>1, <4>2, <4>3
    <3> QED
      BY <1>4, <3>1, <3>2
  <2>4. ASSUME NEW i \in DOMAIN breaks'
        PROVE  i \in DOMAIN jump' /\ breaks'[i].node = jump'[i].node
    <3>1. CASE i \in 1 .. Len(breaks)
      BY <1>1, <1>3, <2>2, <3>1 DEF ExitsNamed
    <3>2. CASE i = Len(breaks) + 1
      BY <2>1, <2>2, <2>3, <3>2
    <3> QED
      BY <1>1, <2>2, <3>1, <3>2
  <2> QED
    BY <2>4 DEF ExitsNamed
<1>5. CASE ~(c.on /\ c.kind \in Loops \cup Cases)
  <2>1. breaks' = breaks
    BY <1>5 DEF Entering
  <2> QED
    BY <1>3, <2>1
<1> QED
  BY <1>4, <1>5

LEMMA EnterLoops ==
  ASSUME Inv, Inv', Agreed, ~closing, NEW c \in Construct, c.at = Here,
         Entering(c),
         NEW q, Alike(q, path, Depth), q[Depth + 1] = c
  PROVE  LoopsNamed(q, breaks', continues', Depth + 1)
<1>1. Open = Depth /\ Depth \in Nat \ {0} /\ DOMAIN path = 1 .. Depth
        /\ \A a \in 1 .. Depth + 1 : a \in 1 .. Depth \/ a = Depth + 1
  BY OpenFacts
<1>2. /\ c.at.breaks = Len(breaks) /\ c.at.continues = Len(continues)
      /\ Len(breaks) \in Nat /\ DOMAIN breaks = 1 .. Len(breaks)
      /\ Len(continues) \in Nat /\ DOMAIN continues = 1 .. Len(continues)
  BY Types DEF Here
<1>3. \A i \in DOMAIN breaks : i \in DOMAIN breaks' /\ breaks'[i] = breaks[i]
  <2>1. CASE c.on /\ c.kind \in Loops \cup Cases
    <3>1. PICK e : breaks' = Append(breaks, e)
      BY <2>1 DEF Entering
    <3> QED
      BY <1>2, <3>1, PushFacts, NextTypes, Types
  <2>2. CASE ~(c.on /\ c.kind \in Loops \cup Cases)
    <3>1. breaks' = breaks
      BY <2>2 DEF Entering
    <3> QED
      BY <3>1
  <2> QED
    BY <2>1, <2>2
<1>4. LoopsNamed(q, breaks, continues, Depth)
  BY <1>1, StillLoops DEF Agreed
<1>5. LoopsNamed(q, breaks', continues, Depth)
  <2>1. ASSUME NEW k \in DOMAIN continues
        PROVE  /\ continues[k].node \in 1 .. Depth
               /\ q[continues[k].node].kind \in Loops /\ q[continues[k].node].on
               /\ q[continues[k].node].at.continues = k - 1
               /\ q[continues[k].node].at.breaks + 1 \in DOMAIN breaks'
               /\ breaks'[q[continues[k].node].at.breaks + 1] = continues[k]
    <3>1. /\ continues[k].node \in 1 .. Depth
          /\ q[continues[k].node].kind \in Loops /\ q[continues[k].node].on
          /\ q[continues[k].node].at.continues = k - 1
          /\ q[continues[k].node].at.breaks + 1 \in DOMAIN breaks
          /\ breaks[q[continues[k].node].at.breaks + 1] = continues[k]
      BY <1>4 DEF LoopsNamed
    <3> QED
      BY <1>3, <3>1
  <2> QED
    BY <1>4, <2>1 DEF LoopsNamed
<1>6. CASE c.on /\ c.kind \in Loops
  <2>1. PICK e : breaks' = Append(breaks, e) /\ e.node = Depth + 1
    <3>1. PICK open \in Nat :
            breaks' = Append(breaks, [node |-> Depth + 1, open |-> open])
      BY <1>6 DEF Entering
    <3>2. [node |-> Depth + 1, open |-> open].node = Depth + 1
      OBVIOUS
    <3> QED
      BY <3>1, <3>2
  <2>2. /\ Len(breaks) + 1 \in DOMAIN breaks' /\ breaks'[Len(breaks) + 1] = e
        /\ Last(breaks') = e
    <3>1. breaks \in Seq(Target) /\ breaks' \in Seq(Target)
      BY NextTypes, Types
    <3>2. /\ DOMAIN breaks' = 1 .. Len(breaks) + 1
          /\ breaks'[Len(breaks) + 1] = e
      BY <2>1, <3>1, PushFacts
    <3>3. Len(breaks') = Len(breaks) + 1
      BY <2>1, <3>1, PushFacts
    <3>4. Last(breaks') = breaks'[Len(breaks')]
      BY DEF Last
    <3> QED
      BY <1>2, <3>2, <3>3, <3>4
  <2>3. continues' = Append(continues, e)
    BY <1>6, <2>2 DEF Entering
  <2>4. /\ DOMAIN continues' = 1 .. Len(continues) + 1
        /\ continues'[Len(continues) + 1] = e
        /\ \A i \in 1 .. Len(continues) : continues'[i] = continues[i]
    BY <2>3, PushFacts, NextTypes, Types
  <2>5. ASSUME NEW k \in DOMAIN continues'
        PROVE  /\ continues'[k].node \in 1 .. Depth + 1
               /\ q[continues'[k].node].kind \in Loops
               /\ q[continues'[k].node].on
               /\ q[continues'[k].node].at.continues = k - 1
               /\ q[continues'[k].node].at.breaks + 1 \in DOMAIN breaks'
               /\ breaks'[q[continues'[k].node].at.breaks + 1] = continues'[k]
    <3>1. CASE k \in 1 .. Len(continues)
      <4>1. /\ continues[k].node \in 1 .. Depth
            /\ q[continues[k].node].kind \in Loops /\ q[continues[k].node].on
            /\ q[continues[k].node].at.continues = k - 1
            /\ q[continues[k].node].at.breaks + 1 \in DOMAIN breaks'
            /\ breaks'[q[continues[k].node].at.breaks + 1] = continues[k]
            /\ continues'[k] = continues[k]
        BY <1>2, <1>5, <2>4, <3>1 DEF LoopsNamed
      <4> QED
        BY <1>1, <4>1
    <3>2. CASE k = Len(continues) + 1
      <4>1. continues'[k] = e /\ q[e.node] = c
        BY <2>1, <2>4, <3>2
      <4>2. e.node \in 1 .. Depth + 1 /\ k - 1 = Len(continues)
        BY <1>1, <1>2, <2>1, <3>2
      <4> QED
        BY <1>2, <1>6, <2>2, <4>1, <4>2
    <3> QED
      BY <1>2, <2>4, <3>1, <3>2, SMTT(30)
  <2>6. ASSUME NEW a \in 1 .. Depth + 1, q[a].kind \in Loops, q[a].on
        PROVE  q[a].at.continues + 1 \in DOMAIN continues'
               /\ continues'[q[a].at.continues + 1].node = a
    <3>1. CASE a \in 1 .. Depth
      <4>1. /\ q[a].at.continues + 1 \in DOMAIN continues
            /\ continues[q[a].at.continues + 1].node = a
        BY <1>4, <2>6, <3>1 DEF LoopsNamed
      <4> QED
        BY <1>2, <2>4, <4>1
    <3>2. CASE a = Depth + 1
      <4>1. q[a].at.continues = Len(continues)
        BY <1>2, <3>2
      <4>2. Len(continues) + 1 \in 1 .. Len(continues) + 1
        BY <1>2
      <4> QED
        BY <2>1, <2>4, <3>2, <4>1, <4>2
    <3> QED
      BY <1>1, <3>1, <3>2
  <2> QED
    BY <2>5, <2>6 DEF LoopsNamed
<1>7. CASE ~(c.on /\ c.kind \in Loops)
  <2>1. continues' = continues
    BY <1>7 DEF Entering
  <2>2. \A i \in 1 .. Depth : i \in 1 .. Depth + 1
    BY <1>1
  <2>3. LoopsNamed(q, breaks', continues, Depth + 1)
    <3>1. ASSUME NEW k \in DOMAIN continues
          PROVE  /\ continues[k].node \in 1 .. Depth + 1
                 /\ q[continues[k].node].kind \in Loops
                 /\ q[continues[k].node].on
                 /\ q[continues[k].node].at.continues = k - 1
                 /\ q[continues[k].node].at.breaks + 1 \in DOMAIN breaks'
                 /\ breaks'[q[continues[k].node].at.breaks + 1] = continues[k]
      BY <1>5, <2>2 DEF LoopsNamed
    <3>2. ASSUME NEW a \in 1 .. Depth + 1, q[a].kind \in Loops, q[a].on
          PROVE  q[a].at.continues + 1 \in DOMAIN continues
                 /\ continues[q[a].at.continues + 1].node = a
      <4>1. a \in 1 .. Depth
        BY <1>1, <1>7, <3>2
      <4> QED
        BY <1>4, <3>2, <4>1 DEF LoopsNamed
    <3> QED
      BY <3>1, <3>2 DEF LoopsNamed
  <2> QED
    BY <2>1, <2>3
<1> QED
  BY <1>6, <1>7

LEMMA EnterLists ==
  ASSUME Inv, Inv', Agreed, ~closing, NEW c \in Construct, c.at = Here,
         Entering(c),
         NEW q, Alike(q, path, Depth), q[Depth + 1] = c,
         NEW n \in 1 .. Depth + 1, q[n].on, q[n].kind \in CgScoped,
         q[n].at.defers + 1 \in DOMAIN defers'
  PROVE  ListLands(jump', q[n].at.jump, defers'[q[n].at.defers + 1], n)
<1> DEFINE S == Seq(Deferred)
<1>1. /\ DOMAIN path = 1 .. Depth /\ Depth \in Nat \ {0}
      /\ Len(defers) \in Nat /\ Len(jump) \in Nat
      /\ defers \in Seq(S) /\ defers' \in Seq(S)
      /\ jump \in Seq(JumpContext) /\ jump' \in Seq(JumpContext)
  BY OpenFacts, Types, NextTypes
<1> HIDE DEF S
<1>2. \A i \in 1 .. Len(jump) : jump'[i] = jump[i]
  <2>1. CASE c.kind \in JumpKinds
    <3>1. PICK e : jump' = Append(jump, e)
      BY <2>1 DEF Entering
    <3> QED
      BY <1>1, <3>1, PushFacts
  <2>2. CASE c.kind \notin JumpKinds
    BY <2>2 DEF Entering
  <2> QED
    BY <2>1, <2>2
<1>3. CASE n = Depth + 1
  <2>1. q[n].at.defers = Len(defers) /\ c.on /\ c.kind \in CgScoped
    BY <1>3 DEF Here
  <2>2. defers' = Append(defers, <<>>)
    BY <2>1 DEF Entering
  <2>3. defers'[Len(defers) + 1] = <<>>
    BY <1>1, <2>2, PushFacts
  <2> QED
    BY <2>1, <2>3 DEF ListLands
<1>4. CASE n \in 1 .. Depth
  <2>1. /\ q[n].at = path[n].at /\ path[n].on /\ path[n].kind \in CgScoped
        /\ path[n] \in Construct
    BY <1>1, <1>4, PlaceFacts DEF Alike
  <2>2. /\ path[n].at.defers \in Nat
        /\ Inside(path[n]).defers = path[n].at.defers + 1
    <3>1. One(path[n].on /\ path[n].kind \in CgScoped) = 1
      BY <2>1 DEF One
    <3> QED
      BY <2>1, <3>1, ConstructFacts
  <2>3. path[n].at.defers + 1 <= Len(defers)
    BY <1>4, <2>2, UnderNow, NowFacts
  <2>4. path[n].at.defers + 1 \in 1 .. Len(defers)
    BY <1>1, <2>2, <2>3, SMTT(30)
  <2>5. /\ path[n].at.defers + 1 \in DOMAIN defers
        /\ defers'[path[n].at.defers + 1] = defers[path[n].at.defers + 1]
    <3>1. CASE c.on /\ c.kind \in CgScoped
      <4>1. defers' = Append(defers, <<>>)
        BY <3>1 DEF Entering
      <4> QED
        BY <1>1, <2>4, <4>1, PushFacts
    <3>2. CASE ~(c.on /\ c.kind \in CgScoped)
      <4>1. defers' = defers
        BY <3>2 DEF Entering
      <4> QED
        BY <1>1, <2>4, <4>1
    <3> QED
      BY <3>1, <3>2
  <2>6. ListLands(jump, path[n].at.jump, defers[path[n].at.defers + 1], n)
    BY <1>1, <1>4, <2>1, <2>5 DEF Agreed, DefersLand
  <2>7. /\ path[n].at.jump \in Nat
        /\ \A k \in 1 .. path[n].at.jump : jump'[k] = jump[k]
    <3>1. path[n].at.jump \in 0 .. Len(jump)
      BY <1>1, <1>4, ContextsAround DEF Agreed
    <3> QED
      BY <1>1, <1>2, <3>1
  <2> QED
    BY <2>1, <2>5, <2>6, <2>7, LandsKept DEF ListLands
<1> QED
  BY <1>1, <1>3, <1>4

LEMMA EnterOrdered ==
  ASSUME Inv, Agreed, ~closing, NEW c \in Construct, c.at = Here,
         c.on => Top.on, c.kind \in Cases <=> Top.kind = "switch",
         NEW q, Alike(q, path, Depth), q[Depth + 1] = c,
         DOMAIN q = 1 .. Depth + 1
  PROVE  PathOrder(q)
<1>1. /\ DOMAIN path = 1 .. Depth /\ Depth \in Nat \ {0} /\ 1 \in 1 .. Depth
      /\ \A a \in 1 .. Depth + 1 : a \in 1 .. Depth \/ a = Depth + 1
  BY OpenFacts
<1>2. /\ c.at.jump = Inside(Top).jump /\ c.at.defers = Inside(Top).defers
      /\ c.at.breaks = Inside(Top).breaks
      /\ c.at.continues = Inside(Top).continues
  BY NowFacts DEF Here
<1>3. q[1].on
  BY <1>1 DEF Agreed, PathOrder, Alike
<1>4. LevelOrder(c)
  <2>1. One(c.kind \in Cases) = One(Top.kind = "switch")
    BY DEF One
  <2> QED
    BY <1>2, <2>1, Level DEF LevelOrder
<1>5. ASSUME NEW a \in 1 .. Depth + 1
      PROVE  LevelOrder(q[a])
  <2>1. CASE a \in 1 .. Depth
    BY <1>1, <2>1 DEF Agreed, PathOrder, Alike, LevelOrder
  <2> QED
    BY <1>1, <1>4, <2>1
<1>6. ASSUME NEW a \in 1 .. Depth + 1, NEW b \in 1 .. Depth + 1, a < b
      PROVE  Around(q[a], q[b])
  <2>1. a \in 1 .. Depth
    BY <1>1, <1>6
  <2>2. CASE b \in 1 .. Depth
    <3>1. Around(path[a], path[b])
      BY <1>1, <1>6, <2>1, <2>2 DEF Agreed, PathOrder
    <3> QED
      BY <2>1, <2>2, <3>1 DEF Alike, Around
  <2>3. CASE b = Depth + 1
    <3>1. Around(path[a], c)
      BY <1>2, <2>1, UnderNow DEF Around
    <3> QED
      BY <2>1, <2>3, <3>1 DEF Alike, Around
  <2> QED
    BY <1>1, <2>2, <2>3
<1> QED
  BY <1>3, <1>5, <1>6 DEF PathOrder

LEMMA EnterAgreed ==
  ASSUME Inv, Inv', Agreed, ~closing, UNCHANGED <<pending, closing>>,
         NEW c \in Construct, c.at = Here,
         NEW p \in Seq(Construct), SameConstructs(p, path), path' = Append(p, c),
         Entering(c), live' => c.on,
         c.on => Top.on, c.kind \in Cases <=> Top.kind = "switch"
  PROVE  Agreed'
<1>1. /\ DOMAIN path = 1 .. Depth /\ Depth \in Nat \ {0} /\ Depth = Len(path)
  BY OpenFacts DEF Depth
<1>2. /\ path' \in Seq(Construct) /\ path' # <<>>
      /\ DOMAIN path' = 1 .. Depth + 1 /\ Len(path') = Depth + 1
      /\ path'[Depth + 1] = c
      /\ \A i \in 1 .. Depth : path'[i] = p[i]
  <2>1. Len(p) = Depth
    BY <1>1 DEF SameConstructs
  <2> QED
    BY <1>1, <2>1, AppendFacts, NextTypes
<1>3. Alike(path', path, Depth)
  BY <1>1, <1>2 DEF Alike, SameConstructs
<1>4. Depth' = Depth + 1 /\ Open' = Depth + 1 /\ ~closing'
  BY <1>1, <1>2, NextTypes DEF Depth, Open, One
<1>5. PathOrder(path')
  BY <1>2, <1>3, EnterOrdered
<1>6. Contexts(path', jump', Depth + 1)
  BY <1>2, <1>3, EnterContexts
<1>7. ExitsNamed(jump', breaks')
  BY EnterExits
<1>8. LoopsNamed(path', breaks', continues', Depth + 1)
  BY <1>2, <1>3, EnterLoops
<1>9. DefersLand(path', jump', defers')
  BY <1>2, <1>3, EnterLists DEF DefersLand
<1>10. live' => Top'.on
  BY <1>2, <1>4, LastFacts DEF Top
<1>11. pending' = <<>>
  BY DEF Agreed
<1> QED
  BY <1>4, <1>5, <1>6, <1>7, <1>8, <1>9, <1>10, <1>11 DEF Agreed

LEMMA Descended ==
  ASSUME Inv, Inv', Agreed, Walking, Top.kind \in Lists \/ Top.n < 2,
         NEW kind \in Kinds, NEW on \in BOOLEAN, Begin(kind, on),
         Entering([kind |-> kind, on |-> on, n |-> 0, at |-> Here]),
         live' => on, on => Top.on, kind \in Cases <=> Top.kind = "switch"
  PROVE  Agreed'
<1> DEFINE c == [kind |-> kind, on |-> on, n |-> 0, at |-> Here]
<1>1. /\ c \in Construct /\ c.at = Here /\ c.on = on /\ c.kind = kind
      /\ Entering(c) /\ path' = Append(Counted, c)
  BY Types DEF Construct, Begin
<1>2. ~closing /\ UNCHANGED <<pending, closing>>
  BY DEF Walking, Begin
<1> HIDE DEF c
<1>3. Counted \in Seq(Construct) /\ SameConstructs(Counted, path)
  BY CountedFacts
<1> QED
  BY <1>1, <1>2, <1>3, EnterAgreed

(* A loop's two blocks are the same target.                                *)
LEMMA LoopTargets ==
  ASSUME Inv, NEW open \in Nat, push_loop_targets(Depth + 1, open)
  PROVE  \E n \in Nat :
           /\ breaks' = Append(breaks, [node |-> Depth + 1, open |-> n])
           /\ continues' = Append(continues, Last(breaks'))
<1> DEFINE e == [node |-> Depth + 1, open |-> open]
<1>1. breaks' = Append(breaks, e) /\ continues' = Append(continues, e)
  BY DEF push_loop_targets
<1>2. e \in Target
  BY TopFacts DEF Target
<1>3. Last(breaks') = e
  <2> HIDE DEF e
  <2> QED
    BY <1>1, <1>2, AppendFacts, Types
<1> QED
  BY <1>1, <1>3

LEMMA EnterBlockAgreed ==
  ASSUME Inv, Agreed, EnterBlock
  PROVE  Agreed'
<1> DEFINE on == IF Top.kind = "if" THEN Top.on ELSE live
           c == [kind |-> "block", on |-> on, n |-> 0, at |-> Here]
<1>1. Walking /\ (Top.kind \in Lists \/ Top.n < 2)
  BY DEF EnterBlock, AtBlock, AtStatement, Walking, Lists, Loops, Cases
<1>2. Descend("block", on) /\ "block" \in Kinds /\ on \in BOOLEAN /\ live' = on
  BY TopFacts, Types DEF EnterBlock, Kinds, Lists, Loops, Cases, Construct
<1>3. /\ on => Top.on
      /\ "block" \in Cases <=> Top.kind = "switch"
  BY <1>1 DEF EnterBlock, Agreed, Walking, AtBlock, AtStatement, Lists, Loops, Cases
<1>4. Entering(c)
  BY DEF EnterBlock, Entering, Skip, NoScope, NoTargets, cg_push_scope,
       sema_jump_push, JumpKinds, Loops, Cases, CgScoped, SemaScoped
<1>5. Inv'
  BY EnterBlockInv
<1> HIDE DEF on
<1> QED
  BY <1>1, <1>2, <1>3, <1>4, <1>5, Descended DEF Descend

LEMMA EnterIfAgreed ==
  ASSUME Inv, Agreed, EnterIf
  PROVE  Agreed'
<1> DEFINE on == live
           c == [kind |-> "if", on |-> on, n |-> 0, at |-> Here]
<1>1. Walking /\ (Top.kind \in Lists \/ Top.n < 2)
  BY DEF EnterIf, AtBlock, AtStatement, Walking, Lists, Loops, Cases
<1>2. Descend("if", on) /\ "if" \in Kinds /\ on \in BOOLEAN /\ live' = on
  BY TopFacts, Types DEF EnterIf, Kinds, Lists, Loops, Cases, Construct
<1>3. /\ on => Top.on
      /\ "if" \in Cases <=> Top.kind = "switch"
  BY <1>1 DEF EnterIf, Agreed, Walking, AtBlock, AtStatement, Lists, Loops, Cases
<1>4. Entering(c)
  BY DEF EnterIf, Entering, Skip, NoScope, NoTargets, cg_push_scope,
       sema_jump_push, JumpKinds, Loops, Cases, CgScoped, SemaScoped
<1>5. Inv'
  BY EnterIfInv
<1> HIDE DEF on
<1> QED
  BY <1>1, <1>2, <1>3, <1>4, <1>5, Descended DEF Descend

LEMMA EnterLoopAgreed ==
  ASSUME Inv, Agreed, EnterLoop
  PROVE  Agreed'
<1> DEFINE on == live
           c == [kind |-> "loop", on |-> on, n |-> 0, at |-> Here]
<1>1. Walking /\ (Top.kind \in Lists \/ Top.n < 2)
  BY DEF EnterLoop, AtBlock, AtStatement, Walking, Lists, Loops, Cases
<1>2. Descend("loop", on) /\ "loop" \in Kinds /\ on \in BOOLEAN /\ live' = on
  BY TopFacts, Types DEF EnterLoop, Kinds, Lists, Loops, Cases, Construct
<1>3. /\ on => Top.on
      /\ "loop" \in Cases <=> Top.kind = "switch"
  BY <1>1 DEF EnterLoop, Agreed, Walking, AtBlock, AtStatement, Lists, Loops, Cases
<1>4. Entering(c)
  <2>1. CASE on
    <3>1. PICK k \in Nat :
            /\ breaks' = Append(breaks, [node |-> Depth + 1, open |-> k])
            /\ continues' = Append(continues, Last(breaks'))
      <4>1. /\ Len(defers) \in Nat /\ Len(defers) + 1 \in Nat
            /\ \/ push_loop_targets(Depth + 1, Len(defers))
               \/ push_loop_targets(Depth + 1, Len(defers) + 1)
        BY <2>1, Types DEF EnterLoop
      <4> QED
        BY ONLY <4>1, Inv, LoopTargets
    <3> QED
      BY <2>1, <3>1 DEF EnterLoop, Entering, Skip, NoScope, NoTargets, cg_push_scope,
       sema_jump_push, JumpKinds, Loops, Cases, CgScoped, SemaScoped
  <2>2. CASE ~on
    BY <2>2 DEF EnterLoop, Entering, Skip, NoScope, NoTargets, cg_push_scope,
       sema_jump_push, JumpKinds, Loops, Cases, CgScoped, SemaScoped
  <2> QED
    BY <2>1, <2>2
<1>5. Inv'
  BY EnterLoopInv
<1> HIDE DEF on
<1> QED
  BY <1>1, <1>2, <1>3, <1>4, <1>5, Descended DEF Descend

LEMMA EnterWhileAgreed ==
  ASSUME Inv, Agreed, EnterWhile
  PROVE  Agreed'
<1> DEFINE on == live
           c == [kind |-> "while", on |-> on, n |-> 0, at |-> Here]
<1>1. Walking /\ (Top.kind \in Lists \/ Top.n < 2)
  BY DEF EnterWhile, AtBlock, AtStatement, Walking, Lists, Loops, Cases
<1>2. Descend("while", on) /\ "while" \in Kinds /\ on \in BOOLEAN /\ live' = on
  BY TopFacts, Types DEF EnterWhile, Kinds, Lists, Loops, Cases, Construct
<1>3. /\ on => Top.on
      /\ "while" \in Cases <=> Top.kind = "switch"
  BY <1>1 DEF EnterWhile, Agreed, Walking, AtBlock, AtStatement, Lists, Loops, Cases
<1>4. Entering(c)
  <2>1. CASE on
    <3>1. PICK k \in Nat :
            /\ breaks' = Append(breaks, [node |-> Depth + 1, open |-> k])
            /\ continues' = Append(continues, Last(breaks'))
      <4>1. /\ Len(defers) \in Nat /\ Len(defers) + 1 \in Nat
            /\ \/ push_loop_targets(Depth + 1, Len(defers))
               \/ push_loop_targets(Depth + 1, Len(defers) + 1)
        BY <2>1, Types DEF EnterWhile
      <4> QED
        BY ONLY <4>1, Inv, LoopTargets
    <3> QED
      BY <2>1, <3>1 DEF EnterWhile, Entering, Skip, NoScope, NoTargets, cg_push_scope,
       sema_jump_push, JumpKinds, Loops, Cases, CgScoped, SemaScoped
  <2>2. CASE ~on
    BY <2>2 DEF EnterWhile, Entering, Skip, NoScope, NoTargets, cg_push_scope,
       sema_jump_push, JumpKinds, Loops, Cases, CgScoped, SemaScoped
  <2> QED
    BY <2>1, <2>2
<1>5. Inv'
  BY EnterWhileInv
<1> HIDE DEF on
<1> QED
  BY <1>1, <1>2, <1>3, <1>4, <1>5, Descended DEF Descend

LEMMA EnterForAgreed ==
  ASSUME Inv, Agreed, NEW name \in Names \cup {NoName}, NEW kind,
         NEW init, EnterFor(kind, name, init)
  PROVE  Agreed'
<1> DEFINE on == live
           c == [kind |-> kind, on |-> on, n |-> 0, at |-> Here]
<1>1. kind \in {"for", "for_in"}
  BY DEF EnterFor
<1>2. Walking /\ (Top.kind \in Lists \/ Top.n < 2)
  BY DEF EnterFor, AtBlock, AtStatement, Walking, Lists, Loops, Cases
<1>3. Begin(kind, on) /\ kind \in Kinds /\ on \in BOOLEAN /\ live' = on
  BY <1>1, TopFacts, Types DEF EnterFor, Kinds, Lists, Loops, Cases, Construct
<1>4. /\ on => Top.on
      /\ kind \in Cases <=> Top.kind = "switch"
  BY <1>2, <1>1 DEF EnterFor, Agreed, Walking, AtBlock, AtStatement, Lists, Loops, Cases
<1>5. Entering(c)
  <2>1. CASE on
    <3>1. PICK k \in Nat :
            /\ breaks' = Append(breaks, [node |-> Depth + 1, open |-> k])
            /\ continues' = Append(continues, Last(breaks'))
      <4>1. /\ Len(defers) \in Nat /\ Len(defers) + 1 \in Nat
            /\ \/ push_loop_targets(Depth + 1, Len(defers))
               \/ push_loop_targets(Depth + 1, Len(defers) + 1)
        BY <2>1, Types DEF EnterFor
      <4> QED
        BY ONLY <4>1, Inv, LoopTargets
    <3> QED
      BY <1>1, <2>1, <3>1 DEF EnterFor, Entering, Skip, NoScope, NoTargets, cg_push_scope,
       sema_jump_push, JumpKinds, Loops, Cases, CgScoped, SemaScoped
  <2>2. CASE ~on
    BY <1>1, <2>2 DEF EnterFor, Entering, Skip, NoScope, NoTargets, cg_push_scope,
       sema_jump_push, JumpKinds, Loops, Cases, CgScoped, SemaScoped
  <2> QED
    BY <2>1, <2>2
<1>6. Inv'
  BY <1>1, EnterForInv
<1> HIDE DEF on
<1> QED
  BY <1>2, <1>3, <1>4, <1>5, <1>6, Descended

LEMMA EnterSwitchAgreed ==
  ASSUME Inv, Agreed, EnterSwitch
  PROVE  Agreed'
<1> DEFINE on == live
           c == [kind |-> "switch", on |-> on, n |-> 0, at |-> Here]
<1>1. Walking /\ (Top.kind \in Lists \/ Top.n < 2)
  BY DEF EnterSwitch, AtBlock, AtStatement, Walking, Lists, Loops, Cases
<1>2. Descend("switch", on) /\ "switch" \in Kinds /\ on \in BOOLEAN /\ live' = on
  BY TopFacts, Types DEF EnterSwitch, Kinds, Lists, Loops, Cases, Construct
<1>3. /\ on => Top.on
      /\ "switch" \in Cases <=> Top.kind = "switch"
  BY <1>1 DEF EnterSwitch, Agreed, Walking, AtBlock, AtStatement, Lists, Loops, Cases
<1>4. Entering(c)
  <2>1. "switch" \notin Loops /\ ("switch" \in Loops) = FALSE
    BY DEF Loops
  <2> QED
    BY <2>1 DEF EnterSwitch, Entering, Skip, NoScope, NoTargets,
       sema_jump_push, JumpKinds, Cases, CgScoped, SemaScoped
<1>5. Inv'
  BY EnterSwitchInv
<1> HIDE DEF on
<1> QED
  BY <1>1, <1>2, <1>3, <1>4, <1>5, Descended DEF Descend

LEMMA EnterCaseAgreed ==
  ASSUME Inv, Agreed, EnterCase
  PROVE  Agreed'
<1> DEFINE on == Top.on
           c == [kind |-> "case", on |-> on, n |-> 0, at |-> Here]
<1>1. Walking /\ (Top.kind \in Lists \/ Top.n < 2)
  BY DEF EnterCase, AtBlock, AtStatement, Walking, Lists, Loops, Cases
<1>2. Descend("case", on) /\ "case" \in Kinds /\ on \in BOOLEAN /\ live' = on
  BY TopFacts, Types DEF EnterCase, Kinds, Lists, Loops, Cases, Construct
<1>3. /\ on => Top.on
      /\ "case" \in Cases <=> Top.kind = "switch"
  BY <1>1 DEF EnterCase, Agreed, Walking, AtBlock, AtStatement, Lists, Loops, Cases
<1>4. Entering(c)
  <2>1. CASE on
    <3>1. Len(defers) \in Nat
      BY Types
    <3>2. \E open \in Nat :
            breaks' = Append(breaks, [node |-> Depth, open |-> open])
      BY <2>1, <3>1 DEF EnterCase
    <3> QED
      BY <2>1, <3>2 DEF EnterCase, Entering, Skip, NoScope, NoTargets, cg_push_scope,
       sema_jump_push, JumpKinds, Loops, Cases, CgScoped, SemaScoped
  <2>2. CASE ~on
    BY <2>2 DEF EnterCase, Entering, Skip, NoScope, NoTargets, cg_push_scope,
       sema_jump_push, JumpKinds, Loops, Cases, CgScoped, SemaScoped
  <2> QED
    BY <2>1, <2>2
<1>5. Inv'
  BY EnterCaseInv
<1> HIDE DEF on
<1> QED
  BY <1>1, <1>2, <1>3, <1>4, <1>5, Descended DEF Descend

LEMMA EnterTypedCaseAgreed ==
  ASSUME Inv, Agreed, NEW name \in Names, EnterTypedCase(name)
  PROVE  Agreed'
<1> DEFINE on == Top.on
           c == [kind |-> "typed_case", on |-> on, n |-> 0, at |-> Here]
<1>1. Walking /\ (Top.kind \in Lists \/ Top.n < 2)
  BY DEF EnterTypedCase, AtBlock, AtStatement, Walking, Lists, Loops, Cases
<1>2. Descend("typed_case", on) /\ "typed_case" \in Kinds /\ on \in BOOLEAN /\ live' = on
  BY TopFacts, Types DEF EnterTypedCase, Kinds, Lists, Loops, Cases, Construct
<1>3. /\ on => Top.on
      /\ "typed_case" \in Cases <=> Top.kind = "switch"
  BY <1>1 DEF EnterTypedCase, Agreed, Walking, AtBlock, AtStatement, Lists, Loops, Cases
<1>4. Entering(c)
  <2>1. CASE on
    <3>1. Len(defers) \in Nat
      BY Types
    <3>2. \E open \in Nat :
            breaks' = Append(breaks, [node |-> Depth, open |-> open])
      BY <2>1, <3>1 DEF EnterTypedCase
    <3> QED
      BY <2>1, <3>2 DEF EnterTypedCase, Entering, Skip, NoScope, NoTargets, cg_push_scope,
       sema_jump_push, JumpKinds, Loops, Cases, CgScoped, SemaScoped
  <2>2. CASE ~on
    BY <2>2 DEF EnterTypedCase, Entering, Skip, NoScope, NoTargets, cg_push_scope,
       sema_jump_push, JumpKinds, Loops, Cases, CgScoped, SemaScoped
  <2> QED
    BY <2>1, <2>2
<1>5. Inv'
  BY EnterTypedCaseInv
<1> HIDE DEF on
<1> QED
  BY <1>1, <1>2, <1>3, <1>4, <1>5, Descended DEF Descend

LEMMA EnterElseAgreed ==
  ASSUME Inv, Agreed, EnterElse
  PROVE  Agreed'
<1> DEFINE on == live
           c == [kind |-> "else", on |-> on, n |-> 0, at |-> Here]
<1>1. Walking /\ (Top.kind \in Lists \/ Top.n < 2)
  BY DEF EnterElse, AtBlock, AtStatement, Walking, Lists, Loops, Cases
<1>2. Descend("else", on) /\ "else" \in Kinds /\ on \in BOOLEAN /\ live' = on
  BY TopFacts, Types DEF EnterElse, Kinds, Lists, Loops, Cases, Construct
<1>3. /\ on => Top.on
      /\ "else" \in Cases <=> Top.kind = "switch"
  BY <1>1 DEF EnterElse, Agreed, Walking, AtBlock, AtStatement, Lists, Loops, Cases
<1>4. Entering(c)
  BY DEF EnterElse, Entering, Skip, NoScope, NoTargets, cg_push_scope,
       sema_jump_push, JumpKinds, Loops, Cases, CgScoped, SemaScoped
<1>5. Inv'
  BY EnterElseInv
<1> HIDE DEF on
<1> QED
  BY <1>1, <1>2, <1>3, <1>4, <1>5, Descended DEF Descend

LEMMA BeginFunctionAgreed ==
  ASSUME Inv, Agreed, NEW params \in SUBSET Names, BeginFunction(params)
  PROVE  Agreed'
<1> DEFINE c == [kind |-> "fn", on |-> TRUE, n |-> 0, at |-> Here]
           p == [path EXCEPT ![1].n = 1]
<1>1. c \in Construct /\ c.at = Here
  BY Types DEF Construct, Kinds
<1>2. p \in Seq(Construct) /\ SameConstructs(p, path)
  <2>1. 1 \in DOMAIN path /\ path[1] \in Construct
    BY TopFacts
  <2>2. [path[1] EXCEPT !.n = 1] \in Construct
    BY <2>1 DEF Construct
  <2>3. p = [path EXCEPT ![1] = [path[1] EXCEPT !.n = 1]]
    BY <2>1
  <2>4. p \in Seq(Construct) /\ Len(p) = Len(path)
    BY <2>1, <2>2, <2>3, TopFacts, ExceptFacts
  <2>5. ASSUME NEW i \in 1 .. Len(path)
        PROVE  p[i].kind = path[i].kind /\ p[i].on = path[i].on
                 /\ p[i].at = path[i].at
    BY <2>1, <2>3, TopFacts DEF Construct
  <2> QED
    BY <2>4, <2>5 DEF SameConstructs, Inside
<1>3. ~closing /\ UNCHANGED <<pending, closing>> /\ path' = Append(p, c)
  BY DEF BeginFunction, Walking
<1>4. Top.on /\ Top.kind = "root"
  <2>1. Top = path[1]
    BY TopFacts DEF BeginFunction
  <2> QED
    BY <2>1 DEF Agreed, PathOrder, Inv, Measured, Rooted
<1>5. Entering(c)
  BY DEF BeginFunction, Entering, cg_push_scope, JumpKinds, Loops, Cases,
         CgScoped, SemaScoped
<1>6. c.on /\ c.kind \notin Cases /\ Inv'
  BY BeginFunctionInv DEF Cases
<1> HIDE DEF c, p
<1> QED
  BY <1>1, <1>2, <1>3, <1>4, <1>5, <1>6, EnterAgreed

(***************************************************************************)
(* Going up.                                                               *)
(***************************************************************************)

(* A stack popped once, or left alone, is cut to the height it had.        *)
LEMMA FrontCut ==
  ASSUME NEW S, NEW s \in Seq(S), s # <<>>, NEW n \in Nat, Len(s) = n + 1
  PROVE  Cut(Front(s), s, n)
  BY FrontFacts DEF Cut

LEMMA SameCut ==
  ASSUME NEW s, NEW n \in Nat, Len(s) = n
  PROVE  Cut(s, s, n)
  BY DEF Cut

LEMMA AboveFacts ==
  ASSUME Inv, Agreed, Depth > 1
  PROVE  Top.on => path[Depth - 1].on
<1>1. /\ DOMAIN path = 1 .. Depth /\ Depth \in Nat /\ Top = path[Depth]
      /\ Depth - 1 \in 1 .. Depth /\ Depth \in 1 .. Depth /\ Depth - 1 < Depth
  BY TopFacts, OpenFacts
<1>2. Around(path[Depth - 1], path[Depth])
  BY <1>1 DEF Agreed, PathOrder
<1> QED
  BY <1>1, <1>2 DEF Around

(* The jump contexts when a construct is left.                             *)
LEMMA JumpsCut ==
  ASSUME Inv, ~closing,
         IF Top.kind \in JumpKinds THEN jump' = Front(jump) ELSE jump' = jump
  PROVE  Cut(jump', jump, Top.at.jump)
<1>1. /\ jump \in Seq(JumpContext) /\ Top.at.jump \in Nat
      /\ Len(jump) = Top.at.jump + One(Top.kind \in JumpKinds)
  BY Types, HeightFacts DEF JumpKinds
<1>2. CASE Top.kind \in JumpKinds
  <2>1. Len(jump) = Top.at.jump + 1 /\ jump # <<>> /\ jump' = Front(jump)
    BY <1>1, <1>2 DEF One
  <2> QED
    BY <1>1, <2>1, FrontCut
<1>3. CASE Top.kind \notin JumpKinds
  <2>1. Len(jump) = Top.at.jump /\ jump' = jump
    BY <1>1, <1>3 DEF One
  <2> QED
    BY <1>1, <2>1, SameCut
<1> QED
  BY <1>2, <1>3

(* The exit and continue blocks when a loop is left; a case keeps its exit *)
(* block until its scope is closed.                                        *)
LEMMA TargetsCut ==
  ASSUME Inv, ~closing,
         IF Top.on /\ Top.kind \in Loops THEN pop_loop_targets ELSE NoTargets
  PROVE  /\ Cut(breaks', breaks,
                Top.at.breaks + One(Top.on /\ Top.kind \in Cases))
         /\ Cut(continues', continues, Top.at.continues)
<1>1. /\ breaks \in Seq(Target) /\ continues \in Seq(Target)
      /\ Top.at.breaks \in Nat /\ Top.at.continues \in Nat
      /\ Top.at.breaks + One(Top.on /\ Top.kind \in Cases) \in Nat
      /\ Len(breaks) =
           Top.at.breaks + One(Top.on /\ Top.kind \in Loops \cup Cases)
      /\ Len(continues) = Top.at.continues + One(Top.on /\ Top.kind \in Loops)
  BY Types, HeightFacts, SMTT(30) DEF One
<1>2. CASE Top.on /\ Top.kind \in Loops
  <2>1. /\ Len(breaks) = Top.at.breaks + 1
        /\ Len(continues) = Top.at.continues + 1
        /\ One(Top.on /\ Top.kind \in Cases) = 0
    BY <1>1, <1>2 DEF One, Loops, Cases
  <2>2. /\ breaks # <<>> /\ continues # <<>>
        /\ breaks' = Front(breaks) /\ continues' = Front(continues)
    BY <1>1, <1>2, <2>1 DEF pop_loop_targets
  <2>3. Cut(Front(breaks), breaks, Top.at.breaks)
    BY <1>1, <2>1, <2>2, FrontCut
  <2>4. Cut(Front(continues), continues, Top.at.continues)
    BY <1>1, <2>1, <2>2, FrontCut
  <2> QED
    BY <1>1, <2>1, <2>2, <2>3, <2>4
<1>3. CASE ~(Top.on /\ Top.kind \in Loops)
  <2>1. /\ Len(breaks) = Top.at.breaks + One(Top.on /\ Top.kind \in Cases)
        /\ Len(continues) = Top.at.continues
        /\ breaks' = breaks /\ continues' = continues
    BY <1>1, <1>3 DEF One, NoTargets
  <2> QED
    BY <1>1, <2>1, SameCut
<1> QED
  BY <1>2, <1>3

LEMMA LeavesAgreed ==
  ASSUME Inv, Inv', Agreed, ~closing, Depth > 1,
         IF Top.kind \in JumpKinds THEN jump' = Front(jump) ELSE jump' = jump,
         IF Top.on /\ Top.kind \in Loops THEN pop_loop_targets ELSE NoTargets,
         IF Top.kind \in CgScoped THEN CloseScope ELSE NoScopeToClose,
         ~closing' /\ live' => Top.on
  PROVE  Agreed'
<1>1. /\ Cut(jump', jump, Top.at.jump)
      /\ Cut(breaks', breaks,
             Top.at.breaks + One(Top.on /\ Top.kind \in Cases))
      /\ Cut(continues', continues, Top.at.continues)
  BY JumpsCut, TargetsCut
<1>2. /\ Top.at.breaks \in Nat /\ Top.at.defers \in Nat
      /\ Len(defers) = Top.at.defers + One(Top.on /\ Top.kind \in CgScoped)
      /\ Cases \subseteq CgScoped
  BY HeightFacts DEF CgScoped, SemaScoped, Cases
<1> DEFINE S == Seq(Deferred)
<1>3. defers \in Seq(S)
  BY Types
<1> HIDE DEF S
<1>4. CASE Top.on /\ Top.kind \in CgScoped
  <2>1. /\ path' = path /\ closing' /\ defers' = Front(defers)
        /\ pending' = Last(defers)
    BY <1>4 DEF CloseScope, cg_pop_scope_begin
  <2>2. Len(defers) = Top.at.defers + 1 /\ defers # <<>>
    BY <1>2, <1>3, <1>4 DEF One
  <2>3. Cut(defers', defers, Top.at.defers)
    BY <1>2, <1>3, <2>1, <2>2, FrontCut
  <2>4. pending' = defers[Top.at.defers + 1]
    BY <1>3, <2>1, <2>2, LastFacts
  <2>5. Cut(breaks', breaks, Top.at.breaks + One(Top.kind \in Cases))
    BY <1>1, <1>4
  <2> QED
    BY <1>1, <1>4, <2>1, <2>3, <2>4, <2>5, ClosingAgreed
<1>5. CASE ~(Top.on /\ Top.kind \in CgScoped)
  <2>1. /\ path' = Front(path) /\ ~closing' /\ defers' = defers
        /\ pending' = pending
    BY <1>5 DEF CloseScope, NoScopeToClose, Ascend
  <2>2. Cut(defers', defers, Top.at.defers)
    BY <1>2, <1>5, <2>1, SameCut DEF One
  <2>3. One(Top.on /\ Top.kind \in Cases) = 0
    BY <1>2, <1>5 DEF One
  <2>4. Cut(breaks', breaks, Top.at.breaks)
    BY <1>1, <1>2, <2>3
  <2>5. live' => path[Depth - 1].on
    BY <2>1, AboveFacts
  <2>6. pending' = <<>>
    BY <2>1 DEF Agreed
  <2> QED
    BY <1>1, <2>1, <2>2, <2>4, <2>5, <2>6, UpAgreed
<1> QED
  BY <1>4, <1>5

LEMMA LeaveAgreed ==
  ASSUME Inv, Agreed, Leave
  PROVE  Agreed'
<1>1. ~closing /\ Depth > 1 /\ (live => Top.on)
  BY TopFacts DEF Leave, LeaveBlock, LeaveFunction, LeaveIf, LeaveLoop,
     LeaveWhile, LeaveFor, LeaveCase, LeaveSwitch, Walking, Loops, Cases, Agreed
<1>2. IF Top.kind \in JumpKinds THEN jump' = Front(jump) ELSE jump' = jump
  BY DEF Leave, LeaveBlock, LeaveFunction, LeaveIf, LeaveLoop, LeaveWhile,
     LeaveFor, LeaveCase, LeaveSwitch, EndLoop, sema_jump_pop, JumpKinds, Loops,
     Cases
<1>3. IF Top.on /\ Top.kind \in Loops THEN pop_loop_targets ELSE NoTargets
  BY DEF Leave, LeaveBlock, LeaveFunction, LeaveIf, LeaveLoop, LeaveWhile,
     LeaveFor, LeaveCase, LeaveSwitch, EndLoop, NoTargets, Loops, Cases
<1>4. IF Top.kind \in CgScoped THEN CloseScope ELSE NoScopeToClose
  BY DEF Leave, LeaveBlock, LeaveFunction, LeaveIf, LeaveLoop, LeaveWhile,
     LeaveFor, LeaveCase, LeaveSwitch, CgScoped, SemaScoped, Cases
<1>5. ~closing' /\ live' => Top.on
  BY <1>1 DEF Leave, LeaveBlock, LeaveFunction, LeaveIf, LeaveLoop,
     LeaveWhile, LeaveFor, LeaveCase, LeaveSwitch, EndLoop
<1>6. Inv'
  BY LeaveBlockInv, LeaveFunctionInv, LeaveIfInv, LeaveLoopInv,
     LeaveWhileInv, LeaveForInv, LeaveCaseInv, LeaveSwitchInv DEF Leave
<1> QED
  BY <1>1, <1>2, <1>3, <1>4, <1>5, <1>6, LeavesAgreed

(***************************************************************************)
(* Statements, and closing a scope.                                        *)
(***************************************************************************)

(* A construct around another is in a context that is around the other.    *)
LEMMA ContextAround ==
  ASSUME Inv, Agreed, NEW n \in DOMAIN path, NEW i \in 1 .. Len(jump),
         jump[i].node < n
  PROVE  i <= path[n].at.jump
<1> DEFINE a == jump[i].node
<1>1. i \in DOMAIN jump /\ Len(jump) \in Nat
  BY Types
<1>2. a \in 1 .. Open /\ path[a].kind \in JumpKinds /\ path[a].at.jump = i - 1
  BY <1>1 DEF Agreed, Contexts
<1>3. a < n
  OBVIOUS
<1> HIDE DEF a
<1>4. a \in DOMAIN path
  BY <1>2, OpenFacts
<1>5. Inside(path[a]).jump <= path[n].at.jump
  BY <1>3, <1>4 DEF Agreed, PathOrder, Around
<1>6. Inside(path[a]).jump = i
  <2>1. One(path[a].kind \in JumpKinds) = 1
    BY <1>2 DEF One
  <2> QED
    BY <1>1, <1>2, <1>4, <2>1, PlaceFacts, ConstructFacts
<1> QED
  BY <1>5, <1>6

(* A jump that leaves a construct goes to a context around the construct,  *)
(* wherever inside it the jump stands.                                     *)
LEMMA LandsOut ==
  ASSUME Inv, Agreed, NEW n \in DOMAIN path, NEW h \in 0 .. Len(jump),
         path[n].at.jump <= h, NEW d, Lands(jump, h, d, n)
  PROVE  Lands(jump, path[n].at.jump, d, n)
<1> DEFINE m == path[n].at.jump
<1>1. m \in Nat /\ h \in Nat /\ m <= h /\ Len(jump) \in Nat
  BY PlaceFacts, ConstructFacts, Types
<1>2. ASSUME NEW i \in 1 .. h, jump[i].node < n
      PROVE  i <= m
  BY <1>1, <1>2, ContextAround
<1> HIDE DEF m
<1> SUFFICES ASSUME d.target < n
             PROVE  /\ d.stmt.op = "break" => m >= 1 /\ jump[m].node = d.target
                    /\ d.stmt.op = "continue" =>
                         \E i \in 1 .. m :
                           /\ jump[i].node = d.target /\ jump[i].is_loop
                           /\ \A k \in i + 1 .. m : ~jump[k].is_loop
  BY DEF Lands, m
<1>3. CASE d.stmt.op = "break"
  <2>1. h >= 1 /\ jump[h].node = d.target
    BY <1>3 DEF Lands
  <2>2. h <= m
    BY <1>1, <1>2, <2>1
  <2> QED
    BY <1>1, <1>3, <2>1, <2>2
<1>4. CASE d.stmt.op = "continue"
  <2>1. PICK i \in 1 .. h : /\ jump[i].node = d.target /\ jump[i].is_loop
                            /\ \A k \in i + 1 .. h : ~jump[k].is_loop
    BY <1>4 DEF Lands
  <2>2. i \in 1 .. m /\ \A k \in i + 1 .. m : k \in i + 1 .. h
    BY <1>1, <1>2, <2>1
  <2> QED
    BY <1>4, <2>1, <2>2
<1> QED
  BY <1>3, <1>4

(* What analysis resolves a jump to.                                       *)
LEMMA ResolvedLands ==
  ASSUME Inv, NEW stmt \in Statements, SemaAccepts(stmt),
         NEW d, d.stmt = stmt, d.target = SemaTarget(stmt), NEW n
  PROVE  Lands(jump, Len(jump), d, n)
<1>1. jump \in Seq(JumpContext) /\ Len(jump) \in Nat
  BY Types
<1>2. CASE stmt.op = "break"
  <2>1. jump # <<>> /\ d.target = Last(jump).node
    BY <1>2 DEF SemaAccepts, SemaTarget, sema_find_break_jump
  <2>2. Len(jump) >= 1 /\ jump[Len(jump)].node = d.target
    BY <1>1, <2>1, LastFacts
  <2> QED
    BY <1>2, <2>2 DEF Lands
<1>3. CASE stmt.op = "continue"
  <2>1. LoopJumps # {} /\ d.target = jump[Max(LoopJumps)].node
    BY <1>3 DEF SemaAccepts, SemaTarget, sema_find_loop_jump
  <2>2. LoopJumps \in SUBSET (1 .. Len(jump))
    BY <1>1 DEF LoopJumps
  <2>3. Max(LoopJumps) \in LoopJumps /\ \A y \in LoopJumps : Max(LoopJumps) >= y
    BY <1>1, <2>1, <2>2, MaxFacts
  <2>4. PICK i \in 1 .. Len(jump) : i = Max(LoopJumps)
    BY <2>2, <2>3
  <2>5. jump[i].is_loop /\ jump[i].node = d.target
    BY <2>1, <2>3, <2>4 DEF LoopJumps
  <2>6. ASSUME NEW k \in i + 1 .. Len(jump)
        PROVE  ~jump[k].is_loop
    <3>1. k \in DOMAIN jump /\ ~(i >= k) /\ k \in Nat
      BY <1>1, <2>4
    <3> QED
      BY <2>3, <2>4, <3>1 DEF LoopJumps
  <2> QED
    BY <1>3, <2>4, <2>5, <2>6 DEF Lands
<1>4. CASE stmt.op \notin {"break", "continue"}
  BY <1>4 DEF Lands
<1> QED
  BY <1>2, <1>3, <1>4

(* A statement joins the deferred ones of the innermost scope.             *)
LEMMA Registered ==
  ASSUME Inv, Agreed, NEW d \in Deferred, cg_defer(d),
         \A n \in DOMAIN path : Lands(jump, path[n].at.jump, d, n)
  PROVE  DefersLand(path, jump, defers')
<1>1. CASE defers = <<>>
  BY <1>1 DEF cg_defer, cg_panic, Agreed
<1>2. CASE defers # <<>>
  <2> DEFINE l == Len(defers)
             s == Append(defers[l], d)
  <2>1. /\ l \in DOMAIN defers /\ defers[l] \in Seq(Deferred)
        /\ DOMAIN defers' = DOMAIN defers /\ defers'[l] = s
        /\ \A k \in DOMAIN defers : k # l => defers'[k] = defers[k]
    BY <1>2, Types DEF cg_defer
  <2>2. /\ s \in Seq(Deferred) /\ DOMAIN s = 1 .. Len(defers[l]) + 1
        /\ DOMAIN defers[l] = 1 .. Len(defers[l]) /\ Len(defers[l]) \in Nat
        /\ s[Len(defers[l]) + 1] = d
        /\ \A x \in 1 .. Len(defers[l]) : s[x] = defers[l][x]
    BY <2>1, AppendFacts
  <2> HIDE DEF s, l
  <2> SUFFICES ASSUME NEW n \in DOMAIN path, path[n].on,
                      path[n].kind \in CgScoped,
                      path[n].at.defers + 1 \in DOMAIN defers
               PROVE  ListLands(jump, path[n].at.jump,
                                defers'[path[n].at.defers + 1], n)
    BY <2>1 DEF DefersLand
  <2>3. ListLands(jump, path[n].at.jump, defers[path[n].at.defers + 1], n)
    BY DEF Agreed, DefersLand
  <2>4. CASE path[n].at.defers + 1 = l
    <3>1. ASSUME NEW x \in DOMAIN s
          PROVE  Lands(jump, path[n].at.jump, s[x], n)
      <4>1. CASE x = Len(defers[l]) + 1
        BY <2>2, <4>1
      <4>2. CASE x # Len(defers[l]) + 1
        <5>1. x \in DOMAIN defers[l] /\ s[x] = defers[l][x]
          BY <2>2, <4>2
        <5> QED
          BY <2>3, <2>4, <5>1 DEF ListLands
      <4> QED
        BY <4>1, <4>2
    <3> QED
      BY <2>1, <2>4, <3>1 DEF ListLands
  <2>5. CASE path[n].at.defers + 1 # l
    BY <2>1, <2>3, <2>5
  <2> QED
    BY <2>4, <2>5
<1> QED
  BY <1>1, <1>2

LEMMA StatementAgreed ==
  ASSUME Inv, Agreed, NEW stmt \in Statements, Statement(stmt)
  PROVE  Agreed'
<1>1. ~closing /\ (Top.kind \in Lists \/ Top.n < 2)
  BY DEF Statement, AtStatement, Walking, Lists, Loops, Cases
<1>2. SameConstructs(path', path)
  BY <1>1, CountedFacts DEF Statement
<1>3. /\ SemaTarget(stmt) \in Nat \ {0}
      /\ cg_statement(stmt, SemaTarget(stmt), SemaSource(stmt))
  BY SemaTargetFacts DEF Statement
<1>4. UNCHANGED <<jump, breaks, continues, closing, pending, defers>>
  BY <1>3, SemaCheckFacts, CgStatementFacts DEF Statement
<1>5. live' => live
  BY <1>3 DEF cg_statement, cg_plain, cg_break, cg_continue, cg_jump, cg_panic,
     cg_return, cg_binary_else, cg_let, cg_use
<1>6. DefersLand(path, jump, defers') /\ pending' = <<>>
  BY <1>1, <1>4 DEF Agreed
<1> QED
  BY <1>1, <1>2, <1>4, <1>5, <1>6, StatementInv, StayAgreed

LEMMA DeferAgreed ==
  ASSUME Inv, Agreed, NEW stmt \in Statements, NEW nest \in 0 .. MaxNest,
         Defer(stmt, nest)
  PROVE  Agreed'
<1> DEFINE d == [stmt |-> stmt, target |-> SemaTarget(stmt),
                 from |-> SemaSource(stmt), nest |-> nest]
<1>1. ~closing /\ (Top.kind \in Lists \/ Top.n < 2)
  BY DEF Defer, AtStatement, Walking, Lists, Loops, Cases
<1>2. SameConstructs(path', path)
  BY <1>1, CountedFacts DEF Defer
<1>3. d \in Deferred
  <2>1. SemaTarget(stmt) \in Nat \ {0} /\ SemaSource(stmt) \in Nat
    BY SemaTargetFacts, SemaSourceFacts DEF Defer
  <2> QED
    BY <2>1 DEF Deferred, Statements
<1>4. UNCHANGED <<jump, breaks, continues, closing, pending>>
  BY SemaCheckFacts DEF Defer
<1>5. live' => live
  BY DEF Defer, cg_defer, cg_plain, cg_panic
<1>6. DefersLand(path, jump, defers')
  <2>1. CASE live
    <3>1. cg_defer(d) /\ SemaAccepts(stmt)
      BY <2>1 DEF Defer
    <3>2. d.stmt = stmt /\ d.target = SemaTarget(stmt)
      OBVIOUS
    <3> HIDE DEF d
    <3>3. ASSUME NEW n \in DOMAIN path
          PROVE  Lands(jump, path[n].at.jump, d, n)
      <4>1. Lands(jump, Len(jump), d, n)
        BY <3>1, <3>2, ResolvedLands
      <4>2. path[n].at.jump <= Len(jump) /\ Len(jump) \in 0 .. Len(jump)
        BY ContextsAround DEF Agreed
      <4> QED
        BY <4>1, <4>2, LandsOut
    <3> QED
      BY <1>3, <3>1, <3>3, Registered
  <2>2. CASE ~live
    BY <2>2 DEF Defer, cg_plain, Agreed
  <2> QED
    BY <2>1, <2>2
<1>7. pending' = <<>>
  BY <1>1, <1>4 DEF Agreed
<1> QED
  BY <1>1, <1>2, <1>4, <1>5, <1>6, <1>7, DeferInv, StayAgreed

LEMMA EmitDeferredAgreed ==
  ASSUME Inv, Agreed, EmitDeferred
  PROVE  Agreed'
<1> DEFINE d == Last(pending)
           e == [d EXCEPT !.nest = @ - 1]
<1>1. closing /\ pending # <<>> /\ pending' = Front(pending)
  BY DEF EmitDeferred, cg_emit_deferred
<1>2. /\ pending \in Seq(Deferred) /\ d \in Deferred /\ d = pending[Len(pending)]
      /\ DOMAIN pending = 1 .. Len(pending) /\ Len(pending) \in Nat \ {0}
      /\ DOMAIN pending' = 1 .. Len(pending) - 1
      /\ \A i \in 1 .. Len(pending) - 1 : pending'[i] = pending[i]
  BY <1>1, LastFacts, FrontFacts, Types
<1>3. d.stmt \in Statements /\ d.target \in Nat \ {0} /\ d.nest \in 0 .. MaxNest
  BY <1>2 DEF Deferred, Statements
<1>4. UNCHANGED <<jump, path, breaks, continues, closing>>
  BY DEF EmitDeferred, cg_emit_deferred, semaVars, walkVars
<1>5. /\ Top = path[Depth] /\ Depth \in DOMAIN path /\ Top \in Construct
      /\ DOMAIN path = 1 .. Depth /\ Depth \in Nat
  BY TopFacts, OpenFacts
<1>6. ListLands(jump, Top.at.jump, pending, Depth)
  BY <1>1 DEF Agreed
<1>7. ListLands(jump, Top.at.jump, pending', Depth)
  <2>1. \A i \in 1 .. Len(pending) - 1 : i \in 1 .. Len(pending)
    BY <1>2
  <2> QED
    BY <1>2, <1>6, <2>1 DEF ListLands
<1>8. DefersLand(path, jump, defers')
  <2>1. CASE live /\ d.nest > 0
    <3>1. e \in Deferred
      BY <1>2, <2>1, LessNested
    <3>2. cg_defer(e)
      BY <2>1 DEF EmitDeferred, cg_emit_deferred
    <3>3. e.stmt = d.stmt /\ e.target = d.target
      BY <1>2 DEF Deferred
    <3>4. Lands(jump, Top.at.jump, d, Depth)
      BY <1>2, <1>6 DEF ListLands
    <3> HIDE DEF e, d
    <3>5. ASSUME NEW n \in DOMAIN path
          PROVE  Lands(jump, path[n].at.jump, e, n)
      <4>1. Lands(jump, Top.at.jump, e, n)
        <5>1. e.target < n => d.target < Depth
          BY <1>3, <1>5, <3>3
        <5> QED
          BY <3>3, <3>4, <5>1 DEF Lands
      <4>2. Top.at.jump \in 0 .. Len(jump)
        BY <1>5, ContextsAround DEF Agreed
      <4>3. path[n].at.jump <= Top.at.jump
        <5>1. CASE n = Depth
          BY <1>5, <4>2, <5>1
        <5>2. CASE n < Depth
          <6>1. Inside(path[n]).jump <= Top.at.jump
            BY <1>5, <5>2 DEF Agreed, PathOrder, Around
          <6>2. /\ Inside(path[n]).jump >= path[n].at.jump
                /\ Inside(path[n]).jump \in Nat /\ path[n].at.jump \in Nat
            BY PlaceFacts, InsideFacts
          <6> QED
            BY <4>2, <6>1, <6>2
        <5> QED
          BY <1>5, <5>1, <5>2
      <4> QED
        BY <4>1, <4>2, <4>3, LandsOut
    <3> QED
      BY <3>1, <3>2, <3>5, Registered
  <2>2. CASE ~ (live /\ d.nest > 0)
    <3>1. cg_statement(d.stmt, d.target, d.from)
      BY <2>2 DEF EmitDeferred, cg_emit_deferred
    <3>2. defers' = defers
      BY <1>3, <3>1, CgStatementFacts
    <3> QED
      BY <3>2 DEF Agreed
  <2> QED
    BY <2>1, <2>2
<1>9. SameConstructs(path', path)
  BY <1>4 DEF SameConstructs
<1> QED
  BY <1>1, <1>4, <1>7, <1>8, <1>9, EmitDeferredInv, StayAgreed

LEMMA EndScopeAgreed ==
  ASSUME Inv, Agreed, EndScope
  PROVE  Agreed'
<1>1. /\ closing /\ ~closing' /\ path' = Front(path)
      /\ UNCHANGED <<jump, defers, continues>> /\ pending' = <<>>
  BY DEF EndScope, cg_pop_scope_end, Ascend, semaVars
<1>2. /\ Top.on /\ Top.kind \in CgScoped
      /\ Len(jump) = Top.at.jump /\ Len(defers) = Top.at.defers
      /\ Len(breaks) = Top.at.breaks + One(Top.kind \in Cases)
      /\ Len(continues) = Top.at.continues
      /\ Top.at.jump \in Nat /\ Top.at.defers \in Nat /\ Top.at.breaks \in Nat
      /\ Top.at.continues \in Nat /\ breaks \in Seq(Target)
  BY <1>1, NowFacts, TopFacts, ConstructFacts, Types
<1>3. Depth > 1
  BY <1>2, TopFacts DEF CgScoped, SemaScoped
<1>4. /\ Cut(jump', jump, Top.at.jump) /\ Cut(defers', defers, Top.at.defers)
      /\ Cut(continues', continues, Top.at.continues)
  BY <1>1, <1>2, SameCut
<1>5. Cut(breaks', breaks, Top.at.breaks)
  <2>1. CASE Top.kind \in Cases
    <3>1. breaks' = Front(breaks) /\ Len(breaks) = Top.at.breaks + 1
      BY <1>2, <2>1 DEF EndScope, One
    <3>2. breaks # <<>>
      BY <1>2, <3>1
    <3> QED
      BY <1>2, <3>1, <3>2, FrontCut
  <2>2. CASE Top.kind \notin Cases
    <3>1. breaks' = breaks /\ Len(breaks) = Top.at.breaks
      BY <1>2, <2>2 DEF EndScope, One
    <3> QED
      BY <1>2, <3>1, SameCut
  <2> QED
    BY <2>1, <2>2
<1>6. live' => path[Depth - 1].on
  BY <1>2, <1>3, AboveFacts
<1> QED
  BY <1>1, <1>3, <1>4, <1>5, <1>6, EndScopeInv, UpAgreed

LEMMA AgreedInit == Init => Agreed
<1> SUFFICES ASSUME Init
             PROVE  Agreed
  OBVIOUS
<1>1. /\ DOMAIN path = {1} /\ Len(path) = 1 /\ path[1].on
      /\ path[1].kind = "root" /\ path[1].at.breaks = 0 /\ path[1].at.jump = 0
      /\ jump = <<>> /\ breaks = <<>> /\ continues = <<>> /\ defers = <<>>
      /\ pending = <<>> /\ closing = FALSE /\ Top = path[1]
  BY DEF Init, SemaInit, CgInit, Top, Last
<1>2. PathOrder(path)
  BY <1>1 DEF PathOrder, LevelOrder, One, Cases
<1>3. Open = 1 /\ 1 .. 1 = {1}
  BY <1>1 DEF Open, Depth, One
<1>4. Contexts(path, jump, 1)
  BY <1>1, <1>3 DEF Contexts, JumpKinds, Loops
<1>5. LoopsNamed(path, breaks, continues, 1)
  BY <1>1, <1>3 DEF LoopsNamed, Loops
<1>6. ExitsNamed(jump, breaks) /\ DefersLand(path, jump, defers)
  BY <1>1 DEF ExitsNamed, DefersLand
<1> QED
  BY <1>1, <1>2, <1>3, <1>4, <1>5, <1>6 DEF Agreed

LEMMA AgreedNext == Inv /\ Agreed /\ [Next]_vars => Agreed'
<1> SUFFICES ASSUME Inv, Agreed, [Next]_vars
             PROVE  Agreed'
  OBVIOUS
<1>1. CASE Enter
  <2>1. ASSUME NEW name \in Names \cup {NoName}, NEW init,
               EnterFor("for", name, init) \/ EnterFor("for_in", name, init)
        PROVE  Agreed'
    BY <2>1, EnterForAgreed
  <2>2. ASSUME NEW name \in Names, EnterTypedCase(name)
        PROVE  Agreed'
    BY <2>2, EnterTypedCaseAgreed
  <2>3. ASSUME NEW params \in SUBSET Names, BeginFunction(params)
        PROVE  Agreed'
    BY <2>3, BeginFunctionAgreed
  <2> QED
    BY <1>1, <2>1, <2>2, <2>3, EnterBlockAgreed, EnterIfAgreed,
       EnterLoopAgreed, EnterWhileAgreed, EnterSwitchAgreed, EnterCaseAgreed,
       EnterElseAgreed DEF Enter
<1>2. CASE Leave
  BY <1>2, LeaveAgreed
<1>3. CASE UNCHANGED <<path, jump, breaks, continues, closing, live, defers,
                       pending>>
  BY <1>3 DEF Agreed, Open, Depth, Top
<1>4. CASE Visit
  <2>1. PICK stmt \in Statements :
          \/ Refuse(stmt) \/ Statement(stmt)
          \/ \E nest \in 0 .. MaxNest : Defer(stmt, nest)
    BY <1>4 DEF Visit, Statements
  <2>2. CASE Refuse(stmt)
    BY <1>3, <2>2 DEF Refuse, semaVars, cgVars
  <2> QED
    BY <2>1, <2>2, StatementAgreed, DeferAgreed
<1>5. CASE EmitDeferred \/ EndScope
  BY <1>5, EmitDeferredAgreed, EndScopeAgreed
<1>6. CASE UNCHANGED vars
  BY <1>3, <1>6 DEF vars, semaVars, cgVars, walkVars
<1> QED
  BY <1>1, <1>2, <1>4, <1>5, <1>6 DEF Next

(***************************************************************************)
(* What the two passes agree on.                                           *)
(***************************************************************************)

(* A construct that has an exit block is generated, and has it at its own  *)
(* height.                                                                 *)
LEMMA ExitFacts ==
  ASSUME Inv, Agreed, NEW i \in DOMAIN breaks
  PROVE  /\ i \in DOMAIN jump /\ i \in Nat /\ breaks[i].node = jump[i].node
         /\ breaks[i].node \in DOMAIN path
         /\ path[breaks[i].node].at.jump = i - 1
         /\ Inside(path[breaks[i].node]).jump = i
         /\ path[breaks[i].node].kind \in JumpKinds
         /\ jump[i].is_loop <=> path[breaks[i].node].kind \in Loops
<1>1. i \in DOMAIN jump /\ i \in Nat /\ breaks[i].node = jump[i].node
  BY Types DEF Agreed, ExitsNamed
<1>2. /\ jump[i].node \in 1 .. Open /\ path[jump[i].node].at.jump = i - 1
      /\ path[jump[i].node].kind \in JumpKinds
      /\ jump[i].is_loop <=> path[jump[i].node].kind \in Loops
  BY <1>1 DEF Agreed, Contexts
<1>3. jump[i].node \in DOMAIN path
  BY <1>2, OpenFacts
<1>4. Inside(path[jump[i].node]).jump = i
  BY <1>1, <1>2, <1>3, PlaceFacts, ConstructFacts DEF One
<1> QED
  BY <1>1, <1>2, <1>3, <1>4

LEMMA LoopFacts ==
  ASSUME Inv, Agreed, NEW k \in DOMAIN continues
  PROVE  /\ k \in Nat /\ continues[k].node \in DOMAIN path
         /\ path[continues[k].node].kind \in Loops
         /\ path[continues[k].node].on
         /\ path[continues[k].node].at.continues = k - 1
         /\ Inside(path[continues[k].node]).continues = k
         /\ path[continues[k].node].at.breaks + 1 \in DOMAIN breaks
         /\ breaks[path[continues[k].node].at.breaks + 1] = continues[k]
<1> DEFINE a == continues[k].node
<1>1. /\ k \in Nat /\ a \in 1 .. Open /\ path[a].kind \in Loops /\ path[a].on
      /\ path[a].at.continues = k - 1 /\ path[a].at.breaks + 1 \in DOMAIN breaks
      /\ breaks[path[a].at.breaks + 1] = continues[k]
  BY Types DEF Agreed, LoopsNamed
<1> HIDE DEF a
<1>2. a \in DOMAIN path
  BY <1>1, OpenFacts
<1>3. Inside(path[a]).continues = k
  BY <1>1, <1>2, PlaceFacts, ConstructFacts DEF One
<1> QED
  BY <1>1, <1>2, <1>3 DEF a

(* A loop that has an exit block has a continue block: the same target.    *)
LEMMA LoopOfExit ==
  ASSUME Inv, Agreed, NEW i \in DOMAIN breaks, jump[i].is_loop
  PROVE  /\ path[breaks[i].node].at.continues + 1 \in DOMAIN continues
         /\ continues[path[breaks[i].node].at.continues + 1] = breaks[i]
         /\ path[breaks[i].node].at.breaks + 1 = i
         /\ path[breaks[i].node].on
<1> DEFINE a == breaks[i].node
<1>1. /\ i \in DOMAIN jump /\ i \in Nat /\ a = jump[i].node
      /\ a \in DOMAIN path /\ path[a].at.jump = i - 1
      /\ path[a].kind \in Loops
  BY ExitFacts
<1>2. a \in 1 .. Open
  BY <1>1 DEF Agreed, Contexts
<1>3. i \in 1 .. Len(breaks) /\ Len(breaks) \in Nat
  BY Types
<1> HIDE DEF a
<1>4. path[a].on
  <2> SUFFICES ASSUME ~path[a].on
               PROVE  FALSE
    OBVIOUS
  <2>1. a \in 1 .. Depth /\ path[a] \in Construct
    BY <1>1, PlaceFacts
  <2>2. Inside(path[a]).breaks = path[a].at.breaks /\ path[a].at.breaks \in Nat
    BY <2>1, ConstructFacts DEF One
  <2>3. path[a].at.breaks <= path[a].at.jump
    BY <1>1 DEF Agreed, PathOrder, LevelOrder
  <2>4. CASE ~closing
    <3>1. Len(breaks) = Inside(path[a]).breaks
      BY <2>1, <2>4, UnderNow, NowFacts
    <3> QED
      BY <1>1, <1>3, <2>2, <2>3, <3>1
  <2>5. CASE closing
    <3>1. Top.on /\ Top = path[Depth] /\ Depth \in DOMAIN path
      BY <2>5, NowFacts, TopFacts
    <3>2. a < Depth
      BY <1>2, <2>1, <2>5, OpenFacts
    <3>3. Around(path[a], path[Depth])
      BY <1>1, <3>1, <3>2 DEF Agreed, PathOrder
    <3> QED
      BY <3>1, <3>3 DEF Around
  <2> QED
    BY <2>4, <2>5
<1>5. /\ path[a].at.continues + 1 \in DOMAIN continues
      /\ continues[path[a].at.continues + 1].node = a
  BY <1>1, <1>2, <1>4 DEF Agreed, LoopsNamed
<1> DEFINE k == path[a].at.continues + 1
<1>6. /\ path[a].at.breaks + 1 \in DOMAIN breaks
      /\ breaks[path[a].at.breaks + 1] = continues[k]
  BY <1>5, LoopFacts
<1>7. path[a].at.breaks + 1 = i
  <2> DEFINE x == path[a].at.breaks + 1
  <2>1. breaks[x].node = a /\ x \in DOMAIN breaks
    BY <1>5, <1>6
  <2> HIDE DEF x
  <2>2. path[a].at.jump = x - 1 /\ x \in Nat
    BY <2>1, ExitFacts
  <2>3. x = i
    BY <1>1, <2>2
  <2> QED
    BY <2>3 DEF x
<1> QED
  BY <1>4, <1>5, <1>6, <1>7 DEF a

(* The innermost continue block is that of the innermost loop with an exit *)
(* block.                                                                  *)
LEMMA LastLoop ==
  ASSUME Inv, Agreed, NEW i \in DOMAIN breaks, jump[i].is_loop,
         \A k \in i + 1 .. Len(breaks) : ~jump[k].is_loop
  PROVE  continues # <<>> /\ Last(continues).node = jump[i].node
<1> DEFINE a == breaks[i].node
           x == path[a].at.continues + 1
           y == Len(continues)
           b == continues[y].node
           m == path[b].at.breaks + 1
<1>1. /\ a = jump[i].node /\ x \in DOMAIN continues /\ continues[x].node = a
      /\ path[a].at.breaks + 1 = i
  BY LoopOfExit, ExitFacts
<1>2. /\ DOMAIN continues = 1 .. y /\ y \in Nat /\ x \in 1 .. y
      /\ continues # <<>> /\ y \in DOMAIN continues
      /\ Last(continues) = continues[y]
  BY <1>1, Types, LastFacts, SMTT(30)
<1>3. /\ b \in DOMAIN path /\ path[b].kind \in Loops
      /\ Inside(path[b]).continues = y /\ m \in DOMAIN breaks
      /\ breaks[m].node = b
  BY <1>2, LoopFacts
<1>4. /\ a \in DOMAIN path /\ path[a].at.continues = x - 1
      /\ Inside(path[a]).continues = x /\ path[a].on /\ path[a].kind \in Loops
  <2>1. x \in DOMAIN continues /\ continues[x].node = a
    BY <1>1
  <2> HIDE DEF a, x
  <2>2. /\ continues[x].node \in DOMAIN path
        /\ path[continues[x].node].kind \in Loops
        /\ path[continues[x].node].on
        /\ path[continues[x].node].at.continues = x - 1
        /\ Inside(path[continues[x].node]).continues = x
    BY <2>1, LoopFacts
  <2> QED
    BY <2>1, <2>2
<1>5. m <= i
  <2>1. jump[m].is_loop
    BY <1>3, ExitFacts
  <2>2. DOMAIN breaks = 1 .. Len(breaks) /\ Len(breaks) \in Nat
    BY Types
  <2> HIDE DEF m
  <2>3. m \in 1 .. Len(breaks) /\ m \notin i + 1 .. Len(breaks)
    BY <1>3, <2>1, <2>2
  <2> QED
    BY <2>2, <2>3
<1>6. a \in Nat /\ b \in Nat
  BY <1>3, <1>4, PlaceFacts
<1>7. ~(a < b)
  <2> SUFFICES ASSUME a < b
               PROVE  FALSE
    OBVIOUS
  <2>1. Inside(path[a]).breaks <= path[b].at.breaks
    BY <1>3, <1>4 DEF Agreed, PathOrder, Around
  <2>2. /\ path[a] \in Construct /\ path[b] \in Construct
        /\ One(path[a].on /\ path[a].kind \in Loops \cup Cases) = 1
    BY <1>3, <1>4, PlaceFacts DEF One
  <2>3. Inside(path[a]).breaks = path[a].at.breaks + 1
    BY <2>2, ConstructFacts
  <2>4. path[a].at.breaks \in Nat /\ path[b].at.breaks \in Nat
    BY <2>2, ConstructFacts
  <2>5. path[a].at.breaks + 1 <= path[b].at.breaks
    BY <2>1, <2>3
  <2>6. path[b].at.breaks + 1 <= path[a].at.breaks + 1
    BY <1>1, <1>5
  <2> HIDE DEF a, b
  <2>7. \A p, q \in Nat : ~ (p + 1 <= q /\ q + 1 <= p + 1)
    OBVIOUS
  <2> QED
    BY <2>4, <2>5, <2>6, <2>7
<1>8. ~(b < a)
  <2> SUFFICES ASSUME b < a
               PROVE  FALSE
    OBVIOUS
  <2>1. Inside(path[b]).continues <= path[a].at.continues
    BY <1>3, <1>4 DEF Agreed, PathOrder, Around
  <2>2. y <= x - 1
    BY <1>3, <1>4, <2>1
  <2> HIDE DEF x, y
  <2> QED
    BY <1>2, <2>2
<1>9. a = b
  BY <1>6, <1>7, <1>8
<1> QED
  BY <1>1, <1>2, <1>9

LEMMA AgreementHolds == Inv /\ Agreed => StackAgreement
<1> DEFINE contexts ==
      IF Top.kind = "switch" /\ Top.on THEN Front(jump) ELSE jump
<1> SUFFICES ASSUME Inv, Agreed, Walking
             PROVE  /\ Len(breaks) <= Len(contexts)
                    /\ Top.on => Len(breaks) = Len(contexts)
                    /\ \A i \in DOMAIN breaks :
                         breaks[i].node = contexts[i].node
                    /\ Range(continues) =
                         {t \in Range(breaks) : path[t.node].kind \in Loops}
                    /\ InOrder(breaks) /\ InOrder(continues)
  BY DEF StackAgreement
<1>1. /\ ~closing /\ jump \in Seq(JumpContext)
      /\ Len(jump) = Inside(Top).jump /\ Len(breaks) = Inside(Top).breaks
      /\ Len(jump) \in Nat /\ Len(breaks) \in Nat
      /\ DOMAIN breaks = 1 .. Len(breaks)
  BY Types, NowFacts DEF Walking
<1>2. /\ Len(breaks) <= Len(contexts)
      /\ Top.on => Len(breaks) = Len(contexts)
      /\ \A i \in DOMAIN breaks : contexts[i] = jump[i]
  <2>1. CASE Top.kind = "switch" /\ Top.on
    <3>1. Len(breaks) + 1 = Len(jump) /\ jump # <<>>
      BY <1>1, <2>1, Level DEF One
    <3>2. /\ Len(Front(jump)) = Len(jump) - 1
          /\ \A i \in 1 .. Len(jump) - 1 : Front(jump)[i] = jump[i]
      BY <1>1, <3>1, FrontFacts
    <3> QED
      BY <1>1, <2>1, <3>1, <3>2
  <2>2. CASE ~(Top.kind = "switch" /\ Top.on)
    BY <1>1, <2>2, Level DEF One
  <2> QED
    BY <2>1, <2>2
<1> HIDE DEF contexts
<1>3. \A i \in DOMAIN breaks : breaks[i].node = contexts[i].node
  BY <1>2, ExitFacts
<1>4. ASSUME NEW t \in Range(continues)
      PROVE  t \in Range(breaks) /\ path[t.node].kind \in Loops
  <2>1. PICK k \in DOMAIN continues : t = continues[k]
    BY DEF Range
  <2> QED
    BY <2>1, LoopFacts DEF Range
<1>5. ASSUME NEW t \in Range(breaks), path[t.node].kind \in Loops
      PROVE  t \in Range(continues)
  <2>1. PICK i \in DOMAIN breaks : t = breaks[i]
    BY DEF Range
  <2>2. jump[i].is_loop
    BY <1>5, <2>1, ExitFacts
  <2> QED
    BY <2>1, <2>2, LoopOfExit DEF Range
<1>6. InOrder(breaks)
  <2> SUFFICES ASSUME NEW i \in DOMAIN breaks, NEW j \in DOMAIN breaks, i < j
               PROVE  breaks[i].node < breaks[j].node
    BY DEF InOrder
  <2> DEFINE a == breaks[i].node
             b == breaks[j].node
  <2>1. /\ a \in DOMAIN path /\ path[a].at.jump = i - 1 /\ i \in Nat
        /\ b \in DOMAIN path /\ path[b].at.jump = j - 1 /\ j \in Nat
        /\ Inside(path[b]).jump = j
    BY ExitFacts
  <2> HIDE DEF a, b
  <2>2. a \in Nat /\ b \in Nat /\ a # b
    BY <2>1, PlaceFacts
  <2>3. ~(b < a)
    <3>1. b < a => Inside(path[b]).jump <= path[a].at.jump
      BY <2>1 DEF Agreed, PathOrder, Around
    <3> QED
      BY <2>1, <3>1
  <2> QED
    BY <2>2, <2>3 DEF a, b
<1>7. InOrder(continues)
  <2> SUFFICES ASSUME NEW i \in DOMAIN continues, NEW j \in DOMAIN continues,
                      i < j
               PROVE  continues[i].node < continues[j].node
    BY DEF InOrder
  <2> DEFINE a == continues[i].node
             b == continues[j].node
  <2>1. /\ a \in DOMAIN path /\ path[a].at.continues = i - 1 /\ i \in Nat
        /\ b \in DOMAIN path /\ path[b].at.continues = j - 1 /\ j \in Nat
        /\ Inside(path[b]).continues = j
    BY LoopFacts
  <2> HIDE DEF a, b
  <2>2. a \in Nat /\ b \in Nat /\ a # b
    BY <2>1, PlaceFacts
  <2>3. ~(b < a)
    <3>1. b < a => Inside(path[b]).continues <= path[a].at.continues
      BY <2>1 DEF Agreed, PathOrder, Around
    <3> QED
      BY <2>1, <3>1
  <2> QED
    BY <2>2, <2>3 DEF a, b
<1> QED
  BY <1>2, <1>3, <1>4, <1>5, <1>6, <1>7

(* A jump that lands, with as many exit blocks as contexts.                *)
LEMMA Landed ==
  ASSUME Inv, Agreed, Len(breaks) = Len(jump),
         NEW d, NEW n, Lands(jump, Len(jump), d, n), d.target < n
  PROVE  /\ d.stmt.op = "break" =>
              breaks # <<>> /\ Last(breaks).node = d.target
         /\ d.stmt.op = "continue" =>
              continues # <<>> /\ Last(continues).node = d.target
<1>1. /\ breaks \in Seq(Target) /\ Len(breaks) \in Nat
      /\ DOMAIN breaks = 1 .. Len(breaks)
  BY Types
<1>2. CASE d.stmt.op = "break"
  <2>1. Len(breaks) >= 1 /\ jump[Len(breaks)].node = d.target
    BY <1>2 DEF Lands
  <2>2. breaks # <<>> /\ Len(breaks) \in DOMAIN breaks
    BY <1>1, <2>1
  <2>3. Last(breaks) = breaks[Len(breaks)]
    BY <1>1, <2>2, LastFacts
  <2> QED
    BY <1>2, <2>1, <2>2, <2>3, ExitFacts
<1>3. CASE d.stmt.op = "continue"
  <2>1. PICK i \in DOMAIN breaks :
          /\ jump[i].node = d.target /\ jump[i].is_loop
          /\ \A k \in i + 1 .. Len(breaks) : ~jump[k].is_loop
    BY <1>1, <1>3 DEF Lands
  <2> QED
    BY <1>3, <2>1, LastLoop
<1> QED
  BY <1>2, <1>3

(* A jump emitted where it stands.                                         *)
LEMMA StatementLands ==
  ASSUME Inv, Agreed, NEW stmt \in Statements, Statement(stmt)
  PROVE  panicked' \notin {"break", "continue"} /\ misdirected' = misdirected
<1> DEFINE target == SemaTarget(stmt)
           d == [stmt |-> stmt, target |-> target]
<1>1. /\ ~closing /\ panicked = "no" /\ Top.kind # "switch" /\ SemaAccepts(stmt)
      /\ cg_statement(stmt, target, SemaSource(stmt))
  BY DEF Statement, AtStatement, Walking, Lists, Loops, Cases
<1>2. target \in Nat \ {0} /\ misdirected \in BOOLEAN
  BY <1>1, SemaTargetFacts, Types
<1>3. CASE live /\ stmt.op \in {"break", "continue"}
  <2>1. Len(breaks) = Len(jump)
    <3>1. Top.on
      BY <1>1, <1>3 DEF Agreed
    <3> QED
      BY <1>1, <3>1, Level, NowFacts, Types DEF One
  <2>2. d.stmt = stmt /\ d.target = target
    OBVIOUS
  <2> HIDE DEF d
  <2>3. Lands(jump, Len(jump), d, target + 1)
    BY <1>1, <2>2, ResolvedLands
  <2>4. /\ stmt.op = "break" => breaks # <<>> /\ Last(breaks).node = target
        /\ stmt.op = "continue" =>
             continues # <<>> /\ Last(continues).node = target
    <3>1. d.target < target + 1
      BY <1>2, <2>2
    <3> QED
      BY <2>1, <2>2, <2>3, <3>1, Landed
  <2> HIDE DEF target
  <2> QED
    BY <1>1, <1>2, <1>3, <2>4
       DEF cg_statement, cg_break, cg_continue, cg_jump
<1>4. CASE ~(live /\ stmt.op \in {"break", "continue"})
  BY <1>1, <1>4 DEF cg_statement, cg_plain, cg_return, cg_binary_else, cg_let,
     cg_use, cg_lookup, cg_panic
<1> QED
  BY <1>3, <1>4

(* The generator's exit blocks are, construct for construct, the jump      *)
(* contexts semantic analysis resolves `break` against, and its continue   *)
(* blocks those of the loops among them, at any nesting depth and whatever *)
(* is dead, deferred or left inside: the two passes, which never compare   *)
(* their stacks, cannot drift apart.                                       *)
THEOREM JumpsAgree == Spec => []StackAgreement
<1>1. Init => Inv /\ Agreed
  BY InvInit, AgreedInit
<1>2. Inv /\ Agreed /\ [Next]_vars => Inv' /\ Agreed'
  BY InvNext, AgreedNext
<1>3. Spec => [](Inv /\ Agreed)
  BY <1>1, <1>2, PTL DEF Spec
<1> QED
  BY <1>3, AgreementHolds, PTL

(* A `break` or `continue` that analysis accepted is emitted, where it     *)
(* stands, to the very construct it was resolved to, and the generator's   *)
(* panic for an empty stack is never reached by one that is not deferred.  *)
THEOREM DirectJumps == Spec => DirectJumpsLand
<1> DEFINE Direct ==
      (misdirected' # misdirected \/ panicked' \in {"break", "continue"})
        => closing
<1>1. Inv /\ Agreed /\ [Next]_vars => [Direct]_vars
  <2> SUFFICES ASSUME Inv, Agreed, Next, ~closing
               PROVE  /\ misdirected' = misdirected
                      /\ panicked' \notin {"break", "continue"}
    BY DEF vars
  <2>1. CASE UNCHANGED <<misdirected, panicked>> /\ panicked = "no"
    BY <2>1
  <2>2. CASE Enter
    BY <2>1, <2>2 DEF Enter, EnterBlock, EnterIf, EnterLoop, EnterWhile,
       EnterFor, EnterSwitch, EnterCase, EnterTypedCase, EnterElse,
       BeginFunction, Descend, Begin, cg_lookup, AtBlock, AtStatement,
       Walking
  <2>3. CASE Leave
    BY <2>1, <2>3 DEF Leave, LeaveBlock, LeaveFunction, LeaveIf, LeaveLoop,
       LeaveWhile, LeaveFor, LeaveCase, LeaveSwitch, CloseScope,
       NoScopeToClose, Walking
  <2>4. CASE Visit
    <3>1. PICK stmt \in Statements :
            \/ Refuse(stmt) \/ Statement(stmt)
            \/ \E nest \in 0 .. MaxNest : Defer(stmt, nest)
      BY <2>4 DEF Visit, Statements
    <3>2. CASE Refuse(stmt)
      BY <2>1, <3>2 DEF Refuse, cgVars, AtStatement, Walking
    <3>3. CASE \E nest \in 0 .. MaxNest : Defer(stmt, nest)
      BY <3>3 DEF Defer, cg_defer, cg_plain, cg_panic, AtStatement, Walking
    <3> QED
      BY <3>1, <3>2, <3>3, StatementLands
  <2>5. CASE EmitDeferred \/ EndScope
    BY <2>5 DEF EmitDeferred, cg_emit_deferred, EndScope
  <2> QED
    BY <2>2, <2>3, <2>4, <2>5 DEF Next
<1>2. Init => Inv /\ Agreed
  BY InvInit, AgreedInit
<1>3. Inv /\ Agreed /\ [Next]_vars => Inv' /\ Agreed'
  BY InvNext, AgreedNext
<1> QED
  BY <1>1, <1>2, <1>3, PTL DEF Spec, DirectJumpsLand

(* A deferred `break` or `continue` that leaves the scope it was deferred  *)
(* in reaches the construct analysis resolved it to, however many `defer`s *)
(* moved it outwards: when the scope is closed that construct is still the *)
(* innermost one on the generator's stack.                                 *)
THEOREM DeferredJumps == Spec => []DeferredJumpsLand
<1>1. Inv /\ Agreed => DeferredJumpsLand
  <2> SUFFICES ASSUME Inv, Agreed, NEW i \in DOMAIN pending,
                      pending[i].target < Depth
               PROVE  /\ pending[i].stmt.op = "break" =>
                           /\ breaks # <<>>
                           /\ Last(breaks).node = pending[i].target
                      /\ pending[i].stmt.op = "continue" =>
                           /\ continues # <<>>
                           /\ Last(continues).node = pending[i].target
    BY DEF DeferredJumpsLand
  <2>1. closing
    BY DEF Agreed
  <2>2. Lands(jump, Top.at.jump, pending[i], Depth)
    BY <2>1 DEF Agreed, ListLands
  <2>3. Len(jump) = Top.at.jump /\ Len(breaks) = Len(jump)
    <3>1. /\ Top.on /\ Len(jump) = Top.at.jump
          /\ Len(breaks) = Top.at.breaks + One(Top.kind \in Cases)
      BY <2>1, NowFacts
    <3>2. LevelOrder(Top)
      BY TopFacts DEF Agreed, PathOrder
    <3> QED
      BY <3>1, <3>2 DEF LevelOrder
  <2> QED
    BY <2>2, <2>3, Landed
<1>2. Init => Inv /\ Agreed
  BY InvInit, AgreedInit
<1>3. Inv /\ Agreed /\ [Next]_vars => Inv' /\ Agreed'
  BY InvNext, AgreedNext
<1> QED
  BY <1>1, <1>2, <1>3, PTL DEF Spec

(***************************************************************************)
(* Names.  A name is looked up in the innermost scope that declares it, so *)
(* what it stands for under the first h scopes of a chain depends on those *)
(* scopes alone.                                                           *)
(***************************************************************************)
SeenIn(chain, h, name) == {i \in 1 .. h : Declared(chain[i], name)}

DeclarationOf(scp, name) == (CHOOSE d \in scp : d.name = name).id

Found(chain, h, name) ==
  IF SeenIn(chain, h, name) = {}
    THEN 0 ELSE DeclarationOf(chain[Max(SeenIn(chain, h, name))], name)

LEMMA FoundIsResolve ==
  ASSUME NEW chain \in Seq(SUBSET Declaration), NEW name
  PROVE  Found(chain, Len(chain), name) = Resolve(chain, name)
<1>1. DOMAIN chain = 1 .. Len(chain)
  OBVIOUS
<1>2. SeenIn(chain, Len(chain), name) = Visible(chain, name)
  BY <1>1 DEF SeenIn, Visible
<1> QED
  BY <1>2 DEF Found, Resolve, DeclarationOf

(* Nothing above the first h scopes matters.                               *)
LEMMA FoundSame ==
  ASSUME NEW h \in Nat, NEW c, NEW d, \A i \in 1 .. h : d[i] = c[i], NEW name
  PROVE  Found(d, h, name) = Found(c, h, name)
<1>1. SeenIn(d, h, name) = SeenIn(c, h, name)
  BY DEF SeenIn
<1>2. CASE SeenIn(c, h, name) = {}
  BY <1>1, <1>2 DEF Found
<1>3. CASE SeenIn(c, h, name) # {}
  <2>1. SeenIn(c, h, name) \in SUBSET (1 .. h)
    BY DEF SeenIn
  <2>2. Max(SeenIn(c, h, name)) \in 1 .. h
    BY <1>3, <2>1, MaxFacts
  <2> QED
    BY <1>1, <1>3, <2>2 DEF Found
<1> QED
  BY <1>2, <1>3

(* The innermost of the h scopes comes first.                              *)
LEMMA FoundStep ==
  ASSUME NEW h \in Nat \ {0}, NEW c, NEW name
  PROVE  Found(c, h, name) = IF Declared(c[h], name)
                               THEN DeclarationOf(c[h], name)
                               ELSE Found(c, h - 1, name)
<1>1. CASE Declared(c[h], name)
  <2>1. SeenIn(c, h, name) \in SUBSET (1 .. h) /\ h \in SeenIn(c, h, name)
    BY <1>1 DEF SeenIn
  <2>2. /\ Max(SeenIn(c, h, name)) \in 1 .. h
        /\ Max(SeenIn(c, h, name)) >= h
    BY <2>1, MaxFacts
  <2>3. Max(SeenIn(c, h, name)) = h
    BY <2>2
  <2> QED
    BY <1>1, <2>1, <2>3 DEF Found
<1>2. CASE ~Declared(c[h], name)
  <2>1. SeenIn(c, h, name) = SeenIn(c, h - 1, name)
    BY <1>2 DEF SeenIn
  <2> QED
    BY <1>2, <2>1 DEF Found
<1> QED
  BY <1>1, <1>2

(* Analysis under i scopes and code generation under j mean the same by    *)
(* every name.                                                             *)
SameNames(s, t, i, j) ==
  \A name \in Names : Found(s, i, name) = Found(t, j, name)

LEMMA NamesSame ==
  ASSUME NEW s, NEW t, NEW u, NEW v, NEW i \in Nat, NEW j \in Nat,
         SameNames(s, t, i, j),
         \A k \in 1 .. i : u[k] = s[k], \A k \in 1 .. j : v[k] = t[k]
  PROVE  SameNames(u, v, i, j)
<1>1. ASSUME NEW name \in Names
      PROVE  Found(u, i, name) = Found(v, j, name)
  <2>1. Found(u, i, name) = Found(s, i, name)
    BY FoundSame
  <2>2. Found(v, j, name) = Found(t, j, name)
    BY FoundSame
  <2> QED
    BY <2>1, <2>2 DEF SameNames
<1> QED
  BY <1>1 DEF SameNames

(* A scope with the same declarations on both sides, or an empty one that  *)
(* only code generation opens, keeps names the same.                       *)
LEMMA NamesUnderSame ==
  ASSUME NEW s, NEW t, NEW i \in Nat \ {0}, NEW j \in Nat \ {0},
         SameNames(s, t, i - 1, j - 1), s[i] = t[j]
  PROVE  SameNames(s, t, i, j)
<1>1. ASSUME NEW name \in Names
      PROVE  Found(s, i, name) = Found(t, j, name)
  <2>1. Found(s, i, name) = IF Declared(s[i], name)
                              THEN DeclarationOf(s[i], name)
                              ELSE Found(s, i - 1, name)
    BY FoundStep
  <2>2. Found(t, j, name) = IF Declared(t[j], name)
                              THEN DeclarationOf(t[j], name)
                              ELSE Found(t, j - 1, name)
    BY FoundStep
  <2> QED
    BY <2>1, <2>2 DEF SameNames
<1> QED
  BY <1>1 DEF SameNames

LEMMA NamesUnderEmpty ==
  ASSUME NEW s, NEW t, NEW i \in Nat, NEW j \in Nat \ {0},
         SameNames(s, t, i, j - 1), t[j] = {}
  PROVE  SameNames(s, t, i, j)
<1>1. ASSUME NEW name \in Names
      PROVE  Found(s, i, name) = Found(t, j, name)
  <2>1. ~Declared(t[j], name)
    BY DEF Declared
  <2>2. Found(t, j, name) = Found(t, j - 1, name)
    BY <2>1, FoundStep
  <2> QED
    BY <2>2 DEF SameNames
<1> QED
  BY <1>1 DEF SameNames

(* How many scopes each side has inside a construct.                       *)
Scopes(p, a) == Inside(p[a]).scope
Tables(p, a) == Inside(p[a]).defers + 1

(* Only loops without a scope lie between the constructs h and a.          *)
Bare(p, a, h) ==
  /\ h \in 1 .. a /\ p[h].kind # "loop"
  /\ \A i \in h + 1 .. a : p[i].kind = "loop"

Binding == SemaScoped \cup {"root"}
Arms == {"if", "switch"}

(* Names mean the same inside a construct; where a declaration would be    *)
(* entered by both sides the innermost scopes are equal as well.           *)
LevelNamed(p, s, t, a) ==
  /\ SameNames(s, t, Scopes(p, a), Tables(p, a))
  /\ \A h \in 1 .. a : Bare(p, a, h) /\ p[h].kind \in Binding =>
       /\ s[Scopes(p, a)] = t[Tables(p, a)]
       /\ SameNames(s, t, Scopes(p, a) - 1, Tables(p, a) - 1)

(* What the grammar and the walk make of the path alone.  A `loop` adds no *)
(* scope, and its body is generated if it is.                              *)
LaidAt(p, a) ==
  /\ p[a].kind = "root" => a = 1
  /\ p[a].kind = "loop" => a > 1 /\ p[a - 1].kind \notin Arms \cup {"fn"}
  /\ p[a].kind = "fn" => p[a].on
  /\ a > 1 /\ p[a - 1].kind \in Arms /\ p[a - 1].on => p[a].on
  /\ a > 1 /\ p[a - 1].kind = "loop" => p[a - 1].n >= 1

BareLaid(p, a, h) ==
  /\ Scopes(p, a) = Scopes(p, h) /\ Tables(p, a) = Tables(p, h)
  /\ \A i \in h + 1 .. a : p[i].on <=> p[a].on

Laid(p) ==
  /\ \A a \in DOMAIN p : LaidAt(p, a)
  /\ \A a, h \in DOMAIN p : Bare(p, a, h) => BareLaid(p, a, h)
  /\ \A a, b \in DOMAIN p : a < b => Scopes(p, a) <= p[b].at.scope

LEMMA ScopeFacts ==
  ASSUME Inv, Laid(path), NEW a \in 1 .. Depth
  PROVE  /\ path[a] \in Construct /\ path[a].at.scope \in Nat \ {0}
         /\ path[a].at.defers \in Nat /\ path[a].on \in BOOLEAN
         /\ Scopes(path, a) = path[a].at.scope + One(path[a].kind \in SemaScoped)
         /\ Tables(path, a) =
              path[a].at.defers + 1 + One(path[a].on /\ path[a].kind \in CgScoped)
         /\ Scopes(path, a) \in Nat \ {0} /\ Tables(path, a) \in Nat \ {0}
<1>1. path[a] \in Construct /\ DOMAIN path = 1 .. Depth /\ Depth \in Nat \ {0}
  BY OpenFacts, PlaceFacts
<1>2. path[a].at \in Heights /\ path[a].at.scope \in Nat
  BY <1>1 DEF Construct, Heights
<1>3. /\ path[a].at.defers \in Nat /\ path[a].on \in BOOLEAN
      /\ Inside(path[a]).defers =
           path[a].at.defers + One(path[a].on /\ path[a].kind \in CgScoped)
  BY <1>1, ConstructFacts
<1>4. Inside(path[a]).scope = path[a].at.scope + One(path[a].kind \in SemaScoped)
  BY DEF Inside
<1>5. path[a].at.scope >= 1
  <2>1. path[1].at.scope = 1 /\ path[1].kind = "root"
    BY DEF Inv, Measured, Rooted
  <2>2. CASE a = 1
    BY <2>1, <2>2
  <2>3. CASE a # 1
    <3>1. Scopes(path, 1) <= path[a].at.scope
      BY <1>1, <2>3 DEF Laid
    <3>2. Scopes(path, 1) = 1
      BY <2>1 DEF Scopes, Inside, One, SemaScoped
    <3> QED
      BY <1>2, <3>1, <3>2
  <2> QED
    BY <2>2, <2>3
<1>6. /\ Scopes(path, a) = path[a].at.scope + One(path[a].kind \in SemaScoped)
      /\ Tables(path, a) =
           path[a].at.defers + 1 + One(path[a].on /\ path[a].kind \in CgScoped)
  BY <1>3, <1>4, OneFacts DEF Scopes, Tables
<1>7. /\ One(path[a].kind \in SemaScoped) \in Nat
      /\ One(path[a].on /\ path[a].kind \in CgScoped) \in Nat
  BY OneFacts
<1>8. Scopes(path, a) \in Nat \ {0}
  BY ONLY <1>2, <1>5, <1>6, <1>7
<1>9. Tables(path, a) \in Nat \ {0}
  BY ONLY <1>3, <1>6, <1>7
<1>10. path[a].at.scope \in Nat \ {0}
  BY ONLY <1>2, <1>5
<1> QED
  BY ONLY <1>1, <1>3, <1>6, <1>8, <1>9, <1>10

(* A level stays named while the scopes up to it stay.                     *)
LEMMA LevelKept ==
  ASSUME NEW p, NEW q, NEW a \in Nat \ {0}, Alike(q, p, a),
         NEW s, NEW t, NEW u, NEW v,
         Scopes(p, a) \in Nat \ {0}, Tables(p, a) \in Nat \ {0},
         \A k \in 1 .. Scopes(p, a) : u[k] = s[k],
         \A k \in 1 .. Tables(p, a) : v[k] = t[k],
         LevelNamed(p, s, t, a)
  PROVE  LevelNamed(q, u, v, a)
<1>1. Scopes(q, a) = Scopes(p, a) /\ Tables(q, a) = Tables(p, a)
  <2>1. Inside(q[a]) = Inside(p[a])
    BY DEF Alike
  <2> QED
    BY <2>1 DEF Scopes, Tables
<1>2. SameNames(u, v, Scopes(p, a), Tables(p, a))
  BY NamesSame DEF LevelNamed
<1>3. ASSUME NEW h \in 1 .. a, Bare(q, a, h), q[h].kind \in Binding
      PROVE  /\ u[Scopes(p, a)] = v[Tables(p, a)]
             /\ SameNames(u, v, Scopes(p, a) - 1, Tables(p, a) - 1)
  <2>1. Bare(p, a, h) /\ p[h].kind \in Binding
    BY <1>3 DEF Bare, Alike
  <2>2. /\ s[Scopes(p, a)] = t[Tables(p, a)]
        /\ SameNames(s, t, Scopes(p, a) - 1, Tables(p, a) - 1)
    BY <2>1 DEF LevelNamed
  <2>3. SameNames(u, v, Scopes(p, a) - 1, Tables(p, a) - 1)
    <3> DEFINE i == Scopes(p, a) - 1
               j == Tables(p, a) - 1
    <3>1. i \in Nat /\ j \in Nat
      OBVIOUS
    <3>2. /\ \A k \in 1 .. i : k \in 1 .. Scopes(p, a)
          /\ \A k \in 1 .. j : k \in 1 .. Tables(p, a)
      OBVIOUS
    <3>3. SameNames(s, t, i, j)
      BY <2>2
    <3>4. (\A k \in 1 .. i : u[k] = s[k]) /\ (\A k \in 1 .. j : v[k] = t[k])
      BY <3>2
    <3> HIDE DEF i, j
    <3>5. SameNames(u, v, i, j)
      BY <3>1, <3>3, <3>4, NamesSame
    <3> QED
      BY <3>5 DEF i, j
  <2> QED
    BY <2>2, <2>3
<1> QED
  BY <1>1, <1>2, <1>3 DEF LevelNamed

LEMMA LaidBelow ==
  ASSUME NEW p, NEW q, NEW m \in Nat, NEW n \in 1 .. m,
         DOMAIN p = 1 .. m, DOMAIN q = 1 .. n, Alike(q, p, n),
         \A i \in 1 .. n : p[i].kind = "loop" /\ i < n => q[i].n >= 1,
         Laid(p)
  PROVE  Laid(q)
<1>1. /\ \A a \in 1 .. n : a \in 1 .. m
      /\ \A a \in 1 .. n : a > 1 => a - 1 \in 1 .. n /\ a - 1 < n
  OBVIOUS
<1>2. \A a \in 1 .. n : /\ Scopes(q, a) = Scopes(p, a)
                        /\ Tables(q, a) = Tables(p, a)
  BY DEF Scopes, Tables, Alike
<1>3. ASSUME NEW a \in 1 .. n
      PROVE  LaidAt(q, a)
  <2>1. LaidAt(p, a)
    BY <1>1 DEF Laid
  <2>2. /\ q[a].kind = p[a].kind /\ q[a].on = p[a].on
        /\ a > 1 => /\ q[a - 1].kind = p[a - 1].kind /\ q[a - 1].on = p[a - 1].on
                    /\ q[a - 1].kind = "loop" => q[a - 1].n >= 1
    BY <1>1 DEF Alike
  <2> QED
    BY <2>1, <2>2 DEF LaidAt
<1>4. ASSUME NEW a \in 1 .. n, NEW h \in 1 .. n, Bare(q, a, h)
      PROVE  BareLaid(q, a, h)
  <2>1. Bare(p, a, h)
    BY <1>4 DEF Bare, Alike
  <2>2. BareLaid(p, a, h)
    BY <1>1, <2>1 DEF Laid
  <2>3. \A i \in h + 1 .. a : i \in 1 .. n
    BY <1>4 DEF Bare
  <2> QED
    BY <1>2, <2>2, <2>3 DEF BareLaid, Alike
<1>5. ASSUME NEW a \in 1 .. n, NEW b \in 1 .. n, a < b
      PROVE  Scopes(q, a) <= q[b].at.scope
  <2>1. Scopes(p, a) <= p[b].at.scope
    BY <1>1, <1>5 DEF Laid
  <2> QED
    BY <1>2, <2>1 DEF Alike
<1> QED
  BY <1>3, <1>4, <1>5 DEF Laid

LEMMA ScopesNow ==
  ASSUME Inv, ~closing
  PROVE  Len(scope) = Inside(Top).scope /\ Len(cgScope) = Inside(Top).defers + 1
<1>1. Here = Inside(Top) /\ Len(cgScope) = Len(defers) + 1 + One(closing)
  BY DEF Inv, Measured
<1>2. Inside(Top).defers = Len(defers) /\ Inside(Top).scope = Len(scope)
  BY <1>1 DEF Here
<1>3. One(closing) = 0
  BY DEF One
<1> QED
  BY <1>1, <1>2, <1>3, Types

LEMMA LaidPushed ==
  ASSUME Inv, Laid(path), ~closing, NEW c \in Construct, c.at = Here,
         c.kind # "root",
         c.kind = "loop" => Top.kind \notin Arms \cup {"fn"},
         c.kind = "loop" /\ Top.kind = "loop" => (c.on <=> Top.on),
         c.kind = "fn" => c.on,
         Top.kind \in Arms /\ Top.on => c.on,
         NEW q, Alike(q, path, Depth), q[Depth + 1] = c,
         DOMAIN q = 1 .. Depth + 1,
         \A i \in 1 .. Depth : q[i].kind = "loop" => q[i].n >= 1
  PROVE  Laid(q)
<1>1. /\ DOMAIN path = 1 .. Depth /\ Depth \in Nat \ {0} /\ Depth \in 1 .. Depth
      /\ Top = path[Depth]
      /\ \A a \in 1 .. Depth + 1 : a \in 1 .. Depth \/ a = Depth + 1
      /\ \A a \in 1 .. Depth : a \in 1 .. Depth + 1
  BY OpenFacts, TopFacts
<1>2. /\ q[Depth].kind = Top.kind /\ q[Depth].on = Top.on
      /\ Inside(q[Depth]) = Inside(Top)
  BY <1>1 DEF Alike
<1>3. c.at.scope = Scopes(path, Depth) /\ c.at.defers + 1 = Tables(path, Depth)
  <2>1. c.at.scope = Len(scope) /\ c.at.defers = Len(defers)
    BY DEF Here
  <2>2. Inside(Top).defers = Len(defers) /\ Inside(Top).scope = Len(scope)
    BY ScopesNow, NowFacts
  <2> QED
    BY <1>1, <2>1, <2>2 DEF Scopes, Tables
<1>4. /\ \A a \in 1 .. Depth : /\ Scopes(q, a) = Scopes(path, a)
                               /\ Tables(q, a) = Tables(path, a)
      /\ c.kind = "loop" => /\ Scopes(q, Depth + 1) = Scopes(path, Depth)
                            /\ Tables(q, Depth + 1) = Tables(path, Depth)
  <2>1. \A a \in 1 .. Depth : /\ Scopes(q, a) = Scopes(path, a)
                              /\ Tables(q, a) = Tables(path, a)
    BY DEF Scopes, Tables, Alike
  <2>2. ASSUME c.kind = "loop"
        PROVE  /\ Scopes(q, Depth + 1) = Scopes(path, Depth)
               /\ Tables(q, Depth + 1) = Tables(path, Depth)
    <3>1. /\ One(c.kind \in SemaScoped) = 0
          /\ One(c.on /\ c.kind \in CgScoped) = 0
      BY <2>2 DEF One, SemaScoped, CgScoped
    <3>2. Inside(c).scope = c.at.scope + 0 /\ Inside(c).defers = c.at.defers + 0
      BY <3>1 DEF Inside
    <3>3. c.at.scope \in Nat /\ c.at.defers \in Nat
      BY DEF Construct, Heights
    <3> QED
      BY <1>3, <3>2, <3>3 DEF Scopes, Tables
  <2> QED
    BY <2>1, <2>2
<1>5. ASSUME NEW a \in 1 .. Depth + 1
      PROVE  LaidAt(q, a)
  <2>1. CASE a \in 1 .. Depth
    <3>1. LaidAt(path, a)
      BY <1>1, <2>1 DEF Laid
    <3>2. a > 1 => a - 1 \in 1 .. Depth
      BY <1>1, <2>1
    <3> QED
      BY <2>1, <3>1, <3>2 DEF LaidAt, Alike
  <2>2. CASE a = Depth + 1
    <3>1. a > 1 /\ a - 1 = Depth /\ q[a] = c
      BY <1>1, <2>2
    <3>2. q[a - 1].kind = Top.kind /\ q[a - 1].on = Top.on
      BY <1>2, <3>1
    <3>3. q[a - 1].kind = "loop" => q[a - 1].n >= 1
      BY <1>1, <3>1
    <3> QED
      BY <3>1, <3>2, <3>3 DEF LaidAt
  <2> QED
    BY <1>1, <2>1, <2>2
<1>6. ASSUME NEW a \in 1 .. Depth + 1, NEW h \in 1 .. Depth + 1, Bare(q, a, h)
      PROVE  BareLaid(q, a, h)
  <2>1. h <= a
    BY <1>6 DEF Bare
  <2>2. CASE a \in 1 .. Depth
    <3>1. h \in 1 .. Depth /\ \A i \in h + 1 .. a : i \in 1 .. Depth
      BY <1>1, <2>1, <2>2
    <3>2. Bare(path, a, h)
      BY <1>6, <2>2, <3>1 DEF Bare, Alike
    <3>3. BareLaid(path, a, h)
      BY <1>1, <2>2, <3>1, <3>2 DEF Laid
    <3> QED
      BY <1>4, <2>2, <3>1, <3>3 DEF BareLaid, Alike
  <2>3. CASE a = Depth + 1 /\ h = Depth + 1
    BY <1>1, <2>3 DEF BareLaid
  <2>4. CASE a = Depth + 1 /\ h \in 1 .. Depth
    <3>1. c.kind = "loop" /\ Depth \in h .. Depth
      BY <1>1, <1>6, <2>4 DEF Bare
    <3>2. Bare(path, Depth, h)
      <4>1. \A i \in h + 1 .. Depth : i \in h + 1 .. a /\ i \in 1 .. Depth
        BY <1>1, <2>4
      <4> QED
        BY <1>1, <1>6, <2>4, <4>1 DEF Bare, Alike
    <3>3. BareLaid(path, Depth, h)
      BY <1>1, <2>4, <3>2 DEF Laid
    <3>4. ASSUME NEW i \in h + 1 .. a
          PROVE  q[i].on <=> q[a].on
      <4>1. q[a] = c
        BY <2>4
      <4>2. CASE i = a
        BY <4>2
      <4>3. CASE i # a
        <5>1. i \in h + 1 .. Depth /\ i \in 1 .. Depth /\ Depth \in h + 1 .. Depth
          BY <1>1, <2>4, <4>3
        <5>2. path[i].on <=> Top.on
          BY <1>1, <3>3, <5>1 DEF BareLaid
        <5>3. q[i].on = path[i].on
          BY <5>1 DEF Alike
        <5>4. Top.kind = "loop"
          BY <1>1, <3>2, <5>1 DEF Bare
        <5> QED
          BY <3>1, <4>1, <5>2, <5>3, <5>4
      <4> QED
        BY <4>2, <4>3
    <3>5. Scopes(q, a) = Scopes(q, h) /\ Tables(q, a) = Tables(q, h)
      BY <1>4, <2>4, <3>1, <3>3 DEF BareLaid
    <3> QED
      BY <3>4, <3>5 DEF BareLaid
  <2> QED
    BY <1>1, <2>2, <2>3, <2>4
<1>7. ASSUME NEW a \in 1 .. Depth + 1, NEW b \in 1 .. Depth + 1, a < b
      PROVE  Scopes(q, a) <= q[b].at.scope
  <2>1. a \in 1 .. Depth
    BY <1>1, <1>7
  <2>2. CASE b \in 1 .. Depth
    <3>1. Scopes(path, a) <= path[b].at.scope
      BY <1>1, <1>7, <2>1, <2>2 DEF Laid
    <3> QED
      BY <1>4, <2>1, <2>2, <3>1 DEF Alike
  <2>3. CASE b = Depth + 1
    <3>1. Scopes(path, a) <= Scopes(path, Depth)
      <4>1. CASE a = Depth
        BY <1>1, <4>1, ScopeFacts
      <4>2. CASE a # Depth
        <5>1. a < Depth
          BY <1>1, <2>1, <4>2
        <5>2. Scopes(path, a) <= path[Depth].at.scope
          BY <1>1, <2>1, <5>1 DEF Laid
        <5>3. /\ path[Depth].at.scope \in Nat /\ Scopes(path, a) \in Nat
              /\ Scopes(path, Depth) =
                   path[Depth].at.scope + One(path[Depth].kind \in SemaScoped)
              /\ One(path[Depth].kind \in SemaScoped) \in {0, 1}
          BY <1>1, <2>1, ScopeFacts, OneFacts
        <5> QED
          BY <5>2, <5>3
      <4> QED
        BY <4>1, <4>2
    <3> QED
      BY <1>3, <1>4, <2>1, <2>3, <3>1
  <2> QED
    BY <1>1, <2>2, <2>3
<1> QED
  BY <1>5, <1>6, <1>7 DEF Laid

NoReturn(list) == \A x \in DOMAIN list : list[x].stmt.op # "return"

(* Code is skipped only behind a jump, so at the top level none is: there  *)
(* is nothing to break out of there, nor to return from.                   *)
DeadInside ==
  \/ InFunction
  \/ /\ \A a \in DOMAIN path : ~path[a].on => path[a].at.jump >= 1
     /\ ~live => Len(jump) >= 1
     /\ \A k \in DOMAIN defers : NoReturn(defers[k])
     /\ NoReturn(pending)

Shaped ==
  /\ Laid(path)
  /\ DeadInside
  /\ ~closing /\ Top.kind = "loop" /\ Top.on /\ Top.n = 0 => live

(* The uses among deferred statements find what they were resolved to.     *)
UsesFound(t, h, list) ==
  \A x \in DOMAIN list :
    /\ list[x].stmt.op # "let" /\ list[x].nest = 0
    /\ list[x].stmt.op = "use" =>
         Found(t, h, list[x].stmt.name) = list[x].target

Generating == Top.on /\ (live \/ Top.kind \in Arms)

LevelsNamed ==
  /\ \A a \in 1 .. Depth - 1 :
       path[a + 1].on => LevelNamed(path, scope, cgScope, a)
  /\ ~closing /\ Generating => LevelNamed(path, scope, cgScope, Depth)

DefersNamed ==
  /\ \A k \in DOMAIN defers : UsesFound(cgScope, k + 1, defers[k])
  /\ closing => UsesFound(cgScope, Len(cgScope), pending)

Named ==
  ~displaced =>
    LevelsNamed /\ DefersNamed /\ ~misresolved /\ panicked # "variable"

(* The step binds no use amiss if analysis' scopes and the generator's say *)
(* the same.                                                               *)
StaysNamed ==
  /\ displaced => displaced'
  /\ ~displaced' /\ LevelsNamed /\ ~misresolved /\ panicked # "variable" =>
       ~misresolved' /\ panicked' # "variable"

(* Going down: a construct entered with the scopes its kind has.           *)
EntersWith(c, decls) ==
  /\ c.at = Here /\ c.kind # "root"
  /\ Len(path') = Depth + 1 /\ path'[Depth + 1] = c
  /\ Alike(path', path, Depth)
  /\ \A i \in 1 .. Depth : path[i].kind = "loop" => path'[i].n >= path[i].n
  /\ Top.kind = "loop" => path'[Depth].n >= 1
  /\ ~closing /\ UNCHANGED <<pending, closing>> /\ StaysNamed
  /\ c.kind = "loop" => Top.kind \notin Arms \cup {"fn"}
  /\ c.kind = "loop" /\ Top.kind = "loop" => (c.on <=> Top.on)
  /\ c.kind = "fn" => c.on
  /\ Top.kind \in Arms /\ Top.on => c.on
  /\ c.on => Generating
  /\ ~c.on => ~live
  /\ live' = c.on /\ Len(jump') >= Len(jump)
  /\ scope' = IF c.kind \in SemaScoped THEN Append(scope, decls) ELSE scope
  /\ defers' = IF c.on /\ c.kind \in CgScoped
                 THEN Append(defers, <<>>) ELSE defers
  /\ cgScope' = IF c.on /\ c.kind \in CgScoped
                  THEN Append(cgScope, IF c.kind \in SemaScoped THEN decls ELSE {})
                  ELSE cgScope

LEMMA MoreNextTypes ==
  ASSUME Inv'
  PROVE  /\ scope' \in Seq(SUBSET Declaration)
         /\ cgScope' \in Seq(SUBSET Declaration)
         /\ pending' \in Seq(Deferred) /\ live' \in BOOLEAN
  BY DEF Inv, TypeOK, SemaTypeOK, CgTypeOK

LEMMA EnteredPath ==
  ASSUME Inv, Inv', Agreed, Shaped, NEW c \in Construct, NEW decls,
         EntersWith(c, decls)
  PROVE  /\ DOMAIN path' = 1 .. Depth + 1 /\ Depth' = Depth + 1
         /\ Top' = c /\ Top = path[Depth] /\ DOMAIN path = 1 .. Depth
         /\ Depth \in Nat \ {0} /\ Depth \in 1 .. Depth
         /\ Laid(path')
<1>1. /\ DOMAIN path' = 1 .. Depth + 1 /\ Depth' = Depth + 1
      /\ path' \in Seq(Construct) /\ path' # <<>>
      /\ Top = path[Depth] /\ DOMAIN path = 1 .. Depth
      /\ Depth \in Nat \ {0} /\ Depth \in 1 .. Depth
  BY NextTypes, TopFacts, OpenFacts DEF EntersWith, Depth
<1>2. Top' = c
  <2>1. Top' = path'[Depth + 1]
    BY <1>1, LastFacts DEF Top, EntersWith
  <2> QED
    BY <2>1 DEF EntersWith
<1>3. \A i \in 1 .. Depth : path'[i].kind = "loop" => path'[i].n >= 1
  <2> SUFFICES ASSUME NEW i \in 1 .. Depth, path'[i].kind = "loop"
               PROVE  path'[i].n >= 1
    OBVIOUS
  <2>1. path[i].kind = "loop" /\ path'[i].n >= path[i].n
    BY DEF EntersWith, Alike
  <2>2. CASE i = Depth
    BY <1>1, <2>1, <2>2 DEF EntersWith
  <2>3. CASE i # Depth
    <3>1. i + 1 \in DOMAIN path /\ i + 1 > 1 /\ (i + 1) - 1 = i
      BY <1>1, <2>3
    <3>2. LaidAt(path, i + 1)
      BY <3>1 DEF Shaped, Laid
    <3>3. path[i].n >= 1
      BY <2>1, <3>1, <3>2 DEF LaidAt
    <3>4. path[i] \in Construct /\ path'[i] \in Construct
      BY <1>1, PlaceFacts
    <3>5. path[i].n \in Nat /\ path'[i].n \in Nat
      BY <3>4 DEF Construct
    <3> QED
      BY <2>1, <3>3, <3>5
  <2> QED
    BY <2>2, <2>3
<1>4. Laid(path')
  BY <1>1, <1>3, LaidPushed DEF Shaped, EntersWith
<1> QED
  BY <1>1, <1>2, <1>4

LEMMA EnteredShaped ==
  ASSUME Inv, Inv', Agreed, Shaped, NEW c \in Construct, NEW decls,
         EntersWith(c, decls)
  PROVE  Shaped'
<1>1. /\ DOMAIN path' = 1 .. Depth + 1 /\ Depth' = Depth + 1
      /\ Top' = c /\ Top = path[Depth] /\ DOMAIN path = 1 .. Depth
      /\ Depth \in Nat \ {0} /\ Depth \in 1 .. Depth
      /\ Laid(path')
  BY EnteredPath
<1>2. ~closing' /\ Top'.kind = "loop" /\ Top'.on /\ Top'.n = 0 => live'
  BY <1>1 DEF EntersWith
<1>3. CASE InFunction
  <2>1. path'[2].kind = path[2].kind /\ Depth' > 1
    BY <1>1, <1>3 DEF InFunction, EntersWith, Alike
  <2> QED
    BY <1>1, <1>2, <1>3, <2>1 DEF Shaped, DeadInside, InFunction
<1>4. CASE ~InFunction
  <2>1. /\ \A a \in DOMAIN path : ~path[a].on => path[a].at.jump >= 1
        /\ ~live => Len(jump) >= 1
        /\ \A k \in DOMAIN defers : NoReturn(defers[k])
        /\ NoReturn(pending)
    BY <1>4 DEF Shaped, DeadInside
  <2>2. ASSUME NEW a \in DOMAIN path', ~path'[a].on
        PROVE  path'[a].at.jump >= 1
    <3>1. CASE a \in 1 .. Depth
      BY <1>1, <2>1, <2>2, <3>1 DEF EntersWith, Alike
    <3>2. CASE a = Depth + 1
      <4>1. path'[a] = c /\ ~live
        BY <2>2, <3>2 DEF EntersWith
      <4>2. c.at.jump = Len(jump)
        BY DEF EntersWith, Here
      <4> QED
        BY <2>1, <4>1, <4>2
    <3> QED
      BY <1>1, <3>1, <3>2
  <2>3. ~live' => Len(jump') >= 1
    <3>1. Len(jump') >= Len(jump) /\ Len(jump) \in Nat /\ Len(jump') \in Nat
      BY Types, NextTypes DEF EntersWith
    <3> QED
      BY <2>1, <3>1 DEF EntersWith
  <2>4. \A k \in DOMAIN defers' : NoReturn(defers'[k])
    <3>1. CASE defers' = defers
      BY <2>1, <3>1
    <3>2. CASE defers' = Append(defers, <<>>)
      <4>1. /\ DOMAIN defers' = 1 .. Len(defers) + 1
            /\ DOMAIN defers = 1 .. Len(defers) /\ Len(defers) \in Nat
            /\ defers'[Len(defers) + 1] = <<>>
            /\ \A i \in 1 .. Len(defers) : defers'[i] = defers[i]
        BY <3>2, PushFacts, Types, NextTypes
      <4>2. NoReturn(<<>>)
        BY DEF NoReturn
      <4> QED
        BY <2>1, <4>1, <4>2
    <3> QED
      BY <3>1, <3>2 DEF EntersWith
  <2>5. NoReturn(pending')
    BY <2>1 DEF EntersWith
  <2> QED
    BY <1>1, <1>2, <2>2, <2>3, <2>4, <2>5 DEF Shaped, DeadInside
<1> QED
  BY <1>3, <1>4

(* What a construct finds around it is still there, and its own scope, if  *)
(* both sides open one, has the same declarations.                         *)
LEMMA EnteredLevels ==
  ASSUME Inv, Inv', Agreed, Shaped, NEW c \in Construct, NEW decls,
         EntersWith(c, decls), LevelsNamed
  PROVE  LevelsNamed'
<1>1. /\ DOMAIN path' = 1 .. Depth + 1 /\ Depth' = Depth + 1
      /\ Top' = c /\ Top = path[Depth] /\ DOMAIN path = 1 .. Depth
      /\ Depth \in Nat \ {0} /\ Depth \in 1 .. Depth
      /\ Laid(path') /\ path'[Depth + 1] = c
      /\ Alike(path', path, Depth)
  BY EnteredPath DEF EntersWith
<1>2. /\ Len(scope) \in Nat /\ Len(cgScope) \in Nat
      /\ Len(scope) = Scopes(path, Depth) /\ Len(cgScope) = Tables(path, Depth)
      /\ c.at.scope = Len(scope) /\ c.at.defers + 1 = Len(cgScope)
  <2>1. Len(scope) = Inside(Top).scope /\ Len(cgScope) = Inside(Top).defers + 1
    BY ScopesNow DEF EntersWith
  <2>2. Len(cgScope) = Len(defers) + 1
    BY HeightFacts DEF EntersWith
  <2> QED
    BY <1>1, <2>1, <2>2, Types DEF Scopes, Tables, EntersWith, Here
<1>3. /\ \A i \in 1 .. Len(scope) : scope'[i] = scope[i]
      /\ c.kind \in SemaScoped => scope'[Len(scope) + 1] = decls
  <2>1. CASE c.kind \in SemaScoped
    <3>1. scope' = Append(scope, decls)
      BY <2>1 DEF EntersWith
    <3> QED
      BY <3>1, PushFacts, Types, MoreNextTypes
  <2>2. CASE c.kind \notin SemaScoped
    BY <2>2 DEF EntersWith
  <2> QED
    BY <2>1, <2>2
<1>4. /\ \A i \in 1 .. Len(cgScope) : cgScope'[i] = cgScope[i]
      /\ c.on /\ c.kind \in CgScoped =>
           cgScope'[Len(cgScope) + 1] = IF c.kind \in SemaScoped THEN decls ELSE {}
  <2>1. CASE c.on /\ c.kind \in CgScoped
    <3>1. cgScope' = Append(cgScope, IF c.kind \in SemaScoped THEN decls ELSE {})
      BY <2>1 DEF EntersWith
    <3>2. PICK e : e = IF c.kind \in SemaScoped THEN decls ELSE {}
      OBVIOUS
    <3>3. /\ \A i \in 1 .. Len(cgScope) : cgScope'[i] = cgScope[i]
          /\ cgScope'[Len(cgScope) + 1] = e
      BY <3>1, <3>2, PushFacts, Types, MoreNextTypes
    <3> QED
      BY <3>2, <3>3
  <2>2. CASE ~(c.on /\ c.kind \in CgScoped)
    BY <2>2 DEF EntersWith
  <2> QED
    BY <2>1, <2>2
<1>5. ASSUME NEW a \in 1 .. Depth, LevelNamed(path, scope, cgScope, a)
      PROVE  LevelNamed(path', scope', cgScope', a)
  <2>1. /\ Scopes(path, a) \in Nat \ {0} /\ Tables(path, a) \in Nat \ {0}
        /\ a \in Nat \ {0} /\ Alike(path', path, a)
    BY <1>1, ScopeFacts DEF Shaped, Alike
  <2>2. Scopes(path, a) <= Len(scope) /\ Tables(path, a) <= Len(cgScope)
    <3>1. CASE a = Depth
      BY <1>2, <3>1
    <3>2. CASE a # Depth
      <4>1. a < Depth
        BY <1>1, <3>2
      <4>2. Scopes(path, a) <= path[Depth].at.scope
        BY <1>1, <4>1 DEF Shaped, Laid
      <4>3. path[Depth].at.scope <= Scopes(path, Depth)
        <5>1. /\ path[Depth].at.scope \in Nat
              /\ Scopes(path, Depth) =
                   path[Depth].at.scope + One(path[Depth].kind \in SemaScoped)
              /\ One(path[Depth].kind \in SemaScoped) \in {0, 1}
          BY <1>1, ScopeFacts, OneFacts DEF Shaped
        <5> QED
          BY <5>1
      <4>4. /\ path[Depth].at.scope \in Nat /\ Scopes(path, Depth) \in Nat
        BY <1>1, ScopeFacts DEF Shaped
      <4>5. Inside(path[a]).defers <= Inside(Top).defers
        BY UnderNow
      <4>6. Inside(path[a]).defers \in Nat /\ Inside(Top).defers \in Nat
        BY <1>1, PlaceFacts, InsideFacts
      <4>7. Scopes(path, a) <= Scopes(path, Depth) /\ Scopes(path, Depth) = Len(scope)
        BY <1>2, <2>1, <4>2, <4>3, <4>4
      <4>8. Tables(path, a) <= Tables(path, Depth)
        BY <1>1, <4>5, <4>6 DEF Tables
      <4> QED
        BY <1>2, <4>7, <4>8
    <3> QED
      BY <3>1, <3>2
  <2>3. /\ \A i \in 1 .. Scopes(path, a) : i \in 1 .. Len(scope)
        /\ \A i \in 1 .. Tables(path, a) : i \in 1 .. Len(cgScope)
    BY <1>2, <2>1, <2>2
  <2> QED
    BY <1>3, <1>4, <1>5, <2>1, <2>3, LevelKept
<1>6. ASSUME NEW a \in 1 .. Depth, path'[a + 1].on
      PROVE  LevelNamed(path', scope', cgScope', a)
  <2>1. CASE a = Depth
    <3>1. Generating /\ ~closing
      BY <1>1, <1>6, <2>1 DEF EntersWith
    <3> QED
      BY <1>1, <1>5, <2>1, <3>1 DEF LevelsNamed
  <2>2. CASE a # Depth
    <3>1. a \in 1 .. Depth - 1 /\ a + 1 \in 1 .. Depth
      BY <1>1, <2>2
    <3>2. path[a + 1].on
      BY <1>1, <1>6, <3>1 DEF Alike
    <3> QED
      BY <1>5, <3>1, <3>2 DEF LevelsNamed
  <2> QED
    BY <2>1, <2>2
<1>7. ASSUME c.on
      PROVE  LevelNamed(path', scope', cgScope', Depth + 1)
  <2>1. LevelNamed(path', scope', cgScope', Depth)
    BY <1>1, <1>6, <1>7
  <2>2. /\ Scopes(path', Depth) = Len(scope)
        /\ Tables(path', Depth) = Len(cgScope)
    BY <1>1, <1>2 DEF Alike, Scopes, Tables
  <2>3. /\ Scopes(path', Depth + 1) = Len(scope) + One(c.kind \in SemaScoped)
        /\ Tables(path', Depth + 1) = Len(cgScope) + One(c.kind \in CgScoped)
    <3>1. /\ Inside(c).scope = c.at.scope + One(c.kind \in SemaScoped)
          /\ Inside(c).defers = c.at.defers + One(c.kind \in CgScoped)
      BY <1>7 DEF Inside, One
    <3>2. c.at.defers \in Nat /\ One(c.kind \in CgScoped) \in {0, 1}
      BY OneFacts DEF Construct, Heights
    <3> QED
      BY <1>1, <1>2, <3>1, <3>2 DEF Scopes, Tables
  <2>4. SameNames(scope', cgScope', Len(scope), Len(cgScope))
    BY <2>1, <2>2 DEF LevelNamed
  <2>5. CASE c.kind \in SemaScoped
    <3>1. c.kind \in CgScoped /\ One(TRUE) = 1
      BY <2>5 DEF CgScoped, One
    <3>2. /\ Scopes(path', Depth + 1) = Len(scope) + 1
          /\ Tables(path', Depth + 1) = Len(cgScope) + 1
      BY <2>3, <2>5, <3>1 DEF One
    <3>3. scope'[Len(scope) + 1] = cgScope'[Len(cgScope) + 1]
      BY <1>3, <1>4, <1>7, <2>5, <3>1
    <3>4. /\ (Len(scope) + 1) - 1 = Len(scope) /\ Len(scope) + 1 \in Nat \ {0}
          /\ (Len(cgScope) + 1) - 1 = Len(cgScope)
          /\ Len(cgScope) + 1 \in Nat \ {0}
      BY <1>2
    <3>5. SameNames(scope', cgScope', Len(scope) + 1, Len(cgScope) + 1)
      BY <2>4, <3>3, <3>4, NamesUnderSame
    <3> QED
      BY <2>4, <3>2, <3>3, <3>4, <3>5 DEF LevelNamed
  <2>6. CASE c.kind \in {"while", "case"}
    <3>1. /\ c.kind \in CgScoped /\ c.kind \notin SemaScoped /\ c.kind # "loop"
          /\ c.kind \notin Binding
      BY <2>6 DEF CgScoped, SemaScoped, Binding
    <3>2. /\ Scopes(path', Depth + 1) = Len(scope)
          /\ Tables(path', Depth + 1) = Len(cgScope) + 1
      BY <1>2, <2>3, <3>1 DEF One
    <3>3. cgScope'[Len(cgScope) + 1] = {}
      BY <1>4, <1>7, <3>1
    <3>4. /\ (Len(cgScope) + 1) - 1 = Len(cgScope)
          /\ Len(cgScope) + 1 \in Nat \ {0}
      BY <1>2
    <3>5. SameNames(scope', cgScope', Len(scope), Len(cgScope) + 1)
      BY <1>2, <2>4, <3>3, <3>4, NamesUnderEmpty
    <3>6. \A h \in 1 .. Depth + 1 :
            Bare(path', Depth + 1, h) => path'[h].kind \notin Binding
      <4> SUFFICES ASSUME NEW h \in 1 .. Depth + 1, Bare(path', Depth + 1, h)
                   PROVE  h = Depth + 1
        BY <1>1, <3>1
      <4>1. Depth + 1 \notin h + 1 .. Depth + 1
        BY <1>1, <3>1 DEF Bare
      <4> QED
        BY <1>1, <4>1
    <3> QED
      BY <3>2, <3>5, <3>6 DEF LevelNamed
  <2>7. CASE c.kind \notin CgScoped
    <3>1. c.kind \notin SemaScoped
      BY <2>7 DEF CgScoped
    <3>2. /\ Scopes(path', Depth + 1) = Len(scope)
          /\ Tables(path', Depth + 1) = Len(cgScope)
      BY <1>2, <2>3, <2>7, <3>1 DEF One
    <3>3. ASSUME NEW h \in 1 .. Depth + 1, Bare(path', Depth + 1, h),
                 path'[h].kind \in Binding
          PROVE  h \in 1 .. Depth /\ Bare(path', Depth, h)
      <4>1. c.kind \notin Binding
        BY <3>1 DEF EntersWith, Binding
      <4>2. h # Depth + 1
        BY <1>1, <3>3, <4>1
      <4>3. /\ h \in 1 .. Depth
            /\ \A i \in h + 1 .. Depth : i \in h + 1 .. Depth + 1
        BY <1>1, <4>2
      <4> QED
        BY <3>3, <4>3 DEF Bare
    <3> QED
      BY <2>1, <2>2, <2>4, <3>2, <3>3 DEF LevelNamed
  <2>8. c.kind \in CgScoped => c.kind \in SemaScoped \cup {"while", "case"}
    BY DEF CgScoped
  <2> QED
    BY <2>5, <2>6, <2>7, <2>8
<1>8. Generating' => c.on
  BY <1>1 DEF Generating
<1>9. Depth' - 1 = Depth
  BY <1>1
<1> QED
  BY <1>1, <1>6, <1>7, <1>8, <1>9 DEF LevelsNamed

(* The deferred uses kept so far are looked up below what is pushed.       *)
LEMMA UsesKept ==
  ASSUME NEW h \in Nat, NEW t, NEW u, \A i \in 1 .. h : u[i] = t[i],
         NEW list, UsesFound(t, h, list)
  PROVE  UsesFound(u, h, list)
<1>1. \A name : Found(u, h, name) = Found(t, h, name)
  BY FoundSame
<1> QED
  BY <1>1 DEF UsesFound

LEMMA EnteredNamed ==
  ASSUME Inv, Inv', Agreed, Shaped, NEW c \in Construct, NEW decls,
         EntersWith(c, decls), Named
  PROVE  Named'
<1> SUFFICES ASSUME ~displaced'
             PROVE  /\ LevelsNamed' /\ DefersNamed'
                    /\ ~misresolved' /\ panicked' # "variable"
  BY DEF Named
<1>1. LevelsNamed /\ DefersNamed /\ ~misresolved' /\ panicked' # "variable"
  BY DEF Named, EntersWith, StaysNamed
<1>2. LevelsNamed'
  BY <1>1, EnteredLevels
<1>3. ~closing'
  BY DEF EntersWith
<1>4. ASSUME NEW k \in DOMAIN defers'
      PROVE  UsesFound(cgScope', k + 1, defers'[k])
  <2>1. /\ Len(cgScope) = Len(defers) + 1 /\ Len(defers) \in Nat
        /\ DOMAIN defers = 1 .. Len(defers)
    BY HeightFacts, Types DEF EntersWith
  <2>2. CASE c.on /\ c.kind \in CgScoped
    <3> PICK e : e = IF c.kind \in SemaScoped THEN decls ELSE {}
      OBVIOUS
    <3>1. defers' = Append(defers, <<>>) /\ cgScope' = Append(cgScope, e)
      BY <2>2 DEF EntersWith
    <3>2. /\ DOMAIN defers' = 1 .. Len(defers) + 1
          /\ defers'[Len(defers) + 1] = <<>>
          /\ \A i \in 1 .. Len(defers) : defers'[i] = defers[i]
      BY <3>1, PushFacts, Types, NextTypes
    <3>3. \A i \in 1 .. Len(cgScope) : cgScope'[i] = cgScope[i]
      BY <3>1, PushFacts, Types, MoreNextTypes
    <3>4. CASE k = Len(defers) + 1
      BY <3>2, <3>4 DEF UsesFound
    <3>5. CASE k # Len(defers) + 1
      <4>1. k \in DOMAIN defers /\ k + 1 \in Nat /\ defers'[k] = defers[k]
        BY <2>1, <3>2, <3>5
      <4>2. \A i \in 1 .. k + 1 : i \in 1 .. Len(cgScope)
        BY <2>1, <4>1
      <4>3. \A i \in 1 .. k + 1 : cgScope'[i] = cgScope[i]
        BY <3>3, <4>2
      <4>4. UsesFound(cgScope, k + 1, defers[k])
        BY <1>1, <4>1 DEF DefersNamed
      <4> QED
        BY <4>1, <4>3, <4>4, UsesKept
    <3> QED
      BY <3>4, <3>5
  <2>3. CASE ~(c.on /\ c.kind \in CgScoped)
    <3>1. defers' = defers /\ cgScope' = cgScope
      BY <2>3 DEF EntersWith
    <3> QED
      BY <1>1, <3>1 DEF DefersNamed
  <2> QED
    BY <2>2, <2>3
<1>5. DefersNamed'
  BY <1>3, <1>4 DEF DefersNamed
<1> QED
  BY <1>1, <1>2, <1>5

LEMMA DescendedPath ==
  ASSUME Inv, Top.kind \in Lists \/ Top.n < 2,
         NEW kind \in Kinds, NEW on \in BOOLEAN, Begin(kind, on)
  PROVE  /\ Len(path') = Depth + 1
         /\ path'[Depth + 1] = [kind |-> kind, on |-> on, n |-> 0, at |-> Here]
         /\ Alike(path', path, Depth)
         /\ \A i \in 1 .. Depth : path'[i].n >= path[i].n
         /\ Top.kind = "loop" => path'[Depth].n >= 1
<1> DEFINE c == [kind |-> kind, on |-> on, n |-> 0, at |-> Here]
<1>1. c \in Construct /\ path' = Append(Counted, c)
  BY Types DEF Construct, Begin
<1> HIDE DEF c
<1>2. /\ Counted \in Seq(Construct) /\ SameConstructs(Counted, path)
      /\ DOMAIN path = 1 .. Depth /\ Depth \in Nat \ {0} /\ Depth = Len(path)
      /\ Top = path[Depth] /\ Depth \in 1 .. Depth /\ path \in Seq(Construct)
  BY CountedFacts, OpenFacts, TopFacts DEF Depth
<1>3. Len(Counted) = Depth
  BY <1>2 DEF SameConstructs
<1>4. /\ Len(path') = Depth + 1 /\ path'[Depth + 1] = c
      /\ \A i \in 1 .. Depth : path'[i] = Counted[i]
  BY <1>1, <1>2, <1>3, AppendFacts
<1>5. Alike(path', path, Depth)
  BY <1>2, <1>4 DEF Alike, SameConstructs
<1>6. \A i \in 1 .. Depth : path[i].n \in Nat
  BY <1>2, PlaceFacts DEF Construct
<1>7. /\ \A i \in 1 .. Depth : Counted[i].n >= path[i].n
      /\ Top.kind = "loop" => Counted[Depth].n >= 1
  <2>1. CASE Top.kind \in Lists
    <3>1. Top.kind # "loop" /\ Counted = path
      BY <2>1 DEF Lists, Counted
    <3> QED
      BY <1>6, <3>1
  <2>2. CASE Top.kind \notin Lists
    <3>1. Counted = [path EXCEPT ![Depth].n = @ + 1]
      BY <2>2 DEF Counted
    <3>2. Counted[Depth].n = path[Depth].n + 1
      BY <1>2, <3>1, PlaceFacts DEF Construct
    <3>3. \A i \in 1 .. Depth : i # Depth => Counted[i] = path[i]
      BY <1>2, <3>1
    <3>4. path[Depth].n \in Nat
      BY <1>2, <1>6
    <3>5. Counted[Depth].n >= path[Depth].n /\ Counted[Depth].n >= 1
      BY <3>2, <3>4
    <3>6. ASSUME NEW i \in 1 .. Depth
          PROVE  Counted[i].n >= path[i].n
      <4>1. CASE i = Depth
        BY <3>5, <4>1
      <4>2. CASE i # Depth
        <5>1. Counted[i].n = path[i].n /\ path[i].n \in Nat
          BY <1>6, <3>3, <4>2
        <5> QED
          BY <5>1
      <4> QED
        BY <4>1, <4>2
    <3> QED
      BY <3>5, <3>6
  <2> QED
    BY <2>1, <2>2
<1>8. /\ \A i \in 1 .. Depth : path'[i].n >= path[i].n
      /\ Top.kind = "loop" => path'[Depth].n >= 1
  BY <1>2, <1>4, <1>7
<1>9. path'[Depth + 1] = [kind |-> kind, on |-> on, n |-> 0, at |-> Here]
  BY <1>4 DEF c
<1> QED
  BY <1>4, <1>5, <1>8, <1>9

LEMMA EntersBy ==
  ASSUME Inv, Inv', Agreed, Shaped, Walking, Top.kind \in Lists \/ Top.n < 2,
         NEW kind \in Kinds \ {"root", "fn"}, NEW on \in BOOLEAN, NEW decls,
         Descend(kind, on) \/ (Begin(kind, on) /\ StaysNamed),
         live' = on, on => Generating, ~on => ~live,
         Top.kind \in Arms /\ Top.on => on,
         kind = "loop" => AtStatement /\ on = live,
         Len(jump') >= Len(jump),
         scope' = IF kind \in SemaScoped THEN Append(scope, decls) ELSE scope,
         defers' = IF on /\ kind \in CgScoped
                     THEN Append(defers, <<>>) ELSE defers,
         cgScope' = IF on /\ kind \in CgScoped
                      THEN Append(cgScope, IF kind \in SemaScoped THEN decls ELSE {})
                      ELSE cgScope
  PROVE  Shaped' /\ (Named => Named')
<1> DEFINE c == [kind |-> kind, on |-> on, n |-> 0, at |-> Here]
<1>1. c \in Construct /\ c.at = Here /\ c.on = on /\ c.kind = kind
  BY Types DEF Construct
<1>2. /\ Len(path') = Depth + 1 /\ path'[Depth + 1] = c
      /\ Alike(path', path, Depth)
      /\ \A i \in 1 .. Depth : path'[i].n >= path[i].n
      /\ Top.kind = "loop" => path'[Depth].n >= 1
  BY DescendedPath DEF Descend
<1> HIDE DEF c
<1>3. ~closing /\ UNCHANGED <<pending, closing>> /\ StaysNamed
  BY DEF Walking, Descend, Begin, StaysNamed
<1>4. kind = "loop" => Top.kind \notin Arms \cup {"fn"}
  BY DEF AtStatement, Arms, Loops, Cases
<1>5. kind = "loop" /\ Top.kind = "loop" => (on <=> Top.on)
  <2> SUFFICES ASSUME kind = "loop", Top.kind = "loop"
               PROVE  on <=> Top.on
    OBVIOUS
  <2>1. Top.n = 0
    BY DEF AtStatement, Loops, Cases
  <2>2. Top.on => live
    BY <1>3, <2>1 DEF Shaped
  <2>3. live => Top.on
    BY <1>3 DEF Agreed
  <2> QED
    BY <2>2, <2>3
<1>6. EntersWith(c, decls)
  BY <1>1, <1>2, <1>3, <1>4, <1>5 DEF EntersWith
<1> QED
  BY <1>1, <1>6, EnteredShaped, EnteredNamed

(* A construct that stands as a statement is generated in a live block.    *)
LEMMA StatementEnters ==
  ASSUME Inv, Agreed, AtStatement
  PROVE  /\ Walking /\ (Top.kind \in Lists \/ Top.n < 2)
         /\ live => Generating
         /\ Top.kind \notin Arms
         /\ Len(jump) \in Nat
<1>1. Walking /\ (Top.kind \in Lists \/ Top.n < 2)
  BY DEF AtStatement, Walking, Lists, Loops, Cases
<1>2. live => Generating
  BY <1>1 DEF Agreed, Generating, Walking
<1>3. Top.kind \notin Arms
  BY DEF AtStatement, Arms, Loops, Cases
<1> QED
  BY <1>1, <1>2, <1>3, Types

(* Where code is generated a name is found as analysis resolves it.        *)
LEMMA NameAgreed ==
  ASSUME Inv, Agreed, LevelsNamed, AtStatement, live, NEW name \in Names
  PROVE  Found(cgScope, Len(cgScope), name) = sema_resolve(name)
<1>1. /\ Depth \in 1 .. Depth /\ Top = path[Depth] /\ ~closing /\ Top.on
  BY OpenFacts, TopFacts DEF AtStatement, Walking, Agreed
<1>2. LevelNamed(path, scope, cgScope, Depth)
  BY <1>1 DEF LevelsNamed, Generating
<1>3. Len(scope) = Scopes(path, Depth) /\ Len(cgScope) = Tables(path, Depth)
  BY <1>1, ScopesNow DEF Scopes, Tables
<1>4. SameNames(scope, cgScope, Len(scope), Len(cgScope))
  BY <1>2, <1>3 DEF LevelNamed
<1>5. Found(cgScope, Len(cgScope), name) = Found(scope, Len(scope), name)
  BY <1>4 DEF SameNames
<1>6. Found(scope, Len(scope), name) = Resolve(scope, name)
  BY FoundIsResolve, Types
<1> QED
  BY <1>5, <1>6 DEF sema_resolve

LEMMA JumpGrows ==
  ASSUME Inv, NEW node \in Nat \ {0}, NEW is_loop \in BOOLEAN,
         sema_jump_push(node, is_loop)
  PROVE  Len(jump') >= Len(jump)
BY JumpPush, Types

LEMMA EnterBlockNamed ==
  ASSUME Inv, Agreed, Shaped, EnterBlock
  PROVE  Shaped' /\ (Named => Named')
<1> DEFINE on == IF Top.kind = "if" THEN Top.on ELSE live
<1>1. Walking /\ (Top.kind \in Lists \/ Top.n < 2)
  BY DEF EnterBlock, AtBlock, AtStatement, Walking, Lists, Loops, Cases
<1>2. /\ Descend("block", on) /\ "block" \in Kinds \ {"root", "fn"}
      /\ on \in BOOLEAN /\ live' = on /\ jump' = jump
  BY TopFacts, Types DEF EnterBlock, Kinds, Lists, Loops, Cases, Construct
<1>3. (live => Top.on) /\ Top.kind # "switch"
  BY <1>1 DEF Agreed, Walking, EnterBlock, AtBlock, AtStatement, Loops, Cases
<1>4. /\ on => Generating
      /\ ~on => ~live
      /\ Top.kind \in Arms /\ Top.on => on
  BY <1>3 DEF Generating, Arms
<1>5. scope' = IF "block" \in SemaScoped THEN Append(scope, {}) ELSE scope
  BY DEF EnterBlock, sema_scope_push, SemaScoped
<1>6. /\ defers' = IF on /\ "block" \in CgScoped
                     THEN Append(defers, <<>>) ELSE defers
      /\ cgScope' = IF on /\ "block" \in CgScoped
                      THEN Append(cgScope, IF "block" \in SemaScoped THEN {} ELSE {})
                      ELSE cgScope
  BY DEF EnterBlock, Skip, NoScope, cg_push_scope, CgScoped, SemaScoped
<1>7. Inv' /\ Len(jump') >= Len(jump)
  BY <1>2, EnterBlockInv, Types
<1> HIDE DEF on
<1> QED
  BY <1>1, <1>2, <1>4, <1>5, <1>6, <1>7, EntersBy

LEMMA EnterIfNamed ==
  ASSUME Inv, Agreed, Shaped, EnterIf
  PROVE  Shaped' /\ (Named => Named')
<1>1. /\ Walking /\ (Top.kind \in Lists \/ Top.n < 2) /\ (live => Generating)
      /\ Top.kind \notin Arms
  BY StatementEnters DEF EnterIf
<1>2. /\ Descend("if", live) /\ "if" \in Kinds \ {"root", "fn"}
      /\ live \in BOOLEAN /\ live' = live /\ jump' = jump
  BY Types DEF EnterIf, Kinds
<1>3. /\ scope' = IF "if" \in SemaScoped THEN Append(scope, {}) ELSE scope
      /\ defers' = IF live /\ "if" \in CgScoped
                     THEN Append(defers, <<>>) ELSE defers
      /\ cgScope' = IF live /\ "if" \in CgScoped
                      THEN Append(cgScope, IF "if" \in SemaScoped THEN {} ELSE {})
                      ELSE cgScope
  BY DEF EnterIf, Skip, NoScope, CgScoped, SemaScoped
<1>4. Inv' /\ Len(jump') >= Len(jump)
  BY <1>2, EnterIfInv, Types
<1> QED
  BY <1>1, <1>2, <1>3, <1>4, EntersBy

LEMMA EnterLoopNamed ==
  ASSUME Inv, Agreed, Shaped, EnterLoop
  PROVE  Shaped' /\ (Named => Named')
<1>1. /\ Walking /\ (Top.kind \in Lists \/ Top.n < 2) /\ (live => Generating)
      /\ Top.kind \notin Arms /\ AtStatement
  BY StatementEnters DEF EnterLoop
<1>2. /\ Descend("loop", live) /\ "loop" \in Kinds \ {"root", "fn"}
      /\ live \in BOOLEAN /\ live' = live
  BY Types DEF EnterLoop, Kinds, Loops
<1>3. /\ scope' = IF "loop" \in SemaScoped THEN Append(scope, {}) ELSE scope
      /\ defers' = IF live /\ "loop" \in CgScoped
                     THEN Append(defers, <<>>) ELSE defers
      /\ cgScope' = IF live /\ "loop" \in CgScoped
                      THEN Append(cgScope, IF "loop" \in SemaScoped THEN {} ELSE {})
                      ELSE cgScope
  BY DEF EnterLoop, Skip, NoScope, CgScoped, SemaScoped
<1>4. Inv' /\ Len(jump') >= Len(jump)
  BY EnterLoopInv, JumpGrows, TopFacts DEF EnterLoop
<1> QED
  BY <1>1, <1>2, <1>3, <1>4, EntersBy

LEMMA EnterWhileNamed ==
  ASSUME Inv, Agreed, Shaped, EnterWhile
  PROVE  Shaped' /\ (Named => Named')
<1>1. /\ Walking /\ (Top.kind \in Lists \/ Top.n < 2) /\ (live => Generating)
      /\ Top.kind \notin Arms
  BY StatementEnters DEF EnterWhile
<1>2. /\ Descend("while", live) /\ "while" \in Kinds \ {"root", "fn"}
      /\ live \in BOOLEAN /\ live' = live
  BY Types DEF EnterWhile, Kinds, Loops
<1>3. /\ scope' = IF "while" \in SemaScoped THEN Append(scope, {}) ELSE scope
      /\ defers' = IF live /\ "while" \in CgScoped
                     THEN Append(defers, <<>>) ELSE defers
      /\ cgScope' = IF live /\ "while" \in CgScoped
                      THEN Append(cgScope, IF "while" \in SemaScoped THEN {} ELSE {})
                      ELSE cgScope
  BY DEF EnterWhile, Skip, NoScope, cg_push_scope, CgScoped, SemaScoped
<1>4. Inv' /\ Len(jump') >= Len(jump)
  BY EnterWhileInv, JumpGrows, TopFacts DEF EnterWhile
<1> QED
  BY <1>1, <1>2, <1>3, <1>4, EntersBy

(* The iterable of a loop whose variable has another name is looked up past *)
(* the variable.                                                           *)
LEMMA IterableFound ==
  ASSUME Inv, Agreed, LevelsNamed, AtStatement, live,
         NEW decls \in SUBSET Declaration, NEW init \in Names,
         ~Declared(decls, init)
  PROVE  Resolve(Append(cgScope, decls), init) = sema_resolve(init)
<1> PICK t : t = Append(cgScope, decls)
  OBVIOUS
<1> PICK h : h = Len(cgScope)
  OBVIOUS
<1>1. /\ t \in Seq(SUBSET Declaration) /\ h \in Nat /\ Len(t) = h + 1
      /\ t[h + 1] = decls /\ \A i \in 1 .. h : t[i] = cgScope[i]
  BY AppendFacts, Types
<1>2. Found(t, h + 1, init) = Found(t, h, init)
  <2>1. h + 1 \in Nat \ {0} /\ (h + 1) - 1 = h /\ ~Declared(t[h + 1], init)
    BY <1>1
  <2>2. Found(t, h + 1, init) = IF Declared(t[h + 1], init)
                                  THEN DeclarationOf(t[h + 1], init)
                                  ELSE Found(t, (h + 1) - 1, init)
    BY ONLY <2>1, FoundStep
  <2> QED
    BY <2>1, <2>2
<1>3. Found(t, h, init) = Found(cgScope, h, init)
  BY ONLY <1>1, FoundSame
<1>4. Found(t, Len(t), init) = Resolve(t, init)
  BY ONLY <1>1, FoundIsResolve
<1> QED
  BY <1>1, <1>2, <1>3, <1>4, NameAgreed

LEMMA IterableNamed ==
  ASSUME Inv, Agreed, NEW kind, NEW name \in Names \cup {NoName},
         NEW init \in Names \cup {NoName}, EnterFor(kind, name, init),
         NEW decls \in SUBSET Declaration,
         decls = IF name = NoName THEN {} ELSE Bind(name),
         init # name => ~Declared(decls, init)
  PROVE  StaysNamed
<1>1. /\ AtStatement /\ displaced' = (displaced \/ (init # NoName /\ init = name))
      /\ displaced \in BOOLEAN
  BY Types DEF EnterFor
<1>2. displaced => displaced'
  BY <1>1
<1>3. ASSUME ~displaced', LevelsNamed, ~misresolved, panicked # "variable"
      PROVE  ~misresolved' /\ panicked' # "variable"
  <2>1. CASE live /\ init # NoName
    <3>1. init \in Names /\ init # name
      BY <1>1, <1>3, <2>1
    <3>2. Resolve(Append(cgScope, decls), init) = sema_resolve(init)
      BY <1>1, <1>3, <2>1, <3>1, IterableFound
    <3>3. /\ sema_resolve(init) # 0
          /\ cg_lookup(Append(cgScope, decls), init, sema_resolve(init))
      BY <2>1 DEF EnterFor
    <3> QED
      BY <1>3, <3>2, <3>3 DEF cg_lookup
  <2>2. CASE ~(live /\ init # NoName)
    BY <1>3, <2>2 DEF EnterFor
  <2> QED
    BY <2>1, <2>2
<1> QED
  BY <1>2, <1>3 DEF StaysNamed

LEMMA EnterForNamed ==
  ASSUME Inv, Agreed, Shaped, NEW kind \in {"for", "for_in"},
         NEW name \in Names \cup {NoName}, NEW init \in Names \cup {NoName},
         EnterFor(kind, name, init)
  PROVE  Shaped' /\ (Named => Named')
<1> DEFINE decls == IF name = NoName THEN {} ELSE Bind(name)
<1>1. /\ Walking /\ (Top.kind \in Lists \/ Top.n < 2) /\ (live => Generating)
      /\ Top.kind \notin Arms
  BY StatementEnters DEF EnterFor
<1>2. /\ Begin(kind, live) /\ kind \in Kinds \ {"root", "fn"} /\ kind # "loop"
      /\ live \in BOOLEAN /\ live' = live
  BY Types DEF EnterFor, Kinds, Loops
<1>3. /\ scope' = IF kind \in SemaScoped THEN Append(scope, decls) ELSE scope
      /\ defers' = IF live /\ kind \in CgScoped
                     THEN Append(defers, <<>>) ELSE defers
      /\ cgScope' = IF live /\ kind \in CgScoped
                      THEN Append(cgScope, IF kind \in SemaScoped THEN decls ELSE {})
                      ELSE cgScope
  BY DEF EnterFor, Skip, NoScope, cg_push_scope, sema_scope_push, CgScoped, SemaScoped
<1>4. Inv' /\ Len(jump') >= Len(jump)
  BY EnterForInv, JumpGrows, TopFacts DEF EnterFor
<1>5. decls \in SUBSET Declaration
  BY TopFacts, NoNameAssumption DEF Bind, Declaration
<1>6. init # name => ~Declared(decls, init)
  BY DEF Bind, Declared
<1> HIDE DEF decls
<1>7. StaysNamed
  BY <1>5, <1>6, IterableNamed DEF decls
<1> QED
  BY <1>1, <1>2, <1>3, <1>4, <1>7, EntersBy

LEMMA EnterSwitchNamed ==
  ASSUME Inv, Agreed, Shaped, EnterSwitch
  PROVE  Shaped' /\ (Named => Named')
<1>1. /\ Walking /\ (Top.kind \in Lists \/ Top.n < 2) /\ (live => Generating)
      /\ Top.kind \notin Arms
  BY StatementEnters DEF EnterSwitch
<1>2. /\ Descend("switch", live) /\ "switch" \in Kinds \ {"root", "fn"}
      /\ live \in BOOLEAN /\ live' = live
  BY Types DEF EnterSwitch, Kinds, Lists
<1>3. /\ scope' = IF "switch" \in SemaScoped THEN Append(scope, {}) ELSE scope
      /\ defers' = IF live /\ "switch" \in CgScoped
                     THEN Append(defers, <<>>) ELSE defers
      /\ cgScope' = IF live /\ "switch" \in CgScoped
                      THEN Append(cgScope, IF "switch" \in SemaScoped THEN {} ELSE {})
                      ELSE cgScope
  BY DEF EnterSwitch, Skip, NoScope, CgScoped, SemaScoped
<1>4. Inv' /\ Len(jump') >= Len(jump)
  BY EnterSwitchInv, JumpGrows, TopFacts DEF EnterSwitch
<1> QED
  BY <1>1, <1>2, <1>3, <1>4, EntersBy

LEMMA EnterElseNamed ==
  ASSUME Inv, Agreed, Shaped, EnterElse
  PROVE  Shaped' /\ (Named => Named')
<1>1. /\ Walking /\ (Top.kind \in Lists \/ Top.n < 2) /\ (live => Generating)
      /\ Top.kind \notin Arms
  BY StatementEnters DEF EnterElse
<1>2. /\ Descend("else", live) /\ "else" \in Kinds \ {"root", "fn"}
      /\ live \in BOOLEAN /\ live' = live /\ jump' = jump
  BY Types DEF EnterElse, Kinds, Lists
<1>3. /\ scope' = IF "else" \in SemaScoped THEN Append(scope, {}) ELSE scope
      /\ defers' = IF live /\ "else" \in CgScoped
                     THEN Append(defers, <<>>) ELSE defers
      /\ cgScope' = IF live /\ "else" \in CgScoped
                      THEN Append(cgScope, IF "else" \in SemaScoped THEN {} ELSE {})
                      ELSE cgScope
  BY DEF EnterElse, Skip, NoScope, cg_push_scope, sema_scope_push, CgScoped, SemaScoped
<1>4. Inv' /\ Len(jump') >= Len(jump)
  BY <1>2, EnterElseInv, Types
<1> QED
  BY <1>1, <1>2, <1>3, <1>4, EntersBy

(* Within a `switch` code is generated if the `switch` is.                 *)
LEMMA CaseEnters ==
  ASSUME Inv, Agreed, Walking, Top.kind = "switch"
  PROVE  /\ Top.kind \in Lists /\ Top.on \in BOOLEAN
         /\ Top.on => Generating
         /\ ~Top.on => ~live
BY TopFacts DEF Agreed, Generating, Walking, Arms, Lists, Construct

LEMMA EnterCaseNamed ==
  ASSUME Inv, Agreed, Shaped, EnterCase
  PROVE  Shaped' /\ (Named => Named')
<1> DEFINE on == Top.on
<1>1. /\ Walking /\ Top.kind \in Lists /\ on \in BOOLEAN
      /\ (on => Generating) /\ (~on => ~live)
  BY CaseEnters DEF EnterCase
<1>2. /\ Descend("case", on) /\ "case" \in Kinds \ {"root", "fn"}
      /\ live' = on /\ jump' = jump
  BY DEF EnterCase, Kinds, Cases
<1>3. /\ scope' = IF "case" \in SemaScoped THEN Append(scope, {}) ELSE scope
      /\ defers' = IF on /\ "case" \in CgScoped
                     THEN Append(defers, <<>>) ELSE defers
      /\ cgScope' = IF on /\ "case" \in CgScoped
                      THEN Append(cgScope, IF "case" \in SemaScoped THEN {} ELSE {})
                      ELSE cgScope
  BY DEF EnterCase, Skip, NoScope, cg_push_scope, CgScoped, SemaScoped
<1>4. Inv' /\ Len(jump') >= Len(jump)
  BY <1>2, EnterCaseInv, Types
<1>5. Top.kind \in Arms /\ Top.on => on
  OBVIOUS
<1> HIDE DEF on
<1> QED
  BY <1>1, <1>2, <1>3, <1>4, <1>5, EntersBy

LEMMA EnterTypedCaseNamed ==
  ASSUME Inv, Agreed, Shaped, NEW name \in Names, EnterTypedCase(name)
  PROVE  Shaped' /\ (Named => Named')
<1> DEFINE on == Top.on
           decls == Bind(name)
<1>1. /\ Walking /\ Top.kind \in Lists /\ on \in BOOLEAN
      /\ (on => Generating) /\ (~on => ~live)
  BY CaseEnters DEF EnterTypedCase
<1>2. /\ Descend("typed_case", on) /\ "typed_case" \in Kinds \ {"root", "fn"}
      /\ live' = on /\ jump' = jump
  BY DEF EnterTypedCase, Kinds, Cases
<1>3. /\ scope' = IF "typed_case" \in SemaScoped THEN Append(scope, decls) ELSE scope
      /\ defers' = IF on /\ "typed_case" \in CgScoped
                     THEN Append(defers, <<>>) ELSE defers
      /\ cgScope' = IF on /\ "typed_case" \in CgScoped
                      THEN Append(cgScope,
                                  IF "typed_case" \in SemaScoped THEN decls ELSE {})
                      ELSE cgScope
  BY DEF EnterTypedCase, Skip, NoScope, cg_push_scope, sema_scope_push,
         CgScoped, SemaScoped
<1>4. Inv' /\ Len(jump') >= Len(jump)
  BY <1>2, EnterTypedCaseInv, Types
<1>5. Top.kind \in Arms /\ Top.on => on
  OBVIOUS
<1> HIDE DEF on, decls
<1> QED
  BY <1>1, <1>2, <1>3, <1>4, <1>5, EntersBy

LEMMA BeginFunctionNamed ==
  ASSUME Inv, Agreed, Shaped, NEW params \in SUBSET Names, BeginFunction(params)
  PROVE  Shaped' /\ (Named => Named')
<1> DEFINE c == [kind |-> "fn", on |-> TRUE, n |-> 0, at |-> Here]
           p == [path EXCEPT ![1].n = 1]
           decls == {[name |-> q, id |-> Depth + 1] : q \in params}
<1>1. /\ c \in Construct /\ c.at = Here /\ c.on = TRUE /\ c.kind = "fn"
  BY Types DEF Construct, Kinds
<1>2. p \in Seq(Construct) /\ SameConstructs(p, path)
  <2>1. 1 \in DOMAIN path /\ path[1] \in Construct
    BY TopFacts
  <2>2. [path[1] EXCEPT !.n = 1] \in Construct
    BY <2>1 DEF Construct
  <2>3. p = [path EXCEPT ![1] = [path[1] EXCEPT !.n = 1]]
    BY <2>1
  <2>4. p \in Seq(Construct) /\ Len(p) = Len(path)
    BY <2>1, <2>2, <2>3, TopFacts, ExceptFacts
  <2>5. ASSUME NEW i \in 1 .. Len(path)
        PROVE  p[i].kind = path[i].kind /\ p[i].on = path[i].on
                 /\ p[i].at = path[i].at
    BY <2>1, <2>3, TopFacts DEF Construct
  <2> QED
    BY <2>4, <2>5 DEF SameConstructs, Inside
<1>3. /\ ~closing
      /\ UNCHANGED <<pending, closing, panicked, misresolved, displaced>>
      /\ path' = Append(p, c) /\ Depth = 1 /\ live' = TRUE /\ jump' = jump
  BY DEF BeginFunction, Walking
<1>4. Top = path[1] /\ Top.on /\ Top.kind = "root"
  <2>1. Top = path[1]
    BY TopFacts DEF BeginFunction
  <2> QED
    BY <2>1 DEF Agreed, PathOrder, Inv, Measured, Rooted
<1>5. live
  <2>1. Len(jump) = 0
    <3>1. One(Top.kind \in Loops \cup {"switch"}) = 0
      BY <1>4 DEF One, Loops
    <3>2. Top.at.jump = 0
      BY <1>4 DEF Inv, Measured, Rooted
    <3> QED
      BY <1>3, <3>1, <3>2, HeightFacts
  <2> QED
    BY <1>3, <2>1 DEF Shaped, DeadInside, InFunction
<1>6. /\ scope' = Append(scope, decls) /\ cgScope' = Append(cgScope, decls)
      /\ defers' = Append(defers, <<>>)
  BY DEF BeginFunction, sema_scope_push, cg_push_scope
<1>7. /\ "fn" \in SemaScoped /\ "fn" \in CgScoped /\ Top.kind \notin Arms
      /\ Top.kind # "loop"
  BY <1>4 DEF SemaScoped, CgScoped, Arms
<1> HIDE DEF c, p, decls
<1>8. /\ Len(path') = Depth + 1 /\ path'[Depth + 1] = c
      /\ Alike(path', path, Depth)
  <2>1. Len(p) = Depth /\ Depth \in Nat
    BY <1>2, TopFacts DEF SameConstructs, Depth
  <2>2. /\ Len(path') = Depth + 1 /\ path'[Depth + 1] = c
        /\ \A i \in 1 .. Depth : path'[i] = p[i]
    <3>1. path' = Append(p, c)
      BY <1>3
    <3>2. /\ Len(Append(p, c)) = Len(p) + 1 /\ Append(p, c)[Len(p) + 1] = c
          /\ \A i \in 1 .. Len(p) : Append(p, c)[i] = p[i]
      BY <1>1, <1>2, AppendFacts
    <3> QED
      BY <2>1, <3>1, <3>2
  <2>3. Alike(path', path, Depth)
    BY <1>2, <2>1, <2>2 DEF Alike, SameConstructs
  <2> QED
    BY <2>2, <2>3
<1>9. \A i \in 1 .. Depth : path[i].kind = "loop" => path'[i].n >= path[i].n
  <2>1. \A i \in 1 .. Depth : path[i].kind = "root"
    BY <1>3, <1>4
  <2> QED
    BY <2>1
<1>10. Inv' /\ Len(jump') >= Len(jump)
  BY <1>3, BeginFunctionInv, Types
<1>11. Generating
  BY <1>4, <1>5 DEF Generating
<1>12. EntersWith(c, decls)
  BY <1>1, <1>3, <1>5, <1>6, <1>7, <1>8, <1>9, <1>10, <1>11
     DEF EntersWith, StaysNamed
<1> QED
  BY <1>1, <1>10, <1>12, EnteredShaped, EnteredNamed

LEMMA EnterNamed ==
  ASSUME Inv, Agreed, Shaped, Enter
  PROVE  Shaped' /\ (Named => Named')
<1>1. CASE EnterBlock \/ EnterIf \/ EnterLoop \/ EnterWhile \/ EnterSwitch
  BY <1>1, EnterBlockNamed, EnterIfNamed, EnterLoopNamed, EnterWhileNamed,
     EnterSwitchNamed
<1>2. CASE EnterCase \/ EnterElse
  BY <1>2, EnterCaseNamed, EnterElseNamed
<1>3. ASSUME NEW name \in Names \cup {NoName}, NEW init \in Names \cup {NoName},
             EnterFor("for", name, init) \/ EnterFor("for_in", name, init)
      PROVE  Shaped' /\ (Named => Named')
  BY <1>3, EnterForNamed
<1>4. ASSUME NEW name \in Names, EnterTypedCase(name)
      PROVE  Shaped' /\ (Named => Named')
  BY <1>4, EnterTypedCaseNamed
<1>5. ASSUME NEW params \in SUBSET Names, BeginFunction(params)
      PROVE  Shaped' /\ (Named => Named')
  BY <1>5, BeginFunctionNamed
<1> QED
  BY <1>1, <1>2, <1>3, <1>4, <1>5 DEF Enter

(***************************************************************************)
(* Going up.                                                               *)
(***************************************************************************)
LEMMA OuterKept ==
  ASSUME Inv, Agreed, Shaped, NEW a \in 1 .. Depth - 1, NEW q, Alike(q, path, a),
         NEW u, \A i \in 1 .. Top.at.scope : u[i] = scope[i],
         NEW v, \A i \in 1 .. Top.at.defers + 1 : v[i] = cgScope[i],
         LevelNamed(path, scope, cgScope, a)
  PROVE  LevelNamed(q, u, v, a)
<1>1. /\ DOMAIN path = 1 .. Depth /\ Depth \in Nat \ {0} /\ Top = path[Depth]
      /\ Depth \in 1 .. Depth /\ a \in 1 .. Depth /\ a < Depth /\ a \in Nat \ {0}
  BY OpenFacts, TopFacts
<1>2. /\ Scopes(path, a) \in Nat \ {0} /\ Tables(path, a) \in Nat \ {0}
      /\ Top.at.scope \in Nat /\ Top.at.defers \in Nat
  BY <1>1, ScopeFacts DEF Shaped
<1>3. Scopes(path, a) <= Top.at.scope
  BY <1>1 DEF Shaped, Laid
<1>4. Tables(path, a) <= Top.at.defers + 1
  <2>1. Inside(path[a]).defers <= Top.at.defers
    BY <1>1 DEF Agreed, PathOrder, Around
  <2>2. Inside(path[a]).defers \in Nat
    BY <1>1, PlaceFacts, InsideFacts
  <2> QED
    BY <1>2, <2>1, <2>2 DEF Tables
<1>5. /\ \A i \in 1 .. Scopes(path, a) : i \in 1 .. Top.at.scope
      /\ \A i \in 1 .. Tables(path, a) : i \in 1 .. Top.at.defers + 1
  BY <1>2, <1>3, <1>4
<1>6. /\ \A i \in 1 .. Scopes(path, a) : u[i] = scope[i]
      /\ \A i \in 1 .. Tables(path, a) : v[i] = cgScope[i]
  BY <1>5
<1> QED
  BY <1>1, <1>2, <1>6, LevelKept

LEMMA UpPath ==
  ASSUME Inv, Inv', Depth > 1, path' = Front(path)
  PROVE  /\ DOMAIN path = 1 .. Depth /\ Depth \in Nat \ {0} /\ Top = path[Depth]
         /\ DOMAIN path' = 1 .. Depth - 1 /\ Depth' = Depth - 1
         /\ Depth - 1 \in 1 .. Depth
         /\ \A i \in 1 .. Depth - 1 : path'[i] = path[i] /\ i \in 1 .. Depth
         /\ Top' = path[Depth - 1] /\ Inside(Top') = Top.at
<1>1. /\ path \in Seq(Construct) /\ path # <<>> /\ Depth = Len(path)
      /\ Top = path[Depth] /\ DOMAIN path = 1 .. Depth /\ Depth \in Nat \ {0}
  BY TopFacts, OpenFacts DEF Depth
<1>2. /\ path' \in Seq(Construct) /\ Len(path') = Depth - 1
      /\ DOMAIN path' = 1 .. Depth - 1
      /\ \A i \in 1 .. Depth - 1 : path'[i] = path[i]
  BY <1>1, FrontFacts
<1>3. Depth' = Depth - 1 /\ Depth - 1 \in 1 .. Depth - 1
  BY <1>1, <1>2 DEF Depth
<1>4. Top' = path[Depth - 1]
  <2>1. Top' = path'[Depth - 1]
    BY <1>2, <1>3, NextTypes, LastFacts DEF Top
  <2> QED
    BY <1>2, <1>3, <2>1
<1>5. Inside(Top') = Top.at
  <2>1. Inside(Last(path')) = Top.at
    BY Popped
  <2> QED
    BY <2>1 DEF Top
<1> QED
  BY <1>1, <1>2, <1>3, <1>4, <1>5

LEMMA UpLevels ==
  ASSUME Inv, Inv', Agreed, Shaped, LevelsNamed, Depth > 1, path' = Front(path),
         \A i \in 1 .. Top.at.scope : scope'[i] = scope[i],
         \A i \in 1 .. Top.at.defers + 1 : cgScope'[i] = cgScope[i],
         live' => Top.on
  PROVE  LevelsNamed'
<1>1. /\ DOMAIN path = 1 .. Depth /\ Depth \in Nat \ {0} /\ Top = path[Depth]
      /\ DOMAIN path' = 1 .. Depth - 1 /\ Depth' = Depth - 1
      /\ \A i \in 1 .. Depth - 1 : path'[i] = path[i] /\ i \in 1 .. Depth
      /\ Top' = path[Depth - 1]
  BY UpPath
<1>2. ASSUME NEW a \in 1 .. Depth - 1, path[a + 1].on
      PROVE  LevelNamed(path', scope', cgScope', a)
  <2>1. LevelNamed(path, scope, cgScope, a)
    BY <1>2 DEF LevelsNamed
  <2>2. Alike(path', path, a)
    <3>1. \A i \in 1 .. a : i \in 1 .. Depth - 1
      BY <1>1
    <3> QED
      BY <1>1, <3>1 DEF Alike
  <2> QED
    BY <2>1, <2>2, OuterKept
<1>3. ASSUME NEW a \in 1 .. Depth' - 1, path'[a + 1].on
      PROVE  LevelNamed(path', scope', cgScope', a)
  <2>1. a \in 1 .. Depth - 1 /\ a + 1 \in 1 .. Depth - 1
    BY <1>1
  <2> QED
    BY <1>1, <1>2, <1>3, <2>1
<1>4. ASSUME Generating'
      PROVE  LevelNamed(path', scope', cgScope', Depth')
  <2>1. path[Depth].on
    <3>1. CASE live'
      BY <1>1, <3>1
    <3>2. CASE ~live'
      <4>1. path[Depth - 1].kind \in Arms /\ path[Depth - 1].on
        BY <1>1, <1>4, <3>2 DEF Generating
      <4>2. LaidAt(path, Depth)
        BY <1>1 DEF Shaped, Laid
      <4> QED
        BY <4>1, <4>2 DEF LaidAt
    <3> QED
      BY <3>1, <3>2
  <2>2. Depth - 1 \in 1 .. Depth - 1 /\ (Depth - 1) + 1 = Depth
    BY <1>1
  <2> QED
    BY <1>1, <1>2, <2>1, <2>2
<1> QED
  BY <1>3, <1>4 DEF LevelsNamed

LEMMA UpShaped ==
  ASSUME Inv, Inv', Agreed, Shaped, Depth > 1, path' = Front(path), ~closing',
         Top.kind = "fn" => live',
         ~live' => InFunction \/ Len(jump') >= 1,
         \A k \in DOMAIN defers' : k \in DOMAIN defers /\ defers'[k] = defers[k],
         pending' = <<>>
  PROVE  Shaped'
<1>1. /\ DOMAIN path = 1 .. Depth /\ Depth \in Nat \ {0} /\ Top = path[Depth]
      /\ DOMAIN path' = 1 .. Depth - 1 /\ Depth' = Depth - 1
      /\ Depth - 1 \in 1 .. Depth
      /\ \A i \in 1 .. Depth - 1 : path'[i] = path[i] /\ i \in 1 .. Depth
      /\ Top' = path[Depth - 1] /\ Inside(Top') = Top.at
  BY UpPath
<1>2. \A i \in 1 .. Depth - 1 : path[i].kind = "loop" => path[i].n >= 1
  <2> SUFFICES ASSUME NEW i \in 1 .. Depth - 1, path[i].kind = "loop"
               PROVE  path[i].n >= 1
    OBVIOUS
  <2>1. i + 1 \in DOMAIN path /\ i + 1 > 1 /\ (i + 1) - 1 = i
    BY <1>1
  <2>2. LaidAt(path, i + 1)
    BY <2>1 DEF Shaped, Laid
  <2> QED
    BY <2>1, <2>2 DEF LaidAt
<1>3. Laid(path')
  <2>1. Alike(path', path, Depth - 1)
    BY <1>1 DEF Alike
  <2>2. \A i \in 1 .. Depth - 1 :
          path[i].kind = "loop" /\ i < Depth - 1 => path'[i].n >= 1
    BY <1>1, <1>2
  <2> QED
    BY <1>1, <2>1, <2>2, LaidBelow DEF Shaped
<1>4. Top'.kind = "loop" => ~(Top'.n = 0)
  <2> SUFFICES ASSUME Top'.kind = "loop"
               PROVE  ~(Top'.n = 0)
    OBVIOUS
  <2>1. Depth - 1 \in 1 .. Depth - 1
    BY <1>1
  <2>2. Top'.n >= 1
    BY <1>1, <1>2, <2>1
  <2> QED
    BY <2>2
<1>5. NoReturn(pending')
  BY DEF NoReturn
<1>6. CASE Depth = 2
  <2>1. DOMAIN path' = {1} /\ path'[1] = path[1] /\ path[1].on
    BY <1>1, <1>6 DEF Agreed, PathOrder
  <2>2. DOMAIN defers' = {}
    <3>1. Top.at.defers = 0
      <4>1. Top' = path[1]
        BY <1>1, <1>6
      <4>2. Inside(path[1]).defers = 0
        BY DEF Inv, Measured, Rooted, Inside, One, CgScoped, SemaScoped
      <4> QED
        BY <1>1, <4>1, <4>2
    <3>2. Here' = Inside(Top')
      BY DEF Inv, Measured
    <3>3. Len(defers') = 0
      BY <1>1, <3>1, <3>2 DEF Here
    <3> QED
      BY <3>3, NextTypes
  <2>3. InFunction => live'
    BY <1>1, <1>6 DEF InFunction
  <2> QED
    BY <1>3, <1>4, <1>5, <2>1, <2>2, <2>3 DEF Shaped, DeadInside
<1>7. CASE Depth # 2
  <2>1. 2 \in 1 .. Depth - 1 /\ Depth' > 1
    BY <1>1, <1>7
  <2>2. InFunction <=> InFunction'
    BY <1>1, <2>1 DEF InFunction
  <2>3. CASE InFunction
    BY <1>3, <1>4, <2>2, <2>3 DEF Shaped, DeadInside
  <2>4. CASE ~InFunction
    <3>1. /\ \A a \in DOMAIN path' : ~path'[a].on => path'[a].at.jump >= 1
      BY <1>1, <2>4 DEF Shaped, DeadInside
    <3>2. \A k \in DOMAIN defers' : NoReturn(defers'[k])
      BY <2>4 DEF Shaped, DeadInside
    <3>3. ~live' => Len(jump') >= 1
      BY <2>4
    <3> QED
      BY <1>3, <1>4, <1>5, <3>1, <3>2, <3>3 DEF Shaped, DeadInside
  <2> QED
    BY <2>3, <2>4
<1> QED
  BY <1>6, <1>7

(* Analysis pops its own scope at once.                                    *)
LEMMA ScopeCut ==
  ASSUME Inv, ~closing,
         scope' = IF Top.kind \in SemaScoped THEN Front(scope) ELSE scope
  PROVE  \A i \in 1 .. Top.at.scope : scope'[i] = scope[i]
<1>1. /\ Len(scope) = Top.at.scope + One(Top.kind \in SemaScoped)
      /\ Top.at.scope \in Nat
  BY HeightFacts
<1>2. CASE Top.kind \in SemaScoped
  <2>1. Len(scope) = Top.at.scope + 1 /\ scope # <<>>
    BY <1>1, <1>2, Types DEF One
  <2>2. scope' = Front(scope) /\ Len(scope) - 1 = Top.at.scope
    BY <1>1, <1>2, <2>1
  <2>3. \A i \in 1 .. Len(scope) - 1 : Front(scope)[i] = scope[i]
    BY <2>1, FrontFacts, Types
  <2> QED
    BY <2>2, <2>3
<1>3. CASE Top.kind \notin SemaScoped
  BY <1>3
<1> QED
  BY <1>2, <1>3

LEMMA LeftOpen ==
  ASSUME Inv, Inv', Agreed, Shaped, ~closing, Depth > 1,
         ~(Top.on /\ Top.kind \in CgScoped),
         scope' = IF Top.kind \in SemaScoped THEN Front(scope) ELSE scope,
         path' = Front(path),
         UNCHANGED <<cgScope, defers, pending, closing, panicked, misresolved,
                     displaced>>,
         live' => Top.on, Top.on /\ Top.kind \in Arms \cup Loops => live'
  PROVE  Shaped' /\ (Named => Named')
<1>1. /\ DOMAIN path = 1 .. Depth /\ Depth \in Nat \ {0} /\ Top = path[Depth]
      /\ Inside(Top') = Top.at
  BY UpPath
<1>2. LaidAt(path, Depth)
  BY <1>1 DEF Shaped, Laid
<1>3. Top.on => live'
  <2> SUFFICES ASSUME Top.on
               PROVE  Top.kind \in Arms \cup Loops
    OBVIOUS
  <2>1. Top.kind \in Kinds /\ Top.kind \notin CgScoped
    BY TopFacts DEF Construct
  <2>2. Top.kind # "root"
    BY <1>1, <1>2 DEF LaidAt
  <2> QED
    BY <2>1, <2>2 DEF Kinds, Loops, Cases, Lists, CgScoped, SemaScoped, Arms
<1>4. Top.kind # "fn"
  BY <1>1, <1>2 DEF LaidAt, CgScoped, SemaScoped
<1>5. ~live' => InFunction \/ Len(jump') >= 1
  <2> SUFFICES ASSUME ~live', ~InFunction
               PROVE  Len(jump') >= 1
    OBVIOUS
  <2>1. Top.at.jump >= 1
    BY <1>1, <1>3 DEF Shaped, DeadInside
  <2>2. Here' = Inside(Top')
    BY DEF Inv, Measured
  <2> QED
    BY <1>1, <2>1, <2>2 DEF Here
<1>6. pending' = <<>>
  BY DEF Agreed
<1>7. Shaped'
  BY <1>4, <1>5, <1>6, UpShaped
<1>8. ASSUME Named, ~displaced'
      PROVE  LevelsNamed' /\ DefersNamed' /\ ~misresolved' /\ panicked' # "variable"
  <2>1. LevelsNamed /\ DefersNamed /\ ~misresolved /\ panicked # "variable"
    BY <1>8 DEF Named
  <2>2. \A i \in 1 .. Top.at.scope : scope'[i] = scope[i]
    BY ScopeCut
  <2>3. LevelsNamed'
    BY <2>1, <2>2, UpLevels
  <2>4. DefersNamed'
    BY <2>1 DEF DefersNamed
  <2> QED
    BY <2>1, <2>3, <2>4
<1> QED
  BY <1>7, <1>8 DEF Named

(* The list of deferred statements is taken off; the uses in it are looked *)
(* up in the same scopes as before.                                        *)
LEMMA StartsClosing ==
  ASSUME Inv, Inv', Agreed, Shaped, ~closing, closing',
         Top.on /\ Top.kind \in CgScoped,
         scope' = IF Top.kind \in SemaScoped THEN Front(scope) ELSE scope,
         path' = path, defers' = Front(defers), pending' = Last(defers),
         UNCHANGED <<cgScope, panicked, misresolved, displaced>>,
         Top.kind \in Loops => live',
         Top.kind \notin JumpKinds => jump' = jump /\ live' = live
  PROVE  Shaped' /\ (Named => Named')
<1>1. /\ Len(defers) \in Nat \ {0} /\ defers # <<>>
      /\ Len(cgScope) = Len(defers) + 1
  <2>1. /\ Len(defers) = Top.at.defers + One(Top.on /\ Top.kind \in CgScoped)
        /\ Top.at.defers \in Nat /\ Len(cgScope) = Len(defers) + 1
    BY HeightFacts
  <2>2. One(Top.on /\ Top.kind \in CgScoped) = 1
    BY DEF One
  <2> QED
    BY <2>1, <2>2, Types
<1> DEFINE S == Seq(Deferred)
<1>2. defers \in Seq(S) /\ defers' \in Seq(S)
  BY Types, NextTypes
<1> HIDE DEF S
<1>3. /\ DOMAIN defers = 1 .. Len(defers) /\ DOMAIN defers' = 1 .. Len(defers) - 1
      /\ \A k \in 1 .. Len(defers) - 1 : defers'[k] = defers[k]
      /\ pending' = defers[Len(defers)] /\ Len(defers) \in DOMAIN defers
  BY <1>1, <1>2, FrontFacts, LastFacts
<1>4. Shaped'
  <2>1. ~live' => jump' = jump /\ ~live
    <3>1. Top.kind \notin Loops => Top.kind \notin JumpKinds
      BY DEF CgScoped, SemaScoped, JumpKinds, Loops
    <3> QED
      BY <3>1
  <2>2. InFunction' = InFunction
    BY DEF InFunction, Depth
  <2>3. CASE InFunction
    BY <2>2, <2>3 DEF Shaped, DeadInside
  <2>4. CASE ~InFunction
    <3>1. /\ \A a \in DOMAIN path : ~path[a].on => path[a].at.jump >= 1
          /\ ~live => Len(jump) >= 1
          /\ \A k \in DOMAIN defers : NoReturn(defers[k])
      BY <2>4 DEF Shaped, DeadInside
    <3>2. \A k \in DOMAIN defers' : NoReturn(defers'[k])
      BY <1>1, <1>3, <3>1
    <3>3. NoReturn(pending')
      BY <1>3, <3>1
    <3>4. ~live' => Len(jump') >= 1
      BY <2>1, <3>1
    <3> QED
      BY <3>1, <3>2, <3>3, <3>4 DEF Shaped, DeadInside
  <2> QED
    BY <2>3, <2>4
<1>5. ASSUME Named, ~displaced'
      PROVE  LevelsNamed' /\ DefersNamed' /\ ~misresolved' /\ panicked' # "variable"
  <2>1. LevelsNamed /\ DefersNamed /\ ~misresolved /\ panicked # "variable"
    BY <1>5 DEF Named
  <2>2. LevelsNamed'
    <3>1. Depth' = Depth
      BY DEF Depth
    <3>2. ASSUME NEW a \in 1 .. Depth - 1, path[a + 1].on
          PROVE  LevelNamed(path', scope', cgScope', a)
      <4>1. LevelNamed(path, scope, cgScope, a)
        BY <2>1, <3>2 DEF LevelsNamed
      <4>2. \A i \in 1 .. Top.at.scope : scope'[i] = scope[i]
        BY ScopeCut
      <4>3. Alike(path', path, a)
        BY DEF Alike
      <4> QED
        BY <4>1, <4>2, <4>3, OuterKept
    <3> QED
      BY <3>1, <3>2 DEF LevelsNamed
  <2>3. \A k \in DOMAIN defers : UsesFound(cgScope, k + 1, defers[k])
    BY <2>1 DEF DefersNamed
  <2>4. UsesFound(cgScope', Len(cgScope'), pending')
    BY <1>1, <1>3, <2>3
  <2>5. \A k \in DOMAIN defers' : UsesFound(cgScope', k + 1, defers'[k])
    BY <1>1, <1>3, <2>3
  <2> QED
    BY <2>1, <2>2, <2>4, <2>5 DEF DefersNamed
<1> QED
  BY <1>4, <1>5 DEF Named

LEMMA LeaveNamed ==
  ASSUME Inv, Agreed, Shaped, Leave
  PROVE  Shaped' /\ (Named => Named')
<1>1. ~closing /\ Depth > 1 /\ (live => Top.on)
  BY TopFacts DEF Leave, LeaveBlock, LeaveFunction, LeaveIf, LeaveLoop,
     LeaveWhile, LeaveFor, LeaveCase, LeaveSwitch, Walking, Loops, Cases, Agreed
<1>2. IF Top.kind \in CgScoped THEN CloseScope ELSE NoScopeToClose
  BY DEF Leave, LeaveBlock, LeaveFunction, LeaveIf, LeaveLoop, LeaveWhile,
     LeaveFor, LeaveCase, LeaveSwitch, CgScoped, SemaScoped, Cases
<1>3. scope' = IF Top.kind \in SemaScoped THEN Front(scope) ELSE scope
  BY DEF Leave, LeaveBlock, LeaveFunction, LeaveIf, LeaveLoop, LeaveWhile,
     LeaveFor, LeaveCase, LeaveSwitch, sema_scope_pop, SemaScoped, Cases
<1>4. /\ live' => Top.on
      /\ Top.on /\ Top.kind \in Arms \cup Loops => live'
  BY <1>1 DEF Leave, LeaveBlock, LeaveFunction, LeaveIf, LeaveLoop,
     LeaveWhile, LeaveFor, LeaveCase, LeaveSwitch, EndLoop, Arms, Loops, Cases
<1>5. Top.kind \notin JumpKinds \cup {"if"} => jump' = jump /\ live' = live
  BY DEF Leave, LeaveBlock, LeaveFunction, LeaveIf, LeaveLoop,
     LeaveWhile, LeaveFor, LeaveCase, LeaveSwitch, JumpKinds, Loops, Cases
<1>6. Inv'
  BY LeaveBlockInv, LeaveFunctionInv, LeaveIfInv, LeaveLoopInv,
     LeaveWhileInv, LeaveForInv, LeaveCaseInv, LeaveSwitchInv DEF Leave
<1>7. UNCHANGED <<cgScope, panicked, misresolved, displaced>>
  BY <1>2 DEF CloseScope, NoScopeToClose
<1>8. CASE Top.on /\ Top.kind \in CgScoped
  <2>1. /\ path' = path /\ closing' /\ defers' = Front(defers)
        /\ pending' = Last(defers)
    BY <1>2, <1>8 DEF CloseScope, cg_pop_scope_begin
  <2>2. Top.kind # "if"
    BY <1>8 DEF CgScoped, SemaScoped
  <2> QED
    BY <1>1, <1>3, <1>4, <1>5, <1>6, <1>7, <1>8, <2>1, <2>2, StartsClosing
<1>9. CASE ~(Top.on /\ Top.kind \in CgScoped)
  <2>1. path' = Front(path) /\ UNCHANGED <<defers, pending, closing>>
    BY <1>2, <1>9 DEF CloseScope, NoScopeToClose, Ascend
  <2> QED
    BY <1>1, <1>3, <1>4, <1>6, <1>7, <1>9, <2>1, LeftOpen
<1> QED
  BY <1>8, <1>9

(* The walk goes up once the deferred statements are emitted.              *)
LEMMA EndScopeNamed ==
  ASSUME Inv, Agreed, Shaped, EndScope
  PROVE  Shaped' /\ (Named => Named')
<1>1. Inv'
  BY EndScopeInv
<1>2. /\ closing /\ ~closing' /\ path' = Front(path) /\ pending' = <<>>
      /\ cgScope' = Front(cgScope) /\ jump' = jump /\ scope' = scope
      /\ defers' = defers /\ UNCHANGED <<panicked, misresolved, displaced>>
      /\ live' = (live \/ Top.kind \in Cases \cup {"else", "fn"})
  BY DEF EndScope, cg_pop_scope_end, Ascend, semaVars
<1>3. /\ Top.on /\ Top.kind \in CgScoped /\ Len(defers) = Top.at.defers
  BY <1>2, NowFacts
<1>4. Depth > 1
  <2>1. Top.kind # "root"
    BY <1>3 DEF CgScoped, SemaScoped
  <2> QED
    BY <2>1, TopFacts
<1>5. \A i \in 1 .. Top.at.defers + 1 : cgScope'[i] = cgScope[i]
  <2>1. Len(cgScope) = Len(defers) + 2
    <3>1. Len(cgScope) = Len(defers) + 1 + One(closing) /\ One(closing) = 1
      BY <1>2 DEF Inv, Measured, One
    <3> QED
      BY <3>1, Types
  <2>2. Len(defers) = Top.at.defers /\ Len(defers) \in Nat
    BY <1>3, Types
  <2>3. Len(cgScope) - 1 = Top.at.defers + 1 /\ Len(cgScope) # 0
    BY ONLY <2>1, <2>2
  <2>4. cgScope # <<>>
    BY <2>3
  <2> QED
    BY <1>2, <2>3, <2>4, FrontFacts, Types
<1>6. Shaped'
  <2>1. ~live' => InFunction \/ Len(jump') >= 1
    BY <1>2 DEF Shaped, DeadInside
  <2>2. Top.kind = "fn" => live'
    BY <1>2
  <2> QED
    BY <1>1, <1>2, <1>4, <2>1, <2>2, UpShaped
<1>7. ASSUME Named, ~displaced'
      PROVE  LevelsNamed' /\ DefersNamed' /\ ~misresolved' /\ panicked' # "variable"
  <2>1. LevelsNamed /\ DefersNamed /\ ~misresolved /\ panicked # "variable"
    BY <1>2, <1>7 DEF Named
  <2>2. LevelsNamed'
    BY <1>1, <1>2, <1>3, <1>4, <1>5, <2>1, UpLevels
  <2>3. ASSUME NEW k \in DOMAIN defers'
        PROVE  UsesFound(cgScope', k + 1, defers'[k])
    <3>1. k \in DOMAIN defers /\ defers'[k] = defers[k] /\ k \in 1 .. Len(defers)
      BY <1>2, Types
    <3>2. k + 1 \in Nat /\ \A i \in 1 .. k + 1 : i \in 1 .. Top.at.defers + 1
      <4>1. Len(defers) \in Nat
        BY Types
      <4>2. k \in 1 .. Top.at.defers /\ Top.at.defers \in Nat
        BY <1>3, <3>1, <4>1
      <4> QED
        BY <4>2
    <3>3. \A i \in 1 .. k + 1 : cgScope'[i] = cgScope[i]
      BY <1>5, <3>2
    <3>4. UsesFound(cgScope, k + 1, defers[k])
      BY <2>1, <3>1 DEF DefersNamed
    <3> QED
      BY <3>1, <3>2, <3>3, <3>4, UsesKept
  <2> QED
    BY <1>2, <2>1, <2>2, <2>3 DEF DefersNamed
<1> QED
  BY <1>6, <1>7 DEF Named

(***************************************************************************)
(* Statements, and emitting deferred ones.                                 *)
(***************************************************************************)
LEMMA CountedLaid ==
  ASSUME Inv, Inv', Agreed, Shaped, Top.kind \in Lists \/ Top.n < 2,
         path' = Counted
  PROVE  /\ Laid(path') /\ Depth' = Depth /\ DOMAIN path' = DOMAIN path
         /\ Alike(path', path, Depth)
         /\ Top'.on = Top.on /\ Top'.kind = Top.kind
         /\ Top'.kind = "loop" => ~(Top'.n = 0)
         /\ InFunction' = InFunction
<1>1. /\ Counted \in Seq(Construct) /\ SameConstructs(Counted, path)
      /\ path \in Seq(Construct) /\ path # <<>> /\ Depth = Len(path)
      /\ DOMAIN path = 1 .. Depth /\ Depth \in Nat \ {0} /\ Top = path[Depth]
      /\ Depth \in 1 .. Depth
  BY CountedFacts, OpenFacts, TopFacts DEF Depth
<1>2. /\ Depth' = Depth /\ DOMAIN path' = 1 .. Depth
      /\ Alike(path', path, Depth)
  BY <1>1, NextTypes DEF Depth, Alike, SameConstructs
<1>3. Top' = path'[Depth]
  BY <1>2, NextTypes, LastFacts DEF Top, Depth
<1>4. Top'.on = Top.on /\ Top'.kind = Top.kind
  BY <1>1, <1>2, <1>3 DEF Alike
<1>5. \A i \in 1 .. Depth : path'[i] = path[i] \/ i = Depth
  BY <1>1 DEF Counted
<1>6. Top'.kind = "loop" => ~(Top'.n = 0)
  <2> SUFFICES ASSUME Top.kind = "loop"
               PROVE  ~(Top'.n = 0)
    BY <1>4
  <2>1. Counted = [path EXCEPT ![Depth].n = @ + 1]
    BY DEF Counted, Lists
  <2>2. Counted[Depth].n = path[Depth].n + 1
    BY <1>1, <2>1, PlaceFacts DEF Construct
  <2>3. path[Depth].n \in Nat
    BY <1>1, PlaceFacts DEF Construct
  <2> QED
    BY <1>3, <2>2, <2>3
<1>7. \A i \in 1 .. Depth : path[i].kind = "loop" /\ i < Depth => path'[i].n >= 1
  <2> SUFFICES ASSUME NEW i \in 1 .. Depth, path[i].kind = "loop", i < Depth
               PROVE  path'[i].n >= 1
    OBVIOUS
  <2>1. i + 1 \in DOMAIN path /\ i + 1 > 1 /\ (i + 1) - 1 = i
    BY <1>1
  <2>2. LaidAt(path, i + 1)
    BY <2>1 DEF Shaped, Laid
  <2>3. path[i].n >= 1
    BY <2>1, <2>2 DEF LaidAt
  <2> QED
    BY <1>1, <1>5, <2>3
<1>8. Laid(path')
  BY <1>1, <1>2, <1>7, LaidBelow DEF Shaped
<1>9. InFunction' = InFunction
  <2>1. Depth > 1 => 2 \in 1 .. Depth
    BY <1>1
  <2> QED
    BY <1>2, <2>1 DEF InFunction, Alike
<1> QED
  BY <1>1, <1>2, <1>4, <1>6, <1>8, <1>9

LEMMA RegisteredFacts ==
  ASSUME Inv, NEW d \in Deferred, cg_defer(d)
  PROVE  /\ DOMAIN defers' = DOMAIN defers
         /\ \A k \in DOMAIN defers :
              \/ defers'[k] = defers[k]
              \/ /\ k = Len(defers)
                 /\ \A x \in DOMAIN defers'[k] :
                      \/ defers'[k][x] = d
                      \/ x \in DOMAIN defers[k] /\ defers'[k][x] = defers[k][x]
<1>1. CASE defers = <<>>
  BY <1>1 DEF cg_defer, cg_panic
<1>2. CASE defers # <<>>
  <2> DEFINE l == Len(defers)
             s == Append(defers[l], d)
  <2>1. /\ l \in DOMAIN defers /\ defers[l] \in Seq(Deferred)
        /\ DOMAIN defers' = DOMAIN defers /\ defers'[l] = s
        /\ \A k \in DOMAIN defers : k # l => defers'[k] = defers[k]
    BY <1>2, Types DEF cg_defer
  <2>2. /\ DOMAIN s = 1 .. Len(defers[l]) + 1
        /\ DOMAIN defers[l] = 1 .. Len(defers[l]) /\ Len(defers[l]) \in Nat
        /\ s[Len(defers[l]) + 1] = d
        /\ \A x \in 1 .. Len(defers[l]) : s[x] = defers[l][x]
    BY <2>1, AppendFacts
  <2>3. \A x \in DOMAIN s : \/ s[x] = d
                            \/ x \in DOMAIN defers[l] /\ s[x] = defers[l][x]
    BY <2>2
  <2> HIDE DEF s
  <2> QED
    BY <2>1, <2>3
<1> QED
  BY <1>1, <1>2

(* Emission ends a block only with a jump out of a construct around it, or *)
(* with a return, which is accepted in a function.                         *)
LEMMA EmittedDead ==
  ASSUME Inv, Agreed, Shaped, NEW stmt \in Statements, NEW target \in Nat \ {0},
         NEW from, cg_statement(stmt, target, from),
         stmt.op = "return" => InFunction, ~live'
  PROVE  InFunction \/ Len(jump) >= 1
<1>1. CASE ~live
  BY <1>1 DEF Shaped, DeadInside
<1>2. CASE live
  <2>1. \/ stmt.op = "return"
        \/ stmt.op = "break" /\ breaks # <<>>
        \/ stmt.op = "continue" /\ continues # <<>>
    BY <1>2 DEF cg_statement, cg_plain, cg_break, cg_continue, cg_panic,
       cg_binary_else, cg_let, cg_use, cg_return
  <2>2. breaks # <<>> => Len(jump) >= 1
    <3> SUFFICES ASSUME breaks # <<>>
                 PROVE  Len(jump) >= 1
      OBVIOUS
    <3>1. 1 \in DOMAIN breaks
      BY Types
    <3>2. 1 \in DOMAIN jump
      BY <3>1 DEF Agreed, ExitsNamed
    <3> QED
      BY <3>2, Types
  <2>3. continues # <<>> => breaks # <<>>
    <3> SUFFICES ASSUME continues # <<>>
                 PROVE  breaks # <<>>
      OBVIOUS
    <3>1. 1 \in DOMAIN continues
      BY Types
    <3>2. path[continues[1].node].at.breaks + 1 \in DOMAIN breaks
      BY <3>1 DEF Agreed, LoopsNamed
    <3> QED
      BY <3>2, Types
  <2> QED
    BY <2>1, <2>2, <2>3
<1> QED
  BY <1>1, <1>2

LEMMA StatementShaped ==
  ASSUME Inv, Agreed, Shaped, NEW stmt \in Statements, Statement(stmt)
  PROVE  Shaped'
<1>1. /\ ~closing /\ ~closing' /\ (Top.kind \in Lists \/ Top.n < 2)
      /\ path' = Counted /\ pending' = pending
  BY DEF Statement, AtStatement, Walking, Lists, Loops, Cases
<1>2. Inv'
  BY StatementInv
<1>3. /\ Laid(path') /\ DOMAIN path' = DOMAIN path /\ DOMAIN path = 1 .. Depth
      /\ Alike(path', path, Depth)
      /\ Top'.kind = "loop" => ~(Top'.n = 0)
      /\ InFunction' = InFunction
  BY <1>1, <1>2, CountedLaid, OpenFacts
<1>4. /\ SemaTarget(stmt) \in Nat \ {0}
      /\ cg_statement(stmt, SemaTarget(stmt), SemaSource(stmt))
  BY SemaTargetFacts DEF Statement
<1>5. jump' = jump /\ defers' = defers
  BY <1>4, SemaCheckFacts, CgStatementFacts DEF Statement
<1>6. ~live' => InFunction \/ Len(jump) >= 1
  BY <1>4, EmittedDead DEF Statement, SemaAccepts
<1>7. DeadInside'
  BY <1>1, <1>3, <1>5, <1>6 DEF Shaped, DeadInside, Alike
<1> QED
  BY <1>3, <1>7 DEF Shaped

LEMMA DeferShaped ==
  ASSUME Inv, Agreed, Shaped, NEW stmt \in Statements, NEW nest \in 0 .. MaxNest,
         Defer(stmt, nest)
  PROVE  Shaped'
<1> DEFINE d == [stmt |-> stmt, target |-> SemaTarget(stmt),
                 from |-> SemaSource(stmt), nest |-> nest]
<1>1. /\ ~closing /\ ~closing' /\ (Top.kind \in Lists \/ Top.n < 2)
      /\ path' = Counted /\ pending' = pending
  BY DEF Defer, AtStatement, Walking, Lists, Loops, Cases
<1>2. Inv'
  BY DeferInv
<1>3. /\ Laid(path') /\ DOMAIN path' = DOMAIN path /\ DOMAIN path = 1 .. Depth
      /\ Alike(path', path, Depth)
      /\ Top'.kind = "loop" => ~(Top'.n = 0)
      /\ InFunction' = InFunction
  BY <1>1, <1>2, CountedLaid, OpenFacts
<1>4. jump' = jump
  BY SemaCheckFacts DEF Defer
<1>5. live' = live
  BY DEF Defer, cg_defer, cg_plain, cg_panic
<1>6. ASSUME ~InFunction, NEW k \in DOMAIN defers'
      PROVE  NoReturn(defers'[k])
  <2>1. \A i \in DOMAIN defers : NoReturn(defers[i])
    BY <1>6 DEF Shaped, DeadInside
  <2>2. CASE live
    <3>1. d \in Deferred
      <4>1. SemaTarget(stmt) \in Nat \ {0} /\ SemaSource(stmt) \in Nat
        BY SemaTargetFacts, SemaSourceFacts DEF Defer
      <4> QED
        BY <4>1 DEF Deferred, Statements
    <3>2. cg_defer(d)
      BY <2>2 DEF Defer
    <3>3. d.stmt.op # "return"
      BY <1>6 DEF Defer, SemaAccepts
    <3> HIDE DEF d
    <3>4. /\ DOMAIN defers' = DOMAIN defers
          /\ \/ defers'[k] = defers[k]
             \/ \A x \in DOMAIN defers'[k] :
                  \/ defers'[k][x] = d
                  \/ x \in DOMAIN defers[k] /\ defers'[k][x] = defers[k][x]
      BY <3>1, <3>2, RegisteredFacts
    <3> QED
      BY <2>1, <3>3, <3>4 DEF NoReturn
  <2>3. CASE ~live
    BY <2>1, <2>3 DEF Defer, cg_plain
  <2> QED
    BY <2>2, <2>3
<1>7. DeadInside'
  BY <1>1, <1>3, <1>4, <1>5, <1>6 DEF Shaped, DeadInside, Alike
<1> QED
  BY <1>3, <1>7 DEF Shaped

LEMMA EmitDeferredShaped ==
  ASSUME Inv, Agreed, Shaped, EmitDeferred
  PROVE  Shaped'
<1> DEFINE d == Last(pending)
           e == [d EXCEPT !.nest = @ - 1]
<1>1. closing /\ pending # <<>> /\ pending' = Front(pending)
  BY DEF EmitDeferred, cg_emit_deferred
<1>2. /\ pending \in Seq(Deferred) /\ d \in Deferred /\ d = pending[Len(pending)]
      /\ DOMAIN pending = 1 .. Len(pending) /\ Len(pending) \in Nat \ {0}
      /\ DOMAIN pending' = 1 .. Len(pending) - 1
      /\ \A i \in 1 .. Len(pending) - 1 : pending'[i] = pending[i]
  BY <1>1, LastFacts, FrontFacts, Types
<1>3. d.stmt \in Statements /\ d.target \in Nat \ {0} /\ d.nest \in 0 .. MaxNest
  BY <1>2 DEF Deferred, Statements
<1>4. UNCHANGED <<jump, path>> /\ closing'
  BY <1>1 DEF EmitDeferred, cg_emit_deferred, semaVars, walkVars
<1>5. InFunction' = InFunction
  BY <1>4 DEF InFunction, Depth
<1>6. CASE InFunction
  BY <1>4, <1>5, <1>6 DEF Shaped, DeadInside
<1>7. CASE ~InFunction
  <2>1. /\ \A a \in DOMAIN path : ~path[a].on => path[a].at.jump >= 1
        /\ ~live => Len(jump) >= 1
        /\ \A k \in DOMAIN defers : NoReturn(defers[k])
        /\ NoReturn(pending)
    BY <1>7 DEF Shaped, DeadInside
  <2>2. d.stmt.op # "return"
    <3>1. Len(pending) \in DOMAIN pending
      BY <1>2
    <3> QED
      BY <1>2, <2>1, <3>1 DEF NoReturn
  <2>3. NoReturn(pending')
    <3>1. \A i \in 1 .. Len(pending) - 1 : i \in 1 .. Len(pending)
      BY <1>2
    <3> QED
      BY <1>2, <2>1, <3>1 DEF NoReturn
  <2>4. CASE live /\ d.nest > 0
    <3>1. e \in Deferred
      BY <1>2, <2>4, LessNested
    <3>2. cg_defer(e)
      BY <2>4 DEF EmitDeferred, cg_emit_deferred
    <3>3. e.stmt = d.stmt
      BY <1>2 DEF Deferred
    <3> HIDE DEF e, d
    <3>4. ASSUME NEW k \in DOMAIN defers'
          PROVE  NoReturn(defers'[k])
      <4>1. /\ DOMAIN defers' = DOMAIN defers
            /\ \/ defers'[k] = defers[k]
               \/ \A x \in DOMAIN defers'[k] :
                    \/ defers'[k][x] = e
                    \/ x \in DOMAIN defers[k] /\ defers'[k][x] = defers[k][x]
        BY <3>1, <3>2, RegisteredFacts
      <4> QED
        BY <2>1, <2>2, <3>3, <4>1 DEF NoReturn
    <3>5. ~live' => Len(jump') >= 1
      BY <1>4, <2>1, <3>2 DEF cg_defer, cg_panic
    <3> QED
      BY <1>4, <2>1, <2>3, <3>4, <3>5 DEF Shaped, DeadInside
  <2>5. CASE ~(live /\ d.nest > 0)
    <3>1. cg_statement(d.stmt, d.target, d.from)
      BY <2>5 DEF EmitDeferred, cg_emit_deferred
    <3> HIDE DEF d
    <3>2. defers' = defers
      BY <1>3, <3>1, CgStatementFacts
    <3>3. ~live' => Len(jump') >= 1
      BY <1>3, <1>4, <1>7, <2>2, <3>1, EmittedDead
    <3> QED
      BY <1>4, <2>1, <2>3, <3>2, <3>3 DEF Shaped, DeadInside
  <2> QED
    BY <2>4, <2>5
<1> QED
  BY <1>6, <1>7

(* The scopes stand still, and no new code is generated.                   *)
LEMMA StillNamed ==
  ASSUME Inv, Shaped, LevelsNamed, Depth' = Depth, Alike(path', path, Depth),
         Top'.on = Top.on, Top'.kind = Top.kind,
         scope' = scope, cgScope' = cgScope, closing' = closing, live' => live
  PROVE  LevelsNamed'
<1>1. Depth \in Nat \ {0} /\ DOMAIN path = 1 .. Depth
  BY OpenFacts
<1>2. ASSUME NEW a \in 1 .. Depth, LevelNamed(path, scope, cgScope, a)
      PROVE  LevelNamed(path', scope', cgScope', a)
  <2>1. /\ Scopes(path, a) \in Nat \ {0} /\ Tables(path, a) \in Nat \ {0}
        /\ a \in Nat \ {0} /\ Alike(path', path, a)
    BY <1>1, ScopeFacts DEF Shaped, Alike
  <2> QED
    BY <1>2, <2>1, LevelKept
<1>3. ASSUME NEW a \in 1 .. Depth - 1, path'[a + 1].on
      PROVE  LevelNamed(path', scope', cgScope', a)
  <2>1. a \in 1 .. Depth /\ a + 1 \in 1 .. Depth
    BY <1>1
  <2>2. path[a + 1].on
    BY <1>3, <2>1 DEF Alike
  <2> QED
    BY <1>2, <2>1, <2>2 DEF LevelsNamed
<1>4. ASSUME ~closing', Generating'
      PROVE  LevelNamed(path', scope', cgScope', Depth)
  <2>1. Generating /\ Depth \in 1 .. Depth
    BY <1>1, <1>4 DEF Generating
  <2> QED
    BY <1>2, <1>4, <2>1 DEF LevelsNamed
<1> QED
  BY <1>3, <1>4 DEF LevelsNamed

LEMMA DefineEntries ==
  ASSUME NEW chain \in Seq(SUBSET Declaration), NEW h \in Nat \ {0},
         Len(chain) = h, NEW name, NEW id
  PROVE  /\ \A i \in 1 .. h - 1 : Define(chain, name, id)[i] = chain[i]
         /\ Define(chain, name, id)[h] =
              chain[h] \cup {[name |-> name, id |-> id]}
<1>1. DOMAIN chain = 1 .. h /\ h \in DOMAIN chain
  OBVIOUS
<1>2. Define(chain, name, id) =
        [chain EXCEPT ![h] = chain[h] \cup {[name |-> name, id |-> id]}]
  BY DEF Define
<1> QED
  BY <1>1, <1>2

(* A declaration of another name does not come between.                    *)
LEMMA OtherDeclared ==
  ASSUME NEW scp, NEW e, NEW name, e.name # name
  PROVE  /\ Declared(scp \cup {e}, name) <=> Declared(scp, name)
         /\ DeclarationOf(scp \cup {e}, name) = DeclarationOf(scp, name)
<1>1. \A d : d \in scp \cup {e} /\ d.name = name <=> d \in scp /\ d.name = name
  OBVIOUS
<1>2. (CHOOSE d \in scp \cup {e} : d.name = name) = (CHOOSE d \in scp : d.name = name)
  BY <1>1
<1> QED
  BY <1>1, <1>2 DEF Declared, DeclarationOf

LEMMA FoundStill ==
  ASSUME NEW h \in Nat \ {0}, NEW t, NEW u, NEW e, NEW name,
         \A i \in 1 .. h - 1 : u[i] = t[i], u[h] = t[h] \cup {e}, e.name # name
  PROVE  Found(u, h, name) = Found(t, h, name)
<1>1. /\ Declared(u[h], name) <=> Declared(t[h], name)
      /\ DeclarationOf(u[h], name) = DeclarationOf(t[h], name)
  BY OtherDeclared
<1>2. Found(u, h - 1, name) = Found(t, h - 1, name)
  BY FoundSame
<1>3. Found(u, h, name) = IF Declared(u[h], name) THEN DeclarationOf(u[h], name)
                                                  ELSE Found(u, h - 1, name)
  BY FoundStep
<1>4. Found(t, h, name) = IF Declared(t[h], name) THEN DeclarationOf(t[h], name)
                                                  ELSE Found(t, h - 1, name)
  BY FoundStep
<1> QED
  BY <1>1, <1>2, <1>3, <1>4

(* The construct a declaration belongs to, past the loops it is the body   *)
(* of, has a scope on both sides unless it is a `while` or a case.         *)
LEMMA HolderFacts ==
  ASSUME Inv, Agreed, Shaped, AtStatement, path[Holder].kind \notin {"while", "case"}
  PROVE  /\ Holder \in 1 .. Depth /\ Bare(path, Depth, Holder)
         /\ path[Holder].kind \in Binding
<1> DEFINE S == {i \in DOMAIN path : path[i].kind # "loop"}
<1>1. DOMAIN path = 1 .. Depth /\ Depth \in Nat \ {0} /\ Top = path[Depth]
  BY OpenFacts, TopFacts
<1>2. S \in SUBSET (1 .. Depth) /\ 1 \in S
  <2>1. path[1].kind # "loop"
    BY DEF Inv, Measured, Rooted
  <2> QED
    BY <1>1, <2>1
<1>3. Max(S) \in S /\ \A y \in S : Max(S) >= y
  BY <1>1, <1>2, MaxFacts
<1>4. Holder = Max(S)
  BY DEF Holder
<1>5. /\ Holder \in 1 .. Depth /\ path[Holder].kind # "loop"
      /\ \A i \in 1 .. Depth : path[i].kind # "loop" => Holder >= i
  BY <1>1, <1>3, <1>4
<1> HIDE DEF S
<1>6. Bare(path, Depth, Holder)
  <2>1. \A i \in Holder + 1 .. Depth : i \in 1 .. Depth /\ ~(Holder >= i)
    BY <1>1, <1>5
  <2> QED
    BY <1>5, <2>1 DEF Bare
<1>7. path[Holder].kind \in Kinds
  BY <1>1, <1>5, PlaceFacts DEF Construct
<1>8. path[Holder].kind \notin Arms \cup {"fn"}
  <2>1. CASE Holder = Depth
    BY <1>1, <2>1 DEF AtStatement, Arms, Loops, Cases
  <2>2. CASE Holder # Depth
    <3>1. Holder + 1 \in 1 .. Depth /\ Holder + 1 \in Holder + 1 .. Depth
          /\ (Holder + 1) - 1 = Holder
      BY <1>1, <1>5, <2>2
    <3>2. path[Holder + 1].kind = "loop"
      BY <1>6, <3>1 DEF Bare
    <3>3. LaidAt(path, Holder + 1)
      BY <1>1, <3>1 DEF Shaped, Laid
    <3> QED
      BY <3>1, <3>2, <3>3 DEF LaidAt
  <2> QED
    BY <2>1, <2>2
<1>9. path[Holder].kind \in Binding
  BY <1>5, <1>7, <1>8
     DEF Kinds, Loops, Cases, Lists, Arms, Binding, SemaScoped
<1> QED
  BY <1>5, <1>6, <1>9

(* Levels around the holder are below the innermost scopes.                *)
LEMMA BelowHolder ==
  ASSUME Inv, Agreed, Shaped, ~closing,
         NEW h \in 1 .. Depth, Bare(path, Depth, h), path[h].kind \in Binding,
         NEW a \in 1 .. Depth, a < h
  PROVE  /\ Scopes(path, a) <= Len(scope) - 1
         /\ path[h].on => Tables(path, a) <= Len(cgScope) - 1
<1>1. /\ DOMAIN path = 1 .. Depth /\ Depth \in Nat \ {0} /\ Top = path[Depth]
      /\ Depth \in 1 .. Depth
  BY OpenFacts, TopFacts
<1>2. Len(scope) = Scopes(path, Depth) /\ Len(cgScope) = Tables(path, Depth)
  BY <1>1, ScopesNow DEF Scopes, Tables
<1>3. Scopes(path, Depth) = Scopes(path, h) /\ Tables(path, Depth) = Tables(path, h)
  BY <1>1 DEF Shaped, Laid, BareLaid
<1>4. path[h].kind \in SemaScoped /\ path[h].kind \in CgScoped
  <2>1. path[h].kind # "root"
    BY <1>1 DEF Shaped, Laid, LaidAt
  <2> QED
    BY <2>1 DEF Binding, CgScoped
<1>5. /\ Scopes(path, h) = path[h].at.scope + 1 /\ path[h].at.scope \in Nat
      /\ path[h].at.defers \in Nat
      /\ path[h].on => Tables(path, h) = path[h].at.defers + 2
  <2>1. /\ Scopes(path, h) = path[h].at.scope + One(path[h].kind \in SemaScoped)
        /\ path[h].at.scope \in Nat /\ path[h].at.defers \in Nat
        /\ Tables(path, h) =
             path[h].at.defers + 1 + One(path[h].on /\ path[h].kind \in CgScoped)
    BY ScopeFacts DEF Shaped
  <2>2. /\ One(path[h].kind \in SemaScoped) = 1
        /\ path[h].on => One(path[h].on /\ path[h].kind \in CgScoped) = 1
    BY <1>4 DEF One
  <2> QED
    BY <2>1, <2>2
<1>6. Scopes(path, a) <= path[h].at.scope /\ Scopes(path, a) \in Nat
  BY <1>1, ScopeFacts DEF Shaped, Laid
<1>7. Inside(path[a]).defers <= path[h].at.defers /\ Inside(path[a]).defers \in Nat
  BY <1>1, PlaceFacts, InsideFacts DEF Agreed, PathOrder, Around
<1>8. Tables(path, a) <= path[h].at.defers + 1 /\ Tables(path, a) \in Nat
  BY <1>5, <1>7 DEF Tables
<1>9. Len(scope) - 1 = path[h].at.scope
  BY <1>2, <1>3, <1>5
<1>10. path[h].on => Len(cgScope) - 1 = path[h].at.defers + 1
  BY <1>2, <1>3, <1>5
<1> QED
  BY <1>6, <1>8, <1>9, <1>10

(* A declaration in generated code goes into scopes that were equal.       *)
LEMMA LiveLetNamed ==
  ASSUME Inv, Agreed, Shaped, LevelsNamed, AtStatement, live,
         path[Holder].kind \notin {"while", "case"},
         NEW name \in Names, NEW id \in Nat \ {0}, ~Declared(Last(scope), name),
         scope' = Define(scope, name, id),
         cgScope' = WithSymbol(name, id),
         Depth' = Depth, Alike(path', path, Depth)
  PROVE  LevelsNamed' /\ cgScope' = Define(cgScope, name, id)
<1>1. /\ DOMAIN path = 1 .. Depth /\ Depth \in Nat \ {0} /\ Top = path[Depth]
      /\ Depth \in 1 .. Depth /\ ~closing /\ Top.on
  BY OpenFacts, TopFacts DEF AtStatement, Walking, Agreed
<1> PICK h : h = Holder
  OBVIOUS
<1>2. h \in 1 .. Depth /\ Bare(path, Depth, h) /\ path[h].kind \in Binding
  BY HolderFacts
<1> PICK m : m = Len(scope)
  OBVIOUS
<1> PICK n : n = Len(cgScope)
  OBVIOUS
<1>3. /\ m = Scopes(path, Depth) /\ n = Tables(path, Depth)
      /\ m \in Nat \ {0} /\ n \in Nat \ {0}
  <2>1. m = Scopes(path, Depth) /\ n = Tables(path, Depth)
    BY <1>1, ScopesNow DEF Scopes, Tables
  <2> QED
    BY <1>1, <2>1, ScopeFacts DEF Shaped
<1>4. /\ scope[m] = cgScope[n]
      /\ SameNames(scope, cgScope, m - 1, n - 1)
  <2>1. LevelNamed(path, scope, cgScope, Depth)
    BY <1>1 DEF LevelsNamed, Generating
  <2> QED
    BY <1>2, <1>3, <2>1 DEF LevelNamed
<1>5. cgScope' = Define(cgScope, name, id)
  <2>1. scope # <<>> /\ cgScope # <<>>
    BY <1>3, Types
  <2>2. Last(scope) = scope[m]
    BY <2>1, LastFacts, Types
  <2>3. Last(cgScope) = cgScope[n]
    BY <2>1, LastFacts, Types
  <2> QED
    BY <1>4, <2>2, <2>3 DEF WithSymbol
<1>6. /\ \A i \in 1 .. m - 1 : scope'[i] = scope[i]
      /\ scope'[m] = scope[m] \cup {[name |-> name, id |-> id]}
  <2>1. scope \in Seq(SUBSET Declaration)
    BY Types
  <2>2. /\ \A i \in 1 .. m - 1 : Define(scope, name, id)[i] = scope[i]
        /\ Define(scope, name, id)[m] = scope[m] \cup {[name |-> name, id |-> id]}
    BY ONLY <1>3, <2>1, m = Len(scope), DefineEntries
  <2> QED
    BY <2>2
<1>7. /\ \A i \in 1 .. n - 1 : cgScope'[i] = cgScope[i]
      /\ cgScope'[n] = cgScope[n] \cup {[name |-> name, id |-> id]}
  <2>1. cgScope \in Seq(SUBSET Declaration)
    BY Types
  <2>2. /\ \A i \in 1 .. n - 1 : Define(cgScope, name, id)[i] = cgScope[i]
        /\ Define(cgScope, name, id)[n] =
             cgScope[n] \cup {[name |-> name, id |-> id]}
    BY ONLY <1>3, <2>1, n = Len(cgScope), DefineEntries
  <2> QED
    BY <1>5, <2>2
<1>8. scope'[m] = cgScope'[n]
  BY <1>4, <1>6, <1>7
<1>9. SameNames(scope', cgScope', m - 1, n - 1)
  <2> PICK i : i = m - 1
    OBVIOUS
  <2> PICK j : j = n - 1
    OBVIOUS
  <2>1. i \in Nat /\ j \in Nat
    BY <1>3
  <2>2. /\ SameNames(scope, cgScope, i, j)
        /\ \A k \in 1 .. i : scope'[k] = scope[k]
        /\ \A k \in 1 .. j : cgScope'[k] = cgScope[k]
    BY <1>4, <1>6, <1>7
  <2>3. SameNames(scope', cgScope', i, j)
    BY ONLY <2>1, <2>2, NamesSame
  <2> QED
    BY <2>3
<1>10. SameNames(scope', cgScope', m, n)
  BY <1>3, <1>8, <1>9, NamesUnderSame
<1>11. \A a \in 1 .. Depth : path[a].on
  BY <1>1, UnderNow
<1>12. ASSUME NEW a \in 1 .. Depth, LevelNamed(path, scope, cgScope, a)
       PROVE  LevelNamed(path', scope', cgScope', a)
  <2>1. /\ Scopes(path, a) \in Nat \ {0} /\ Tables(path, a) \in Nat \ {0}
        /\ a \in Nat \ {0} /\ Alike(path', path, a)
    BY <1>1, ScopeFacts DEF Shaped, Alike
  <2>2. CASE a < h
    <3>1. Scopes(path, a) <= m - 1 /\ Tables(path, a) <= n - 1
      BY <1>1, <1>2, <1>11, <2>2, BelowHolder
    <3>2. /\ \A i \in 1 .. Scopes(path, a) : i \in 1 .. m - 1
          /\ \A i \in 1 .. Tables(path, a) : i \in 1 .. n - 1
      BY <1>3, <2>1, <3>1
    <3> QED
      BY <1>6, <1>7, <1>12, <2>1, <3>2, LevelKept
  <2>3. CASE ~(a < h)
    <3>1. Bare(path, a, h)
      <4>1. h \in 1 .. a /\ \A i \in h + 1 .. a : i \in h + 1 .. Depth
        BY <1>1, <1>2, <2>3
      <4> QED
        BY <1>2, <4>1 DEF Bare
    <3>2. Scopes(path, a) = m /\ Tables(path, a) = n
      BY <1>1, <1>2, <1>3, <3>1 DEF Shaped, Laid, BareLaid
    <3>3. Scopes(path', a) = m /\ Tables(path', a) = n
      BY <3>2 DEF Alike, Scopes, Tables
    <3> QED
      BY <1>8, <1>9, <1>10, <3>3 DEF LevelNamed
  <2> QED
    BY <2>2, <2>3
<1>13. ASSUME NEW a \in 1 .. Depth
       PROVE  LevelNamed(path', scope', cgScope', a)
  <2>1. CASE a = Depth
    BY <1>1, <1>12, <2>1 DEF LevelsNamed, Generating
  <2>2. CASE a # Depth
    <3>1. a \in 1 .. Depth - 1 /\ a + 1 \in 1 .. Depth
      BY <1>1, <2>2
    <3> QED
      BY <1>11, <1>12, <3>1 DEF LevelsNamed
  <2> QED
    BY <2>1, <2>2
<1>14. \A a \in 1 .. Depth - 1 : a \in 1 .. Depth
  BY <1>1
<1> QED
  BY <1>1, <1>5, <1>13, <1>14 DEF LevelsNamed

(* A declaration in skipped code goes into a scope code generation has left *)
(* or will not look into again.                                            *)
LEMMA DeadLetNamed ==
  ASSUME Inv, Agreed, Shaped, LevelsNamed, AtStatement, ~live, ~live',
         path[Holder].kind \notin {"while", "case"},
         NEW name \in Names, NEW id \in Nat \ {0},
         scope' = Define(scope, name, id), cgScope' = cgScope,
         Depth' = Depth, Alike(path', path, Depth), Top'.kind = Top.kind
  PROVE  LevelsNamed'
<1>1. /\ DOMAIN path = 1 .. Depth /\ Depth \in Nat \ {0} /\ Top = path[Depth]
      /\ Depth \in 1 .. Depth /\ ~closing
  BY OpenFacts, TopFacts DEF AtStatement, Walking
<1> PICK h : h = Holder
  OBVIOUS
<1>2. h \in 1 .. Depth /\ Bare(path, Depth, h) /\ path[h].kind \in Binding
  BY HolderFacts
<1>3. ~Generating'
  BY DEF Generating, AtStatement, Arms, Loops, Cases
<1>4. ASSUME NEW a \in 1 .. Depth - 1, path[a + 1].on
      PROVE  LevelNamed(path', scope', cgScope', a)
  <2>1. /\ a \in 1 .. Depth /\ a + 1 \in 1 .. Depth /\ a \in Nat \ {0}
        /\ Alike(path', path, a)
    BY <1>1 DEF Alike
  <2>2. /\ Scopes(path, a) \in Nat \ {0} /\ Tables(path, a) \in Nat \ {0}
    BY <2>1, ScopeFacts DEF Shaped
  <2>3. CASE a < h
    <3> PICK m : m = Len(scope)
      OBVIOUS
    <3>1. m \in Nat /\ Scopes(path, a) <= m - 1
      BY <1>1, <1>2, <2>1, <2>3, BelowHolder, Types
    <3>2. m \in Nat \ {0}
      BY <2>2, <3>1
    <3>3. \A i \in 1 .. m - 1 : scope'[i] = scope[i]
      <4>1. scope \in Seq(SUBSET Declaration)
        BY Types
      <4>2. \A i \in 1 .. m - 1 : Define(scope, name, id)[i] = scope[i]
        BY <3>2, <4>1, DefineEntries
      <4> QED
        BY <4>2
    <3>4. \A i \in 1 .. Scopes(path, a) : i \in 1 .. m - 1
      BY <2>2, <3>1
    <3>5. LevelNamed(path, scope, cgScope, a)
      BY <1>4 DEF LevelsNamed
    <3> QED
      BY <2>1, <2>2, <3>3, <3>4, <3>5, LevelKept
  <2>4. CASE ~(a < h)
    <3>1. Depth \in h + 1 .. Depth /\ a + 1 \in h + 1 .. Depth
      BY <1>1, <1>2, <2>1, <2>4
    <3>2. Top.kind = "loop"
      BY <1>1, <1>2, <3>1 DEF Bare
    <3>3. ~Top.on
      BY <1>1, <3>2 DEF Shaped, AtStatement, Loops, Cases
    <3>4. path[a + 1].on <=> path[Depth].on
      BY <1>1, <1>2, <3>1 DEF Shaped, Laid, BareLaid
    <3> QED
      BY <1>1, <1>4, <3>3, <3>4
  <2> QED
    BY <2>3, <2>4
<1>5. \A a \in 1 .. Depth - 1 : a + 1 \in 1 .. Depth
  BY <1>1
<1>6. \A a \in 1 .. Depth - 1 : path'[a + 1].on => path[a + 1].on
  BY <1>5 DEF Alike
<1> QED
  BY <1>3, <1>4, <1>6 DEF LevelsNamed

(* What is emitted enters no name but a declaration's, and binds a use to  *)
(* what it was resolved to if the generator's scopes say the same.         *)
LEMMA EmittedNamed ==
  ASSUME Inv, NEW stmt \in Statements, NEW target \in Nat \ {0},
         NEW from, cg_statement(stmt, target, from),
         ~misresolved, panicked # "variable",
         stmt.op = "use" /\ live => Resolve(cgScope, stmt.name) = target,
         stmt.op = "let" /\ live /\ stmt.init # NoName =>
           Resolve(WithSymbol(stmt.name, target), stmt.init) = from /\ from # 0
  PROVE  /\ ~misresolved' /\ panicked' # "variable"
         /\ live' => live
         /\ stmt.op # "let" \/ ~live => cgScope' = cgScope
         /\ stmt.op = "let" /\ live =>
              cgScope' = WithSymbol(stmt.name, target)
<1>1. CASE cg_plain /\ (~live \/ stmt.op = "plain")
  BY <1>1 DEF cg_plain
<1>2. CASE live /\ stmt.op = "break" /\ cg_break(target)
  BY <1>2 DEF cg_break, cg_jump, cg_panic
<1>3. CASE live /\ stmt.op = "continue" /\ cg_continue(target)
  BY <1>3 DEF cg_continue, cg_jump, cg_panic
<1>4. CASE live /\ stmt.op = "return" /\ cg_return
  BY <1>4 DEF cg_return
<1>5. CASE live /\ stmt.op = "try" /\ cg_binary_else
  BY <1>5 DEF cg_binary_else
<1>6. CASE live /\ stmt.op = "let" /\ cg_let(stmt.name, target, stmt.init, from)
  BY <1>6 DEF cg_let, cg_lookup
<1>7. CASE live /\ stmt.op = "use" /\ cg_use(stmt.name, target)
  BY <1>7 DEF cg_use, cg_lookup
<1> QED
  BY <1>1, <1>2, <1>3, <1>4, <1>5, <1>6, <1>7 DEF cg_statement

(* Where code is generated a use analysis resolved is found.               *)
LEMMA UseResolved ==
  ASSUME Inv, Agreed, LevelsNamed, AtStatement, live,
         NEW stmt \in Statements, stmt.op = "use", SemaAccepts(stmt)
  PROVE  Found(cgScope, Len(cgScope), stmt.name) = SemaTarget(stmt)
<1>1. stmt.name \in Names
  BY DEF Statements, Simple, Naming
<1> QED
  BY <1>1, NameAgreed DEF SemaTarget

(* Deferred uses are still found when a declaration of another name comes. *)
LEMMA UsesStill ==
  ASSUME NEW h \in Nat \ {0}, NEW t, NEW u, NEW e,
         \A i \in 1 .. h - 1 : u[i] = t[i], u[h] = t[h] \cup {e},
         NEW list, UsesFound(t, h, list),
         \A x \in DOMAIN list : list[x].stmt.op = "use" => e.name # list[x].stmt.name
  PROVE  UsesFound(u, h, list)
<1>1. ASSUME NEW x \in DOMAIN list, list[x].stmt.op = "use"
      PROVE  Found(u, h, list[x].stmt.name) = list[x].target
  <2>1. Found(t, h, list[x].stmt.name) = list[x].target
    BY <1>1 DEF UsesFound
  <2>2. e.name # list[x].stmt.name
    BY <1>1
  <2>3. Found(u, h, list[x].stmt.name) = Found(t, h, list[x].stmt.name)
    BY <2>2, FoundStill
  <2> QED
    BY <2>1, <2>3
<1> QED
  BY <1>1 DEF UsesFound

LEMMA UseIs ==
  ASSUME NEW s \in Statements, s.op = "use"
  PROVE  s = [op |-> "use", name |-> s.name, init |-> NoName]
  BY DEF Statements, Simple, Naming

(* No deferred use waits in the innermost scope for the name declared.     *)
LEMMA NotDisplaced ==
  ASSUME Inv, NEW stmt, stmt.op = "let", ~Displaces(stmt), defers # <<>>,
         NEW x \in DOMAIN defers[Len(defers)],
         defers[Len(defers)][x].stmt.op = "use"
  PROVE  stmt.name # defers[Len(defers)][x].stmt.name
<1>1. Last(defers) = defers[Len(defers)] /\ Len(defers) \in DOMAIN defers
  BY LastFacts, Types
<1>2. defers[Len(defers)] \in Seq(Deferred)
  BY <1>1, Types
<1>3. defers[Len(defers)][x] \in Deferred
  BY <1>2
<1>4. defers[Len(defers)][x].stmt \in Statements
  BY <1>3 DEF Deferred, Statements
<1>5. defers[Len(defers)][x].stmt #
        [op |-> "use", name |-> stmt.name, init |-> NoName]
  BY <1>1 DEF Displaces
<1> QED
  BY <1>4, <1>5, UseIs

(* Deferred uses after a declaration in generated code.                    *)
LEMMA LetDefersNamed ==
  ASSUME Inv, DefersNamed, ~closing, ~closing', NEW stmt \in Statements,
         stmt.op = "let", ~Displaces(stmt),
         cgScope' = Define(cgScope, stmt.name, Depth), defers' = defers
  PROVE  DefersNamed'
<1>1. Len(cgScope) = Len(defers) + 1 /\ Len(defers) \in Nat
  BY HeightFacts, Types
<1> PICK h : h = Len(cgScope)
  OBVIOUS
<1>2. h \in Nat \ {0} /\ h = Len(defers) + 1
  BY <1>1
<1> PICK e : e = [name |-> stmt.name, id |-> Depth]
  OBVIOUS
<1>3. /\ \A i \in 1 .. h - 1 : cgScope'[i] = cgScope[i]
      /\ cgScope'[h] = cgScope[h] \cup {e}
  <2>1. cgScope \in Seq(SUBSET Declaration)
    BY Types
  <2>2. /\ \A i \in 1 .. h - 1 : Define(cgScope, stmt.name, Depth)[i] = cgScope[i]
        /\ Define(cgScope, stmt.name, Depth)[h] =
             cgScope[h] \cup {[name |-> stmt.name, id |-> Depth]}
    BY ONLY <1>2, <2>1, h = Len(cgScope), DefineEntries
  <2> QED
    BY <2>2
<1>4. e.name = stmt.name
  OBVIOUS
<1>5. ASSUME NEW k \in DOMAIN defers
      PROVE  UsesFound(cgScope', k + 1, defers[k])
  <2>1. /\ k \in 1 .. Len(defers) /\ k + 1 \in Nat
        /\ UsesFound(cgScope, k + 1, defers[k])
    BY <1>5, Types DEF DefersNamed
  <2>2. CASE k < Len(defers)
    <3>1. \A i \in 1 .. k + 1 : i \in 1 .. h - 1
      BY <1>1, <1>2, <2>1, <2>2
    <3>2. \A i \in 1 .. k + 1 : cgScope'[i] = cgScope[i]
      BY <1>3, <3>1
    <3> QED
      BY ONLY <2>1, <3>2, UsesKept
  <2>3. CASE ~(k < Len(defers))
    <3>1. k = Len(defers) /\ k + 1 = h /\ defers # <<>>
      BY <1>1, <1>2, <2>1, <2>3
    <3>2. \A x \in DOMAIN defers[k] : defers[k][x].stmt.op = "use" =>
            e.name # defers[k][x].stmt.name
      BY <1>4, <3>1, NotDisplaced
    <3>3. UsesFound(cgScope, h, defers[k])
      BY <2>1, <3>1
    <3>4. UsesFound(cgScope', h, defers[k])
      <4> PICK list : list = defers[k]
        OBVIOUS
      <4>1. /\ UsesFound(cgScope, h, list)
            /\ \A x \in DOMAIN list : list[x].stmt.op = "use" =>
                 e.name # list[x].stmt.name
        BY <3>2, <3>3
      <4>2. h \in Nat \ {0}
        BY <1>2
      <4>3. UsesFound(cgScope', h, list)
        BY ONLY <1>3, <4>1, <4>2, UsesStill
      <4> QED
        BY <4>3
    <3> QED
      BY <3>1, <3>4
  <2> QED
    BY <2>2, <2>3
<1> QED
  BY <1>5 DEF DefersNamed

(* What a declaration is initialized with is found past what it declares.  *)
LEMMA SourceFound ==
  ASSUME Inv, Agreed, LevelsNamed, AtStatement, live,
         NEW stmt \in Statements, stmt.op = "let", stmt.init # NoName,
         stmt.init # stmt.name, NEW id \in Nat \ {0}
  PROVE  Resolve(WithSymbol(stmt.name, id), stmt.init) = SemaSource(stmt)
<1>1. stmt.init \in Names /\ stmt.name \in Names
  BY DEF Statements, Simple, Naming
<1> PICK h : h = Len(cgScope)
  OBVIOUS
<1> PICK e : e = [name |-> stmt.name, id |-> id]
  OBVIOUS
<1>2. h \in Nat \ {0} /\ cgScope \in Seq(SUBSET Declaration)
  BY HeightFacts, Types DEF AtStatement, Walking
<1>3. Found(cgScope, h, stmt.init) = SemaSource(stmt)
  BY <1>1, NameAgreed DEF SemaSource
<1>4. CASE Declared(Last(cgScope), stmt.name)
  BY <1>2, <1>3, <1>4, FoundIsResolve DEF WithSymbol
<1>5. CASE ~Declared(Last(cgScope), stmt.name)
  <2> PICK t : t = Define(cgScope, stmt.name, id)
    OBVIOUS
  <2>1. t \in Seq(SUBSET Declaration) /\ Len(t) = h
    BY <1>1, <1>2, DefineFacts
  <2>2. /\ \A i \in 1 .. h - 1 : t[i] = cgScope[i]
        /\ t[h] = cgScope[h] \cup {e}
    <3>1. /\ \A i \in 1 .. h - 1 : Define(cgScope, stmt.name, id)[i] = cgScope[i]
          /\ Define(cgScope, stmt.name, id)[h] =
               cgScope[h] \cup {[name |-> stmt.name, id |-> id]}
      BY ONLY <1>2, h = Len(cgScope), DefineEntries
    <3> QED
      BY <3>1
  <2>3. e.name # stmt.init
    OBVIOUS
  <2>4. Found(t, h, stmt.init) = Found(cgScope, h, stmt.init)
    <3> PICK x : x = stmt.init
      OBVIOUS
    <3>1. e.name # x
      BY <2>3
    <3>2. Found(t, h, x) = Found(cgScope, h, x)
      BY ONLY <1>2, <2>2, <3>1, FoundStill
    <3> QED
      BY <3>2
  <2>5. Found(t, Len(t), stmt.init) = Resolve(t, stmt.init)
    BY ONLY <2>1, FoundIsResolve
  <2> QED
    BY <1>3, <1>5, <2>1, <2>4, <2>5 DEF WithSymbol
<1> QED
  BY <1>4, <1>5

LEMMA StatementNamed ==
  ASSUME Inv, Agreed, Shaped, NEW stmt \in Statements, Statement(stmt), Named
  PROVE  Named'
<1> SUFFICES ASSUME ~displaced'
             PROVE  /\ LevelsNamed' /\ DefersNamed'
                    /\ ~misresolved' /\ panicked' # "variable"
  BY DEF Named
<1>1. ~displaced /\ ~Displaces(stmt)
  BY Types DEF Statement
<1>2. LevelsNamed /\ DefersNamed /\ ~misresolved /\ panicked # "variable"
  BY <1>1 DEF Named
<1>3. /\ AtStatement /\ ~closing /\ ~closing' /\ (Top.kind \in Lists \/ Top.n < 2)
      /\ path' = Counted /\ pending' = pending /\ SemaAccepts(stmt)
  BY DEF Statement, AtStatement, Walking, Lists, Loops, Cases
<1>4. Inv'
  BY StatementInv
<1>5. /\ Depth' = Depth /\ Alike(path', path, Depth)
      /\ Top'.on = Top.on /\ Top'.kind = Top.kind
  BY <1>3, <1>4, CountedLaid
<1>6. /\ SemaTarget(stmt) \in Nat \ {0}
      /\ cg_statement(stmt, SemaTarget(stmt), SemaSource(stmt))
  BY SemaTargetFacts DEF Statement
<1>7. defers' = defers
  BY <1>6, CgStatementFacts
<1>8. stmt.op = "use" /\ live => Resolve(cgScope, stmt.name) = SemaTarget(stmt)
  BY <1>2, <1>3, UseResolved, FoundIsResolve, Types
<1>13. stmt.op = "let" /\ live /\ stmt.init # NoName =>
         /\ Resolve(WithSymbol(stmt.name, SemaTarget(stmt)), stmt.init) =
              SemaSource(stmt)
         /\ SemaSource(stmt) # 0
  BY <1>1, <1>2, <1>3, <1>6, SourceFound DEF Displaces, SemaAccepts
<1>9. /\ ~misresolved' /\ panicked' # "variable"
      /\ live' => live
      /\ stmt.op # "let" \/ ~live => cgScope' = cgScope
      /\ stmt.op = "let" /\ live =>
           cgScope' = WithSymbol(stmt.name, SemaTarget(stmt))
  BY <1>2, <1>6, <1>8, <1>13, EmittedNamed
<1>10. cgScope' = cgScope => DefersNamed'
  BY <1>2, <1>3, <1>7 DEF DefersNamed
<1>11. CASE stmt.op # "let"
  <2>1. scope' = scope /\ cgScope' = cgScope
    BY <1>9, <1>11 DEF Statement, sema_check_stmt
  <2>2. LevelsNamed'
    <3>1. closing' = closing /\ (live' => live) /\ LevelsNamed
      BY <1>2, <1>3, <1>4, <1>9, Types, NextTypes
    <3> QED
      BY <1>5, <2>1, <3>1, StillNamed
  <2> QED
    BY <1>9, <1>10, <2>1, <2>2
<1>12. CASE stmt.op = "let"
  <2>1. /\ stmt.name \in Names /\ Depth \in Nat \ {0} /\ SemaTarget(stmt) = Depth
        /\ scope' = Define(scope, stmt.name, Depth)
        /\ ~Declared(Last(scope), stmt.name)
        /\ path[Holder].kind \notin {"while", "case"}
    BY <1>1, <1>3, <1>12, TopFacts
       DEF Statements, Simple, Naming, SemaTarget, Statement, sema_check_stmt,
           SemaAccepts, sema_resolve_local, Displaces
  <2>2. CASE live
    <3>1. LevelsNamed' /\ cgScope' = Define(cgScope, stmt.name, Depth)
      BY <1>2, <1>3, <1>5, <1>9, <1>12, <2>1, <2>2, LiveLetNamed
    <3>2. DefersNamed'
      BY <1>1, <1>2, <1>3, <1>7, <1>12, <3>1, LetDefersNamed
    <3> QED
      BY <1>9, <3>1, <3>2
  <2>3. CASE ~live
    <3>1. cgScope' = cgScope /\ ~live'
      BY <1>9, <2>3
    <3>2. LevelsNamed'
      BY <1>2, <1>3, <1>5, <2>1, <2>3, <3>1, DeadLetNamed
    <3> QED
      BY <1>9, <1>10, <3>1, <3>2
  <2> QED
    BY <2>2, <2>3
<1> QED
  BY <1>11, <1>12

(* A deferred statement, registered where its uses are found already.      *)
LEMMA DeferNamed ==
  ASSUME Inv, Agreed, Shaped, NEW stmt \in Statements, NEW nest \in 0 .. MaxNest,
         Defer(stmt, nest), Named
  PROVE  Named'
<1> SUFFICES ASSUME ~displaced'
             PROVE  /\ LevelsNamed' /\ DefersNamed'
                    /\ ~misresolved' /\ panicked' # "variable"
  BY DEF Named
<1> DEFINE d == [stmt |-> stmt, target |-> SemaTarget(stmt),
                 from |-> SemaSource(stmt), nest |-> nest]
<1>1. ~displaced /\ nest = 0 /\ stmt.op # "let"
  <2>1. ~(displaced \/ nest > 0 \/ stmt.op = "let")
    BY DEF Defer
  <2>2. nest \in Nat
    BY MaxNestAssumption
  <2> QED
    BY <2>1, <2>2
<1>2. LevelsNamed /\ DefersNamed /\ ~misresolved /\ panicked # "variable"
  BY <1>1 DEF Named
<1>3. /\ AtStatement /\ ~closing /\ ~closing' /\ (Top.kind \in Lists \/ Top.n < 2)
      /\ path' = Counted /\ pending' = pending /\ SemaAccepts(stmt)
      /\ closing' = closing
  BY DEF Defer, AtStatement, Walking, Lists, Loops, Cases
<1>4. Inv'
  BY DeferInv
<1>5. /\ Depth' = Depth /\ Alike(path', path, Depth)
      /\ Top'.on = Top.on /\ Top'.kind = Top.kind
  BY <1>3, <1>4, CountedLaid
<1>6. scope' = scope
  BY <1>1 DEF Defer, sema_check_stmt
<1>7. /\ cgScope' = cgScope /\ live' = live
      /\ ~misresolved' /\ panicked' # "variable"
  BY <1>2 DEF Defer, cg_defer, cg_plain, cg_panic
<1>8. LevelsNamed'
  BY <1>2, <1>3, <1>5, <1>6, <1>7, StillNamed
<1>9. CASE live
  <2>1. d \in Deferred /\ cg_defer(d)
    <3>1. SemaTarget(stmt) \in Nat \ {0} /\ SemaSource(stmt) \in Nat
      BY SemaTargetFacts, SemaSourceFacts DEF Defer
    <3> QED
      BY <1>9, <3>1 DEF Deferred, Statements, Defer
  <2>2. /\ d.stmt.op # "let" /\ d.nest = 0
        /\ d.stmt.op = "use" =>
             Found(cgScope, Len(cgScope), d.stmt.name) = d.target
    BY <1>1, <1>2, <1>3, <1>9, UseResolved
  <2> HIDE DEF d
  <2>3. /\ DOMAIN defers' = DOMAIN defers
        /\ \A k \in DOMAIN defers :
             \/ defers'[k] = defers[k]
             \/ /\ k = Len(defers)
                /\ \A x \in DOMAIN defers'[k] :
                     \/ defers'[k][x] = d
                     \/ x \in DOMAIN defers[k] /\ defers'[k][x] = defers[k][x]
    BY <2>1, RegisteredFacts
  <2>4. Len(cgScope) = Len(defers) + 1
    BY <1>3, HeightFacts
  <2>5. ASSUME NEW k \in DOMAIN defers
        PROVE  UsesFound(cgScope, k + 1, defers'[k])
    <3>1. UsesFound(cgScope, k + 1, defers[k])
      BY <1>2 DEF DefersNamed
    <3>2. CASE defers'[k] = defers[k]
      BY <3>1, <3>2
    <3>3. CASE k = Len(defers) /\ \A x \in DOMAIN defers'[k] :
                 \/ defers'[k][x] = d
                 \/ x \in DOMAIN defers[k] /\ defers'[k][x] = defers[k][x]
      BY <2>2, <2>4, <3>1, <3>3 DEF UsesFound
    <3> QED
      BY <2>3, <3>2, <3>3
  <2>6. DefersNamed'
    BY <1>3, <1>7, <2>3, <2>5 DEF DefersNamed
  <2> QED
    BY <1>7, <1>8, <2>6
<1>10. CASE ~live
  <2>1. defers' = defers
    BY <1>10 DEF Defer, cg_plain
  <2> QED
    BY <1>2, <1>3, <1>7, <1>8, <2>1 DEF DefersNamed
<1> QED
  BY <1>9, <1>10

(* The last deferred statement left, emitted before its scope is dropped.  *)
LEMMA EmitDeferredNamed ==
  ASSUME Inv, Agreed, Shaped, EmitDeferred, Named
  PROVE  Named'
<1> SUFFICES ASSUME ~displaced'
             PROVE  /\ LevelsNamed' /\ DefersNamed'
                    /\ ~misresolved' /\ panicked' # "variable"
  BY DEF Named
<1> PICK d : d = Last(pending)
  OBVIOUS
<1>1. /\ closing /\ closing' /\ pending # <<>> /\ pending' = Front(pending)
      /\ UNCHANGED <<scope, path, displaced, closing>>
  BY DEF EmitDeferred, cg_emit_deferred, semaVars, walkVars
<1>2. LevelsNamed /\ DefersNamed /\ ~misresolved /\ panicked # "variable"
  BY <1>1 DEF Named
<1>3. /\ pending \in Seq(Deferred) /\ d \in Deferred /\ d = pending[Len(pending)]
      /\ Len(pending) \in DOMAIN pending
      /\ DOMAIN pending' = 1 .. Len(pending) - 1
      /\ \A i \in 1 .. Len(pending) - 1 :
           i \in DOMAIN pending /\ pending'[i] = pending[i]
  BY <1>1, LastFacts, FrontFacts, Types
<1>4. d.stmt \in Statements /\ d.target \in Nat \ {0}
  BY <1>3 DEF Deferred, Statements
<1>5. UsesFound(cgScope, Len(cgScope), pending)
  BY <1>1, <1>2 DEF DefersNamed
<1>6. /\ d.stmt.op # "let" /\ d.nest = 0
      /\ d.stmt.op = "use" => Found(cgScope, Len(cgScope), d.stmt.name) = d.target
  BY <1>3, <1>5 DEF UsesFound
<1>7. cg_statement(d.stmt, d.target, d.from)
  BY <1>6 DEF EmitDeferred, cg_emit_deferred
<1>8. d.stmt.op = "use" => Resolve(cgScope, d.stmt.name) = d.target
  BY <1>6, FoundIsResolve, Types
<1>9. /\ ~misresolved' /\ panicked' # "variable" /\ (live' => live)
      /\ cgScope' = cgScope
  BY <1>2, <1>4, <1>6, <1>7, <1>8, EmittedNamed
<1>10. defers' = defers
  BY <1>4, <1>7, CgStatementFacts
<1>11. UsesFound(cgScope, Len(cgScope), pending')
  BY <1>3, <1>5 DEF UsesFound
<1>12. DefersNamed'
  BY <1>1, <1>2, <1>9, <1>10, <1>11 DEF DefersNamed
<1>13. LevelsNamed'
  <2>1. /\ Depth' = Depth /\ Alike(path', path, Depth)
        /\ Top'.on = Top.on /\ Top'.kind = Top.kind
    BY <1>1 DEF Depth, Top, Alike
  <2> QED
    BY <1>1, <1>2, <1>9, <2>1, StillNamed
<1> QED
  BY <1>9, <1>12, <1>13

LEMMA VisitNamed ==
  ASSUME Inv, Agreed, Shaped, Visit
  PROVE  Shaped' /\ (Named => Named')
<1>1. PICK stmt \in Statements :
        \/ Refuse(stmt) \/ Statement(stmt)
        \/ \E nest \in 0 .. MaxNest : Defer(stmt, nest)
  BY DEF Visit, Statements
<1>2. CASE Refuse(stmt)
  <2>1. UNCHANGED <<scope, jump, cgScope, defers, live, pending, closing,
                    panicked, misresolved, displaced, path>>
    BY <1>2 DEF Refuse, semaVars, cgVars
  <2>2. Shaped'
    BY <2>1 DEF Shaped, Laid, LaidAt, BareLaid, Bare, Scopes, Tables,
       DeadInside, NoReturn, InFunction, Depth, Top
  <2>3. LevelsNamed => LevelsNamed'
    BY <2>1 DEF LevelsNamed, Generating, Depth, Top
  <2>4. DefersNamed => DefersNamed'
    BY <2>1 DEF DefersNamed
  <2> QED
    BY <2>1, <2>2, <2>3, <2>4 DEF Named
<1>3. CASE Statement(stmt)
  BY <1>3, StatementShaped, StatementNamed
<1>4. CASE \E nest \in 0 .. MaxNest : Defer(stmt, nest)
  BY <1>4, DeferShaped, DeferNamed
<1> QED
  BY <1>1, <1>2, <1>3, <1>4

LEMMA NamedInit == Init => Shaped /\ Named
<1> SUFFICES ASSUME Init
             PROVE  Shaped /\ Named
  OBVIOUS
<1>1. /\ scope = <<{}>> /\ jump = <<>> /\ cgScope = <<{}>> /\ defers = <<>>
      /\ pending = <<>> /\ live /\ ~closing /\ ~misresolved /\ panicked = "no"
      /\ ~displaced
      /\ path = <<[kind |-> "root", on |-> TRUE, n |-> 0,
                   at |-> [scope |-> 1, jump |-> 0, defers |-> 0, breaks |-> 0,
                           continues |-> 0]]>>
  BY DEF Init, SemaInit, CgInit
<1>2. /\ Depth = 1 /\ DOMAIN path = {1} /\ path[1].kind = "root" /\ path[1].on
      /\ Top = path[1]
  <2>1. Len(path) = 1 /\ DOMAIN path = {1} /\ path[1].kind = "root" /\ path[1].on
    BY <1>1
  <2>2. Depth = 1
    BY <2>1 DEF Depth
  <2>3. Top = path[1]
    BY <2>1 DEF Top, Last
  <2> QED
    BY <2>1, <2>2, <2>3
<1>3. /\ Inside(path[1]).scope = 1 /\ Inside(path[1]).defers = 0
  <2>1. path[1].at.scope = 1 /\ path[1].at.defers = 0
    BY <1>1
  <2> QED
    BY <1>2, <2>1 DEF Inside, One, SemaScoped, CgScoped
<1>4. Scopes(path, 1) = 1 /\ Tables(path, 1) = 1
  BY <1>3 DEF Scopes, Tables
<1>5. Laid(path)
  <2>1. LaidAt(path, 1)
    BY <1>2 DEF LaidAt
  <2>2. BareLaid(path, 1, 1)
    BY DEF BareLaid
  <2> QED
    BY <1>2, <2>1, <2>2 DEF Laid
<1>6. DeadInside
  BY <1>1, <1>2 DEF DeadInside, NoReturn
<1>7. Shaped
  BY <1>1, <1>5, <1>6 DEF Shaped
<1>8. LevelNamed(path, scope, cgScope, 1)
  <2>1. scope = cgScope /\ scope[1] = {}
    BY <1>1
  <2>2. \A i : SameNames(scope, cgScope, i, i)
    BY <2>1 DEF SameNames
  <2> QED
    BY <1>4, <2>1, <2>2 DEF LevelNamed
<1>9. LevelsNamed /\ DefersNamed
  <2>1. DefersNamed
    BY <1>1 DEF DefersNamed
  <2>2. LevelsNamed
    BY <1>2, <1>8 DEF LevelsNamed
  <2> QED
    BY <2>1, <2>2
<1> QED
  BY <1>1, <1>7, <1>9 DEF Named

LEMMA NamedNext ==
  Inv /\ Agreed /\ Shaped /\ Named /\ [Next]_vars => Shaped' /\ Named'
<1> SUFFICES ASSUME Inv, Agreed, Shaped, Named, [Next]_vars
             PROVE  Shaped' /\ Named'
  OBVIOUS
<1>1. CASE Enter
  BY <1>1, EnterNamed
<1>2. CASE Leave
  BY <1>2, LeaveNamed
<1>3. CASE Visit
  BY <1>3, VisitNamed
<1>4. CASE EmitDeferred
  BY <1>4, EmitDeferredShaped, EmitDeferredNamed
<1>5. CASE EndScope
  BY <1>5, EndScopeNamed
<1>6. CASE UNCHANGED vars
  <2>1. UNCHANGED <<scope, jump, cgScope, defers, live, pending, closing,
                    panicked, misresolved, displaced, path>>
    BY <1>6 DEF vars, semaVars, cgVars, walkVars
  <2>2. Shaped'
    BY <2>1 DEF Shaped, Laid, LaidAt, BareLaid, Bare, Scopes, Tables,
       DeadInside, NoReturn, InFunction, Depth, Top
  <2>3. LevelsNamed => LevelsNamed'
    BY <2>1 DEF LevelsNamed, Generating, Depth, Top
  <2>4. DefersNamed => DefersNamed'
    BY <2>1 DEF DefersNamed
  <2> QED
    BY <2>1, <2>2, <2>3, <2>4 DEF Named
<1> QED
  BY <1>1, <1>2, <1>3, <1>4, <1>5, <1>6 DEF Next

(* A use analysis resolved, deferred or not, is bound by the generator to  *)
(* the same declaration, and found, though the two keep scopes of          *)
(* different constructs and the generator skips dead code: provided no     *)
(* declaration was the bare body of a `while` or of a case, was deferred,  *)
(* or came between a deferred use of its name and the end of their scope.  *)
THEOREM NamesAreAgreed == Spec => []NamesAgree
<1>1. Named => NamesAgree
  BY DEF Named, NamesAgree
<1>2. Init => Inv /\ Agreed /\ Shaped /\ Named
  BY InvInit, AgreedInit, NamedInit
<1>3. Inv /\ Agreed /\ Shaped /\ Named /\ [Next]_vars
        => Inv' /\ Agreed' /\ Shaped' /\ Named'
  BY InvNext, AgreedNext, NamedNext
<1> QED
  BY <1>1, <1>2, <1>3, PTL DEF Spec
===============================================================================
