----------------------------- MODULE OwnershipProofs -----------------------------
(***************************************************************************)
(* What analysis accepts runs without reading a String that was handed on, *)
(* and the drops the code generator emits are each made once and in order, *)
(* for bodies of every length, nesting and path of execution.              *)
(***************************************************************************)
EXTENDS Ownership, SequenceTheorems, WellFoundedInduction, TLAPS

-------------------------------------------------------------------------------
(***************************************************************************)
(* Stacks.                                                                 *)
(***************************************************************************)
LEMMA FrontFacts ==
  ASSUME NEW S, NEW s \in Seq(S), s # <<>>
  PROVE  /\ Front(s) \in Seq(S)
         /\ Len(s) \in Nat \ {0}
         /\ Len(Front(s)) = Len(s) - 1
         /\ \A i \in 1 .. Len(s) - 1 : Front(s)[i] = s[i]
<1>1. PICK n \in Nat : n = Len(s) - 1
  OBVIOUS
<1>2. \A i \in 1 .. n : s[i] \in S
  BY <1>1
<1>3. SubSeq(s, 1, n) \in Seq(S)
  BY <1>2, SubSeqProperties
<1>4. Len(SubSeq(s, 1, n)) = n
  BY <1>2, SubSeqProperties
<1>5. \A i \in 1 .. n : SubSeq(s, 1, n)[i] = s[i]
  BY <1>2, SubSeqProperties
<1>6. Front(s) = SubSeq(s, 1, n)
  BY <1>1 DEF Front
<1>7. Len(s) \in Nat \ {0}
  OBVIOUS
<1> QED
  BY <1>1, <1>3, <1>4, <1>5, <1>6, <1>7

LEMMA LastFacts ==
  ASSUME NEW S, NEW s \in Seq(S), s # <<>>
  PROVE  Last(s) \in S /\ Last(s) = s[Len(s)] /\ Len(s) \in DOMAIN s
  BY DEF Last

LEMMA AppendFacts ==
  ASSUME NEW S, NEW s \in Seq(S), NEW e \in S
  PROVE  /\ Append(s, e) \in Seq(S)
         /\ Append(s, e) # <<>>
         /\ Len(Append(s, e)) = Len(s) + 1
         /\ Append(s, e)[Len(s) + 1] = e
         /\ Last(Append(s, e)) = e
         /\ \A i \in 1 .. Len(s) : Append(s, e)[i] = s[i]
  BY DEF Last

(* The largest of a bounded set of positions: n - Max(S) is the least of   *)
(* the distances from n.                                                   *)
LEMMA MaxFacts ==
  ASSUME NEW n \in Nat, NEW S \in SUBSET (1 .. n), S # {}
  PROVE  Max(S) \in S /\ \A y \in S : Max(S) >= y
<1> DEFINE T == {t \in Nat : n - t \in S}
           R == OpToRel(<, Nat)
<1>1. T \subseteq Nat /\ T # {}
  <2>1. PICK x \in S : TRUE
    OBVIOUS
  <2>2. n - x \in Nat /\ n - (n - x) = x
    BY <2>1
  <2> QED
    BY <2>1, <2>2
<1>2. IsWellFoundedOn(R, Nat)
  BY NatLessThanWellFounded
<1>3. \A x, y \in Nat : y < x => <<y, x>> \in R
  BY DEF OpToRel
<1> HIDE DEF R
<1>4. PICK m \in T : \A y \in T : ~ (<<y, m>> \in R)
  BY <1>1, <1>2, WFMin
<1>5. \A y \in T : ~ (y < m)
  BY <1>1, <1>3, <1>4
<1>6. n - m \in S
  OBVIOUS
<1>7. ASSUME NEW y \in S
      PROVE  n - m >= y
  <2>1. n - y \in T /\ y \in Nat
    OBVIOUS
  <2>2. ~ (n - y < m) /\ m \in Nat
    BY <2>1, <1>5
  <2> QED
    BY <2>1, <2>2
<1> QED
  BY <1>6, <1>7 DEF Max
-------------------------------------------------------------------------------
(***************************************************************************)
(* The inductive invariant: the text.                                      *)
(***************************************************************************)
Closers == {i \in DOMAIN text : Op(i) \in {"else", "end"}}
Opened == {b \in DOMAIN text : Op(b) \in Openers}

(* A text has one body, and the blocks open are those around its end.      *)
OpenBlocks ==
  /\ text # <<>> /\ \A i \in DOMAIN text : Op(i) = "body" <=> i = 1
  /\ \A k \in DOMAIN open :
       /\ open[k] \in Opened
       /\ \A j \in 1 .. k - 1 : open[j] < open[k]
  /\ open # <<>> => open[1] = 1
  /\ \A b \in Opened : b \in Range(open) <=> ~\E j \in Closers : text[j].of = b

(* Every closer ends one block, after it, and all blocks opened since.     *)
Brackets ==
  /\ \A i \in Closers :
       /\ text[i].of \in Opened /\ text[i].of < i
       /\ Op(i) = "else" => Op(text[i].of) = "if"
       /\ \A j \in Closers : text[j].of = text[i].of => i = j
       /\ \A e \in Opened :
            text[i].of < e /\ e < i =>
              \E j \in Closers : text[j].of = e /\ j < i
  /\ \A i \in Closers : text[i].of = 1 => i = Len(text)

(* The block a statement stands in is the innermost one open there.        *)
InBlock(i) ==
  LET b == text[i].block IN
  /\ b \in Opened /\ b < i
  /\ \A j \in Closers : text[j].of = b => i < j
  /\ \A e \in Opened :
       b < e /\ e < i => \E j \in Closers : text[j].of = e /\ j < i

Standing == \A i \in DOMAIN text : i > 1 /\ i \notin Closers => InBlock(i)

(* What a statement reads is declared before it in a block still open.     *)
Sees(r, d) ==
  /\ d \in Declarations /\ d < r
  /\ \A j \in Closers : text[j].of = text[d].block => r < j

SeesDeclaration(r) ==
  /\ Sees(r, text[r].of)
  /\ Op(r) = "assign" => Sees(r, text[r].to)

Resolved == \A r \in DOMAIN text : Op(r) \in Reads => SeesDeclaration(r)

JumpsHaveLoops ==
  \A i \in DOMAIN text :
    Op(i) \in {"break", "continue"} =>
      \E b \in Opened :
        /\ Op(b) = "for_in" /\ b < i
        /\ \A j \in Closers : text[j].of = b => i < j

(* Analysis has marked what was handed on, and refused what was read then. *)
Moves(d) == {m \in DOMAIN text : Op(m) \in Hands /\ text[m].of = d}
Marked ==
  /\ \A d \in DOMAIN text : Op(d) = "let" /\ Moves(d) # {} => d \in isMoved
  /\ phase # "refused" =>
       \A r \in DOMAIN text :
         Op(r) \in Reads /\ Op(text[r].of) = "let" =>
           ~\E m \in Moves(text[r].of) : m < r

Phases ==
  /\ phase = "analysis" => /\ open # <<>>
                           /\ Len(text) + Len(open) <= MaxText
  /\ phase \in {"running", "done"} => open = <<>>

TextSound ==
  /\ OpenBlocks /\ Brackets /\ Standing /\ Resolved /\ JumpsHaveLoops
  /\ Marked /\ Phases

-------------------------------------------------------------------------------
(***************************************************************************)
(* The inductive invariant: the run.                                       *)
(***************************************************************************)
Around(i) == {b \in Opened : b < i /\ i < Closing(b)}
Blocks(f) == {f[k].block : k \in DOMAIN f}

Nested(f) == \A k \in DOMAIN f : \A j \in 1 .. k - 1 : f[j].block < f[k].block

(* The frames are those of the blocks around the statement to run.  One    *)
(* that ends a block is still in it, and a loop may be in its own.         *)
FramesAt(f, i) ==
  CASE i \in Closers -> Blocks(f) = Around(i) \cup {text[i].of}
    [] Op(i) = "for_in" -> Blocks(f) \in {Around(i), Around(i) \cup {i}}
    [] OTHER -> Blocks(f) = Around(i)

Placed ==
  /\ phase \in {"analysis", "refused"} => pc = 1 /\ frames = <<>>
  /\ phase = "running" => /\ pc \in DOMAIN text
                          /\ Nested(frames) /\ FramesAt(frames, pc)

(* A String declared on the way to the statement to run, in a block around *)
(* it.                                                                     *)
InScope(d) ==
  d \in Declarations /\ d < pc /\ text[d].block \in Blocks(frames)

(* One in scope has not been dropped; if it was handed on, and no loop     *)
(* repeats that, it was by a statement before this one.                    *)
Owned ==
  phase = "running" =>
    \A d \in DOMAIN text :
      InScope(d) =>
        /\ owner[d] \in {"live", "moved"}
        /\ owner[d] = "moved" /\ ~MovedAgain =>
             \E m \in Moves(d) : m < pc

(* Without a jump, what is out of scope has been dropped.                  *)
Undropped ==
  /\ phase \in {"analysis", "refused"} => owner = [d \in 1 .. MaxText |-> "none"]
  /\ phase = "running" /\ ~jumped =>
       \A d \in Declarations : owner[d] \in {"live", "moved"} => InScope(d)

NoFaultYet ==
  phase \in {"analysis", "refused"} =>
    /\ faults = {} /\ freed = {} /\ spoiled = {}
    /\ holds = [d \in 1 .. MaxText |-> 0]

(* A variable out of scope points to nothing, and the buffer of one that   *)
(* shares none is its own and has not been freed.                          *)
OwnBuffer(d) ==
  ~Shares(d) /\ holds[d] # 0 =>
    holds[d] \notin freed /\ \A e \in 1 .. MaxText \ {d} : holds[e] # holds[d]

BuffersSound ==
  /\ holds \in [1 .. MaxText -> Nat]
  /\ freed \subseteq Held(holds)
  /\ spoiled \subseteq 1 .. MaxText
  /\ \A d \in 1 .. MaxText : owner[d] \in {"none", "dropped"} => holds[d] = 0
  /\ \A d \in 1 .. MaxText : OwnBuffer(d)
  /\ FreedOnce

Inv ==
  /\ TypeOK /\ TextSound /\ Placed /\ Owned /\ Undropped /\ NoFaultYet
  /\ BuffersSound
  /\ MovesEnforced /\ DropsInOrder /\ NothingLeft
-------------------------------------------------------------------------------
(***************************************************************************)
(* The text grows.                                                         *)
(***************************************************************************)
LEMMA TextFacts ==
  ASSUME Inv
  PROVE  /\ text \in Seq(Statement) /\ text # <<>>
         /\ Len(text) \in Nat \ {0} /\ DOMAIN text = 1 .. Len(text)
         /\ Here = Len(text) + 1 /\ Here \in Nat
         /\ Closers \subseteq DOMAIN text /\ Opened \subseteq DOMAIN text
         /\ Closers \subseteq Nat /\ Opened \subseteq Nat
         /\ 1 \in Opened
  BY DEF Inv, TypeOK, TextSound, OpenBlocks, Here, Closers, Opened, Openers

LEMMA Appended ==
  ASSUME Inv, NEW s \in Statement, text' = Append(text, s)
  PROVE  /\ text' \in Seq(Statement) /\ text' # <<>>
         /\ Len(text') = Here /\ DOMAIN text' = 1 .. Here
         /\ DOMAIN text' = DOMAIN text \cup {Here}
         /\ text'[Here] = s
         /\ \A i \in DOMAIN text : text'[i] = text[i] /\ i < Here /\ i \in Nat
         /\ \A i : i \in Closers' <=>
                   i \in Closers \/ (i = Here /\ s.op \in {"else", "end"})
         /\ \A i : i \in Opened' <=>
                   i \in Opened \/ (i = Here /\ s.op \in Openers)
         /\ \A i : i \in Declarations' <=>
                   i \in Declarations \/ (i = Here /\ s.op \in Lets)
<1>1. /\ text' \in Seq(Statement) /\ text' # <<>>
      /\ Len(text') = Here /\ DOMAIN text' = 1 .. Here
      /\ text'[Here] = s
      /\ \A i \in DOMAIN text : text'[i] = text[i] /\ i < Here /\ i \in Nat
  BY TextFacts, AppendFacts
<1>2. DOMAIN text' = DOMAIN text \cup {Here}
  BY <1>1, TextFacts
<1>3. \A i \in DOMAIN text' :
        Op(i)' = IF i = Here THEN s.op ELSE Op(i)
  BY <1>1, <1>2 DEF Op
<1>4. Here \notin DOMAIN text
  BY TextFacts
<1>5. \A i : i \in Closers' <=> i \in Closers \/ (i = Here /\ s.op \in {"else", "end"})
  BY <1>2, <1>3, <1>4 DEF Closers
<1>6. \A i : i \in Opened' <=> i \in Opened \/ (i = Here /\ s.op \in Openers)
  BY <1>2, <1>3, <1>4 DEF Opened
<1>7. \A i : i \in Declarations' <=> i \in Declarations \/ (i = Here /\ s.op \in Lets)
  BY <1>2, <1>3, <1>4 DEF Declarations
<1> QED
  BY <1>1, <1>2, <1>5, <1>6, <1>7

(* The block being analysed, and how those opened since were closed.       *)
LEMMA InnerFacts ==
  ASSUME Inv, phase = "analysis"
  PROVE  /\ open \in Seq(DOMAIN text) /\ open # <<>>
         /\ Len(open) \in Nat \ {0} /\ DOMAIN open = 1 .. Len(open)
         /\ Inner \in Opened /\ Inner = open[Len(open)]
         /\ Inner \in Range(open)
         /\ \A k \in DOMAIN open : open[k] \in Opened /\ open[k] \in Nat
         /\ \A b \in Range(open) : b \in Opened /\ b <= Inner
         /\ \A b \in Range(open) : ~\E j \in Closers : text[j].of = b
         /\ \A e \in Opened :
              e > Inner => \E j \in Closers : text[j].of = e /\ j < Here
<1>1. /\ open \in Seq(DOMAIN text) /\ open # <<>>
      /\ Len(open) \in Nat \ {0} /\ DOMAIN open = 1 .. Len(open)
  BY DEF Inv, TypeOK, TextSound, Phases
<1>2. /\ \A k \in DOMAIN open :
           /\ open[k] \in Opened
           /\ \A j \in 1 .. k - 1 : open[j] < open[k]
      /\ \A b \in Opened : b \in Range(open) <=> ~\E j \in Closers : text[j].of = b
  BY DEF Inv, TextSound, OpenBlocks
<1>3. Inner = open[Len(open)] /\ Len(open) \in DOMAIN open
  BY <1>1, LastFacts DEF Inner
<1>4. Inner \in Opened /\ Inner \in Range(open)
  BY <1>2, <1>3 DEF Range
<1>5. ASSUME NEW b \in Range(open)
      PROVE  b \in Opened /\ b <= Inner /\ ~\E j \in Closers : text[j].of = b
  <2>1. PICK k \in DOMAIN open : b = open[k]
    BY DEF Range
  <2>2. b \in Opened
    BY <1>2, <2>1
  <2>3. k = Len(open) \/ k \in 1 .. Len(open) - 1
    BY <1>1
  <2>4. b <= Inner
    BY <1>2, <1>3, <2>1, <2>2, <2>3, TextFacts
  <2> QED
    BY <1>2, <2>2, <2>4
<1>6. ASSUME NEW e \in Opened, e > Inner
      PROVE  \E j \in Closers : text[j].of = e /\ j < Here
  <2>1. e \notin Range(open)
    BY <1>4, <1>5, <1>6, TextFacts
  <2> QED
    BY <1>2, <2>1, TextFacts
<1> QED
  BY <1>1, <1>2, <1>3, <1>4, <1>5, <1>6, TextFacts

(* A stack of positions, each after the one below it.                      *)
Rising(s) == \A k \in DOMAIN s : \A j \in 1 .. k - 1 : s[j] < s[k]

LEMMA RisingPush ==
  ASSUME NEW n \in Nat, NEW s \in Seq(1 .. n), Rising(s)
  PROVE  /\ Append(s, n + 1) \in Seq(1 .. n + 1)
         /\ Rising(Append(s, n + 1))
         /\ Range(Append(s, n + 1)) = Range(s) \cup {n + 1}
         /\ Append(s, n + 1)[1] = IF s = <<>> THEN n + 1 ELSE s[1]
<1>1. /\ Len(s) \in Nat /\ DOMAIN s = 1 .. Len(s)
      /\ \A k \in DOMAIN s : s[k] \in 1 .. n
      /\ s \in Seq(1 .. n + 1) /\ n + 1 \in 1 .. n + 1
  OBVIOUS
<1> DEFINE t == Append(s, n + 1)
<1>2. /\ t \in Seq(1 .. n + 1) /\ t # <<>>
      /\ Len(t) = Len(s) + 1 /\ t[Len(s) + 1] = n + 1
      /\ \A k \in 1 .. Len(s) : t[k] = s[k]
  <2> DEFINE S == 1 .. n + 1  e == n + 1
  <2>1. s \in Seq(S) /\ e \in S
    BY <1>1
  <2> HIDE DEF S, e
  <2>2. /\ Append(s, e) \in Seq(S) /\ Append(s, e) # <<>>
        /\ Len(Append(s, e)) = Len(s) + 1 /\ Append(s, e)[Len(s) + 1] = e
        /\ \A k \in 1 .. Len(s) : Append(s, e)[k] = s[k]
    BY <2>1, AppendFacts
  <2> QED
    BY <2>2 DEF S, e
<1>3. DOMAIN t = 1 .. Len(s) + 1
  BY <1>2
<1> HIDE DEF t
<1> DEFINE m == Len(s)
<1>3a. m \in Nat /\ m + 1 \in DOMAIN t /\ \A k \in DOMAIN t : k \in DOMAIN s \/ k = m + 1
  BY <1>1, <1>3
<1>4. Rising(t)
  <2>1. SUFFICES ASSUME NEW k \in DOMAIN t, NEW j \in 1 .. k - 1
                 PROVE  t[j] < t[k]
    BY DEF Rising
  <2>2. j \in DOMAIN s /\ t[j] = s[j] /\ s[j] <= n /\ s[j] \in Nat
    <3>1. j \in DOMAIN s
      BY <1>1, <1>3
    <3>2. t[j] = s[j]
      BY <1>1, <1>2, <3>1
    <3>3. s[j] \in 1 .. n
      BY <1>1, <3>1
    <3> QED
      BY <3>1, <3>2, <3>3
  <2>3. CASE k \in DOMAIN s
    <3>1. t[k] = s[k]
      BY <1>1, <1>2, <2>3
    <3> QED
      BY <2>2, <2>3, <3>1 DEF Rising
  <2>4. CASE k = m + 1
    <3>1. t[k] = n + 1
      BY <1>2, <2>4
    <3> QED
      BY <2>2, <3>1
  <2> QED
    BY <1>3a, <2>3, <2>4
<1>5. Range(t) = Range(s) \cup {n + 1}
  <2>1. \A x \in Range(t) : x \in Range(s) \cup {n + 1}
    <3>1. ASSUME NEW k \in DOMAIN t
          PROVE  t[k] \in Range(s) \cup {n + 1}
      BY <1>1, <1>2, <1>3a DEF Range
    <3> QED
      BY <3>1 DEF Range
  <2>2. \A x \in Range(s) : x \in Range(t)
    BY <1>1, <1>2, <1>3 DEF Range
  <2>3. n + 1 \in Range(t)
    <3>1. t[m + 1] = n + 1
      BY <1>2
    <3> QED
      BY <1>3a, <3>1 DEF Range
  <2> QED
    BY <2>1, <2>2, <2>3
<1>6. t[1] = IF s = <<>> THEN n + 1 ELSE s[1]
  <2>1. CASE s = <<>>
    BY <1>2, <2>1
  <2>2. CASE s # <<>>
    BY <1>1, <1>2, <2>2
  <2> QED
    BY <2>1, <2>2
<1> QED
  BY <1>2, <1>4, <1>5, <1>6 DEF t

LEMMA RisingPop ==
  ASSUME NEW n \in Nat, NEW s \in Seq(1 .. n), Rising(s), s # <<>>
  PROVE  /\ Front(s) \in Seq(1 .. n)
         /\ Rising(Front(s))
         /\ Range(Front(s)) = Range(s) \ {s[Len(s)]}
         /\ Front(s) # <<>> => Front(s)[1] = s[1]
         /\ Len(Front(s)) = Len(s) - 1
<1>1. /\ Len(s) \in Nat \ {0} /\ DOMAIN s = 1 .. Len(s)
      /\ \A k \in DOMAIN s : s[k] \in 1 .. n
  OBVIOUS
<1> DEFINE t == Front(s)
<1>2. /\ t \in Seq(1 .. n) /\ Len(t) = Len(s) - 1
      /\ \A k \in 1 .. Len(s) - 1 : t[k] = s[k]
  BY FrontFacts
<1>3. DOMAIN t = 1 .. Len(s) - 1
  BY <1>2
<1> HIDE DEF t
<1>3a. \A k \in DOMAIN t : /\ k \in DOMAIN s /\ k \in 1 .. Len(s) - 1
                           /\ t[k] = s[k] /\ s[k] \in Nat
  <2>1. \A k \in DOMAIN t : k \in 1 .. Len(s) - 1 /\ k \in DOMAIN s
    BY <1>1, <1>3
  <2>2. \A k \in DOMAIN s : s[k] \in Nat
    BY <1>1
  <2>3. \A k \in DOMAIN t : t[k] = s[k]
    BY <1>2, <2>1
  <2> QED
    BY <2>1, <2>2, <2>3
<1>4. Rising(t)
  <2>1. SUFFICES ASSUME NEW k \in DOMAIN t, NEW j \in 1 .. k - 1
                 PROVE  t[j] < t[k]
    BY DEF Rising
  <2>2. j \in DOMAIN t
    BY <1>3
  <2> QED
    BY <1>3a, <2>2 DEF Rising
<1>5. Range(t) = Range(s) \ {s[Len(s)]}
  <2>1. \A x \in Range(t) : x \in Range(s) /\ x # s[Len(s)]
    <3>1. ASSUME NEW k \in DOMAIN t
          PROVE  s[k] \in Range(s) /\ s[k] # s[Len(s)]
      <4>1. s[k] < s[Len(s)]
        BY <1>1, <1>3a DEF Rising
      <4> QED
        BY <1>1, <1>3a, <4>1 DEF Range
    <3> QED
      BY <1>3a, <3>1 DEF Range
  <2>2. ASSUME NEW x \in Range(s), x # s[Len(s)]
        PROVE  x \in Range(t)
    <3>1. PICK k \in DOMAIN s : x = s[k]
      BY DEF Range
    <3>2. k \in DOMAIN t /\ t[k] = x
      BY <1>1, <1>2, <1>3, <2>2, <3>1
    <3> QED
      BY <3>2 DEF Range
  <2> QED
    BY <2>1, <2>2
<1>6. t # <<>> => t[1] = s[1]
  BY <1>1, <1>2
<1> QED
  BY <1>2, <1>4, <1>5, <1>6 DEF t

LEMMA OpenRises ==
  ASSUME Inv
  PROVE  Rising(open) /\ open \in Seq(1 .. Len(text))
  BY TextFacts DEF Inv, TypeOK, TextSound, OpenBlocks, Rising

LEMMA BodyOpen ==
  ASSUME Inv, phase = "analysis"
  PROVE  1 \in Range(open) /\ \A j \in Closers : text[j].of # 1
<1>1. open # <<>> /\ DOMAIN open = 1 .. Len(open) /\ Len(open) \in Nat \ {0}
  BY InnerFacts
<1>2. open[1] = 1 /\ 1 \in DOMAIN open
  BY <1>1 DEF Inv, TextSound, OpenBlocks
<1>3. 1 \in Range(open)
  BY <1>2 DEF Range
<1> QED
  BY <1>3, InnerFacts

(* A statement that closes no block.                                       *)
Extends(s) ==
  /\ phase = "analysis" /\ text' = Append(text, s)
  /\ s \in Statement /\ s.op \notin {"else", "end", "body"}
  /\ s.block = Inner
  /\ open' = IF s.op \in Openers THEN Append(open, Here) ELSE open
  /\ s.op \in Reads => s.of \in Visible
  /\ s.op = "assign" => s.to \in Visible
  /\ s.op \in {"break", "continue"} => \E b \in Range(open) : Op(b) = "for_in"

(* What it changes; h is the position it gets.                             *)
Extension(s, h) ==
  /\ Closers' = Closers
  /\ \A i \in DOMAIN text :
       /\ text'[i] = text[i] /\ i < h /\ Op(i)' = Op(i)
       /\ i \in DOMAIN text' /\ i \in Nat /\ i # h
  /\ DOMAIN text' = DOMAIN text \cup {h}
  /\ text'[h] = s /\ Op(h)' = s.op
  /\ \A i : i \in Opened' <=> i \in Opened \/ (i = h /\ s.op \in Openers)
  /\ \A i : i \in Declarations' <=>
            i \in Declarations \/ (i = h /\ s.op \in Lets)
  /\ Closers \subseteq DOMAIN text /\ Opened \subseteq DOMAIN text
  /\ \A j \in Closers : text'[j].of = text[j].of /\ j < h
  /\ text' # <<>> /\ Len(text') = h

LEMMA ExtendedText ==
  ASSUME Inv, NEW s, Extends(s), NEW h \in Nat, h = Here
  PROVE  Extension(s, h)
<1>1. s \in Statement /\ text' = Append(text, s) /\ s.op \notin {"else", "end"}
  BY DEF Extends
<1>2. /\ text' # <<>> /\ Len(text') = h
      /\ DOMAIN text' = DOMAIN text \cup {h} /\ text'[h] = s
      /\ \A i \in DOMAIN text : text'[i] = text[i] /\ i < h /\ i \in Nat
      /\ \A i : i \in Closers' <=> i \in Closers
      /\ \A i : i \in Opened' <=> i \in Opened \/ (i = h /\ s.op \in Openers)
      /\ \A i : i \in Declarations' <=>
                i \in Declarations \/ (i = h /\ s.op \in Lets)
  BY <1>1, Appended
<1>3. Op(h)' = s.op /\ \A i \in DOMAIN text : Op(i)' = Op(i)
  BY <1>2 DEF Op
<1>4. Closers' = Closers
  BY <1>2
<1>5. \A i \in DOMAIN text : i # h
  BY <1>2
<1>6. /\ Closers \subseteq DOMAIN text /\ Opened \subseteq DOMAIN text
  BY TextFacts
<1> QED
  BY <1>2, <1>3, <1>4, <1>5, <1>6 DEF Extension

LEMMA ExtendedOpen ==
  ASSUME Inv, NEW s, Extends(s), NEW h \in Nat, h = Here
  PROVE  /\ open' \in Seq(DOMAIN text') /\ open' # <<>> /\ open'[1] = 1
         /\ Rising(open)'
         /\ \A i : i \in Range(open') <=>
                   i \in Range(open) \/ (i = h /\ s.op \in Openers)
         /\ Len(open') = Len(open) + (IF s.op \in Openers THEN 1 ELSE 0)
<1> DEFINE n == Len(text)
<1>1. /\ open \in Seq(1 .. n) /\ Rising(open) /\ open # <<>> /\ open[1] = 1
      /\ n \in Nat /\ h = n + 1 /\ DOMAIN text' = 1 .. n + 1
  BY OpenRises, TextFacts, InnerFacts, ExtendedText
     DEF Extension, Inv, TextSound, OpenBlocks, Extends
<1>2. CASE s.op \in Openers
  <2>1. open' = Append(open, n + 1)
    BY <1>1, <1>2 DEF Extends
  <2>2. /\ Append(open, n + 1) \in Seq(1 .. n + 1)
        /\ Rising(Append(open, n + 1))
        /\ Range(Append(open, n + 1)) = Range(open) \cup {n + 1}
        /\ Append(open, n + 1)[1] = open[1]
    BY <1>1, RisingPush
  <2>3. open' \in Seq(DOMAIN text') /\ open' # <<>> /\ open'[1] = 1
    BY <1>1, <2>1, <2>2
  <2>4. Rising(open)' /\ Range(open') = Range(open) \cup {h}
    BY <1>1, <2>1, <2>2 DEF Rising
  <2>5. Len(open') = Len(open) + 1
    BY <1>1, <2>1
  <2> QED
    BY <1>2, <2>3, <2>4, <2>5
<1>3. CASE s.op \notin Openers
  <2>1. open' = open /\ open \in Seq(1 .. n + 1)
    BY <1>1, <1>3 DEF Extends
  <2> QED
    BY <1>1, <1>3, <2>1 DEF Rising
<1> QED
  BY <1>2, <1>3

LEMMA ExtendedSound ==
  ASSUME Inv, NEW s, Extends(s), NEW h \in Nat, h = Here
  PROVE  /\ OpenBlocks' /\ Brackets' /\ Standing' /\ Resolved'
         /\ JumpsHaveLoops'
<1>0. /\ Extension(s, h)
      /\ open' # <<>> /\ open'[1] = 1 /\ Rising(open)'
      /\ \A i : i \in Range(open') <=>
                i \in Range(open) \/ (i = h /\ s.op \in Openers)
  BY ExtendedText, ExtendedOpen
<1>1. /\ OpenBlocks /\ Brackets /\ Standing /\ Resolved /\ JumpsHaveLoops
      /\ phase = "analysis"
  BY DEF Inv, TextSound, Extends
<1>2. OpenBlocks'
  <2>1. \A i \in DOMAIN text' : Op(i)' = "body" <=> i = 1
    BY <1>1, <1>0, TextFacts DEF Extension, OpenBlocks, Extends
  <2>2. \A b \in Opened' :
          b \in Range(open') <=> ~\E j \in Closers' : text'[j].of = b
    <3>1. ASSUME NEW b \in Opened
          PROVE  b \in Range(open') <=> ~\E j \in Closers' : text'[j].of = b
      <4>1. b \in Range(open') <=> b \in Range(open)
        BY <1>0 DEF Extension
      <4> QED
        BY <1>1, <4>1, <1>0 DEF Extension, OpenBlocks
    <3>2. ASSUME s.op \in Openers
          PROVE  /\ h \in Range(open')
                 /\ ~\E j \in Closers' : text'[j].of = h
      BY <1>1, <3>2, <1>0 DEF Extension, Brackets
    <3> QED
      BY <3>1, <3>2, <1>0 DEF Extension
  <2>3. \A k \in DOMAIN open' :
          /\ open'[k] \in Opened'
          /\ \A j \in 1 .. k - 1 : open'[j] < open'[k]
    <3>1. Range(open') \subseteq Opened'
      BY <1>1, <1>0, InnerFacts DEF Extension
    <3> QED
      BY <3>1, <1>0 DEF Extension, Range, Rising
  <2> QED
    BY <2>1, <2>2, <2>3, <1>0 DEF Extension, OpenBlocks
<1>3. Brackets'
  <2>1. \A i \in Closers :
          /\ text[i].of \in Opened' /\ text[i].of < i
          /\ Op(i)' = "else" => Op(text[i].of)' = "if"
          /\ \A j \in Closers : text[j].of = text[i].of => i = j
    BY <1>1, <1>0 DEF Extension, Brackets
  <2>2. ASSUME NEW i \in Closers, NEW e \in Opened', text[i].of < e, e < i
        PROVE  \E j \in Closers : text[j].of = e /\ j < i
    <3>1. e # h
      BY <2>2, <1>0 DEF Extension
    <3> QED
      BY <1>1, <2>2, <3>1, <1>0 DEF Extension, Brackets
  <2>3. \A i \in Closers : text[i].of # 1
    BY <1>1, BodyOpen
  <2> QED
    BY <2>1, <2>2, <2>3, <1>0 DEF Extension, Brackets
<1>4. Standing'
  <2>1. ASSUME NEW i \in DOMAIN text, i > 1, i \notin Closers
        PROVE  InBlock(i)'
    <3>1. InBlock(i)
      BY <1>1, <2>1 DEF Standing
    <3>2. \A e \in Opened' : e < i => e \in Opened
      BY <1>0, TextFacts DEF Extension
    <3> QED
      BY <3>1, <3>2, <1>0 DEF Extension, InBlock
  <2>2. InBlock(h)'
    <3>1. /\ Inner \in Opened /\ text'[h].block = Inner
          /\ \A j \in Closers : text[j].of # Inner
          /\ \A e \in Opened : e > Inner => \E j \in Closers : text[j].of = e /\ j < h
      BY <1>1, InnerFacts, <1>0 DEF Extension, Extends
    <3>2. ASSUME NEW e \in Opened', Inner < e, e < h
          PROVE  \E j \in Closers : text[j].of = e /\ j < h
      BY <3>1, <3>2, <1>0, TextFacts DEF Extension
    <3> QED
      BY <3>1, <3>2, <1>0 DEF Extension, InBlock
  <2> QED
    BY <2>1, <2>2, <1>0 DEF Extension, Standing
<1>5. Resolved'
  <2>1. ASSUME NEW r \in DOMAIN text, NEW d, Sees(r, d)
        PROVE  Sees(r, d)'
    <3>1. d \in Declarations' /\ text'[d] = text[d]
      BY <2>1, <1>0 DEF Extension, Sees, Declarations
    <3> QED
      BY <2>1, <3>1, <1>0 DEF Extension, Sees
  <2>2. ASSUME NEW d \in Visible
        PROVE  Sees(h, d)'
    <3>1. d \in Declarations /\ text[d].block \in Range(open)
      BY <2>2 DEF Visible
    <3>2. \A j \in Closers : text[j].of # text[d].block
      BY <1>1, <3>1, InnerFacts
    <3>3. d \in Declarations' /\ d < h /\ text'[d] = text[d]
      BY <3>1, <1>0 DEF Extension, Declarations
    <3> QED
      BY <3>2, <3>3, <1>0 DEF Extension, Sees
  <2>3. ASSUME NEW r \in DOMAIN text, Op(r) \in Reads
        PROVE  SeesDeclaration(r)'
    <3>1. SeesDeclaration(r)
      BY <1>1, <2>3 DEF Resolved
    <3>2. text'[r] = text[r] /\ Op(r)' = Op(r)
      BY <2>3, <1>0 DEF Extension
    <3>3. Sees(r, text[r].of)'
      <4>1. PICK d : d = text[r].of
        OBVIOUS
      <4>2. Sees(r, d)'
        BY <2>1, <3>1, <4>1 DEF SeesDeclaration
      <4> QED
        BY <3>2, <4>1, <4>2 DEF Sees
    <3>4. Op(r) = "assign" => Sees(r, text[r].to)'
      <4>1. PICK d : d = text[r].to
        OBVIOUS
      <4>2. Op(r) = "assign" => Sees(r, d)'
        BY <2>1, <3>1, <4>1 DEF SeesDeclaration
      <4> QED
        BY <3>2, <4>1, <4>2 DEF Sees
    <3> QED
      BY <3>2, <3>3, <3>4 DEF SeesDeclaration
  <2>4. ASSUME s.op \in Reads
        PROVE  SeesDeclaration(h)'
    <3>1. text'[h] = s /\ Op(h)' = s.op
      BY <1>0 DEF Extension
    <3>2. Sees(h, text[h].of)'
      <4>1. PICK d \in Visible : d = s.of
        BY <2>4 DEF Extends
      <4>2. Sees(h, d)'
        BY <2>2
      <4> QED
        BY <3>1, <4>1, <4>2 DEF Sees
    <3>3. s.op = "assign" => Sees(h, text[h].to)'
      <4>1. ASSUME s.op = "assign"
            PROVE  Sees(h, text[h].to)'
        <5>1. PICK d \in Visible : d = s.to
          BY <4>1 DEF Extends
        <5>2. Sees(h, d)'
          BY <2>2
        <5> QED
          BY <3>1, <5>1, <5>2 DEF Sees
      <4> QED
        BY <4>1
    <3> QED
      BY <3>1, <3>2, <3>3 DEF SeesDeclaration
  <2> QED
    BY <2>3, <2>4, <1>0 DEF Extension, Resolved
<1>6. JumpsHaveLoops'
  <2>1. ASSUME NEW i \in DOMAIN text, Op(i) \in {"break", "continue"}
        PROVE  \E b \in Opened : /\ Op(b) = "for_in" /\ b < i
                                 /\ \A j \in Closers : text[j].of = b => i < j
    BY <1>1, <2>1 DEF JumpsHaveLoops
  <2>2. ASSUME s.op \in {"break", "continue"}
        PROVE  \E b \in Opened : /\ Op(b) = "for_in" /\ b < h
                                 /\ \A j \in Closers : text[j].of = b => h < j
    <3>1. PICK b \in Range(open) : Op(b) = "for_in"
      BY <2>2 DEF Extends
    <3> QED
      BY <1>1, <3>1, InnerFacts, <1>0 DEF Extension
  <2>3. \A b \in Opened : b \in Opened' /\ Op(b)' = Op(b)
    BY <1>0 DEF Extension
  <2>4. ASSUME NEW i \in DOMAIN text', Op(i)' \in {"break", "continue"}
        PROVE  \E b \in Opened : /\ Op(b) = "for_in" /\ b < i
                                 /\ \A j \in Closers : text[j].of = b => i < j
    BY <2>1, <2>2, <2>4, <1>0 DEF Extension
  <2> QED
    BY <2>3, <2>4, <1>0 DEF Extension, JumpsHaveLoops
<1> QED
  BY <1>2, <1>3, <1>4, <1>5, <1>6

(* The end of the innermost block; `else` opens one of its own.            *)
Closes(s) ==
  /\ phase = "analysis" /\ text' = Append(text, s)
  /\ s \in Statement /\ s.op \in {"else", "end"} /\ s.of = Inner
  /\ s.op = "else" => Op(Inner) = "if" /\ Len(open) > 1
  /\ open' = IF s.op = "else" THEN Append(Front(open), Here) ELSE Front(open)

Closure(s, h) ==
  /\ Closers' = Closers \cup {h} /\ h \notin Closers
  /\ \A i \in DOMAIN text :
       /\ text'[i] = text[i] /\ i < h /\ Op(i)' = Op(i)
       /\ i \in DOMAIN text' /\ i \in Nat /\ i # h
  /\ DOMAIN text' = DOMAIN text \cup {h}
  /\ text'[h] = s /\ Op(h)' = s.op /\ s.of = Inner
  /\ \A i : i \in Opened' <=> i \in Opened \/ (i = h /\ s.op = "else")
  /\ Declarations' = Declarations
  /\ Closers \subseteq DOMAIN text /\ Opened \subseteq DOMAIN text
  /\ \A j \in Closers : text'[j].of = text[j].of /\ j < h
  /\ text' # <<>> /\ Len(text') = h

LEMMA ClosedText ==
  ASSUME Inv, NEW s, Closes(s), NEW h \in Nat, h = Here
  PROVE  Closure(s, h)
<1>1. /\ s \in Statement /\ text' = Append(text, s) /\ s.op \in {"else", "end"}
      /\ s.of = Inner
      /\ s.op \notin Lets /\ (s.op \in Openers <=> s.op = "else")
  BY DEF Closes, Lets, Openers
<1>2. /\ text' # <<>> /\ Len(text') = h
      /\ DOMAIN text' = DOMAIN text \cup {h} /\ text'[h] = s
      /\ \A i \in DOMAIN text : text'[i] = text[i] /\ i < h /\ i \in Nat
      /\ \A i : i \in Closers' <=> i \in Closers \/ i = h
      /\ \A i : i \in Opened' <=> i \in Opened \/ (i = h /\ s.op = "else")
      /\ \A i : i \in Declarations' <=> i \in Declarations
  BY <1>1, Appended
<1>3. Op(h)' = s.op /\ \A i \in DOMAIN text : Op(i)' = Op(i)
  BY <1>2 DEF Op
<1>4. Closers' = Closers \cup {h} /\ Declarations' = Declarations
  BY <1>2
<1>5. \A i \in DOMAIN text : i # h
  BY <1>2
<1>6. /\ Closers \subseteq DOMAIN text /\ Opened \subseteq DOMAIN text
  BY TextFacts
<1> QED
  BY <1>1, <1>2, <1>3, <1>4, <1>5, <1>6 DEF Closure

LEMMA ClosedOpen ==
  ASSUME Inv, NEW s, Closes(s), NEW h \in Nat, h = Here
  PROVE  /\ open' \in Seq(DOMAIN text') /\ (open' # <<>> => open'[1] = 1)
         /\ Rising(open)'
         /\ \A i : i \in Range(open') <=>
                   (i \in Range(open) /\ i # Inner) \/ (i = h /\ s.op = "else")
         /\ Len(open') = Len(open) - (IF s.op = "else" THEN 0 ELSE 1)
<1> DEFINE n == Len(text)
           f == Front(open)
<1>1. /\ open \in Seq(1 .. n) /\ Rising(open) /\ open # <<>> /\ open[1] = 1
      /\ n \in Nat /\ h = n + 1 /\ Inner = open[Len(open)]
      /\ Len(open) \in Nat \ {0}
  BY OpenRises, TextFacts, InnerFacts DEF Inv, TextSound, OpenBlocks, Closes
<1>2. DOMAIN text' = 1 .. n + 1
  <2>1. DOMAIN text' = (1 .. n) \cup {n + 1}
    BY <1>1, TextFacts, ClosedText DEF Closure
  <2> QED
    BY <1>1, <2>1
<1>3. /\ f \in Seq(1 .. n) /\ Rising(f)
      /\ Range(f) = Range(open) \ {Inner}
      /\ f # <<>> => f[1] = 1
      /\ Len(f) = Len(open) - 1
  BY <1>1, RisingPop
<1> HIDE DEF f
<1>4. CASE s.op = "else"
  <2>1. open' = Append(f, n + 1) /\ f # <<>>
    BY <1>1, <1>3, <1>4 DEF Closes, f
  <2>2. /\ Append(f, n + 1) \in Seq(1 .. n + 1)
        /\ Rising(Append(f, n + 1))
        /\ Range(Append(f, n + 1)) = Range(f) \cup {n + 1}
        /\ Append(f, n + 1)[1] = f[1]
    BY <1>1, <1>3, <2>1, RisingPush
  <2>3. Len(open') = Len(f) + 1
    BY <1>3, <2>1
  <2> QED
    BY <1>1, <1>2, <1>3, <1>4, <2>1, <2>2, <2>3 DEF Rising
<1>5. CASE s.op # "else"
  <2>1. open' = f
    BY <1>5 DEF Closes, f
  <2>2. f \in Seq(1 .. n + 1)
    BY <1>1, <1>3
  <2> QED
    BY <1>1, <1>2, <1>3, <1>5, <2>1, <2>2 DEF Rising
<1> QED
  BY <1>4, <1>5

LEMMA ClosedSound ==
  ASSUME Inv, NEW s, Closes(s), NEW h \in Nat, h = Here
  PROVE  /\ OpenBlocks' /\ Brackets' /\ Standing' /\ Resolved'
         /\ JumpsHaveLoops'
<1>0. /\ Closure(s, h)
      /\ (open' # <<>> => open'[1] = 1) /\ Rising(open)'
      /\ \A i : i \in Range(open') <=>
                (i \in Range(open) /\ i # Inner) \/ (i = h /\ s.op = "else")
  BY ClosedText, ClosedOpen
<1>1. /\ OpenBlocks /\ Brackets /\ Standing /\ Resolved /\ JumpsHaveLoops
      /\ phase = "analysis" /\ s.op \in {"else", "end"}
      /\ s.op = "else" => Op(Inner) = "if" /\ Inner # 1
  <2>1. Op(1) = "body"
    BY TextFacts DEF Inv, TextSound, OpenBlocks
  <2> QED
    BY <2>1 DEF Inv, TextSound, Closes
<1>2. OpenBlocks'
  <2>1. \A i \in DOMAIN text' : Op(i)' = "body" <=> i = 1
    <3>1. h # 1
      BY TextFacts
    <3> QED
      BY <1>0, <1>1, <3>1 DEF Closure, OpenBlocks
  <2>2. \A b \in Opened' :
          b \in Range(open') <=> ~\E j \in Closers' : text'[j].of = b
    <3>1. ASSUME NEW b \in Opened
          PROVE  b \in Range(open') <=> ~\E j \in Closers' : text'[j].of = b
      <4>1. b \in Range(open') <=> b \in Range(open) /\ b # Inner
        BY <1>0 DEF Closure
      <4>2. (\E j \in Closers' : text'[j].of = b)
               <=> b = Inner \/ \E j \in Closers : text[j].of = b
        BY <1>0 DEF Closure
      <4> QED
        BY <1>1, <4>1, <4>2 DEF OpenBlocks
    <3>2. ASSUME s.op = "else"
          PROVE  h \in Range(open') /\ ~\E j \in Closers' : text'[j].of = h
      <4>1. Inner # h
        BY <1>0, <1>1, InnerFacts DEF Closure
      <4>2. \A j \in Closers : text[j].of \in Opened
        BY <1>1 DEF Brackets
      <4> QED
        BY <1>0, <3>2, <4>1, <4>2 DEF Closure
    <3> QED
      BY <1>0, <3>1, <3>2 DEF Closure
  <2>3. \A k \in DOMAIN open' :
          /\ open'[k] \in Opened'
          /\ \A j \in 1 .. k - 1 : open'[j] < open'[k]
    <3>1. Range(open') \subseteq Opened'
      BY <1>0, <1>1, InnerFacts DEF Closure
    <3> QED
      BY <1>0, <3>1 DEF Range, Rising
  <2> QED
    BY <1>0, <2>1, <2>2, <2>3 DEF Closure, OpenBlocks
<1>3. Brackets'
  <2>0. /\ Inner \in Opened /\ Inner < h
        /\ \A j \in Closers : text[j].of # Inner
        /\ \A e \in Opened : e > Inner => \E j \in Closers : text[j].of = e /\ j < h
    BY <1>0, <1>1, InnerFacts DEF Closure
  <2>1. ASSUME NEW i \in Closers
        PROVE  /\ text[i].of \in Opened' /\ text[i].of < i
               /\ Op(i)' = "else" => text'[text[i].of].op = "if"
               /\ \A j \in Closers' : text'[j].of = text[i].of => i = j
    <3>1. /\ text[i].of \in Opened /\ text[i].of < i
          /\ text[i].op = "else" => text[text[i].of].op = "if"
          /\ \A j \in Closers : text[j].of = text[i].of => i = j
      BY <1>1 DEF Brackets, Op
    <3>2. text'[text[i].of] = text[text[i].of] /\ text'[i] = text[i]
      BY <1>0, <3>1 DEF Closure
    <3>3. Op(i)' = text[i].op
      BY <3>2 DEF Op
    <3>4. \A j \in Closers' : text'[j].of = text[i].of => i = j
      BY <1>0, <2>0, <3>1 DEF Closure
    <3> QED
      BY <1>0, <3>1, <3>2, <3>3, <3>4 DEF Closure
  <2>2. /\ Inner \in Opened'
        /\ Op(h)' = "else" => text'[Inner].op = "if"
        /\ \A j \in Closers' : text'[j].of = Inner => h = j
    <3>1. text'[Inner].op = Op(Inner)
      BY <1>0, <2>0 DEF Closure, Op
    <3> QED
      BY <1>0, <1>1, <2>0, <3>1 DEF Closure
  <2>3. ASSUME NEW i \in Closers, NEW e \in Opened', text[i].of < e, e < i
        PROVE  \E j \in Closers : text[j].of = e /\ j < i
    <3>1. e # h
      BY <1>0, <2>3 DEF Closure
    <3> QED
      BY <1>0, <1>1, <2>3, <3>1 DEF Closure, Brackets
  <2>4. ASSUME NEW e \in Opened', Inner < e, e < h
        PROVE  \E j \in Closers : text[j].of = e /\ j < h
    <3>1. e \in Opened /\ e > Inner
      BY <1>0, <2>0, <2>4, TextFacts DEF Closure
    <3> QED
      BY <2>0, <3>1
  <2>5. \A i \in Closers : text[i].of # 1
    BY <1>1, BodyOpen
  <2>6. ASSUME NEW i \in Closers'
        PROVE  /\ text'[i].of \in Opened' /\ text'[i].of < i
               /\ Op(i)' = "else" => Op(text[i].of)' = "if"
               /\ \A j \in Closers' : text'[j].of = text'[i].of => i = j
               /\ \A e \in Opened' :
                    text'[i].of < e /\ e < i =>
                      \E j \in Closers' : text'[j].of = e /\ j < i
               /\ text'[i].of = 1 => i = Len(text')
    <3>1. CASE i = h
      <4>1. text'[i].of = Inner /\ i = Len(text')
        BY <1>0, <3>1 DEF Closure
      <4>2. Op(text[i].of)' = text'[Inner].op
        BY <4>1 DEF Op
      <4>3. \A e \in Opened' :
              Inner < e /\ e < i =>
                \E j \in Closers' : text'[j].of = e /\ j < i
        BY <1>0, <2>4, <3>1 DEF Closure
      <4> QED
        BY <1>0, <2>0, <2>2, <3>1, <4>1, <4>2, <4>3 DEF Closure
    <3>2. CASE i \in Closers
      <4>1. text'[i].of = text[i].of /\ i # h
        BY <1>0, <3>2 DEF Closure
      <4>2. \A e \in Opened' :
              text[i].of < e /\ e < i =>
                \E j \in Closers' : text'[j].of = e /\ j < i
        BY <1>0, <2>3, <3>2 DEF Closure
      <4> QED
        <5>1. Op(i)' = "else" => Op(text[i].of)' = "if"
          BY <2>1, <3>2, <4>1 DEF Op
        <5> QED
          BY <2>1, <2>5, <3>2, <4>1, <4>2, <5>1
    <3> QED
      BY <1>0, <3>1, <3>2 DEF Closure
  <2> QED
    BY <2>6 DEF Brackets
<1>4. Standing'
  <2>1. ASSUME NEW i \in DOMAIN text, i > 1, i \notin Closers
        PROVE  InBlock(i)'
    <3>1. InBlock(i)
      BY <1>1, <2>1 DEF Standing
    <3>2. \A e \in Opened' : e < i => e \in Opened
      BY <1>0, TextFacts DEF Closure
    <3> QED
      BY <1>0, <3>1, <3>2 DEF InBlock, Closure
  <2> QED
    BY <1>0, <2>1 DEF Standing, Closure
<1>5. Resolved'
  <2>1. ASSUME NEW r \in DOMAIN text, NEW d, Sees(r, d)
        PROVE  Sees(r, d)'
    <3>1. d \in Declarations' /\ text'[d] = text[d]
      BY <2>1, <1>0 DEF Closure, Sees, Declarations
    <3> QED
      BY <2>1, <3>1, <1>0 DEF Closure, Sees
  <2>2. ASSUME NEW r \in DOMAIN text, Op(r) \in Reads
        PROVE  SeesDeclaration(r)'
    <3>1. SeesDeclaration(r)
      BY <1>1, <2>2 DEF Resolved
    <3>2. text'[r] = text[r] /\ Op(r)' = Op(r)
      BY <2>2, <1>0 DEF Closure
    <3>3. Sees(r, text[r].of)'
      <4>1. PICK d : d = text[r].of
        OBVIOUS
      <4>2. Sees(r, d)'
        BY <2>1, <3>1, <4>1 DEF SeesDeclaration
      <4> QED
        BY <3>2, <4>1, <4>2 DEF Sees
    <3>4. Op(r) = "assign" => Sees(r, text[r].to)'
      <4>1. PICK d : d = text[r].to
        OBVIOUS
      <4>2. Op(r) = "assign" => Sees(r, d)'
        BY <2>1, <3>1, <4>1 DEF SeesDeclaration
      <4> QED
        BY <3>2, <4>1, <4>2 DEF Sees
    <3> QED
      BY <3>2, <3>3, <3>4 DEF SeesDeclaration
  <2>3. Op(h)' \notin Reads
    BY <1>0, <1>1 DEF Closure, Reads, Hands
  <2> QED
    BY <1>0, <2>2, <2>3 DEF Resolved, Closure
<1>6. JumpsHaveLoops'
  <2>1. ASSUME NEW i \in DOMAIN text, Op(i) \in {"break", "continue"}
        PROVE  \E b \in Opened : /\ Op(b) = "for_in" /\ b < i
                                 /\ \A j \in Closers : text[j].of = b => i < j
    BY <1>1, <2>1 DEF JumpsHaveLoops
  <2>2. \A b \in Opened : b \in Opened' /\ Op(b)' = Op(b)
    BY <1>0 DEF Closure
  <2>3. ASSUME NEW i \in DOMAIN text', Op(i)' \in {"break", "continue"}
        PROVE  /\ i \in DOMAIN text
               /\ \E b \in Opened : /\ Op(b) = "for_in" /\ b < i
                                    /\ \A j \in Closers : text[j].of = b => i < j
    BY <1>0, <1>1, <2>1, <2>3 DEF Closure
  <2> QED
    BY <1>0, <2>2, <2>3 DEF JumpsHaveLoops, Closure
<1> QED
  BY <1>2, <1>3, <1>4, <1>5, <1>6

-------------------------------------------------------------------------------
(***************************************************************************)
(* The steps of analysis.                                                  *)
(***************************************************************************)
LEMMA EmptyBlocks == Blocks(<<>>) = {} /\ Nested(<<>>)
  BY DEF Blocks, Nested

(* What is left of the invariant once the text is known to be sound.       *)
LEMMA AnalysisStep ==
  ASSUME Inv, phase = "analysis", UNCHANGED runVars,
         phase' \in {"analysis", "refused", "running"},
         text' \in Seq(Statement), open' \in Seq(DOMAIN text'),
         isMoved' \subseteq {d \in DOMAIN text' : text'[d].op = "let"},
         Len(text') + Len(open') <= MaxText, TextSound'
  PROVE  Inv'
<1>1. /\ pc = 1 /\ frames = <<>> /\ faults = {} /\ jumped \in BOOLEAN
      /\ owner = [d \in 1 .. MaxText |-> "none"]
      /\ holds = [d \in 1 .. MaxText |-> 0] /\ freed = {} /\ spoiled = {}
      /\ pc' = pc /\ frames' = frames /\ faults' = faults /\ owner' = owner
      /\ jumped' = jumped
      /\ holds' = holds /\ freed' = freed /\ spoiled' = spoiled
  BY DEF Inv, TypeOK, Placed, Undropped, NoFaultYet, runVars, bufferVars
<1>2. TypeOK'
  <2>1. Len(text') \in Nat /\ Len(open') \in Nat /\ MaxText \in Nat
    BY OwnershipAssumption
  <2>2. Len(text') <= MaxText
    BY <2>1
  <2>3. phase' \in {"analysis", "refused", "running", "done"}
    OBVIOUS
  <2>4. /\ pc' \in Nat /\ frames' \in Seq(Frame)
        /\ owner' \in [1 .. MaxText -> Owners] /\ faults' \subseteq Faults
        /\ jumped' \in BOOLEAN
    BY <1>1 DEF Inv, TypeOK
  <2>5. /\ holds' \in [1 .. MaxText -> Nat] /\ freed' \subseteq Nat
        /\ spoiled' \subseteq 1 .. MaxText
    BY <1>1
  <2> QED
    BY <2>2, <2>3, <2>4, <2>5 DEF TypeOK
<1>3. Placed'
  <2>1. ASSUME phase' = "running"
        PROVE  /\ pc' \in DOMAIN text' /\ Nested(frames)' /\ FramesAt(frames, pc)'
    <3>1. text' # <<>> /\ 1 \in DOMAIN text' /\ Op(1)' = "body"
      <4>1. text' # <<>> /\ \A i \in DOMAIN text' : Op(i)' = "body" <=> i = 1
        BY DEF TextSound, OpenBlocks
      <4>2. 1 \in DOMAIN text'
        BY <4>1
      <4> QED
        BY <4>1, <4>2
    <3>2. 1 \notin Closers'
      BY <3>1 DEF Closers
    <3>3. Around(1)' = {}
      BY DEF Around, Opened
    <3>4. pc' = 1 /\ frames' = <<>>
      BY <1>1
    <3>5. FramesAt(frames, pc)'
      <4>1. Blocks(frames)' = {}
        BY <3>4, EmptyBlocks DEF Blocks
      <4>2. pc' \notin Closers' /\ Around(pc)' = {}
        BY <3>2, <3>3, <3>4 DEF Around
      <4>3. Op(pc)' = "body"
        BY <3>1, <3>4 DEF Op
      <4> QED
        BY <4>1, <4>2, <4>3 DEF FramesAt
    <3>6. Nested(frames)'
      BY <1>1, EmptyBlocks DEF Nested
    <3> QED
      BY <1>1, <3>1, <3>5, <3>6
  <2> QED
    BY <1>1, <2>1 DEF Placed
<1>4. Owned'
  BY <1>1, EmptyBlocks DEF Owned, InScope
<1>5. Undropped'
  <2>1. \A d \in Declarations' : d \in 1 .. MaxText
    <3>1. Len(text') \in Nat /\ Len(text') <= MaxText /\ DOMAIN text' = 1 .. Len(text')
      BY <1>2 DEF TypeOK
    <3> QED
      BY <3>1, OwnershipAssumption DEF Declarations
  <2> QED
    BY <1>1, <2>1 DEF Undropped
<1>6. NoFaultYet' /\ MovesEnforced' /\ DropsInOrder' /\ NothingLeft'
  BY <1>1 DEF NoFaultYet, MovesEnforced, DropsInOrder, NothingLeft
<1>7. BuffersSound'
  <2>1. \A d \in 1 .. MaxText : OwnBuffer(d)'
    BY <1>1 DEF OwnBuffer
  <2>2. FreedOnce'
    BY <1>1 DEF FreedOnce
  <2> QED
    BY <1>1, <2>1, <2>2 DEF BuffersSound
<1> QED
  BY <1>2, <1>3, <1>4, <1>5, <1>6, <1>7 DEF Inv

(* The marks when what is written hands on nothing.                        *)
LEMMA MarksKept ==
  ASSUME Inv, NEW h \in Nat, NEW s, s.op \notin Reads,
         DOMAIN text' = DOMAIN text \cup {h}, h \notin DOMAIN text,
         text'[h] = s, \A i \in DOMAIN text : text'[i] = text[i],
         isMoved' = isMoved, phase' # "refused", phase # "refused"
  PROVE  /\ Marked'
         /\ isMoved' \subseteq {d \in DOMAIN text' : text'[d].op = "let"}
<1>1. \A i \in DOMAIN text : Op(i)' = Op(i)
  BY DEF Op
<1>2. Op(h)' \notin Reads /\ Op(h)' \notin Hands
  BY DEF Op, Reads
<1>3. \A d : Moves(d)' = Moves(d)
  <2>1. ASSUME NEW d, NEW m \in DOMAIN text'
        PROVE  (Op(m)' \in Hands /\ text'[m].of = d)
                  <=> m \in DOMAIN text /\ Op(m) \in Hands /\ text[m].of = d
    BY <1>1, <1>2
  <2> QED
    BY <2>1 DEF Moves
<1>4. ASSUME NEW d \in DOMAIN text', Op(d)' = "let", Moves(d)' # {}
      PROVE  d \in isMoved'
  <2>1. PICK m \in DOMAIN text : Op(m) \in Hands /\ text[m].of = d
    BY <1>3, <1>4 DEF Moves
  <2>2. d \in DOMAIN text
    BY <2>1 DEF Inv, TextSound, Resolved, SeesDeclaration, Sees, Reads, Declarations
  <2>3. Op(d) = "let" /\ Moves(d) # {}
    BY <1>1, <1>3, <1>4, <2>2
  <2> QED
    BY <2>2, <2>3 DEF Inv, TextSound, Marked
<1>5. ASSUME NEW r \in DOMAIN text', Op(r)' \in Reads, Op(text[r].of)' = "let"
      PROVE  ~\E m \in Moves(text[r].of)' : m < r
  <2>1. r \in DOMAIN text /\ Op(r) \in Reads /\ text'[r].of = text[r].of
    BY <1>1, <1>2, <1>5
  <2>2. text[r].of \in DOMAIN text
    BY <2>1 DEF Inv, TextSound, Resolved, SeesDeclaration, Sees, Declarations
  <2>3. Op(text[r].of) = "let"
    BY <1>5, <2>1, <2>2 DEF Op
  <2>4. ~\E m \in Moves(text[r].of) : m < r
    BY <2>1, <2>3 DEF Inv, TextSound, Marked
  <2>5. Moves(text[r].of)' = Moves(text[r].of)
    BY <1>1, <1>2, <2>1 DEF Moves
  <2> QED
    BY <2>4, <2>5
<1>6. Marked'
  BY <1>4, <1>5 DEF Marked
<1> QED
  BY <1>6 DEF Inv, TypeOK

LEMMA ExtendedStep ==
  ASSUME Inv, NEW s, Extends(s), UNCHANGED runVars,
         phase' \in {"analysis", "refused"},
         Room(Len(open) + (IF s.op \in Openers THEN 1 ELSE 0)),
         Marked', isMoved' \subseteq {d \in DOMAIN text' : text'[d].op = "let"}
  PROVE  Inv'
<1>1. PICK h \in Nat : h = Here
  BY TextFacts
<1>2. /\ OpenBlocks' /\ Brackets' /\ Standing' /\ Resolved' /\ JumpsHaveLoops'
      /\ phase = "analysis" /\ Len(text') = h /\ text' \in Seq(Statement)
  BY <1>1, ExtendedSound, ExtendedText, TextFacts, Appended DEF Extends, Extension
<1>3. /\ open' \in Seq(DOMAIN text') /\ open' # <<>>
      /\ Len(open') = Len(open) + (IF s.op \in Openers THEN 1 ELSE 0)
  BY <1>1, ExtendedOpen
<1>4. Len(text') + Len(open') <= MaxText
  BY <1>1, <1>2, <1>3 DEF Room
<1>5. TextSound'
  BY <1>2, <1>3, <1>4 DEF TextSound, Phases
<1> QED
  BY <1>2, <1>3, <1>4, <1>5, AnalysisStep

LEMMA WrittenIs ==
  ASSUME Inv, Writing, NEW op \in Jumps \cup Reads \cup Openers \cup Lets,
         op # "else", op # "body", NEW of \in Nat, NEW to \in Nat,
         Write(op, of, to)
  PROVE  LET s == [op |-> op, block |-> Inner, of |-> of, to |-> to] IN
         /\ s \in Statement /\ text' = Append(text, s)
         /\ s.op = op /\ s.block = Inner /\ s.of = of /\ s.to = to
         /\ s.op \notin {"else", "end", "body"}
         /\ phase = "analysis" /\ UNCHANGED runVars /\ Room(Len(open))
<1>1. Inner \in Nat /\ phase = "analysis"
  BY TextFacts, InnerFacts DEF Writing, Analysing
<1>2. op \notin {"else", "end", "body"}
  BY DEF Jumps, Reads, Hands, Openers, Lets
<1> QED
  BY <1>1, <1>2 DEF Write, Writing, Analysing, Statement

LEMMA DeclareInv ==
  ASSUME Inv, NEW op \in Lets, Declare(op)
  PROVE  Inv'
<1> DEFINE s == [op |-> op, block |-> Inner, of |-> 0, to |-> 0]
<1>1. /\ Writing /\ Write(op, 0, 0) /\ open' = open /\ isMoved' = isMoved
      /\ phase' = phase
  BY DEF Declare
<1>2. op \notin Openers \cup Reads \cup Jumps /\ op # "else" /\ op # "body"
  BY DEF Lets, Openers, Reads, Hands, Jumps
<1>3. /\ s \in Statement /\ text' = Append(text, s) /\ s.op = op /\ s.block = Inner
      /\ s.op \notin {"else", "end", "body"}
      /\ phase = "analysis" /\ UNCHANGED runVars /\ Room(Len(open))
  BY <1>1, <1>2, WrittenIs
<1> HIDE DEF s
<1>4. Extends(s)
  BY <1>1, <1>2, <1>3 DEF Extends, Jumps, Reads, Hands
<1>5. PICK h \in Nat : h = Here
  BY TextFacts
<1>6. Extension(s, h)
  BY <1>4, <1>5, ExtendedText
<1>7. Marked' /\ isMoved' \subseteq {d \in DOMAIN text' : text'[d].op = "let"}
  <2>1. /\ DOMAIN text' = DOMAIN text \cup {h} /\ h \notin DOMAIN text
        /\ text'[h] = s /\ \A i \in DOMAIN text : text'[i] = text[i]
    BY <1>6 DEF Extension
  <2> QED
    BY <1>1, <1>2, <1>3, <2>1, MarksKept
<1>8. Room(Len(open) + (IF s.op \in Openers THEN 1 ELSE 0))
  BY <1>2, <1>3, InnerFacts
<1> QED
  BY <1>1, <1>3, <1>4, <1>7, <1>8, ExtendedStep

LEMMA EnterInv ==
  ASSUME Inv, NEW op \in {"if", "for_in"}, Enter(op)
  PROVE  Inv'
<1> DEFINE s == [op |-> op, block |-> Inner, of |-> 0, to |-> 0]
<1>1. /\ Writing /\ Write(op, 0, 0) /\ open' = Append(open, Here)
      /\ isMoved' = isMoved /\ phase' = phase /\ Room(Len(open) + 1)
  BY DEF Enter
<1>2. op \in Openers /\ op \notin Reads \cup Jumps /\ op # "else" /\ op # "body"
  BY DEF Openers, Reads, Hands, Jumps
<1>3. /\ s \in Statement /\ text' = Append(text, s) /\ s.op = op /\ s.block = Inner
      /\ s.op \notin {"else", "end", "body"}
      /\ phase = "analysis" /\ UNCHANGED runVars
  BY <1>1, <1>2, WrittenIs
<1> HIDE DEF s
<1>4. Extends(s)
  BY <1>1, <1>2, <1>3 DEF Extends, Jumps, Reads, Hands
<1>5. PICK h \in Nat : h = Here
  BY TextFacts
<1>6. Extension(s, h)
  BY <1>4, <1>5, ExtendedText
<1>7. Marked' /\ isMoved' \subseteq {d \in DOMAIN text' : text'[d].op = "let"}
  <2>1. /\ DOMAIN text' = DOMAIN text \cup {h} /\ h \notin DOMAIN text
        /\ text'[h] = s /\ \A i \in DOMAIN text : text'[i] = text[i]
    BY <1>6 DEF Extension
  <2> QED
    BY <1>1, <1>2, <1>3, <2>1, MarksKept
<1>8. Room(Len(open) + (IF s.op \in Openers THEN 1 ELSE 0))
  BY <1>1, <1>2, <1>3
<1> QED
  BY <1>1, <1>3, <1>4, <1>7, <1>8, ExtendedStep

LEMMA WriteJumpInv ==
  ASSUME Inv, NEW op \in Jumps, WriteJump(op)
  PROVE  Inv'
<1> DEFINE s == [op |-> op, block |-> Inner, of |-> 0, to |-> 0]
<1>1. /\ Writing /\ Write(op, 0, 0) /\ open' = open /\ isMoved' = isMoved
      /\ phase' = phase
      /\ op # "return" => \E b \in Range(open) : Op(b) = "for_in"
  BY DEF WriteJump
<1>2. op \notin Openers \cup Reads /\ op # "else" /\ op # "body"
  BY DEF Openers, Reads, Hands, Jumps
<1>3. /\ s \in Statement /\ text' = Append(text, s) /\ s.op = op /\ s.block = Inner
      /\ s.op \notin {"else", "end", "body"}
      /\ phase = "analysis" /\ UNCHANGED runVars /\ Room(Len(open))
  BY <1>1, <1>2, WrittenIs
<1> HIDE DEF s
<1>4. Extends(s)
  BY <1>1, <1>2, <1>3 DEF Extends, Jumps, Reads, Hands
<1>5. PICK h \in Nat : h = Here
  BY TextFacts
<1>6. Extension(s, h)
  BY <1>4, <1>5, ExtendedText
<1>7. Marked' /\ isMoved' \subseteq {d \in DOMAIN text' : text'[d].op = "let"}
  <2>1. /\ DOMAIN text' = DOMAIN text \cup {h} /\ h \notin DOMAIN text
        /\ text'[h] = s /\ \A i \in DOMAIN text : text'[i] = text[i]
    BY <1>6 DEF Extension
  <2> QED
    BY <1>1, <1>2, <1>3, <2>1, MarksKept
<1>8. Room(Len(open) + (IF s.op \in Openers THEN 1 ELSE 0))
  BY <1>2, <1>3, InnerFacts
<1> QED
  BY <1>1, <1>3, <1>4, <1>7, <1>8, ExtendedStep

(* A read is refused when a move of the same variable was written before.  *)
LEMMA ReadInv ==
  ASSUME Inv, NEW op \in Reads, NEW d \in Visible, NEW to \in {0} \cup Visible,
         Read(op, d, to)
  PROVE  Inv'
<1> DEFINE s == [op |-> op, block |-> Inner, of |-> d, to |-> to]
<1>0. Visible \subseteq DOMAIN text /\ Visible \subseteq Nat
  BY TextFacts DEF Visible, Declarations
<1>1. /\ Writing /\ Write(op, d, to) /\ open' = open
      /\ isMoved' = isMoved \cup Marks(op, d)
      /\ phase' = IF {d, to} \cap isMoved # {} THEN "refused" ELSE phase
      /\ d \in Visible /\ d \in Declarations /\ d \in Nat /\ d \in DOMAIN text
      /\ op = "assign" => to \in Visible
      /\ to \in Nat
  BY <1>0 DEF Read, Visible
<1>2. op \notin Openers \cup Jumps /\ op # "else" /\ op # "body"
  BY DEF Openers, Reads, Hands, Jumps
<1>3. /\ s \in Statement /\ text' = Append(text, s) /\ s.op = op /\ s.block = Inner
      /\ s.of = d /\ s.to = to /\ s.op \notin {"else", "end", "body"}
      /\ phase = "analysis" /\ UNCHANGED runVars /\ Room(Len(open))
  BY <1>1, <1>2, WrittenIs
<1> HIDE DEF s
<1>4. Extends(s)
  BY <1>1, <1>2, <1>3 DEF Extends, Jumps, Reads, Hands
<1>5. PICK h \in Nat : h = Here
  BY TextFacts
<1>6. Extension(s, h)
  BY <1>4, <1>5, ExtendedText
<1>7. /\ DOMAIN text' = DOMAIN text \cup {h} /\ h \notin DOMAIN text
      /\ text'[h] = s /\ d \in DOMAIN text /\ d # h
      /\ \A i \in DOMAIN text : text'[i] = text[i] /\ Op(i)' = Op(i) /\ i < h /\ i \in Nat
      /\ Op(h)' = op
  BY <1>1, <1>3, <1>6 DEF Extension
<1>8. \A x, m : m \in Moves(x)' <=>
                  m \in Moves(x) \/ (m = h /\ op \in Hands /\ x = d)
  BY <1>3, <1>7 DEF Moves
<1>9. \A m \in DOMAIN text : Op(m) \in Reads => text[m].of \in DOMAIN text
  BY DEF Inv, TextSound, Resolved, SeesDeclaration, Sees, Declarations
<1>10. \A x \in DOMAIN text' : Op(x)' = "let" /\ Moves(x)' # {} => x \in isMoved'
  <2>1. ASSUME NEW x \in DOMAIN text', Op(x)' = "let", NEW m \in Moves(x)'
        PROVE  x \in isMoved'
    <3>1. CASE m \in Moves(x)
      <4>1. x \in DOMAIN text /\ Op(x) = "let"
        BY <1>7, <1>9, <2>1, <3>1 DEF Moves, Reads
      <4> QED
        BY <1>1, <3>1, <4>1 DEF Inv, TextSound, Marked
    <3>2. CASE m = h /\ op \in Hands /\ x = d
      BY <1>1, <1>7, <2>1, <3>2 DEF Marks
    <3> QED
      BY <1>8, <2>1, <3>1, <3>2
  <2> QED
    BY <2>1
<1>11. ASSUME phase' # "refused", NEW r \in DOMAIN text',
              Op(r)' \in Reads, Op(text[r].of)' = "let", NEW m \in Moves(text[r].of)'
       PROVE  ~(m < r)
  <2>1. d \notin isMoved /\ phase # "refused"
    BY <1>1, <1>3, <1>11
  <2>2. CASE r = h
    <3>1. text'[r].of = d /\ Op(d) = "let"
      BY <1>3, <1>7, <1>11, <2>2 DEF Op
    <3>2. Moves(d) = {}
      BY <1>7, <2>1, <3>1 DEF Inv, TextSound, Marked
    <3>3. m \in Moves(d) \/ m = h
      BY <1>8, <1>11, <3>1 DEF Moves
    <3> QED
      BY <1>5, <2>2, <3>2, <3>3
  <2>3. CASE r \in DOMAIN text
    <3>1. /\ text'[r].of = text[r].of /\ Op(r) \in Reads
          /\ text[r].of \in DOMAIN text
      BY <1>7, <1>9, <1>11, <2>3
    <3>2. Op(text[r].of) = "let"
      BY <1>7, <1>11, <3>1 DEF Op
    <3>3. m \in Moves(text[r].of) \/ m = h
      BY <1>8, <1>11, <3>1 DEF Moves
    <3>4. r < h /\ r \in Nat
      BY <1>7, <2>3
    <3>5. \A y \in Moves(text[r].of) : ~(y < r)
      BY <2>1, <2>3, <3>1, <3>2 DEF Inv, TextSound, Marked
    <3> QED
      BY <1>5, <3>3, <3>4, <3>5
  <2> QED
    BY <1>7, <2>2, <2>3
<1>12. Marked'
  BY <1>10, <1>11 DEF Marked
<1>13. isMoved' \subseteq {x \in DOMAIN text' : text'[x].op = "let"}
  BY <1>1, <1>7 DEF Inv, TypeOK, Marks, Op
<1>14. Room(Len(open) + (IF s.op \in Openers THEN 1 ELSE 0))
  BY <1>2, <1>3, InnerFacts
<1> QED
  BY <1>1, <1>3, <1>4, <1>12, <1>13, <1>14, ExtendedStep

LEMMA ClosedStep ==
  ASSUME Inv, NEW s, Closes(s), UNCHANGED <<isMoved, runVars>>,
         phase' = IF open' = <<>> THEN "running" ELSE "analysis",
         s.op = "else" => Room(Len(open))
  PROVE  Inv'
<1>1. PICK h \in Nat : h = Here
  BY TextFacts
<1>2. /\ OpenBlocks' /\ Brackets' /\ Standing' /\ Resolved' /\ JumpsHaveLoops'
      /\ phase = "analysis" /\ Closure(s, h)
  BY <1>1, ClosedSound, ClosedText DEF Closes
<1>3. /\ open' \in Seq(DOMAIN text')
      /\ Len(open') = Len(open) - (IF s.op = "else" THEN 0 ELSE 1)
  BY <1>1, ClosedOpen
<1>4. Len(text') = h /\ text' \in Seq(Statement)
  BY <1>2, TextFacts, Appended DEF Closes, Closure
<1>5. Len(text') + Len(open') <= MaxText
  <2>1. Len(text) + Len(open) <= MaxText /\ Len(text) \in Nat /\ Len(open) \in Nat
    BY <1>2, TextFacts, InnerFacts DEF Inv, TextSound, Phases
  <2>2. h = Len(text) + 1
    BY <1>1, TextFacts
  <2> QED
    BY <1>1, <1>3, <1>4, <2>1, <2>2, OwnershipAssumption DEF Room
<1>6. Marked' /\ isMoved' \subseteq {d \in DOMAIN text' : text'[d].op = "let"}
  <2>1. /\ DOMAIN text' = DOMAIN text \cup {h} /\ h \notin DOMAIN text
        /\ text'[h] = s /\ \A i \in DOMAIN text : text'[i] = text[i]
    BY <1>2 DEF Closure
  <2>2. s.op \notin Reads
    BY DEF Closes, Reads, Hands
  <2> QED
    BY <1>2, <2>1, <2>2, MarksKept
<1>7. TextSound'
  BY <1>2, <1>5, <1>6 DEF TextSound, Phases
<1> QED
  BY <1>2, <1>3, <1>4, <1>5, <1>6, <1>7, AnalysisStep

LEMMA BlockOfInner ==
  ASSUME Inv, phase = "analysis"
  PROVE  Inner \in DOMAIN text /\ Inner \in Nat /\ text[Inner].block \in Nat
<1>1. Inner \in DOMAIN text
  BY InnerFacts, TextFacts
<1>2. text[Inner] \in Statement
  BY <1>1, TextFacts
<1> QED
  BY <1>1, <1>2, TextFacts DEF Statement

LEMMA EnterElseInv ==
  ASSUME Inv, EnterElse
  PROVE  Inv'
<1> DEFINE s == [op |-> "else", block |-> text[Inner].block, of |-> Inner,
                to |-> 0]
<1>1. /\ phase = "analysis" /\ UNCHANGED <<isMoved, runVars>>
      /\ Op(Inner) = "if" /\ Len(open) > 1 /\ Room(Len(open))
      /\ text' = Append(text, s) /\ open' = Append(Front(open), Here)
      /\ phase' = phase
  BY DEF EnterElse, Analysing
<1>2. s \in Statement /\ s.op = "else" /\ s.of = Inner
  BY <1>1, BlockOfInner DEF Statement, Openers
<1> HIDE DEF s
<1>3. Closes(s)
  BY <1>1, <1>2 DEF Closes
<1>4. open' # <<>>
  <2>1. PICK h \in Nat : h = Here
    BY TextFacts
  <2>2. /\ open' \in Seq(DOMAIN text')
        /\ Len(open') = Len(open) - (IF s.op = "else" THEN 0 ELSE 1)
    BY <1>3, <2>1, ClosedOpen
  <2>3. Len(open) \in Nat
    BY <1>1, InnerFacts
  <2> QED
    BY <1>1, <1>2, <2>2, <2>3
<1> QED
  BY <1>1, <1>2, <1>3, <1>4, ClosedStep

LEMMA LeaveInv ==
  ASSUME Inv, Leave
  PROVE  Inv'
<1> DEFINE s == [op |-> "end", block |-> text[Inner].block, of |-> Inner,
                to |-> 0]
<1>1. /\ phase = "analysis" /\ UNCHANGED <<isMoved, runVars>>
      /\ text' = Append(text, s) /\ open' = Front(open)
      /\ phase' = IF Len(open) = 1 THEN "running" ELSE phase
  BY DEF Leave
<1>2. s \in Statement /\ s.op = "end" /\ s.of = Inner
  BY <1>1, BlockOfInner DEF Statement
<1> HIDE DEF s
<1>3. Closes(s)
  BY <1>1, <1>2 DEF Closes
<1>4. open' = <<>> <=> Len(open) = 1
  <2>0. PICK h \in Nat : h = Here
    BY TextFacts
  <2>1. /\ open' \in Seq(DOMAIN text')
        /\ Len(open') = Len(open) - (IF s.op = "else" THEN 0 ELSE 1)
    BY <1>3, <2>0, ClosedOpen
  <2>2. Len(open) \in Nat
    BY <1>1, InnerFacts
  <2>3. open' = <<>> <=> Len(open') = 0
    BY <2>1, EmptySeq
  <2>4. Len(open') = Len(open) - 1
    BY <1>2, <2>1
  <2> QED
    BY <2>2, <2>3, <2>4
<1> QED
  BY <1>1, <1>2, <1>3, <1>4, ClosedStep

LEMMA InitInv ==
  ASSUME Init
  PROVE  Inv
<1>1. /\ text = <<[op |-> "body", block |-> 0, of |-> 0, to |-> 0]>> /\ open = <<1>>
      /\ DOMAIN text = {1} /\ Op(1) = "body" /\ Len(text) = 1 /\ Len(open) = 1
      /\ DOMAIN open = {1} /\ open[1] = 1 /\ text # <<>>
      /\ phase = "analysis" /\ isMoved = {} /\ pc = 1 /\ frames = <<>>
      /\ faults = {} /\ jumped = FALSE /\ owner = [d \in 1 .. MaxText |-> "none"]
      /\ holds = [d \in 1 .. MaxText |-> 0] /\ freed = {} /\ spoiled = {}
  BY DEF Init, Op
<1>2. Closers = {} /\ Opened = {1} /\ Declarations = {} /\ Range(open) = {1}
  BY <1>1 DEF Closers, Opened, Declarations, Openers, Lets, Range
<1>3. TypeOK
  <2>1. [op |-> "body", block |-> 0, of |-> 0, to |-> 0] \in Statement
    BY DEF Statement, Openers
  <2>2. text \in Seq(Statement) /\ open \in Seq(DOMAIN text)
    BY <1>1, <2>1
  <2>3. owner \in [1 .. MaxText -> Owners] /\ Len(text) <= MaxText
    BY <1>1, OwnershipAssumption DEF Owners
  <2>4. /\ isMoved \subseteq {d \in DOMAIN text : text[d].op = "let"}
        /\ phase \in {"analysis", "refused", "running", "done"}
        /\ pc \in Nat /\ faults \subseteq Faults /\ jumped \in BOOLEAN
    BY <1>1
  <2>5. frames \in Seq(Frame)
    BY <1>1
  <2>6. /\ holds \in [1 .. MaxText -> Nat] /\ freed \subseteq Nat
        /\ spoiled \subseteq 1 .. MaxText
    BY <1>1
  <2> QED
    BY <2>2, <2>3, <2>4, <2>5, <2>6 DEF TypeOK
<1>4. TextSound
  <2>1. OpenBlocks /\ Brackets
    BY <1>1, <1>2 DEF OpenBlocks, Brackets
  <2>2. Standing
    BY <1>1 DEF Standing
  <2>3. Resolved /\ JumpsHaveLoops
    BY <1>1 DEF Resolved, JumpsHaveLoops, Reads, Hands
  <2>4. Marked
    BY <1>1 DEF Marked, Moves, Reads, Hands
  <2>5. Phases
    BY <1>1, OwnershipAssumption DEF Phases
  <2> QED
    BY <2>1, <2>2, <2>3, <2>4, <2>5 DEF TextSound
<1>5. BuffersSound
  BY <1>1 DEF BuffersSound, OwnBuffer, FreedOnce
<1> QED
  BY <1>1, <1>3, <1>4, <1>5
     DEF Inv, Placed, Owned, Undropped, NoFaultYet, MovesEnforced, DropsInOrder,
         NothingLeft

-------------------------------------------------------------------------------
(***************************************************************************)
(* The blocks of a whole text.                                             *)
(***************************************************************************)
LEMMA ClosingFacts ==
  ASSUME Inv, phase = "running", NEW b \in Opened
  PROVE  /\ Closing(b) \in Closers /\ text[Closing(b)].of = b
         /\ b < Closing(b) /\ Closing(b) \in Nat /\ b \in Nat
         /\ Closing(b) \in DOMAIN text
         /\ \A j \in Closers : text[j].of = b => j = Closing(b)
<1>1. open = <<>>
  BY DEF Inv, TextSound, Phases
<1>2. b \notin Range(open)
  BY <1>1 DEF Range
<1>3. \E j \in Closers : text[j].of = b
  BY <1>2 DEF Inv, TextSound, OpenBlocks
<1>4. \E i \in DOMAIN text : Op(i) \in {"else", "end"} /\ text[i].of = b
  BY <1>3 DEF Closers
<1>5. /\ Closing(b) \in DOMAIN text
      /\ Op(Closing(b)) \in {"else", "end"} /\ text[Closing(b)].of = b
  BY <1>4 DEF Closing
<1>6. Closing(b) \in Closers
  BY <1>5 DEF Closers
<1>7. /\ b < Closing(b)
      /\ \A j \in Closers : text[j].of = b => j = Closing(b)
  BY <1>5, <1>6 DEF Inv, TextSound, Brackets
<1> QED
  BY <1>5, <1>6, <1>7, TextFacts

LEMMA CloserFacts ==
  ASSUME Inv, phase = "running", NEW i \in Closers
  PROVE  /\ text[i].of \in Opened /\ Closing(text[i].of) = i /\ text[i].of < i
         /\ i \in Nat /\ text[i].of \in Nat
         /\ Op(i) = "else" => Op(text[i].of) = "if"
         /\ i \in DOMAIN text
<1>1. text[i].of \in Opened /\ (Op(i) = "else" => Op(text[i].of) = "if")
  BY DEF Inv, TextSound, Brackets
<1>2. Closing(text[i].of) = i
  BY <1>1, ClosingFacts
<1> QED
  BY <1>1, <1>2, ClosingFacts, TextFacts

LEMMA Laminar ==
  ASSUME Inv, phase = "running", NEW b \in Opened, NEW e \in Opened,
         b < e, e < Closing(b)
  PROVE  Closing(e) < Closing(b)
<1>1. Closing(b) \in Closers /\ text[Closing(b)].of = b
  BY ClosingFacts
<1>2. \E j \in Closers : text[j].of = e /\ j < Closing(b)
  BY <1>1 DEF Inv, TextSound, Brackets
<1> QED
  BY <1>2, ClosingFacts

LEMMA AroundClosing ==
  ASSUME Inv, phase = "running", NEW b \in Opened
  PROVE  Around(Closing(b)) = Around(b)
<1>1. ASSUME NEW e \in Opened
      PROVE  e < Closing(b) /\ Closing(b) < Closing(e) <=> e < b /\ b < Closing(e)
  <2>1. /\ b < Closing(b) /\ Closing(b) \in Nat /\ b \in Nat
        /\ e < Closing(e) /\ Closing(e) \in Nat /\ e \in Nat
    BY ClosingFacts
  <2>2. e < b /\ b < Closing(e) => Closing(b) < Closing(e)
    BY Laminar
  <2>3. b < e /\ e < Closing(b) => Closing(e) < Closing(b)
    BY Laminar
  <2> QED
    BY <2>1, <2>2, <2>3
<1> QED
  BY <1>1 DEF Around

(* The whole text is in the body.                                          *)
LEMMA BodyFacts ==
  ASSUME Inv, phase = "running"
  PROVE  /\ 1 \in Opened /\ Closing(1) = Len(text) /\ Op(1) = "body"
         /\ \A b \in Opened : Op(b) = "body" <=> b = 1
         /\ \A i \in DOMAIN text : i >= 1 /\ i <= Closing(1) /\ i \in Nat
         /\ \A i \in DOMAIN text : i # Closing(1) => i + 1 \in DOMAIN text
         /\ Around(1) = {}
<1>1. 1 \in Opened /\ Closing(1) \in Closers /\ text[Closing(1)].of = 1
  BY TextFacts, ClosingFacts
<1>2. Closing(1) = Len(text)
  BY <1>1 DEF Inv, TextSound, Brackets
<1>3. \A i \in DOMAIN text : Op(i) = "body" <=> i = 1
  BY DEF Inv, TextSound, OpenBlocks
<1>4. Around(1) = {}
  BY TextFacts DEF Around
<1> QED
  BY <1>1, <1>2, <1>3, <1>4, TextFacts

(* Going on to the next statement: the frames then are those of the blocks *)
(* around this one, and its own if it opens one.                           *)
LEMMA NextFrames ==
  ASSUME Inv, phase = "running", NEW x \in DOMAIN text, x + 1 \in DOMAIN text,
         NEW f, Blocks(f) = Around(x) \cup (IF x \in Opened THEN {x} ELSE {})
  PROVE  FramesAt(f, x + 1)
<1>0. x \in Nat
  BY TextFacts
<1>1. ASSUME NEW b \in Opened
      PROVE  b \in Blocks(f) <=> b < x + 1 /\ x + 1 <= Closing(b)
  <2>1. b < Closing(b) /\ Closing(b) \in Nat /\ b \in Nat
    BY ClosingFacts
  <2>2. b \in Blocks(f) <=> (b < x /\ x < Closing(b)) \/ b = x
    BY DEF Around
  <2> QED
    BY <1>0, <2>1, <2>2
<1>2. Blocks(f) \subseteq Opened
  BY DEF Around
<1>3. CASE x + 1 \in Closers
  <2>1. \A b \in Opened : Closing(b) = x + 1 <=> b = text[x + 1].of
    BY <1>3, ClosingFacts, CloserFacts
  <2>2. text[x + 1].of \in Opened /\ text[x + 1].of < x + 1 /\ Closing(text[x + 1].of) = x + 1
    BY <1>3, CloserFacts
  <2>3. ASSUME NEW b \in Opened
        PROVE  b \in Blocks(f) <=> b \in Around(x + 1) \/ b = text[x + 1].of
    <3>1. Closing(b) \in Nat /\ b \in Nat /\ Closing(text[x + 1].of) \in Nat
      BY <2>2, ClosingFacts
    <3>2. b \in Around(x + 1) <=> b < x + 1 /\ x + 1 < Closing(b)
      BY DEF Around
    <3>3. x + 1 <= Closing(b) <=> x + 1 < Closing(b) \/ x + 1 = Closing(b)
      BY <1>0, <3>1
    <3> QED
      BY <1>1, <2>1, <2>2, <3>2, <3>3
  <2>4. Around(x + 1) \subseteq Opened
    BY DEF Around
  <2>5. Blocks(f) = Around(x + 1) \cup {text[x + 1].of}
    BY <1>2, <2>2, <2>3, <2>4
  <2>6. Op(x + 1) # "for_in"
    BY <1>3 DEF Closers
  <2> QED
    BY <1>3, <2>5, <2>6 DEF FramesAt
<1>4. CASE x + 1 \notin Closers
  <2>1. ASSUME NEW b \in Opened
        PROVE  b \in Blocks(f) <=> b \in Around(x + 1)
    <3>1. Closing(b) \in Nat /\ b \in Nat /\ Closing(b) # x + 1
      BY <1>4, ClosingFacts
    <3> QED
      BY <1>0, <1>1, <3>1 DEF Around
  <2>2. Around(x + 1) \subseteq Opened
    BY DEF Around
  <2>3. Blocks(f) = Around(x + 1)
    BY <1>2, <2>1, <2>2
  <2> QED
    BY <1>4, <2>3 DEF FramesAt
<1> QED
  BY <1>3, <1>4

(* What is in a block belongs to it, or to one inside.                     *)
LEMMA InsideBlock ==
  ASSUME Inv, phase = "running", NEW b \in Opened, NEW d \in DOMAIN text \ Closers,
         b < d, d < Closing(b)
  PROVE  text[d].block \in Nat /\ text[d].block >= b
<1>1. d \in Nat /\ d > 1 /\ b \in Nat /\ d \in DOMAIN text
  BY ClosingFacts, TextFacts
<1>2. InBlock(d)
  BY <1>1 DEF Inv, TextSound, Standing
<1>3. text[d].block \in Opened /\ text[d].block \in Nat
  BY <1>2, TextFacts DEF InBlock
<1>4. ASSUME text[d].block < b
      PROVE  FALSE
  <2>1. \E j \in Closers : text[j].of = b /\ j < d
    BY <1>2, <1>4 DEF InBlock
  <2>2. Closing(b) < d
    BY <2>1, ClosingFacts
  <2> QED
    BY <1>1, <2>2, ClosingFacts
<1> QED
  BY <1>1, <1>3, <1>4

(* A statement stands between the ends of its block.                       *)
LEMMA BlockFacts ==
  ASSUME Inv, phase = "running", NEW d \in DOMAIN text \ Closers, d # 1
  PROVE  /\ text[d].block \in Around(d) /\ text[d].block \in Opened
         /\ text[d].block < d /\ d < Closing(text[d].block)
         /\ \A e \in Around(d) : e <= text[d].block
<1>1. d \in Nat /\ d > 1 /\ d \in DOMAIN text
  BY TextFacts
<1>2. InBlock(d)
  BY <1>1 DEF Inv, TextSound, Standing
<1>3. /\ text[d].block \in Opened /\ text[d].block < d
      /\ d < Closing(text[d].block)
  BY <1>2, ClosingFacts DEF InBlock
<1>4. ASSUME NEW e \in Around(d)
      PROVE  e <= text[d].block
  BY <1>4, InsideBlock DEF Around
<1> QED
  BY <1>3, <1>4 DEF Around

-------------------------------------------------------------------------------
(***************************************************************************)
(* The frames.                                                             *)
(***************************************************************************)
LEMMA FrameFacts ==
  ASSUME Inv, phase = "running"
  PROVE  /\ frames \in Seq(Frame) /\ Len(frames) \in Nat
         /\ DOMAIN frames = 1 .. Len(frames)
         /\ Nested(frames) /\ FramesAt(frames, pc) /\ pc \in DOMAIN text
         /\ pc \in Nat /\ open = <<>>
         /\ \A k \in DOMAIN frames :
              /\ frames[k] \in Frame /\ frames[k].block \in Nat
              /\ frames[k].index \in Nat
              /\ frames[k].block \in Blocks(frames)
         /\ \A b \in Blocks(frames) : b \in Opened /\ b \in Nat
<1>1. /\ frames \in Seq(Frame) /\ Nested(frames) /\ FramesAt(frames, pc)
      /\ pc \in DOMAIN text /\ open = <<>>
  BY DEF Inv, TypeOK, Placed, TextSound, Phases
<1>2. /\ Len(frames) \in Nat /\ DOMAIN frames = 1 .. Len(frames)
      /\ \A k \in DOMAIN frames : frames[k] \in Frame
  BY <1>1
<1>3. \A k \in DOMAIN frames :
         /\ frames[k].block \in Nat /\ frames[k].index \in Nat
         /\ frames[k].block \in Blocks(frames)
  BY <1>2 DEF Frame, Blocks
<1>4. \A b \in Blocks(frames) : b \in Opened
  <2>1. CASE pc \in Closers
    <3>1. Blocks(frames) = Around(pc) \cup {text[pc].of}
      BY <1>1, <2>1 DEF FramesAt, Closers
    <3> QED
      BY <2>1, <3>1, CloserFacts DEF Around
  <2>2. CASE pc \notin Closers
    <3>1. Blocks(frames) \subseteq Around(pc) \cup (IF Op(pc) = "for_in" THEN {pc} ELSE {})
      BY <1>1, <2>2 DEF FramesAt
    <3> QED
      BY <1>1, <3>1 DEF Around, Opened, Openers
  <2> QED
    BY <2>1, <2>2
<1> QED
  BY <1>1, <1>2, <1>3, <1>4, TextFacts

(* A frame more, for a block after those entered.                          *)
LEMMA FramePush ==
  ASSUME NEW f \in Seq(Frame), Nested(f), NEW b \in Nat, NEW n \in Nat,
         \A x \in Blocks(f) : x < b
  PROVE  LET g == Append(f, [block |-> b, index |-> n]) IN
         /\ g \in Seq(Frame) /\ Nested(g) /\ Blocks(g) = Blocks(f) \cup {b}
<1> DEFINE e == [block |-> b, index |-> n]
           g == Append(f, e)
           m == Len(f)
<1>1. e \in Frame /\ e.block = b
  BY DEF Frame
<1>2. /\ m \in Nat /\ DOMAIN f = 1 .. m
      /\ \A k \in DOMAIN f : f[k] \in Frame
  OBVIOUS
<1> HIDE DEF e
<1>3. /\ g \in Seq(Frame) /\ Len(g) = m + 1 /\ g[m + 1] = e
      /\ \A k \in 1 .. m : g[k] = f[k]
  BY <1>1, AppendFacts
<1>4. DOMAIN g = 1 .. m + 1
  BY <1>3
<1> HIDE DEF g, m
<1>5. \A k \in DOMAIN g : k \in DOMAIN f \/ k = m + 1
  BY <1>2, <1>4
<1>6. m + 1 \in DOMAIN g /\ \A k \in DOMAIN f : k \in DOMAIN g /\ g[k] = f[k]
  BY <1>2, <1>3, <1>4
<1>7. Nested(g)
  <2>1. SUFFICES ASSUME NEW k \in DOMAIN g, NEW j \in 1 .. k - 1
                 PROVE  g[j].block < g[k].block
    BY DEF Nested
  <2>2. j \in DOMAIN f
    BY <1>2, <1>4
  <2>3. CASE k \in DOMAIN f
    BY <1>6, <2>1, <2>2, <2>3 DEF Nested
  <2>4. CASE k = m + 1
    <3>1. g[j].block \in Blocks(f)
      BY <1>6, <2>2 DEF Blocks
    <3> QED
      BY <1>1, <1>3, <2>4, <3>1
  <2> QED
    BY <1>5, <2>3, <2>4
<1>8. Blocks(g) = Blocks(f) \cup {b}
  <2>1. \A x \in Blocks(g) : x \in Blocks(f) \/ x = b
    BY <1>1, <1>3, <1>5, <1>6 DEF Blocks
  <2>2. \A x \in Blocks(f) : x \in Blocks(g)
    BY <1>6 DEF Blocks
  <2>3. b \in Blocks(g)
    BY <1>1, <1>3, <1>6 DEF Blocks
  <2> QED
    BY <2>1, <2>2, <2>3
<1> QED
  BY <1>3, <1>7, <1>8 DEF g, e

LEMMA FrameTypes ==
  ASSUME NEW f \in Seq(Frame)
  PROVE  /\ Len(f) \in Nat /\ DOMAIN f = 1 .. Len(f)
         /\ \A i \in DOMAIN f : f[i] \in Frame /\ f[i].block \in Nat
<1>1. Len(f) \in Nat /\ DOMAIN f = 1 .. Len(f) /\ \A i \in DOMAIN f : f[i] \in Frame
  OBVIOUS
<1>2. \A x \in Frame : x.block \in Nat
  BY DEF Frame
<1> QED
  BY <1>1, <1>2

(* The frames below one, and those up to it.                               *)
LEMMA FrameCut ==
  ASSUME NEW f \in Seq(Frame), Nested(f), NEW k \in DOMAIN f
  PROVE  /\ SubSeq(f, 1, k - 1) \in Seq(Frame) /\ Nested(SubSeq(f, 1, k - 1))
         /\ Blocks(SubSeq(f, 1, k - 1)) = {x \in Blocks(f) : x < f[k].block}
         /\ SubSeq(f, 1, k) \in Seq(Frame) /\ Nested(SubSeq(f, 1, k))
         /\ Blocks(SubSeq(f, 1, k)) = {x \in Blocks(f) : x <= f[k].block}
<1>1. /\ Len(f) \in Nat /\ DOMAIN f = 1 .. Len(f) /\ k \in Nat \ {0}
      /\ \A i \in DOMAIN f : f[i] \in Frame /\ f[i].block \in Nat
  BY FrameTypes
<1>2. ASSUME NEW n \in {k - 1, k}
      PROVE  LET g == SubSeq(f, 1, n) IN
             /\ g \in Seq(Frame) /\ DOMAIN g = 1 .. n
             /\ \A i \in 1 .. n : g[i] = f[i] /\ i \in DOMAIN f
             /\ Nested(g)
  <2> DEFINE g == SubSeq(f, 1, n)
  <2>1. n \in Nat /\ n <= Len(f) /\ \A i \in 1 .. n : i \in DOMAIN f
    BY <1>1
  <2>2. /\ g \in Seq(Frame) /\ Len(g) = n
        /\ \A i \in 1 .. n : g[i] = f[i]
    BY <1>1, <2>1, SubSeqProperties
  <2>3. DOMAIN g = 1 .. n
    BY <2>1, <2>2
  <2> HIDE DEF g
  <2>4. Nested(g)
    BY <2>1, <2>2, <2>3 DEF Nested
  <2> QED
    BY <2>1, <2>2, <2>3, <2>4 DEF g
<1>3. \A i \in DOMAIN f : i <= k - 1 <=> f[i].block < f[k].block
  <2>1. \A i \in DOMAIN f : i < k => f[i].block < f[k].block
    BY <1>1 DEF Nested
  <2>2. \A i \in DOMAIN f : k < i => f[k].block < f[i].block
    BY <1>1 DEF Nested
  <2> QED
    BY <1>1, <2>1, <2>2
<1>4. \A i \in DOMAIN f : i <= k <=> f[i].block <= f[k].block
  <2>1. \A i \in DOMAIN f : i < k => f[i].block < f[k].block
    BY <1>1 DEF Nested
  <2>2. \A i \in DOMAIN f : k < i => f[k].block < f[i].block
    BY <1>1 DEF Nested
  <2> QED
    BY <1>1, <2>1, <2>2
<1>5. Blocks(SubSeq(f, 1, k - 1)) = {x \in Blocks(f) : x < f[k].block}
  <2> DEFINE g == SubSeq(f, 1, k - 1)
  <2>1. /\ DOMAIN g = 1 .. k - 1
        /\ \A i \in 1 .. k - 1 : g[i] = f[i] /\ i \in DOMAIN f
    BY <1>2
  <2> HIDE DEF g
  <2>2. \A x \in Blocks(g) : x \in Blocks(f) /\ x < f[k].block
    BY <1>1, <1>3, <2>1 DEF Blocks
  <2>3. ASSUME NEW x \in Blocks(f), x < f[k].block
        PROVE  x \in Blocks(g)
    <3>1. PICK i \in DOMAIN f : x = f[i].block
      BY DEF Blocks
    <3>2. i \in 1 .. k - 1
      BY <1>1, <1>3, <2>3, <3>1
    <3> QED
      BY <2>1, <3>1, <3>2 DEF Blocks
  <2> QED
    BY <2>2, <2>3 DEF g
<1>6. Blocks(SubSeq(f, 1, k)) = {x \in Blocks(f) : x <= f[k].block}
  <2> DEFINE g == SubSeq(f, 1, k)
  <2>1. /\ DOMAIN g = 1 .. k
        /\ \A i \in 1 .. k : g[i] = f[i] /\ i \in DOMAIN f
    BY <1>2
  <2> HIDE DEF g
  <2>2. \A x \in Blocks(g) : x \in Blocks(f) /\ x <= f[k].block
    BY <1>1, <1>4, <2>1 DEF Blocks
  <2>3. ASSUME NEW x \in Blocks(f), x <= f[k].block
        PROVE  x \in Blocks(g)
    <3>1. PICK i \in DOMAIN f : x = f[i].block
      BY DEF Blocks
    <3>2. i \in 1 .. k
      BY <1>1, <1>4, <2>3, <3>1
    <3> QED
      BY <2>1, <3>1, <3>2 DEF Blocks
  <2> QED
    BY <2>2, <2>3 DEF g
<1> QED
  BY <1>2, <1>5, <1>6

LEMMA FrontCut ==
  ASSUME NEW f \in Seq(Frame), Nested(f), f # <<>>
  PROVE  /\ Last(f) = f[Len(f)] /\ Len(f) \in DOMAIN f
         /\ Front(f) \in Seq(Frame) /\ Nested(Front(f))
         /\ Blocks(Front(f)) = {x \in Blocks(f) : x < Last(f).block}
         /\ Last(f).block \in Blocks(f)
         /\ \A x \in Blocks(f) : x <= Last(f).block
<1>1. /\ Last(f) = f[Len(f)] /\ Len(f) \in DOMAIN f /\ Len(f) \in Nat \ {0}
      /\ DOMAIN f = 1 .. Len(f)
  BY LastFacts
<1>2. Front(f) = SubSeq(f, 1, Len(f) - 1)
  BY DEF Front
<1>3. \A x \in Blocks(f) : x <= Last(f).block
  <2>1. SUFFICES ASSUME NEW i \in DOMAIN f
                 PROVE  f[i].block <= f[Len(f)].block
    BY <1>1 DEF Blocks
  <2>2. f[i].block \in Nat /\ f[Len(f)].block \in Nat
    BY <1>1, FrameTypes
  <2>3. i = Len(f) \/ i \in 1 .. Len(f) - 1
    BY <1>1
  <2> QED
    BY <1>1, <2>2, <2>3 DEF Nested
<1>4. /\ Front(f) \in Seq(Frame) /\ Nested(Front(f))
      /\ Blocks(Front(f)) = {x \in Blocks(f) : x < f[Len(f)].block}
  BY <1>1, <1>2, FrameCut
<1>5. f[Len(f)].block \in Blocks(f)
  BY <1>1 DEF Blocks
<1> QED
  BY <1>1, <1>3, <1>4, <1>5

-------------------------------------------------------------------------------
(***************************************************************************)
(* The steps of the run.                                                   *)
(***************************************************************************)
LEMMA SameText ==
  ASSUME Inv, UNCHANGED analysisVars, phase = "running",
         phase' \in {"running", "done"}
  PROVE  /\ text' = text /\ open' = open /\ isMoved' = isMoved
         /\ Closers' = Closers /\ Declarations' = Declarations
         /\ \A d : Moves(d)' = Moves(d)
         /\ MovedAgain' = MovedAgain /\ MovedUnderDefer' = MovedUnderDefer
         /\ MovedConst' = MovedConst /\ DefersReadOwn' = DefersReadOwn
         /\ \A d : Shares(d)' = Shares(d)
         /\ \A f, i : FramesAt(f, i)' = FramesAt(f, i)
         /\ TextSound'
<1>1. text' = text /\ open' = open /\ isMoved' = isMoved
  BY DEF analysisVars
<1>2. /\ Closers' = Closers /\ Opened' = Opened /\ Declarations' = Declarations
      /\ \A i : Op(i)' = Op(i)
  BY <1>1 DEF Closers, Opened, Declarations, Op
<1>3. \A b : Closing(b)' = Closing(b)
  BY <1>1, <1>2 DEF Closing
<1>4. \A d : Moves(d)' = Moves(d)
  BY <1>1, <1>2 DEF Moves
<1>5. \A i : Around(i)' = Around(i)
  BY <1>2, <1>3 DEF Around
<1>6. MovedAgain' = MovedAgain
  BY <1>1, <1>2, <1>3 DEF MovedAgain, Within
<1>7. /\ MovedUnderDefer' = MovedUnderDefer /\ MovedConst' = MovedConst
      /\ DefersReadOwn' = DefersReadOwn
  BY <1>1, <1>2, <1>3 DEF MovedUnderDefer, MovedConst, DefersReadOwn, Op
<1>8. \A f, i : FramesAt(f, i)' = FramesAt(f, i)
  BY <1>1, <1>2, <1>5 DEF FramesAt, Op
<1>9. TextSound'
  <2>1. OpenBlocks' /\ Brackets' /\ JumpsHaveLoops'
    BY <1>1, <1>2 DEF Inv, TextSound, OpenBlocks, Brackets, JumpsHaveLoops, Op
  <2>2. Standing' /\ Resolved'
    BY <1>1, <1>2
       DEF Inv, TextSound, Standing, Resolved, InBlock, SeesDeclaration, Sees, Op
  <2>3. Marked'
    BY <1>1, <1>2, <1>4 DEF Inv, TextSound, Marked, Op
  <2>4. Phases'
    BY <1>1 DEF Inv, TextSound, Phases
  <2> QED
    BY <2>1, <2>2, <2>3, <2>4 DEF TextSound
<1>10. \A d : Shares(d)' = Shares(d)
  BY <1>1, <1>2 DEF Shares
<1> QED
  BY <1>1, <1>2, <1>4, <1>6, <1>7, <1>8, <1>9, <1>10

LEMMA RunTypes ==
  ASSUME Inv, UNCHANGED analysisVars, phase = "running",
         phase' \in {"running", "done"}, pc' \in Nat, frames' \in Seq(Frame),
         owner' \in [1 .. MaxText -> Owners], faults' \subseteq Faults,
         jumped' \in BOOLEAN, BuffersSound'
  PROVE  TypeOK'
<1>1. /\ holds' \in [1 .. MaxText -> Nat] /\ freed' \subseteq Held(holds')
      /\ spoiled' \subseteq 1 .. MaxText
  BY DEF BuffersSound
<1>2. freed' \subseteq Nat
  BY <1>1 DEF Held
<1> QED
  BY <1>1, <1>2 DEF Inv, TypeOK, analysisVars

LEMMA BuffersKept ==
  ASSUME Inv, UNCHANGED <<analysisVars, owner, bufferVars>>, phase = "running",
         phase' \in {"running", "done"}
  PROVE  BuffersSound'
<1>1. /\ owner' = owner /\ holds' = holds /\ freed' = freed /\ spoiled' = spoiled
      /\ UNCHANGED analysisVars
  BY DEF bufferVars
<1>2. \A d : Shares(d)' = Shares(d)
  BY <1>1, SameText
<1>3. \A d : OwnBuffer(d)' = OwnBuffer(d)
  BY <1>1, <1>2 DEF OwnBuffer
<1> QED
  BY <1>1, <1>2, <1>3 DEF Inv, BuffersSound, FreedOnce

(* A step that goes on to a statement after or before this one, leaves the *)
(* Strings alone, and brings none into scope.                              *)
LEMMA QuietStep ==
  ASSUME Inv, UNCHANGED <<analysisVars, owner, bufferVars, faults, phase>>, phase = "running",
         pc' \in DOMAIN text, frames' \in Seq(Frame), Nested(frames'),
         FramesAt(frames', pc'),
         \A d \in Declarations : InScope(d)' => InScope(d),
         \/ jumped' = jumped /\ \A d \in Declarations : InScope(d) => InScope(d)'
         \/ jumped' = TRUE,
         \A d \in Declarations : \A m \in Moves(d) :
            InScope(d)' /\ m < pc => m < pc' \/ MovedAgain
  PROVE  Inv'
<1>0. BuffersSound'
  <2>1. UNCHANGED <<analysisVars, owner, bufferVars>> /\ phase' = phase
    OBVIOUS
  <2> QED
    BY <2>1, BuffersKept
<1>1. /\ text' = text /\ Declarations' = Declarations
      /\ \A d : Moves(d)' = Moves(d)
      /\ MovedAgain' = MovedAgain /\ MovedUnderDefer' = MovedUnderDefer
      /\ MovedConst' = MovedConst /\ DefersReadOwn' = DefersReadOwn
      /\ TextSound' /\ phase' = "running"
  <2>1. UNCHANGED analysisVars /\ phase' \in {"running", "done"}
    OBVIOUS
  <2> QED
    BY <2>1, SameText
<1>2. TypeOK'
  <2>1. /\ pc' \in Nat /\ owner' = owner /\ faults' = faults /\ phase' = "running"
        /\ UNCHANGED analysisVars
    BY TextFacts
  <2>2. jumped' \in BOOLEAN
    BY DEF Inv, TypeOK
  <2>3. owner' \in [1 .. MaxText -> Owners] /\ faults' \subseteq Faults
    BY <2>1 DEF Inv, TypeOK
  <2> QED
    BY <1>0, <2>1, <2>2, <2>3, RunTypes
<1>3. Placed'
  <2>1. PICK f, i : f = frames' /\ i = pc'
    OBVIOUS
  <2>2. FramesAt(f, i)'
    <3>1. FramesAt(f, i)
      BY <2>1
    <3>2. UNCHANGED analysisVars /\ phase' \in {"running", "done"}
      OBVIOUS
    <3> QED
      BY <3>1, <3>2, SameText
  <2>3. FramesAt(frames, pc)'
    BY <2>1, <2>2 DEF FramesAt, Around, Op
  <2>4. Nested(frames)'
    BY DEF Nested
  <2>5. pc' \in DOMAIN text'
    BY <1>1
  <2> QED
    BY <1>1, <2>3, <2>4, <2>5 DEF Placed
<1>4. Owned'
  <2>1. SUFFICES ASSUME NEW d \in Declarations, InScope(d)'
                 PROVE  /\ owner[d] \in {"live", "moved"}
                        /\ owner[d] = "moved" /\ ~MovedAgain =>
                             \E m \in Moves(d) : m < pc'
    BY <1>1 DEF Owned, InScope
  <2>2. InScope(d) /\ d \in DOMAIN text
    BY <2>1 DEF Declarations
  <2> QED
    BY <2>1, <2>2 DEF Inv, Owned
<1>5. Undropped'
  BY <1>1 DEF Inv, Undropped
<1>6. NoFaultYet' /\ MovesEnforced' /\ DropsInOrder' /\ NothingLeft'
  BY <1>1 DEF Inv, NoFaultYet, MovesEnforced, DropsInOrder, NothingLeft
<1> QED
  BY <1>0, <1>1, <1>2, <1>3, <1>4, <1>5, <1>6 DEF Inv

(***************************************************************************)
(* Where a step goes, and what it takes into and out of scope.             *)
(***************************************************************************)
LEMMA DeclarationFacts ==
  ASSUME Inv, phase = "running", NEW d \in Declarations
  PROVE  /\ d \in DOMAIN text \ Closers /\ d \in DOMAIN text /\ d \notin Opened
         /\ d # 1 /\ d \in Nat /\ Op(d) \in Lets
         /\ text[d].block \in Around(d) /\ text[d].block \in Opened
         /\ text[d].block < d /\ text[d].block \in Nat
<1>1. d \in DOMAIN text /\ Op(d) \in Lets
  BY DEF Declarations
<1>2. d \notin Closers /\ d \notin Opened
  BY <1>1 DEF Closers, Opened, Openers, Lets
<1>3. d # 1
  BY <1>2, BodyFacts
<1> QED
  BY <1>1, <1>2, <1>3, BlockFacts, TextFacts

LEMMA ThenInScope ==
  ASSUME UNCHANGED analysisVars, NEW d \in Declarations
  PROVE  InScope(d)' <=> d < pc' /\ text[d].block \in Blocks(frames')
<1>1. text' = text
  BY DEF analysisVars
<1>2. Declarations' = Declarations
  BY <1>1 DEF Declarations, Op
<1> QED
  BY <1>1, <1>2 DEF InScope, Blocks

LEMMA NextScope ==
  ASSUME Inv, phase = "running", UNCHANGED analysisVars, pc' = pc + 1,
         pc \notin Closers,
         Blocks(frames') = Around(pc) \cup (IF pc \in Opened THEN {pc} ELSE {})
  PROVE  /\ pc' \in DOMAIN text /\ FramesAt(frames', pc')
         /\ \A d \in Declarations : InScope(d)' <=> InScope(d) \/ d = pc
<1>1. pc \in DOMAIN text /\ pc \in Nat /\ FramesAt(frames, pc)
  BY FrameFacts
<1>2. pc # Closing(1)
  BY ClosingFacts, BodyFacts
<1>3. pc + 1 \in DOMAIN text
  BY <1>1, <1>2, BodyFacts
<1>4. FramesAt(frames', pc')
  <2>1. PICK f : f = frames'
    OBVIOUS
  <2>2. FramesAt(f, pc + 1)
    BY <1>1, <1>3, <2>1, NextFrames
  <2> QED
    BY <2>1, <2>2
<1>5. ASSUME NEW d \in Declarations
      PROVE  InScope(d)' <=> InScope(d) \/ d = pc
  <2>1. InScope(d)' <=> d < pc + 1 /\ text[d].block \in Blocks(frames')
    BY ThenInScope
  <2>2. InScope(d) <=> d < pc /\ text[d].block \in Blocks(frames)
    BY DEF InScope
  <2>3. Blocks(frames) \in {Around(pc), Around(pc) \cup {pc}}
    BY <1>1 DEF FramesAt
  <2>4. /\ d \in Nat /\ text[d].block < d /\ text[d].block \in Nat
        /\ text[d].block \in Around(d)
    BY DeclarationFacts
  <2>5. CASE d = pc
    BY <1>1, <2>1, <2>4, <2>5
  <2>6. CASE d # pc
    <3>1. d < pc + 1 <=> d < pc
      BY <1>1, <2>4, <2>6
    <3>2. d < pc => text[d].block # pc
      BY <1>1, <2>4
    <3> QED
      BY <2>1, <2>2, <2>3, <2>6, <3>1, <3>2
  <2> QED
    BY <2>5, <2>6
<1> QED
  BY <1>1, <1>3, <1>4, <1>5

(* Nothing between the ends of a block belongs to the blocks around it.    *)
LEMMA NotAround ==
  ASSUME Inv, phase = "running", NEW b \in Opened, NEW d \in Declarations,
         text[d].block \in Around(b), b <= d, d <= Closing(b)
  PROVE  FALSE
<1>1. /\ d \in DOMAIN text \ Closers /\ d \notin Opened /\ d \in Nat
      /\ text[d].block \in Nat
  BY DeclarationFacts
<1>2. b \in Nat /\ Closing(b) \in Nat /\ Closing(b) \in Closers
  BY ClosingFacts
<1>3. b < d /\ d < Closing(b)
  BY <1>1, <1>2
<1>4. text[d].block >= b
  BY <1>1, <1>3, InsideBlock
<1>5. text[d].block < b
  BY DEF Around
<1> QED
  BY <1>1, <1>2, <1>4, <1>5

LEMMA LeapScope ==
  ASSUME Inv, phase = "running", UNCHANGED analysisVars, NEW b \in Opened,
         Op(Closing(b)) = "end", b # 1, b <= pc, pc <= Closing(b),
         pc' = Closing(b) + 1, Blocks(frames') = Around(b)
  PROVE  /\ pc' \in DOMAIN text /\ FramesAt(frames', pc') /\ pc < pc'
         /\ \A d \in Declarations :
              InScope(d)' <=> d < pc /\ text[d].block \in Around(b)
<1>1. /\ pc \in Nat /\ b \in Nat /\ Closing(b) \in Nat /\ Closing(b) \in DOMAIN text
      /\ Closing(b) \in Closers /\ text[Closing(b)].of = b
  BY FrameFacts, ClosingFacts
<1>2. Closing(b) # Closing(1)
  BY <1>1, ClosingFacts, BodyFacts
<1>3. Closing(b) + 1 \in DOMAIN text
  BY <1>1, <1>2, BodyFacts
<1>4. Closing(b) \notin Opened
  BY DEF Opened, Openers
<1>5. FramesAt(frames', pc')
  <2>1. PICK f : f = frames'
    OBVIOUS
  <2>2. Blocks(f) = Around(Closing(b))
    BY <2>1, AroundClosing
  <2>3. FramesAt(f, Closing(b) + 1)
    BY <1>1, <1>3, <1>4, <2>2, NextFrames
  <2> QED
    BY <2>1, <2>3
<1>6. ASSUME NEW d \in Declarations
      PROVE  InScope(d)' <=> d < pc /\ text[d].block \in Around(b)
  <2>1. InScope(d)' <=> d < Closing(b) + 1 /\ text[d].block \in Around(b)
    BY ThenInScope
  <2>2. d \in Nat
    BY DeclarationFacts
  <2>3. text[d].block \in Around(b) => d < b \/ Closing(b) < d
    BY <1>1, <2>2, NotAround
  <2> QED
    BY <1>1, <2>1, <2>2, <2>3
<1> QED
  BY <1>1, <1>3, <1>5, <1>6

LEMMA BackScope ==
  ASSUME Inv, phase = "running", UNCHANGED analysisVars, NEW b \in Opened,
         Op(b) = "for_in", b <= pc, pc <= Closing(b), pc' = b,
         Blocks(frames') = Around(b) \cup {b}
  PROVE  /\ pc' \in DOMAIN text /\ FramesAt(frames', pc')
         /\ \A d \in Declarations :
              InScope(d)' <=> d < pc /\ text[d].block \in Around(b)
         /\ \A d \in Declarations : \A m \in Moves(d) :
              InScope(d)' /\ m < pc => m < pc' \/ MovedAgain
<1>1. /\ pc \in Nat /\ b \in Nat /\ Closing(b) \in Nat /\ b \in DOMAIN text
      /\ b \notin Closers
  BY FrameFacts, ClosingFacts, TextFacts DEF Closers
<1>2. FramesAt(frames', pc')
  BY <1>1 DEF FramesAt
<1>3. ASSUME NEW d \in Declarations
      PROVE  InScope(d)' <=> d < pc /\ text[d].block \in Around(b)
  <2>1. InScope(d)' <=> d < b /\ text[d].block \in Around(b) \cup {b}
    BY ThenInScope
  <2>2. d \in Nat /\ text[d].block < d /\ text[d].block \in Nat
    BY DeclarationFacts
  <2>3. text[d].block \in Around(b) => d < b \/ Closing(b) < d
    BY <1>1, <2>2, NotAround
  <2> QED
    BY <1>1, <2>1, <2>2, <2>3
<1>4. ASSUME NEW d \in Declarations, NEW m \in Moves(d), InScope(d)', m < pc
      PROVE  m < pc' \/ MovedAgain
  <2>1. m \in DOMAIN text /\ Op(m) \in Hands /\ text[m].of = d /\ m \in Nat /\ m # b
    BY TextFacts DEF Moves, Hands
  <2>2. d < b
    BY <1>4, ThenInScope
  <2>3. ASSUME ~(m < b)
        PROVE  MovedAgain
    <3>1. Within(b, m)
      BY <1>1, <1>4, <2>1, <2>3 DEF Within
    <3> QED
      BY <1>1, <2>1, <2>2, <3>1 DEF MovedAgain
  <2> QED
    BY <2>3
<1> QED
  BY <1>1, <1>2, <1>3, <1>4

(* What is in scope at a statement that ends no block.                     *)
LEMMA ScopeAt ==
  ASSUME Inv, phase = "running", pc \notin Closers, NEW d \in Declarations
  PROVE  InScope(d) <=> d < pc /\ text[d].block \in Around(pc)
<1>1. pc \in DOMAIN text /\ pc \in Nat /\ FramesAt(frames, pc)
  BY FrameFacts
<1>2. Blocks(frames) \in {Around(pc), Around(pc) \cup {pc}}
  BY <1>1 DEF FramesAt
<1>3. d \in Nat /\ text[d].block < d /\ text[d].block \in Nat
  BY DeclarationFacts
<1>4. d < pc => text[d].block # pc
  BY <1>1, <1>3
<1> QED
  BY <1>2, <1>4 DEF InScope

LEMMA FramesHere ==
  ASSUME Inv, phase = "running", pc \notin Closers, Op(pc) # "for_in"
  PROVE  Blocks(frames) = Around(pc)
  BY FrameFacts DEF FramesAt

(* On to the next statement, entering the block this one opens.            *)
LEMMA QuietNext ==
  ASSUME Inv, phase = "running",
         UNCHANGED <<analysisVars, owner, bufferVars, faults, phase, jumped>>,
         pc \notin Closers, pc \notin Declarations, pc' = pc + 1,
         frames' \in Seq(Frame), Nested(frames'),
         Blocks(frames') = Around(pc) \cup (IF pc \in Opened THEN {pc} ELSE {})
  PROVE  Inv'
<1>1. UNCHANGED analysisVars
  OBVIOUS
<1>2. /\ pc' \in DOMAIN text /\ FramesAt(frames', pc')
      /\ \A d \in Declarations : InScope(d)' <=> InScope(d) \/ d = pc
  BY <1>1, NextScope
<1>3. \A d \in Declarations : InScope(d)' <=> InScope(d)
  BY <1>2
<1>4. \A d \in Declarations : \A m \in Moves(d) :
        InScope(d)' /\ m < pc => m < pc' \/ MovedAgain
  <2>1. \A d : \A m \in Moves(d) : m \in Nat
    BY TextFacts DEF Moves
  <2>2. pc \in Nat
    BY FrameFacts
  <2> QED
    BY <2>1, <2>2
<1> QED
  BY <1>2, <1>3, <1>4, QuietStep

(* Past the end of the block this statement opens.                         *)
LEMMA QuietLeap ==
  ASSUME Inv, phase = "running",
         UNCHANGED <<analysisVars, owner, bufferVars, faults, phase, jumped>>,
         pc \in Opened, pc \notin Closers, Op(Closing(pc)) = "end", pc # 1,
         frames' \in Seq(Frame), Nested(frames'), Blocks(frames') = Around(pc),
         pc' = Closing(pc) + 1
  PROVE  Inv'
<1>1. UNCHANGED analysisVars /\ pc <= Closing(pc) /\ pc <= pc /\ pc \in Nat
  BY ClosingFacts
<1>2. /\ pc' \in DOMAIN text /\ FramesAt(frames', pc') /\ pc < pc'
      /\ \A d \in Declarations :
           InScope(d)' <=> d < pc /\ text[d].block \in Around(pc)
  BY <1>1, LeapScope
<1>3. \A d \in Declarations : InScope(d)' <=> InScope(d)
  BY <1>2, ScopeAt
<1>4. \A d \in Declarations : \A m \in Moves(d) :
        InScope(d)' /\ m < pc => m < pc' \/ MovedAgain
  <2>1. \A d : \A m \in Moves(d) : m \in Nat
    BY TextFacts DEF Moves
  <2>2. pc \in Nat /\ pc' \in Nat
    BY <1>2, FrameFacts, TextFacts
  <2> QED
    BY <1>2, <2>1, <2>2
<1> QED
  BY <1>2, <1>3, <1>4, QuietStep

LEMMA RunBodyInv ==
  ASSUME Inv, RunBody
  PROVE  Inv'
<1>1. /\ phase = "running" /\ Op(pc) = "body"
      /\ UNCHANGED <<analysisVars, owner, bufferVars, faults, phase, jumped>>
      /\ frames' = Append(frames, [block |-> pc, index |-> 0]) /\ pc' = pc + 1
  BY DEF RunBody, Running, Push, Step, Goto, Quiet
<1>2. /\ pc \notin Closers /\ pc \notin Declarations /\ pc \in Opened
      /\ Op(pc) # "for_in"
  BY <1>1, FrameFacts DEF Closers, Declarations, Opened, Openers, Lets
<1>3. Blocks(frames) = Around(pc)
  BY <1>1, <1>2, FramesHere
<1>4. /\ frames' \in Seq(Frame) /\ Nested(frames')
      /\ Blocks(frames') = Around(pc) \cup {pc}
  <2>1. frames \in Seq(Frame) /\ Nested(frames) /\ pc \in Nat
    BY <1>1, FrameFacts
  <2>2. \A x \in Blocks(frames) : x < pc
    BY <1>3 DEF Around
  <2> QED
    BY <1>1, <1>3, <2>1, <2>2, FramePush
<1> QED
  BY <1>1, <1>2, <1>4, QuietNext

LEMMA RunDeferInv ==
  ASSUME Inv, RunDefer
  PROVE  Inv'
<1>1. /\ phase = "running" /\ Op(pc) = "defer"
      /\ UNCHANGED <<analysisVars, owner, bufferVars, faults, phase, jumped>>
      /\ frames' = frames /\ pc' = pc + 1
  BY DEF RunDefer, Running, Step, Goto, Quiet
<1>2. /\ pc \notin Closers /\ pc \notin Declarations /\ pc \notin Opened
      /\ Op(pc) # "for_in"
  BY <1>1 DEF Closers, Declarations, Opened, Openers, Lets
<1>3. /\ frames' \in Seq(Frame) /\ Nested(frames')
      /\ Blocks(frames') = Around(pc)
  BY <1>1, <1>2, FramesHere, FrameFacts
<1> QED
  BY <1>1, <1>2, <1>3, QuietNext

(* Into the second arm.                                                    *)
LEMMA SecondArm ==
  ASSUME Inv, phase = "running",
         UNCHANGED <<analysisVars, owner, bufferVars, faults, phase, jumped>>,
         Op(pc) = "if", HasElse(pc),
         frames' = Append(frames, [block |-> Closing(pc), index |-> 0]),
         pc' = Closing(pc) + 1
  PROVE  Inv'
<1>1. /\ pc \notin Closers /\ pc \in Opened /\ Op(pc) # "for_in" /\ pc # 1
      /\ pc \in Nat /\ pc \in DOMAIN text
  BY FrameFacts, BodyFacts DEF Closers, Opened, Openers
<1>2. PICK c : c = Closing(pc)
  OBVIOUS
<1>3. /\ c \in Closers /\ c \in Nat /\ pc < c /\ c \in DOMAIN text
      /\ Op(c) = "else" /\ text[c].of = pc
  BY <1>1, <1>2, ClosingFacts DEF HasElse
<1>4. c \in Opened
  BY <1>3 DEF Opened, Openers
<1>5. c # Closing(1)
  BY <1>1, <1>3, ClosingFacts, BodyFacts
<1>6. c + 1 \in DOMAIN text
  BY <1>3, <1>5, BodyFacts
<1>7. Blocks(frames) = Around(pc) /\ Around(c) = Around(pc)
  BY <1>1, <1>2, FramesHere, AroundClosing
<1>8. /\ frames' \in Seq(Frame) /\ Nested(frames')
      /\ Blocks(frames') = Around(pc) \cup {c}
  <2>1. frames \in Seq(Frame) /\ Nested(frames)
    BY FrameFacts
  <2>2. \A x \in Blocks(frames) : x < c
    BY <1>7 DEF Around
  <2> QED
    BY <1>2, <1>3, <1>7, <2>1, <2>2, FramePush
<1>9. FramesAt(frames', pc')
  <2>1. PICK f : f = frames'
    OBVIOUS
  <2>2. Blocks(f) = Around(c) \cup (IF c \in Opened THEN {c} ELSE {})
    BY <1>4, <1>7, <1>8, <2>1
  <2>3. FramesAt(f, c + 1)
    BY <1>3, <1>6, <2>2, NextFrames
  <2> QED
    BY <1>2, <2>1, <2>3
<1>10. \A d \in Declarations : InScope(d)' <=> InScope(d)
  <2>1. TAKE d \in Declarations
  <2>2. InScope(d)' <=> d < c + 1 /\ text[d].block \in Around(pc) \cup {c}
    BY <1>2, <1>8, ThenInScope
  <2>3. d \in Nat /\ text[d].block < d /\ text[d].block \in Nat
    BY DeclarationFacts
  <2>4. text[d].block \in Around(pc) => d < pc \/ c < d
    BY <1>1, <1>2, <1>3, <2>3, NotAround
  <2>5. InScope(d) <=> d < pc /\ text[d].block \in Around(pc)
    BY <1>1, ScopeAt
  <2> QED
    BY <1>1, <1>3, <2>2, <2>3, <2>4, <2>5
<1>11. pc < pc' /\ pc' \in DOMAIN text /\ pc' \in Nat
  BY <1>1, <1>2, <1>3, <1>6
<1>12. \A d \in Declarations : \A m \in Moves(d) :
         InScope(d)' /\ m < pc => m < pc' \/ MovedAgain
  <2>1. \A d : \A m \in Moves(d) : m \in Nat
    BY TextFacts DEF Moves
  <2> QED
    BY <1>1, <1>11, <2>1
<1> QED
  BY <1>8, <1>9, <1>10, <1>11, <1>12, QuietStep

LEMMA RunIfInv ==
  ASSUME Inv, RunIf
  PROVE  Inv'
<1>1. /\ phase = "running" /\ Op(pc) = "if"
      /\ UNCHANGED <<analysisVars, owner, bufferVars, faults, phase, jumped>>
  BY DEF RunIf, Running, Quiet
<1>2. /\ pc \notin Closers /\ pc \notin Declarations /\ pc \in Opened
      /\ Op(pc) # "for_in" /\ pc # 1 /\ pc \in Nat
      /\ frames \in Seq(Frame) /\ Nested(frames)
  BY <1>1, FrameFacts, BodyFacts DEF Closers, Declarations, Opened, Openers, Lets
<1>3. Blocks(frames) = Around(pc)
  BY <1>1, <1>2, FramesHere
<1>4. CASE Push(pc) /\ Step
  <2>1. \A x \in Blocks(frames) : x < pc
    BY <1>3 DEF Around
  <2>2. /\ frames' \in Seq(Frame) /\ Nested(frames')
        /\ Blocks(frames') = Around(pc) \cup {pc}
    BY <1>2, <1>3, <1>4, <2>1, FramePush DEF Push
  <2>3. pc' = pc + 1
    BY <1>4 DEF Step, Goto
  <2> QED
    BY <1>1, <1>2, <2>2, <2>3, QuietNext
<1>5. CASE HasElse(pc) /\ Push(Closing(pc)) /\ Goto(Closing(pc) + 1)
  BY <1>1, <1>5, SecondArm DEF Push, Goto
<1>6. CASE ~HasElse(pc) /\ Goto(After(pc)) /\ UNCHANGED frames
  <2>1. Closing(pc) \in Closers /\ Op(Closing(pc)) # "else"
    BY <1>1, <1>2, <1>6, ClosingFacts DEF HasElse
  <2>2. Op(Closing(pc)) = "end"
    BY <2>1 DEF Closers
  <2>3. pc' = Closing(pc) + 1
    BY <1>6 DEF Goto, After
  <2> QED
    BY <1>1, <1>2, <1>3, <1>6, <2>2, <2>3, QuietLeap
<1> QED
  BY <1>4, <1>5, <1>6 DEF RunIf

LEMMA ForInCondInv ==
  ASSUME Inv, phase = "running", Op(pc) = "for_in",
         UNCHANGED <<analysisVars, owner, bufferVars, faults, phase, jumped>>,
         NEW f \in Seq(Frame), Nested(f), Blocks(f) = Around(pc), NEW n \in Nat,
         ForInCond(n, f)
  PROVE  Inv'
<1>1. /\ pc \notin Closers /\ pc \notin Declarations /\ pc \in Opened
      /\ pc # 1 /\ pc \in Nat
  BY FrameFacts, BodyFacts DEF Closers, Declarations, Opened, Openers, Lets
<1>2. CASE /\ n < Elements
           /\ frames' = Append(f, [block |-> pc, index |-> n])
           /\ Step
  <2>1. \A x \in Blocks(f) : x < pc
    BY DEF Around
  <2>2. /\ frames' \in Seq(Frame) /\ Nested(frames')
        /\ Blocks(frames') = Around(pc) \cup {pc}
    BY <1>1, <1>2, <2>1, FramePush
  <2>3. pc' = pc + 1
    BY <1>2 DEF Step, Goto
  <2> QED
    BY <1>1, <2>2, <2>3, QuietNext
<1>3. CASE n >= Elements /\ frames' = f /\ Goto(Closing(pc) + 1)
  <2>1. Closing(pc) \in Closers /\ text[Closing(pc)].of = pc
    BY <1>1, ClosingFacts
  <2>2. Op(Closing(pc)) # "else"
    BY <2>1, CloserFacts
  <2>3. Op(Closing(pc)) = "end"
    BY <2>1, <2>2 DEF Closers
  <2>4. pc' = Closing(pc) + 1
    BY <1>3 DEF Goto
  <2> QED
    BY <1>1, <1>3, <2>3, <2>4, QuietLeap
<1> QED
  BY <1>2, <1>3 DEF ForInCond

LEMMA RunForInInv ==
  ASSUME Inv, RunForIn
  PROVE  Inv'
<1>1. /\ phase = "running" /\ Op(pc) = "for_in"
      /\ UNCHANGED <<analysisVars, owner, bufferVars, faults, phase, jumped>>
  BY DEF RunForIn, Running, Quiet
<1>2. /\ frames \in Seq(Frame) /\ Nested(frames) /\ pc \in Nat
      /\ FramesAt(frames, pc) /\ pc \notin Closers
  BY <1>1, FrameFacts DEF Closers
<1>3. Blocks(frames) \in {Around(pc), Around(pc) \cup {pc}}
  BY <1>1, <1>2 DEF FramesAt
<1>4. \A x \in Around(pc) : x < pc
  BY DEF Around
<1>5. CASE frames # <<>> /\ Block = pc
  <2>1. /\ Front(frames) \in Seq(Frame) /\ Nested(Front(frames))
        /\ Blocks(Front(frames)) = {x \in Blocks(frames) : x < pc}
    BY <1>2, <1>5, FrontCut DEF Block
  <2>2. Blocks(Front(frames)) = Around(pc)
    BY <1>2, <1>3, <1>4, <2>1
  <2>3. Last(frames).index \in Nat
    <3>1. Last(frames) \in Frame
      BY <1>2, <1>5, LastFacts
    <3> QED
      BY <3>1 DEF Frame
  <2>4. ForInCond(Last(frames).index, Front(frames))
    BY <1>5 DEF RunForIn
  <2> QED
    BY <1>1, <2>1, <2>2, <2>3, <2>4, ForInCondInv
<1>6. CASE ~(frames # <<>> /\ Block = pc)
  <2>1. pc \notin Blocks(frames)
    <3>1. SUFFICES ASSUME pc \in Blocks(frames)
                   PROVE  FALSE
      OBVIOUS
    <3>2. frames # <<>>
      BY <3>1, EmptyBlocks
    <3>3. Last(frames).block \in Blocks(frames) /\ pc <= Last(frames).block
      BY <1>2, <3>1, <3>2, FrontCut
    <3>4. Last(frames).block < pc \/ Last(frames).block = pc
      BY <1>3, <1>4, <3>3
    <3>5. Last(frames).block = pc
      BY <1>2, <3>3, <3>4, FrameFacts, <1>1
    <3> QED
      BY <1>6, <3>2, <3>5 DEF Block
  <2>2. Blocks(frames) = Around(pc)
    BY <1>3, <2>1
  <2>3. ForInCond(0, frames)
    BY <1>6 DEF RunForIn
  <2> QED
    BY <1>1, <1>2, <2>2, <2>3, ForInCondInv
<1> QED
  BY <1>5, <1>6

-------------------------------------------------------------------------------
(***************************************************************************)
(* Jumps, declarations and reads.                                          *)
(***************************************************************************)
(* The blocks around one of the blocks around a statement.                 *)
LEMMA AroundInner ==
  ASSUME Inv, phase = "running", NEW i \in Nat, NEW b \in Around(i)
  PROVE  {x \in Around(i) : x < b} = Around(b)
<1>1. b \in Opened /\ b \in Nat /\ Closing(b) \in Nat /\ b < i /\ i < Closing(b)
  BY ClosingFacts, TextFacts DEF Around
<1>2. ASSUME NEW x \in Opened
      PROVE  (x < i /\ i < Closing(x)) /\ x < b <=> x < b /\ b < Closing(x)
  <2>1. x \in Nat /\ Closing(x) \in Nat
    BY ClosingFacts
  <2>2. x < b /\ b < Closing(x) => Closing(b) < Closing(x)
    BY <1>1, Laminar
  <2> QED
    BY <1>1, <2>1, <2>2
<1> QED
  BY <1>2 DEF Around

(* `break` and `continue` stand in a loop, and its frame is among those    *)
(* entered.                                                                *)
LEMMA LoopFacts ==
  ASSUME Inv, phase = "running", Op(pc) \in {"break", "continue"}
  PROVE  LET b == frames[LoopFrame].block
             f == SubSeq(frames, 1, LoopFrame - 1)
             g == SubSeq(frames, 1, LoopFrame)
         IN
         /\ b \in Opened /\ Op(b) = "for_in" /\ b \in Around(pc) /\ b # 1
         /\ b <= pc /\ pc <= Closing(b) /\ Op(Closing(b)) = "end"
         /\ f \in Seq(Frame) /\ Nested(f) /\ Blocks(f) = Around(b)
         /\ g \in Seq(Frame) /\ Nested(g) /\ Blocks(g) = Around(b) \cup {b}
<1> DEFINE S == {k \in DOMAIN frames : Op(frames[k].block) = "for_in"}
<1>1. /\ frames \in Seq(Frame) /\ Nested(frames) /\ Len(frames) \in Nat
      /\ DOMAIN frames = 1 .. Len(frames) /\ pc \in DOMAIN text /\ pc \in Nat
  BY FrameFacts
<1>2. Blocks(frames) = Around(pc)
  BY FramesHere DEF Closers
<1>3. S # {}
  <2>1. PICK e \in Opened :
          /\ Op(e) = "for_in" /\ e < pc
          /\ \A j \in Closers : text[j].of = e => pc < j
    BY <1>1 DEF Inv, TextSound, JumpsHaveLoops
  <2>2. pc < Closing(e)
    BY <2>1, ClosingFacts
  <2>3. e \in Blocks(frames)
    BY <1>2, <2>1, <2>2 DEF Around
  <2>4. PICK k \in DOMAIN frames : e = frames[k].block
    BY <2>3 DEF Blocks
  <2> QED
    BY <2>1, <2>4
<1>4. LoopFrame \in S
  <2>1. S \in SUBSET (1 .. Len(frames))
    BY <1>1
  <2>2. Max(S) \in S
    BY <1>1, <1>3, <2>1, MaxFacts
  <2> QED
    BY <2>2 DEF LoopFrame
<1>5. PICK k \in DOMAIN frames : k = LoopFrame /\ Op(frames[k].block) = "for_in"
  BY <1>4
<1>6. PICK b : b = frames[k].block
  OBVIOUS
<1>7. b \in Blocks(frames) /\ b \in Around(pc) /\ b \in Opened /\ Op(b) = "for_in"
  BY <1>2, <1>5, <1>6 DEF Blocks, Around
<1>8. /\ b \in Nat /\ b < pc /\ pc < Closing(b) /\ b # 1 /\ Closing(b) \in Nat
      /\ Closing(b) \in Closers /\ text[Closing(b)].of = b
  BY <1>7, ClosingFacts, BodyFacts DEF Around
<1>9. Op(Closing(b)) = "end"
  <2>1. Op(Closing(b)) # "else"
    BY <1>7, <1>8, CloserFacts
  <2> QED
    BY <1>8, <2>1 DEF Closers
<1>10. {x \in Blocks(frames) : x < b} = Around(b)
  BY <1>1, <1>2, <1>7, AroundInner
<1>11. {x \in Blocks(frames) : x <= b} = Around(b) \cup {b}
  <2>1. \A x \in Blocks(frames) : x \in Nat
    BY FrameFacts
  <2>2. \A x \in Blocks(frames) : x <= b <=> x < b \/ x = b
    BY <1>8, <2>1
  <2> QED
    BY <1>7, <1>10, <2>2
<1>12. /\ SubSeq(frames, 1, k - 1) \in Seq(Frame)
       /\ Nested(SubSeq(frames, 1, k - 1))
       /\ Blocks(SubSeq(frames, 1, k - 1)) = Around(b)
       /\ SubSeq(frames, 1, k) \in Seq(Frame) /\ Nested(SubSeq(frames, 1, k))
       /\ Blocks(SubSeq(frames, 1, k)) = Around(b) \cup {b}
  BY <1>1, <1>5, <1>6, <1>10, <1>11, FrameCut
<1>13. b <= pc /\ pc <= Closing(b)
  BY <1>1, <1>8
<1> QED
  BY <1>5, <1>6, <1>7, <1>8, <1>9, <1>12, <1>13

LEMMA RunBreakInv ==
  ASSUME Inv, RunBreak
  PROVE  Inv'
<1>1. /\ phase = "running" /\ Op(pc) = "break" /\ pc \notin Closers
      /\ UNCHANGED <<analysisVars, owner, bufferVars, faults, phase>> /\ jumped' = TRUE
      /\ UNCHANGED analysisVars
      /\ frames' = SubSeq(frames, 1, LoopFrame - 1)
      /\ pc' = Closing(frames[LoopFrame].block) + 1
  BY DEF RunBreak, Running, Goto, Closers
<1>2. PICK b : b = frames[LoopFrame].block
  OBVIOUS
<1>3. /\ b \in Opened /\ b \in Around(pc) /\ b # 1 /\ b <= pc /\ pc <= Closing(b)
      /\ Op(Closing(b)) = "end"
      /\ frames' \in Seq(Frame) /\ Nested(frames') /\ Blocks(frames') = Around(b)
  BY <1>1, <1>2, LoopFacts
<1>4. pc' = Closing(b) + 1
  BY <1>1, <1>2
<1>5. /\ pc' \in DOMAIN text /\ FramesAt(frames', pc') /\ pc < pc'
      /\ \A d \in Declarations :
           InScope(d)' <=> d < pc /\ text[d].block \in Around(b)
  BY <1>1, <1>3, <1>4, LeapScope
<1>6. \A d \in Declarations : InScope(d)' => InScope(d)
  <2>1. pc \in Nat
    BY <1>1, FrameFacts
  <2>2. Around(b) \subseteq Around(pc)
    BY <1>1, <1>3, <2>1, AroundInner
  <2> QED
    BY <1>1, <1>5, <2>2, ScopeAt
<1>7. \A d \in Declarations : \A m \in Moves(d) :
        InScope(d)' /\ m < pc => m < pc' \/ MovedAgain
  <2>1. \A d : \A m \in Moves(d) : m \in Nat
    BY TextFacts DEF Moves
  <2>2. pc \in Nat /\ pc' \in Nat
    BY <1>1, <1>5, FrameFacts, TextFacts
  <2> QED
    BY <1>5, <2>1, <2>2
<1> QED
  BY <1>1, <1>3, <1>5, <1>6, <1>7, QuietStep

LEMMA RunContinueInv ==
  ASSUME Inv, RunContinue
  PROVE  Inv'
<1>1. /\ phase = "running" /\ Op(pc) = "continue" /\ pc \notin Closers
      /\ UNCHANGED <<analysisVars, owner, bufferVars, faults, phase>> /\ jumped' = TRUE
      /\ UNCHANGED analysisVars
      /\ frames' = SubSeq(frames, 1, LoopFrame)
      /\ pc' = frames[LoopFrame].block
  BY DEF RunContinue, Running, Goto, Closers
<1>2. PICK b : b = frames[LoopFrame].block
  OBVIOUS
<1>3. /\ b \in Opened /\ b \in Around(pc) /\ Op(b) = "for_in"
      /\ b <= pc /\ pc <= Closing(b)
      /\ frames' \in Seq(Frame) /\ Nested(frames')
      /\ Blocks(frames') = Around(b) \cup {b}
  BY <1>1, <1>2, LoopFacts
<1>4. pc' = b
  BY <1>1, <1>2
<1>5. /\ pc' \in DOMAIN text /\ FramesAt(frames', pc')
      /\ \A d \in Declarations :
           InScope(d)' <=> d < pc /\ text[d].block \in Around(b)
      /\ \A d \in Declarations : \A m \in Moves(d) :
           InScope(d)' /\ m < pc => m < pc' \/ MovedAgain
  BY <1>1, <1>3, <1>4, BackScope
<1>6. \A d \in Declarations : InScope(d)' => InScope(d)
  <2>1. pc \in Nat
    BY <1>1, FrameFacts
  <2>2. Around(b) \subseteq Around(pc)
    BY <1>1, <1>3, <2>1, AroundInner
  <2> QED
    BY <1>1, <1>5, <2>2, ScopeAt
<1> QED
  BY <1>1, <1>3, <1>5, <1>6, QuietStep

LEMMA DeclarationRange ==
  ASSUME Inv
  PROVE  /\ Declarations \subseteq 1 .. MaxText
         /\ Declarations \subseteq DOMAIN text
<1>1. Declarations \subseteq DOMAIN text
  BY DEF Declarations
<1>2. Len(text) <= MaxText /\ MaxText \in Nat
  BY OwnershipAssumption DEF Inv, TypeOK
<1>3. \A d \in 1 .. Len(text) : d \in 1 .. MaxText
  BY <1>2, TextFacts
<1> QED
  BY <1>1, <1>3, TextFacts

(* The end of the run.                                                     *)
LEMMA LastStep ==
  ASSUME Inv, UNCHANGED analysisVars, phase = "running", phase' = "done",
         pc' = pc, frames' = <<>>,
         owner' \in [1 .. MaxText -> Owners], faults' \subseteq Faults,
         jumped' \in BOOLEAN,
         ~MovedAgain /\ ~MovedUnderDefer /\ ~MovedConst
           => "use after move" \notin faults',
         ~DefersReadOwn => {"use after drop", "stray drop"} \cap faults' = {},
         ~jumped' => \A d \in Declarations : owner'[d] \notin {"live", "moved"},
         BuffersSound'
  PROVE  Inv'
<1>1. /\ text' = text /\ Declarations' = Declarations
      /\ MovedAgain' = MovedAgain /\ MovedUnderDefer' = MovedUnderDefer
      /\ MovedConst' = MovedConst /\ DefersReadOwn' = DefersReadOwn
      /\ TextSound'
  BY SameText
<1>2. TypeOK'
  <2>1. pc' \in Nat
    BY FrameFacts
  <2>2. frames' \in Seq(Frame) /\ phase' \in {"running", "done"}
    <3>1. <<>> \in Seq(Frame)
      BY EmptySeq
    <3>2. frames' = <<>> /\ phase' = "done"
      OBVIOUS
    <3> QED
      BY <3>1, <3>2
  <2> QED
    BY <2>1, <2>2, RunTypes
<1>3. Placed' /\ Owned' /\ Undropped' /\ NoFaultYet'
  BY DEF Placed, Owned, Undropped, NoFaultYet
<1>4. MovesEnforced' /\ DropsInOrder'
  BY <1>1 DEF MovesEnforced, DropsInOrder
<1>5. NothingLeft'
  <2>1. SUFFICES ASSUME ~jumped', NEW d \in Declarations
                 PROVE  owner'[d] \notin {"live", "moved"} /\ holds'[d] = 0
    BY <1>1 DEF NothingLeft
  <2>2. d \in 1 .. MaxText
    BY DeclarationRange
  <2>3. owner'[d] \in Owners /\ owner'[d] \notin {"live", "moved"}
    BY <2>1, <2>2
  <2> QED
    BY <2>2, <2>3 DEF Owners, BuffersSound
<1> QED
  BY <1>1, <1>2, <1>3, <1>4, <1>5 DEF Inv

LEMMA RunReturnInv ==
  ASSUME Inv, RunReturn
  PROVE  Inv'
<1>1. /\ UNCHANGED analysisVars /\ phase = "running" /\ phase' = "done"
      /\ pc' = pc /\ frames' = <<>> /\ owner' = owner /\ faults' = faults
      /\ jumped' = TRUE /\ UNCHANGED <<analysisVars, owner, bufferVars>>
  BY DEF RunReturn, Running
<1>2. owner' \in [1 .. MaxText -> Owners] /\ faults' \subseteq Faults
  BY <1>1 DEF Inv, TypeOK
<1>3. /\ ~MovedAgain /\ ~MovedUnderDefer /\ ~MovedConst
           => "use after move" \notin faults'
      /\ ~DefersReadOwn => {"use after drop", "stray drop"} \cap faults' = {}
  BY <1>1 DEF Inv, MovesEnforced, DropsInOrder
<1>4. BuffersSound'
  BY <1>1, BuffersKept
<1> QED
  BY <1>1, <1>2, <1>3, <1>4, LastStep

LEMMA PcNat ==
  ASSUME Inv, pc' \in DOMAIN text
  PROVE  pc' \in Nat
  BY TextFacts

(* A step that goes on, whatever it does to the Strings.                   *)
LEMMA LoudStep ==
  ASSUME Inv, UNCHANGED <<analysisVars, phase>>, phase = "running",
         pc' \in DOMAIN text, frames' \in Seq(Frame), Nested(frames'),
         FramesAt(frames', pc'),
         owner' \in [1 .. MaxText -> Owners], faults' \subseteq Faults,
         jumped' \in BOOLEAN,
         \A d \in Declarations : InScope(d)' =>
           /\ owner'[d] \in {"live", "moved"}
           /\ owner'[d] = "moved" /\ ~MovedAgain => \E m \in Moves(d) : m < pc',
         ~jumped' => \A d \in Declarations :
                       owner'[d] \in {"live", "moved"} => InScope(d)',
         BuffersSound',
         ~MovedAgain /\ ~MovedUnderDefer /\ ~MovedConst
           => "use after move" \notin faults',
         ~DefersReadOwn => {"use after drop", "stray drop"} \cap faults' = {}
  PROVE  Inv'
<1>1. /\ text' = text /\ Declarations' = Declarations
      /\ \A d : Moves(d)' = Moves(d)
      /\ MovedAgain' = MovedAgain /\ MovedUnderDefer' = MovedUnderDefer
      /\ MovedConst' = MovedConst /\ DefersReadOwn' = DefersReadOwn
      /\ TextSound' /\ phase' = "running"
  <2>1. UNCHANGED analysisVars /\ phase' \in {"running", "done"}
    OBVIOUS
  <2> QED
    BY <2>1, SameText
<1>2. TypeOK'
  <2>1. pc' \in Nat
    BY PcNat
  <2>2. UNCHANGED analysisVars /\ phase' \in {"running", "done"}
    OBVIOUS
  <2> QED
    BY <2>1, <2>2, RunTypes
<1>3. Placed'
  <2>1. PICK f, i : f = frames' /\ i = pc'
    OBVIOUS
  <2>2. FramesAt(f, i)'
    <3>1. FramesAt(f, i)
      BY <2>1
    <3>2. UNCHANGED analysisVars /\ phase' \in {"running", "done"}
      OBVIOUS
    <3> QED
      BY <3>1, <3>2, SameText
  <2>3. FramesAt(frames, pc)'
    BY <2>1, <2>2 DEF FramesAt, Around, Op
  <2>4. Nested(frames)'
    BY DEF Nested
  <2>5. pc' \in DOMAIN text'
    BY <1>1
  <2> QED
    BY <1>1, <2>3, <2>4, <2>5 DEF Placed
<1>4. Owned'
  BY <1>1 DEF Owned, InScope
<1>5. Undropped'
  BY <1>1 DEF Undropped
<1>6. NoFaultYet' /\ NothingLeft'
  BY <1>1 DEF NoFaultYet, NothingLeft
<1>7. MovesEnforced' /\ DropsInOrder'
  BY <1>1 DEF MovesEnforced, DropsInOrder
<1> QED
  BY <1>1, <1>2, <1>3, <1>4, <1>5, <1>6, <1>7 DEF Inv

(* The buffers after a step, from what it does to them.                    *)
LEMMA BuffersStep ==
  ASSUME Inv, UNCHANGED analysisVars, phase = "running",
         phase' \in {"running", "done"},
         holds' \in [1 .. MaxText -> Nat], freed' \subseteq Held(holds'),
         spoiled' \subseteq 1 .. MaxText,
         \A d \in 1 .. MaxText : owner'[d] \in {"none", "dropped"} => holds'[d] = 0,
         \A d \in 1 .. MaxText :
           ~Shares(d) /\ holds'[d] # 0 =>
             /\ holds'[d] \notin freed'
             /\ \A e \in 1 .. MaxText \ {d} : holds'[e] # holds'[d],
         \A d \in spoiled' : d \in spoiled \/ Shares(d)
  PROVE  BuffersSound'
<1>1. \A d : Shares(d)' = Shares(d)
  BY SameText
<1>2. \A d \in 1 .. MaxText : OwnBuffer(d)'
  BY <1>1 DEF OwnBuffer
<1>3. FreedOnce'
  BY <1>1 DEF FreedOnce, Inv, BuffersSound
<1> QED
  BY <1>2, <1>3 DEF BuffersSound

LEMMA BufferFacts ==
  ASSUME Inv
  PROVE  /\ holds \in [1 .. MaxText -> Nat] /\ freed \subseteq Held(holds)
         /\ 0 \notin freed
         /\ spoiled \subseteq 1 .. MaxText
         /\ \A d \in 1 .. MaxText : owner[d] \in {"none", "dropped"} => holds[d] = 0
         /\ \A d \in 1 .. MaxText :
              ~Shares(d) =>
                /\ holds[d] \notin freed
                /\ holds[d] # 0 =>
                     \A e \in 1 .. MaxText \ {d} : holds[e] # holds[d]
<1>1. 0 \notin Held(holds)
  BY DEF Held
<1> QED
  BY <1>1 DEF Inv, BuffersSound, OwnBuffer

(* A buffer freed while a variable points to it.                           *)
LEMMA HeldFacts ==
  ASSUME NEW h \in [1 .. MaxText -> Nat], NEW b
  PROVE  b \in Held(h) <=> b # 0 /\ \E d \in 1 .. MaxText : h[d] = b
  BY DEF Held

LEMMA DeclareBuffers ==
  ASSUME Inv, RunDeclare
  PROVE  BuffersSound'
<1>1. PICK b \in Spare : holds' = [holds EXCEPT ![pc] = b]
  BY DEF RunDeclare
<1>2. /\ phase = "running" /\ UNCHANGED analysisVars /\ phase' = phase
      /\ owner' = [owner EXCEPT ![pc] = "live"]
      /\ freed' = (freed \cup {}) \cap Held(holds') /\ spoiled' = spoiled
  BY DEF RunDeclare, Running, Free
<1>3. pc \in 1 .. MaxText
  <2>1. pc \in DOMAIN text /\ Len(text) <= MaxText
    BY <1>2, FrameFacts DEF Inv, TypeOK
  <2> QED
    BY <2>1, TextFacts, OwnershipAssumption
<1>4. /\ b \in Nat /\ b # 0 /\ b \notin freed
      /\ \A d \in 1 .. MaxText : holds[d] # b
  <2>1. b \in 1 .. MaxText /\ b \notin Held(holds)
    BY DEF Spare
  <2>2. b \in Nat /\ b # 0
    BY <2>1, OwnershipAssumption
  <2> QED
    BY <2>1, <2>2, BufferFacts, HeldFacts
<1>5. holds \in [1 .. MaxText -> Nat] /\ owner \in [1 .. MaxText -> Owners]
  BY BufferFacts DEF Inv, TypeOK
<1>6. /\ holds' \in [1 .. MaxText -> Nat]
      /\ \A d \in 1 .. MaxText : holds'[d] = IF d = pc THEN b ELSE holds[d]
      /\ \A d \in 1 .. MaxText : owner'[d] = IF d = pc THEN "live" ELSE owner[d]
  BY <1>1, <1>2, <1>4, <1>5
<1>7. \A d \in 1 .. MaxText : owner'[d] \in {"none", "dropped"} => holds'[d] = 0
  BY <1>6, BufferFacts
<1>8. \A d \in 1 .. MaxText :
        ~Shares(d) /\ holds'[d] # 0 =>
          /\ holds'[d] \notin freed'
          /\ \A e \in 1 .. MaxText \ {d} : holds'[e] # holds'[d]
  BY <1>2, <1>4, <1>6, BufferFacts
<1>9. freed' \subseteq Held(holds') /\ spoiled' \subseteq 1 .. MaxText
  BY <1>2, BufferFacts
<1> QED
  BY <1>2, <1>6, <1>7, <1>8, <1>9, BuffersStep

LEMMA RunDeclareInv ==
  ASSUME Inv, RunDeclare
  PROVE  Inv'
<1>1. /\ phase = "running" /\ Op(pc) \in Lets
      /\ UNCHANGED <<analysisVars, phase>> /\ UNCHANGED analysisVars
      /\ owner' = [owner EXCEPT ![pc] = "live"]
      /\ pc' = pc + 1 /\ frames' = frames /\ faults' = faults /\ jumped' = jumped
  BY DEF RunDeclare, Running, Step, Goto
<1>2. /\ pc \in DOMAIN text /\ pc \in Declarations /\ pc \notin Closers
      /\ pc \notin Opened /\ Op(pc) # "for_in"
  BY <1>1, FrameFacts DEF Declarations, Closers, Opened, Openers, Lets
<1>3. /\ frames' \in Seq(Frame) /\ Nested(frames') /\ Blocks(frames') = Around(pc)
  BY <1>1, <1>2, FramesHere, FrameFacts
<1>4. /\ pc' \in DOMAIN text /\ FramesAt(frames', pc')
      /\ \A d \in Declarations : InScope(d)' <=> InScope(d) \/ d = pc
  BY <1>1, <1>2, <1>3, NextScope
<1>5. /\ owner \in [1 .. MaxText -> Owners] /\ faults \subseteq Faults
      /\ jumped \in BOOLEAN /\ Len(text) <= MaxText
  BY DEF Inv, TypeOK
<1>6. \A d \in Declarations : d \in 1 .. MaxText /\ d \in DOMAIN text
  BY <1>5, TextFacts, OwnershipAssumption DEF Declarations
<1>7. /\ owner' \in [1 .. MaxText -> Owners] /\ faults' \subseteq Faults
      /\ jumped' \in BOOLEAN
  BY <1>1, <1>5 DEF Owners
<1>8. \A d \in Declarations :
        owner'[d] = IF d = pc THEN "live" ELSE owner[d]
  BY <1>1, <1>5, <1>6
<1>9. ASSUME NEW d \in Declarations, InScope(d)'
      PROVE  /\ owner'[d] \in {"live", "moved"}
             /\ owner'[d] = "moved" /\ ~MovedAgain =>
                  \E m \in Moves(d) : m < pc'
  <2>1. CASE d = pc
    BY <1>8, <2>1
  <2>2. CASE d # pc
    <3>1. /\ owner[d] \in {"live", "moved"}
          /\ owner[d] = "moved" /\ ~MovedAgain => \E m \in Moves(d) : m < pc
      BY <1>1, <1>4, <1>6, <1>9, <2>2 DEF Inv, Owned
    <3>2. \A m \in Moves(d) : m < pc => m < pc'
      BY <1>1, <1>2, TextFacts DEF Moves
    <3> QED
      BY <1>8, <2>2, <3>1, <3>2
  <2> QED
    BY <2>1, <2>2
<1>10. ~jumped' => \A d \in Declarations :
                     owner'[d] \in {"live", "moved"} => InScope(d)'
  BY <1>1, <1>4, <1>8 DEF Inv, Undropped
<1>11. /\ ~MovedAgain /\ ~MovedUnderDefer /\ ~MovedConst
            => "use after move" \notin faults'
       /\ ~DefersReadOwn => {"use after drop", "stray drop"} \cap faults' = {}
  BY <1>1 DEF Inv, MovesEnforced, DropsInOrder
<1>12. BuffersSound'
  BY DeclareBuffers
<1> QED
  BY <1>1, <1>3, <1>4, <1>7, <1>9, <1>10, <1>11, <1>12, LoudStep

(* What a statement sees is in scope where it stands.                      *)
LEMMA SeenFacts ==
  ASSUME Inv, phase = "running", NEW r \in DOMAIN text, NEW d, Sees(r, d)
  PROVE  d \in Declarations /\ d < r /\ text[d].block \in Around(r)
<1>1. /\ d \in Declarations /\ d < r
      /\ \A j \in Closers : text[j].of = text[d].block => r < j
  BY DEF Sees
<1>2. /\ text[d].block \in Opened /\ text[d].block < d /\ d \in Nat
      /\ text[d].block \in Nat
  BY <1>1, DeclarationFacts
<1>3. r < Closing(text[d].block)
  BY <1>1, <1>2, ClosingFacts
<1>4. text[d].block < r
  BY <1>1, <1>2, TextFacts
<1> QED
  BY <1>1, <1>2, <1>3, <1>4 DEF Around

LEMMA ReadFacts ==
  ASSUME Inv, phase = "running", NEW r \in DOMAIN text, Op(r) \in Reads
  PROVE  LET d == text[r].of IN
         /\ d \in Declarations /\ d < r /\ text[d].block \in Around(r)
         /\ \A m \in Moves(d) :
              m < r => MovedConst
<1>1. PICK d : d = text[r].of
  OBVIOUS
<1>2. Sees(r, d)
  BY <1>1 DEF Inv, TextSound, Resolved, SeesDeclaration
<1>3. d \in Declarations /\ d < r /\ text[d].block \in Around(r) /\ Op(d) \in Lets
  BY <1>2, SeenFacts, DeclarationFacts
<1>4. ASSUME NEW m \in Moves(d), m < r
      PROVE  MovedConst
  <2>1. Op(d) # "let"
    BY <1>1, <1>4 DEF Inv, TextSound, Marked
  <2>2. Op(d) = "const"
    BY <1>3, <2>1 DEF Lets
  <2> QED
    BY <2>2 DEF MovedConst, Moves
<1> QED
  BY <1>1, <1>3, <1>4

(* Reading a String, and handing it on; the drops are not concerned.       *)
LEMMA ReadStep ==
  ASSUME Inv, phase = "running", UNCHANGED analysisVars,
         Op(pc) \in Hands \cup {"use"}, Reading(text[pc].of),
         owner' \in [1 .. MaxText -> Owners],
         \A d \in Declarations :
           \/ owner'[d] = owner[d]
           \/ Op(pc) \in Hands /\ d = text[pc].of /\ owner'[d] = "moved"
           \/ Op(pc) = "assign" /\ d = text[pc].to /\ owner'[d] = "live",
         BuffersSound'
  PROVE  Inv'
<1>1. PICK e : e = text[pc].of
  OBVIOUS
<1>2. /\ UNCHANGED <<analysisVars, phase>>
      /\ faults' = faults \cup Access(owner, e)
      /\ pc' = pc + 1 /\ frames' = frames /\ jumped' = jumped
  BY <1>1 DEF Reading, Step, Goto
<1>3. /\ pc \in DOMAIN text /\ pc \notin Declarations /\ pc \notin Closers
      /\ pc \notin Opened /\ Op(pc) # "for_in" /\ Op(pc) \in Reads /\ pc \in Nat
  BY FrameFacts
     DEF Declarations, Closers, Opened, Openers, Lets, Reads, Hands
<1>4. /\ frames' \in Seq(Frame) /\ Nested(frames') /\ Blocks(frames') = Around(pc)
  BY <1>2, <1>3, FramesHere, FrameFacts
<1>5. /\ pc' \in DOMAIN text /\ FramesAt(frames', pc')
      /\ \A d \in Declarations : InScope(d)' <=> InScope(d)
  BY <1>2, <1>3, <1>4, NextScope
<1>6. /\ owner \in [1 .. MaxText -> Owners] /\ faults \subseteq Faults
      /\ jumped \in BOOLEAN
  BY DEF Inv, TypeOK
<1>7. \A d \in Declarations : d \in 1 .. MaxText /\ d \in DOMAIN text
  BY DeclarationRange
<1>8. /\ e \in Declarations /\ e < pc /\ text[e].block \in Around(pc)
      /\ \A m \in Moves(e) : m < pc => MovedConst
  BY <1>1, <1>3, ReadFacts
<1>9. InScope(e)
  BY <1>3, <1>8, ScopeAt
<1>10. /\ owner[e] \in {"live", "moved"}
       /\ owner[e] = "moved" /\ ~MovedAgain => MovedConst
  BY <1>7, <1>8, <1>9 DEF Inv, Owned
<1>11. Access(owner, e) = IF owner[e] = "moved" THEN {"use after move"} ELSE {}
  BY <1>10 DEF Access
<1>12. faults' \subseteq Faults /\ jumped' \in BOOLEAN
  BY <1>2, <1>6, <1>11 DEF Faults
<1>13. ASSUME NEW d \in Declarations, InScope(d)'
       PROVE  /\ owner'[d] \in {"live", "moved"}
              /\ owner'[d] = "moved" /\ ~MovedAgain =>
                   \E m \in Moves(d) : m < pc'
  <2>1. CASE Op(pc) \in Hands /\ d = e /\ owner'[d] = "moved"
    <3>1. pc \in Moves(d) /\ pc < pc'
      BY <1>1, <1>2, <1>3, <2>1 DEF Moves
    <3> QED
      BY <2>1, <3>1
  <2>2. CASE owner'[d] = owner[d]
    <3>1. /\ owner[d] \in {"live", "moved"}
          /\ owner[d] = "moved" /\ ~MovedAgain => \E m \in Moves(d) : m < pc
      BY <1>5, <1>7, <1>13 DEF Inv, Owned
    <3>2. \A m \in Moves(d) : m < pc => m < pc'
      BY <1>2, <1>3, TextFacts DEF Moves
    <3> QED
      BY <2>2, <3>1, <3>2
  <2>3. CASE owner'[d] = "live"
    BY <2>3
  <2> QED
    BY <1>1, <2>1, <2>2, <2>3
<1>14. Op(pc) = "assign" => InScope(text[pc].to)
  <2>1. SUFFICES ASSUME Op(pc) = "assign"
                 PROVE  InScope(text[pc].to)
    OBVIOUS
  <2>2. Sees(pc, text[pc].to)
    BY <1>3, <2>1 DEF Inv, TextSound, Resolved, SeesDeclaration
  <2>3. /\ text[pc].to \in Declarations /\ text[pc].to < pc
        /\ text[text[pc].to].block \in Around(pc)
    BY <1>3, <2>2, SeenFacts
  <2> QED
    BY <1>3, <2>3, ScopeAt
<1>15. ~jumped' => \A d \in Declarations :
                     owner'[d] \in {"live", "moved"} => InScope(d)'
  BY <1>1, <1>2, <1>5, <1>9, <1>14 DEF Inv, Undropped
<1>16. ~MovedAgain /\ ~MovedUnderDefer /\ ~MovedConst
          => "use after move" \notin faults'
  BY <1>2, <1>10, <1>11 DEF Inv, MovesEnforced
<1>17. ~DefersReadOwn => {"use after drop", "stray drop"} \cap faults' = {}
  <2>1. {"use after drop", "stray drop"} \cap Access(owner, e) = {}
    BY <1>11
  <2> QED
    BY <1>2, <2>1 DEF Inv, DropsInOrder
<1> QED
  BY <1>2, <1>4, <1>5, <1>12, <1>13, <1>15, <1>16, <1>17, LoudStep

(* What a read adds to the spoiled is a variable that shares its buffer.   *)
LEMMA ReadingFacts ==
  ASSUME Inv, phase = "running", Op(pc) \in Hands \cup {"use"},
         Reading(text[pc].of)
  PROVE  /\ text[pc].of \in 1 .. MaxText /\ text[pc].of \in Declarations
         /\ Op(pc) = "assign" => /\ text[pc].to \in 1 .. MaxText
                                 /\ Shares(text[pc].to)
         /\ Op(pc) \in {"assign", "pass"} => Shares(text[pc].of)
         /\ spoiled' \subseteq 1 .. MaxText
         /\ \A d \in spoiled' : d \in spoiled \/ Shares(d)
         /\ phase' = phase
<1>1. PICK e : e = text[pc].of
  OBVIOUS
<1>2. pc \in DOMAIN text /\ Op(pc) \in Reads
  BY FrameFacts DEF Reads
<1>3. e \in Declarations /\ e \in 1 .. MaxText
  BY <1>1, <1>2, ReadFacts, DeclarationRange
<1>4. Op(pc) = "assign" => text[pc].to \in 1 .. MaxText
  <2>1. Op(pc) = "assign" => Sees(pc, text[pc].to)
    BY <1>2 DEF Inv, TextSound, Resolved, SeesDeclaration
  <2> QED
    BY <2>1, DeclarationRange DEF Sees
<1>5. /\ Op(pc) = "assign" => Shares(text[pc].to)
      /\ Op(pc) \in {"assign", "pass"} => Shares(e)
  BY <1>1, <1>2 DEF Shares
<1>6. /\ spoiled' = spoiled \cup Dangling(holds, freed, e)
      /\ phase' = phase
  BY <1>1 DEF Reading
<1>7. Dangling(holds, freed, e) \subseteq {x \in {e} : Shares(x)}
  BY <1>3, BufferFacts DEF Dangling
<1> QED
  BY <1>1, <1>3, <1>4, <1>5, <1>6, <1>7, BufferFacts

LEMMA RunUseInv ==
  ASSUME Inv, RunUse
  PROVE  Inv'
<1>1. /\ phase = "running" /\ UNCHANGED analysisVars /\ Op(pc) = "use"
      /\ Reading(text[pc].of)
      /\ owner' = owner /\ holds' = holds /\ freed' = freed
  BY DEF RunUse, Running
<1>2. owner' \in [1 .. MaxText -> Owners]
  BY <1>1 DEF Inv, TypeOK
<1>3. /\ spoiled' \subseteq 1 .. MaxText /\ phase' = phase
      /\ \A d \in spoiled' : d \in spoiled \/ Shares(d)
  BY <1>1, ReadingFacts
<1>4. BuffersSound'
  BY <1>1, <1>3, BufferFacts, BuffersStep
<1> QED
  BY <1>1, <1>2, <1>4, ReadStep

LEMMA RunAssignInv ==
  ASSUME Inv, RunAssign
  PROVE  Inv'
<1>1. PICK d, to : d = text[pc].of /\ to = text[pc].to
  OBVIOUS
<1>2. /\ phase = "running" /\ UNCHANGED analysisVars /\ Op(pc) = "assign"
      /\ Reading(text[pc].of)
      /\ owner' = [owner EXCEPT ![d] = "moved", ![to] = "live"]
      /\ holds' = [holds EXCEPT ![to] = holds[d]]
      /\ freed' = freed \cap Held(holds')
  BY <1>1 DEF RunAssign, Running, Free
<1>3. /\ spoiled' \subseteq 1 .. MaxText /\ phase' = phase
      /\ \A x \in spoiled' : x \in spoiled \/ Shares(x)
      /\ d \in 1 .. MaxText /\ to \in 1 .. MaxText /\ Shares(d) /\ Shares(to)
  BY <1>1, <1>2, ReadingFacts DEF Hands
<1>4. holds \in [1 .. MaxText -> Nat] /\ owner \in [1 .. MaxText -> Owners]
  BY BufferFacts DEF Inv, TypeOK
<1>5. /\ holds' \in [1 .. MaxText -> Nat]
      /\ \A x \in 1 .. MaxText : holds'[x] = IF x = to THEN holds[d] ELSE holds[x]
  BY <1>2, <1>3, <1>4
<1>6. /\ owner' \in [1 .. MaxText -> Owners]
      /\ \A x \in 1 .. MaxText :
           owner'[x] = IF x = to THEN "live"
                       ELSE IF x = d THEN "moved" ELSE owner[x]
  BY <1>2, <1>3, <1>4 DEF Owners
<1>7. \A x \in 1 .. MaxText : owner'[x] \in {"none", "dropped"} => holds'[x] = 0
  BY <1>5, <1>6, BufferFacts
<1>8. \A x \in 1 .. MaxText :
        ~Shares(x) /\ holds'[x] # 0 =>
          /\ holds'[x] \notin freed'
          /\ \A e \in 1 .. MaxText \ {x} : holds'[e] # holds'[x]
  BY <1>2, <1>3, <1>5, BufferFacts
<1>9. BuffersSound'
  BY <1>2, <1>3, <1>5, <1>7, <1>8, BuffersStep
<1>10. \A x \in Declarations :
         \/ owner'[x] = owner[x]
         \/ Op(pc) \in Hands /\ x = text[pc].of /\ owner'[x] = "moved"
         \/ Op(pc) = "assign" /\ x = text[pc].to /\ owner'[x] = "live"
  BY <1>1, <1>2, <1>6, DeclarationRange DEF Hands
<1> QED
  BY <1>2, <1>6, <1>9, <1>10, ReadStep DEF Hands

LEMMA RunPassInv ==
  ASSUME Inv, RunPass
  PROVE  Inv'
<1>1. PICK d : d = text[pc].of
  OBVIOUS
<1>2. /\ phase = "running" /\ UNCHANGED analysisVars /\ Op(pc) = "pass"
      /\ Reading(text[pc].of)
      /\ owner' = [owner EXCEPT ![d] = "moved"] /\ holds' = holds
      /\ freed' \subseteq freed \cup {holds[d]} /\ freed' \subseteq Held(holds')
  BY <1>1 DEF RunPass, Running, Free
<1>3. /\ spoiled' \subseteq 1 .. MaxText /\ phase' = phase
      /\ \A x \in spoiled' : x \in spoiled \/ Shares(x)
      /\ d \in 1 .. MaxText /\ Shares(d)
  BY <1>1, <1>2, ReadingFacts DEF Hands
<1>4. owner \in [1 .. MaxText -> Owners]
  BY DEF Inv, TypeOK
<1>5. /\ owner' \in [1 .. MaxText -> Owners]
      /\ \A x \in 1 .. MaxText : owner'[x] = IF x = d THEN "moved" ELSE owner[x]
  BY <1>2, <1>3, <1>4 DEF Owners
<1>6. \A x \in 1 .. MaxText : owner'[x] \in {"none", "dropped"} => holds'[x] = 0
  BY <1>2, <1>5, BufferFacts
<1>7. \A x \in 1 .. MaxText :
        ~Shares(x) /\ holds'[x] # 0 =>
          /\ holds'[x] \notin freed'
          /\ \A e \in 1 .. MaxText \ {x} : holds'[e] # holds'[x]
  BY <1>2, <1>3, BufferFacts
<1>8. BuffersSound'
  BY <1>2, <1>3, <1>6, <1>7, BufferFacts, BuffersStep
<1>9. \A x \in Declarations :
        \/ owner'[x] = owner[x]
        \/ Op(pc) \in Hands /\ x = text[pc].of /\ owner'[x] = "moved"
  BY <1>1, <1>2, <1>5, DeclarationRange DEF Hands
<1> QED
  BY <1>2, <1>5, <1>8, <1>9, ReadStep DEF Hands

LEMMA RunIntoStrInv ==
  ASSUME Inv, RunIntoStr
  PROVE  Inv'
<1>1. PICK d : d = text[pc].of
  OBVIOUS
<1>2. /\ phase = "running" /\ UNCHANGED analysisVars /\ Op(pc) = "into_str"
      /\ Reading(text[pc].of)
      /\ owner' = [owner EXCEPT ![d] = "moved"]
      /\ holds' = [holds EXCEPT ![d] = 0]
      /\ freed' \subseteq freed \cup {holds[d]} /\ freed' \subseteq Held(holds')
  BY <1>1 DEF RunIntoStr, Running, Free
<1>3. /\ spoiled' \subseteq 1 .. MaxText /\ phase' = phase
      /\ \A x \in spoiled' : x \in spoiled \/ Shares(x)
      /\ d \in 1 .. MaxText
  BY <1>1, <1>2, ReadingFacts DEF Hands
<1>4. holds \in [1 .. MaxText -> Nat] /\ owner \in [1 .. MaxText -> Owners]
  BY BufferFacts DEF Inv, TypeOK
<1>5. /\ owner' \in [1 .. MaxText -> Owners]
      /\ \A x \in 1 .. MaxText : owner'[x] = IF x = d THEN "moved" ELSE owner[x]
      /\ holds' \in [1 .. MaxText -> Nat]
      /\ \A x \in 1 .. MaxText : holds'[x] = IF x = d THEN 0 ELSE holds[x]
  BY <1>2, <1>3, <1>4 DEF Owners
<1>6. \A x \in 1 .. MaxText : owner'[x] \in {"none", "dropped"} => holds'[x] = 0
  BY <1>5, BufferFacts
<1>7. \A x \in 1 .. MaxText :
        ~Shares(x) /\ holds'[x] # 0 =>
          /\ holds'[x] \notin freed'
          /\ \A e \in 1 .. MaxText \ {x} : holds'[e] # holds'[x]
  BY <1>2, <1>3, <1>5, BufferFacts
<1>8. BuffersSound'
  BY <1>2, <1>3, <1>5, <1>6, <1>7, BuffersStep
<1>9. \A x \in Declarations :
        \/ owner'[x] = owner[x]
        \/ Op(pc) \in Hands /\ x = text[pc].of /\ owner'[x] = "moved"
  BY <1>1, <1>2, <1>5, DeclarationRange DEF Hands
<1> QED
  BY <1>2, <1>5, <1>8, <1>9, ReadStep DEF Hands

-------------------------------------------------------------------------------
(***************************************************************************)
(* The end of a block.                                                     *)
(***************************************************************************)
LEMMA SetIndex ==
  ASSUME NEW f \in Seq(Frame), Nested(f), NEW k \in DOMAIN f, NEW n \in Nat
  PROVE  LET g == [f EXCEPT ![k].index = n] IN
         g \in Seq(Frame) /\ Nested(g) /\ Blocks(g) = Blocks(f)
<1> DEFINE e == [f[k] EXCEPT !.index = n]
           g == [f EXCEPT ![k] = e]
<1>1. f[k] \in Frame
  BY FrameTypes
<1>2. e \in Frame /\ e.block = f[k].block
  BY <1>1 DEF Frame
<1> HIDE DEF e
<1>3. g \in Seq(Frame) /\ DOMAIN g = DOMAIN f
  BY <1>2
<1>4. \A i \in DOMAIN f : g[i].block = f[i].block
  BY <1>2
<1> HIDE DEF g
<1>5. Nested(g)
  <2>1. \A i \in DOMAIN f : \A j \in 1 .. i - 1 : j \in DOMAIN f
    BY FrameTypes
  <2> QED
    BY <1>3, <1>4, <2>1 DEF Nested
<1>6. Blocks(g) = Blocks(f)
  BY <1>3, <1>4 DEF Blocks
<1> QED
  BY <1>3, <1>5, <1>6 DEF g, e

(* The block that ends is the one last entered.                            *)
LEMMA EndFacts ==
  ASSUME Inv, phase = "running", pc \in Closers
  PROVE  /\ Block = text[pc].of /\ Block \in Opened /\ Closing(Block) = pc
         /\ Block \in Nat /\ pc \in Nat /\ Block < pc
         /\ frames # <<>> /\ Len(frames) \in DOMAIN frames
         /\ Blocks(frames) = Around(Block) \cup {Block}
         /\ Front(frames) \in Seq(Frame) /\ Nested(Front(frames))
         /\ Blocks(Front(frames)) = Around(Block)
         /\ \A x \in Around(Block) : x < Block
<1>1. PICK b : b = text[pc].of
  OBVIOUS
<1>2. /\ b \in Opened /\ Closing(b) = pc /\ b < pc /\ pc \in Nat /\ b \in Nat
  BY <1>1, CloserFacts
<1>3. frames \in Seq(Frame) /\ Nested(frames) /\ FramesAt(frames, pc)
  BY FrameFacts
<1>4. Blocks(frames) = Around(b) \cup {b}
  <2>1. Blocks(frames) = Around(pc) \cup {text[pc].of}
    BY <1>3 DEF FramesAt, Closers
  <2>2. Around(pc) = Around(b)
    BY <1>2, AroundClosing
  <2> QED
    BY <1>1, <2>1, <2>2
<1>5. \A x \in Around(b) : x < b /\ x \in Nat
  BY TextFacts DEF Around
<1>6. frames # <<>>
  BY <1>4, EmptyBlocks
<1>7. /\ Len(frames) \in DOMAIN frames
      /\ Front(frames) \in Seq(Frame) /\ Nested(Front(frames))
      /\ Blocks(Front(frames)) = {x \in Blocks(frames) : x < Block}
      /\ Block \in Blocks(frames)
      /\ \A x \in Blocks(frames) : x <= Block
  BY <1>3, <1>6, FrontCut DEF Block
<1>8. Block = b
  <2>1. b <= Block /\ (Block = b \/ Block < b) /\ Block \in Nat
    BY <1>2, <1>4, <1>5, <1>7
  <2> QED
    BY <1>2, <2>1
<1>9. {x \in Blocks(frames) : x < b} = Around(b)
  BY <1>2, <1>4, <1>5
<1> QED
  BY <1>1, <1>2, <1>4, <1>5, <1>6, <1>7, <1>8, <1>9

(* What was in scope: all of the block's own, and what is around it.       *)
LEMMA EndScope ==
  ASSUME Inv, phase = "running", pc \in Closers, NEW d \in Declarations
  PROVE  InScope(d) <=> \/ text[d].block = Block
                        \/ d < pc /\ text[d].block \in Around(Block)
<1>1. /\ Blocks(frames) = Around(Block) \cup {Block} /\ Closing(Block) = pc
  BY EndFacts
<1>2. d < Closing(text[d].block)
  BY DeclarationFacts, BlockFacts
<1> QED
  BY <1>1, <1>2 DEF InScope

LEMMA DroppedFacts ==
  ASSUME Inv, NEW b
  PROVE  /\ Dropped(b) \in [1 .. MaxText -> Owners]
         /\ \A d \in Declarations :
              Dropped(b)[d] = IF text[d].block = b THEN "dropped" ELSE owner[d]
<1>1. owner \in [1 .. MaxText -> Owners] /\ Len(text) <= MaxText
  BY DEF Inv, TypeOK
<1>2. \A d \in Declarations : d \in 1 .. MaxText
  BY <1>1, TextFacts, OwnershipAssumption DEF Declarations
<1>3. DOMAIN owner = 1 .. MaxText
  BY <1>1
<1>4. Dropped(b) = [d \in 1 .. MaxText |-> IF d \in ToDrop(b) THEN "dropped"
                                           ELSE owner[d]]
  BY <1>3 DEF Dropped
<1>5. Dropped(b) \in [1 .. MaxText -> Owners]
  BY <1>1, <1>4 DEF Owners
<1>6. \A d \in Declarations : d \in ToDrop(b) <=> text[d].block = b
  BY DEF ToDrop, In
<1> QED
  BY <1>2, <1>4, <1>5, <1>6

(* A deferred statement reads a String of its block, dropped before it     *)
(* runs, or one of the blocks around, which was not moved before it was    *)
(* analysed.                                                               *)
LEMMA DeferredFacts ==
  ASSUME Inv, phase = "running", pc \in Closers, NEW i \in Deferred(Block)
  PROVE  LET a == Access(Dropped(Block), text[i].of) IN
         /\ a \subseteq {"use after move", "use after drop"}
         /\ "use after drop" \in a => DefersReadOwn
         /\ "use after move" \in a =>
              MovedAgain \/ MovedUnderDefer \/ MovedConst
<1>1. PICK b, d : b = Block /\ d = text[i].of
  OBVIOUS
<1> DEFINE a == Access(Dropped(b), d)
<1> HIDE DEF a
<1>2. /\ b \in Opened /\ Closing(b) = pc /\ b \in Nat /\ pc \in Nat
  BY <1>1, EndFacts
<1>3. /\ i \in DOMAIN text /\ Op(i) = "defer" /\ text[i].block = b /\ i \in Nat
      /\ i \notin Closers /\ i # 1 /\ Op(i) \in Reads
  BY <1>1, BodyFacts, TextFacts DEF Deferred, In, Closers, Reads
<1>4. /\ b \in Around(i) /\ i < pc /\ \A e \in Around(i) : e <= b
  BY <1>2, <1>3, BlockFacts
<1>5. /\ d \in Declarations /\ d < i /\ text[d].block \in Around(i)
      /\ \A m \in Moves(d) : m < i => MovedConst
  BY <1>1, <1>3, ReadFacts
<1>6. d \in Nat /\ text[d].block \in Nat /\ d \in DOMAIN text
  BY <1>5, DeclarationFacts
<1>7. Dropped(b)[d] = IF text[d].block = b THEN "dropped" ELSE owner[d]
  BY <1>5, DroppedFacts
<1>8. ASSUME text[d].block = b
      PROVE  /\ a \subseteq {"use after move", "use after drop"}
             /\ "use after drop" \in a => DefersReadOwn
             /\ "use after move" \in a =>
                  MovedAgain \/ MovedUnderDefer \/ MovedConst
  <2>1. Dropped(b)[d] = "dropped"
    BY <1>7, <1>8
  <2>2. a = {"use after drop"}
    BY <2>1 DEF Access, a
  <2>3. DefersReadOwn
    BY <1>1, <1>3, <1>8 DEF DefersReadOwn
  <2> QED
    BY <2>2, <2>3
<1>9. ASSUME text[d].block # b
      PROVE  /\ a \subseteq {"use after move", "use after drop"}
             /\ "use after drop" \in a => DefersReadOwn
             /\ "use after move" \in a =>
                  MovedAgain \/ MovedUnderDefer \/ MovedConst
  <2>1. text[d].block < b
    BY <1>2, <1>4, <1>5, <1>6, <1>9
  <2>2. text[d].block \in Around(b)
    BY <1>3, <1>4, <1>5, <2>1, AroundInner
  <2>3. d < pc
    BY <1>2, <1>3, <1>4, <1>5, <1>6
  <2>4. InScope(d)
    BY <1>1, <1>5, <2>2, <2>3, EndScope
  <2>5. /\ owner[d] \in {"live", "moved"}
        /\ owner[d] = "moved" /\ ~MovedAgain => \E m \in Moves(d) : m < pc
    BY <1>6, <2>4 DEF Inv, Owned
  <2>6. ASSUME NEW m \in Moves(d), m < pc
        PROVE  MovedUnderDefer \/ MovedConst
    <3>1. m \in DOMAIN text /\ Op(m) \in Hands /\ text[m].of = d /\ m \in Nat
      BY TextFacts DEF Moves
    <3>2. m # i
      BY <1>3, <3>1 DEF Hands
    <3>3. CASE m < i
      BY <1>5, <3>3
    <3>4. CASE i < m
      BY <1>1, <1>2, <1>3, <2>6, <3>1, <3>4 DEF MovedUnderDefer
    <3> QED
      BY <1>3, <3>1, <3>2, <3>3, <3>4
  <2>7. Dropped(b)[d] = owner[d]
    BY <1>7, <1>9
  <2>8. a = IF owner[d] = "moved" THEN {"use after move"} ELSE {}
    BY <2>5, <2>7 DEF Access, a
  <2> QED
    BY <2>5, <2>6, <2>8
<1> QED
  BY <1>1, <1>8, <1>9 DEF a

LEMMA CloseFacts ==
  ASSUME Inv, phase = "running", pc \in Closers, Close(Block)
  PROVE  /\ owner' \in [1 .. MaxText -> Owners] /\ faults' \subseteq Faults
         /\ \A d \in Declarations :
              owner'[d] = IF text[d].block = Block THEN "dropped" ELSE owner[d]
         /\ ~MovedAgain /\ ~MovedUnderDefer /\ ~MovedConst
              => "use after move" \notin faults'
         /\ ~DefersReadOwn
              => {"use after drop", "stray drop"} \cap faults' = {}
<1> DEFINE stray == {d \in ToDrop(Block) : owner[d] \in {"none", "dropped"}}
           read == UNION {Access(Dropped(Block), text[i].of) : i \in Deferred(Block)}
<1>1. stray = {}
  <2>1. SUFFICES ASSUME NEW d \in ToDrop(Block)
                 PROVE  owner[d] \in {"live", "moved"}
    OBVIOUS
  <2>2. d \in Declarations /\ text[d].block = Block
    BY DEF ToDrop, In
  <2>3. InScope(d) /\ d \in DOMAIN text
    BY <2>2, EndScope DEF Declarations
  <2> QED
    BY <2>3 DEF Inv, Owned
<1>2. owner' = Dropped(Block) /\ faults' = faults \cup read
  BY <1>1 DEF Close
<1>3. /\ read \subseteq {"use after move", "use after drop"}
      /\ "use after drop" \in read => DefersReadOwn
      /\ "use after move" \in read => MovedAgain \/ MovedUnderDefer \/ MovedConst
  BY DeferredFacts
<1> HIDE DEF read, stray
<1>4. faults \subseteq Faults
  BY DEF Inv, TypeOK
<1>5. faults' \subseteq Faults
  BY <1>2, <1>3, <1>4 DEF Faults
<1>6. ~MovedAgain /\ ~MovedUnderDefer /\ ~MovedConst
        => "use after move" \notin faults'
  BY <1>2, <1>3 DEF Inv, MovesEnforced
<1>7. ~DefersReadOwn => {"use after drop", "stray drop"} \cap faults' = {}
  BY <1>2, <1>3 DEF Inv, DropsInOrder
<1> QED
  BY <1>2, <1>5, <1>6, <1>7, DroppedFacts

(* The buffers the drops free were held by the block's variables alone,    *)
(* but for those shared.                                                   *)
LEMMA CloseBuffers ==
  ASSUME Inv, phase = "running", UNCHANGED analysisVars,
         phase' \in {"running", "done"}, pc \in Closers, Close(Block)
  PROVE  BuffersSound'
<1>1. PICK b : b = Block
  OBVIOUS
<1> DEFINE dangling == UNION {Dangling(holds', freed', text[i].of) : i \in Deferred(b)}
<1>2. /\ owner' = Dropped(b) /\ holds' = Emptied(b)
      /\ freed' = (freed \cup {holds[d] : d \in ToDrop(b)}) \cap Held(holds')
      /\ spoiled' = spoiled \cup FreedTwice(b) \cup dangling
  BY <1>1 DEF Close, Free
<1>3. holds \in [1 .. MaxText -> Nat] /\ owner \in [1 .. MaxText -> Owners]
  BY BufferFacts DEF Inv, TypeOK
<1>4. /\ holds' \in [1 .. MaxText -> Nat]
      /\ \A d \in 1 .. MaxText :
           holds'[d] = IF d \in ToDrop(b) THEN 0 ELSE holds[d]
      /\ \A d \in 1 .. MaxText :
           owner'[d] = IF d \in ToDrop(b) THEN "dropped" ELSE owner[d]
  BY <1>2, <1>3 DEF Emptied, Dropped
<1>5. ToDrop(b) \subseteq 1 .. MaxText
  BY DeclarationRange DEF ToDrop
<1>6. \A d \in 1 .. MaxText : owner'[d] \in {"none", "dropped"} => holds'[d] = 0
  BY <1>4, BufferFacts
<1>7. \A d \in 1 .. MaxText :
        ~Shares(d) /\ holds'[d] # 0 =>
          /\ holds'[d] \notin freed'
          /\ \A e \in 1 .. MaxText \ {d} : holds'[e] # holds'[d]
  <2>1. SUFFICES ASSUME NEW d \in 1 .. MaxText, ~Shares(d), holds'[d] # 0
                 PROVE  /\ holds'[d] \notin freed'
                        /\ \A e \in 1 .. MaxText \ {d} : holds'[e] # holds'[d]
    OBVIOUS
  <2>2. /\ d \notin ToDrop(b) /\ holds'[d] = holds[d] /\ holds[d] \notin freed
        /\ \A e \in 1 .. MaxText \ {d} : holds[e] # holds[d]
    BY <1>4, <2>1, BufferFacts
  <2>3. holds[d] \notin {holds[x] : x \in ToDrop(b)}
    BY <1>5, <2>2
  <2> QED
    BY <1>2, <1>4, <2>1, <2>2, <2>3
<1>8. /\ FreedTwice(b) \subseteq 1 .. MaxText
      /\ \A d \in FreedTwice(b) : Shares(d)
  BY <1>5, BufferFacts DEF FreedTwice
<1>9. ASSUME NEW i \in Deferred(b), NEW d \in Dangling(holds', freed', text[i].of)
      PROVE  d \in 1 .. MaxText /\ Shares(d)
  <2>1. d = text[i].of /\ holds'[d] \in freed'
    BY <1>9 DEF Dangling
  <2>2. i \in DOMAIN text /\ Op(i) \in Reads
    BY DEF Deferred, Reads
  <2>3. d \in 1 .. MaxText
    BY <2>1, <2>2, ReadFacts, DeclarationRange
  <2>4. holds'[d] # 0
    BY <1>2, <2>1 DEF Held
  <2> QED
    BY <1>7, <2>1, <2>3, <2>4
<1>10. /\ dangling \subseteq 1 .. MaxText
       /\ \A d \in dangling : Shares(d)
  BY <1>9
<1> HIDE DEF dangling
<1>11. /\ spoiled' \subseteq 1 .. MaxText
       /\ \A d \in spoiled' : d \in spoiled \/ Shares(d)
  BY <1>2, <1>8, <1>10, BufferFacts
<1>12. freed' \subseteq Held(holds')
  BY <1>2
<1> QED
  BY <1>4, <1>6, <1>7, <1>11, <1>12, BuffersStep

(* Where control goes: what was the block's own leaves the scope.          *)
LEMMA ExitFacts ==
  ASSUME Inv, phase = "running", UNCHANGED analysisVars, pc \in Closers,
         Op(Block) # "body", Exit(Block)
  PROVE  /\ pc' \in DOMAIN text /\ frames' \in Seq(Frame) /\ Nested(frames')
         /\ FramesAt(frames', pc') /\ phase' = phase
         /\ \A d \in Declarations :
              InScope(d)' <=> d < pc /\ text[d].block \in Around(Block)
         /\ \A d \in Declarations : \A m \in Moves(d) :
              InScope(d)' /\ m < pc => m < pc' \/ MovedAgain
<1>1. PICK b : b = Block
  OBVIOUS
<1>2. /\ b = text[pc].of /\ b \in Opened /\ Closing(b) = pc /\ b \in Nat
      /\ pc \in Nat /\ b < pc /\ b <= pc /\ pc <= Closing(b)
      /\ Len(frames) \in DOMAIN frames
      /\ Blocks(frames) = Around(b) \cup {b}
      /\ Front(frames) \in Seq(Frame) /\ Nested(Front(frames))
      /\ Blocks(Front(frames)) = Around(b)
  BY <1>1, EndFacts
<1>3. frames \in Seq(Frame) /\ Nested(frames) /\ pc \in DOMAIN text
  BY FrameFacts
<1>4. CASE Op(b) = "for_in"
  <2>1. /\ phase' = phase /\ pc' = b
        /\ frames' = [frames EXCEPT ![Len(frames)].index = @ + 1]
    BY <1>1, <1>4 DEF Exit, Goto
  <2>2. PICK n \in Nat : n = frames[Len(frames)].index + 1
    BY <1>2, FrameFacts
  <2>3. /\ frames' \in Seq(Frame) /\ Nested(frames')
        /\ Blocks(frames') = Around(b) \cup {b}
    <3>1. PICK k \in DOMAIN frames : k = Len(frames)
      BY <1>2
    <3>2. frames' = [frames EXCEPT ![k].index = n]
      BY <2>1, <2>2, <3>1
    <3>3. PICK g : g = [frames EXCEPT ![k].index = n]
      OBVIOUS
    <3>4. g \in Seq(Frame) /\ Nested(g) /\ Blocks(g) = Blocks(frames)
      BY <1>3, <3>3, SetIndex
    <3> QED
      BY <1>2, <3>2, <3>3, <3>4
  <2>4. /\ pc' \in DOMAIN text /\ FramesAt(frames', pc')
        /\ \A d \in Declarations :
             InScope(d)' <=> d < pc /\ text[d].block \in Around(b)
        /\ \A d \in Declarations : \A m \in Moves(d) :
             InScope(d)' /\ m < pc => m < pc' \/ MovedAgain
    BY <1>2, <1>4, <2>1, <2>3, BackScope
  <2> QED
    BY <1>1, <2>1, <2>3, <2>4
<1>5. CASE Op(b) # "for_in"
  <2>1. phase' = phase /\ pc' = After(b) /\ frames' = Front(frames)
    BY <1>1, <1>5 DEF Exit, Goto
  <2>2. b # 1
    BY <1>1, BodyFacts
  <2>3. /\ pc' \in DOMAIN text /\ FramesAt(frames', pc') /\ pc < pc'
        /\ \A d \in Declarations :
             InScope(d)' <=> d < pc /\ text[d].block \in Around(b)
    <3>1. CASE HasElse(b)
      <4>1. Op(pc) = "else"
        BY <1>2, <3>1 DEF HasElse
      <4>2. pc \in Opened
        BY <1>3, <4>1 DEF Opened, Openers
      <4>3. /\ Closing(pc) \in Closers /\ text[Closing(pc)].of = pc
            /\ pc <= Closing(pc) /\ pc <= pc
        BY <1>2, <4>2, ClosingFacts
      <4>4. Op(Closing(pc)) # "else"
        BY <4>1, <4>3, CloserFacts
      <4>5. Op(Closing(pc)) = "end"
        BY <4>3, <4>4 DEF Closers
      <4>6. pc # 1
        BY <4>1, BodyFacts
      <4>7. Around(pc) = Around(b)
        BY <1>2, AroundClosing
      <4>8. pc' = Closing(pc) + 1
        BY <1>2, <2>1, <3>1 DEF After
      <4> QED
        BY <1>2, <2>1, <4>2, <4>3, <4>5, <4>6, <4>7, <4>8, LeapScope
    <3>2. CASE ~HasElse(b)
      <4>1. Op(pc) = "end"
        BY <1>2, <3>2 DEF HasElse, Closers
      <4>2. pc' = Closing(b) + 1
        BY <1>2, <2>1, <3>2 DEF After
      <4> QED
        BY <1>2, <2>1, <2>2, <4>1, <4>2, LeapScope
    <3> QED
      BY <3>1, <3>2
  <2>4. \A d \in Declarations : \A m \in Moves(d) :
          InScope(d)' /\ m < pc => m < pc' \/ MovedAgain
    <3>1. \A d : \A m \in Moves(d) : m \in Nat
      BY TextFacts DEF Moves
    <3>2. pc' \in Nat
      BY <2>3, TextFacts
    <3> QED
      BY <1>2, <2>3, <3>1, <3>2
  <2> QED
    BY <1>1, <1>2, <2>1, <2>3, <2>4
<1> QED
  BY <1>4, <1>5

LEMMA RunCloseInv ==
  ASSUME Inv, RunClose
  PROVE  Inv'
<1>1. /\ phase = "running" /\ UNCHANGED analysisVars /\ pc \in Closers
      /\ Close(Block) /\ Exit(Block) /\ jumped' = jumped
  BY FrameFacts DEF RunClose, Running, Closers
<1>2. /\ owner' \in [1 .. MaxText -> Owners] /\ faults' \subseteq Faults
      /\ \A d \in Declarations :
           owner'[d] = IF text[d].block = Block THEN "dropped" ELSE owner[d]
      /\ ~MovedAgain /\ ~MovedUnderDefer /\ ~MovedConst
           => "use after move" \notin faults'
      /\ ~DefersReadOwn => {"use after drop", "stray drop"} \cap faults' = {}
  BY <1>1, CloseFacts
<1>3. jumped' \in BOOLEAN
  BY <1>1 DEF Inv, TypeOK
<1>4. /\ Block \in Opened /\ Block \in Nat
      /\ \A x \in Around(Block) : x < Block
  BY <1>1, EndFacts
<1>4a. Op(Block) # "body" => phase' = phase
  BY <1>1 DEF Exit
<1>4b. BuffersSound'
  <2>1. phase' \in {"running", "done"}
    BY <1>1, <1>4a DEF Exit
  <2> QED
    BY <1>1, <2>1, CloseBuffers
<1>5. CASE Op(Block) = "body"
  <2>1. phase' = "done" /\ frames' = <<>> /\ pc' = pc
    BY <1>1, <1>5 DEF Exit
  <2>2. Block = 1 /\ Around(Block) = {}
    BY <1>1, <1>4, <1>5, BodyFacts
  <2>3. ASSUME ~jumped', NEW d \in Declarations
        PROVE  owner'[d] \notin {"live", "moved"}
    <3>1. owner[d] \in {"live", "moved"} => InScope(d)
      BY <1>1, <2>3 DEF Inv, Undropped
    <3>2. InScope(d) => text[d].block = Block
      BY <1>1, <2>2, EndScope
    <3> QED
      BY <1>2, <3>1, <3>2
  <2> QED
    BY <1>1, <1>2, <1>3, <1>4b, <2>1, <2>3, LastStep
<1>6. CASE Op(Block) # "body"
  <2>1. /\ pc' \in DOMAIN text /\ frames' \in Seq(Frame) /\ Nested(frames')
        /\ FramesAt(frames', pc') /\ phase' = phase
        /\ \A d \in Declarations :
             InScope(d)' <=> d < pc /\ text[d].block \in Around(Block)
        /\ \A d \in Declarations : \A m \in Moves(d) :
             InScope(d)' /\ m < pc => m < pc' \/ MovedAgain
    BY <1>1, <1>6, ExitFacts
  <2>2. UNCHANGED <<analysisVars, phase>>
    BY <1>1, <2>1
  <2>3. ASSUME NEW d \in Declarations, InScope(d)'
        PROVE  /\ owner'[d] \in {"live", "moved"}
               /\ owner'[d] = "moved" /\ ~MovedAgain =>
                    \E m \in Moves(d) : m < pc'
    <3>1. InScope(d) /\ text[d].block # Block
      BY <1>1, <1>4, <2>1, <2>3, EndScope
    <3>2. /\ owner[d] \in {"live", "moved"}
          /\ owner[d] = "moved" /\ ~MovedAgain => \E m \in Moves(d) : m < pc
      BY <1>1, <3>1 DEF Inv, Owned, Declarations
    <3>3. owner'[d] = owner[d]
      BY <1>2, <3>1
    <3> QED
      BY <2>1, <2>3, <3>2, <3>3
  <2>4. ASSUME ~jumped', NEW d \in Declarations, owner'[d] \in {"live", "moved"}
        PROVE  InScope(d)'
    <3>1. text[d].block # Block /\ owner[d] \in {"live", "moved"}
      BY <1>2, <2>4
    <3>2. InScope(d)
      BY <1>1, <2>4, <3>1 DEF Inv, Undropped
    <3> QED
      BY <1>1, <2>1, <3>1, <3>2, EndScope
  <2> QED
    BY <1>1, <1>2, <1>3, <1>4b, <2>1, <2>2, <2>3, <2>4, LoudStep
<1> QED
  BY <1>5, <1>6

-------------------------------------------------------------------------------
(***************************************************************************)
(* The theorems.                                                           *)
(***************************************************************************)
LEMMA StutterInv ==
  ASSUME Inv, UNCHANGED vars
  PROVE  Inv'
<1>1. /\ text' = text /\ open' = open /\ isMoved' = isMoved /\ phase' = phase
      /\ pc' = pc /\ frames' = frames /\ owner' = owner /\ faults' = faults
      /\ jumped' = jumped
      /\ holds' = holds /\ freed' = freed /\ spoiled' = spoiled
  BY DEF vars, analysisVars, runVars, bufferVars
<1>2. /\ Closers' = Closers /\ Opened' = Opened /\ Declarations' = Declarations
      /\ \A i : Op(i)' = Op(i)
  BY <1>1 DEF Closers, Opened, Declarations, Op
<1>3. \A b : Closing(b)' = Closing(b)
  BY <1>1, <1>2 DEF Closing
<1>4. /\ \A d : Moves(d)' = Moves(d)
      /\ \A i : Around(i)' = Around(i)
  BY <1>1, <1>2, <1>3 DEF Moves, Around
<1>5. /\ MovedAgain' = MovedAgain /\ MovedUnderDefer' = MovedUnderDefer
      /\ MovedConst' = MovedConst /\ DefersReadOwn' = DefersReadOwn
  BY <1>1, <1>2, <1>3
     DEF MovedAgain, Within, MovedUnderDefer, MovedConst, DefersReadOwn, Op
<1>6. TypeOK'
  BY <1>1 DEF Inv, TypeOK
<1>7. TextSound'
  <2>1. OpenBlocks' /\ Brackets' /\ JumpsHaveLoops'
    BY <1>1, <1>2 DEF Inv, TextSound, OpenBlocks, Brackets, JumpsHaveLoops, Op
  <2>2. Standing' /\ Resolved'
    BY <1>1, <1>2
       DEF Inv, TextSound, Standing, Resolved, InBlock, SeesDeclaration, Sees, Op
  <2>3. Marked' /\ Phases'
    BY <1>1, <1>2, <1>4 DEF Inv, TextSound, Marked, Phases, Op
  <2> QED
    BY <2>1, <2>2, <2>3 DEF TextSound
<1>8. Placed'
  BY <1>1, <1>2, <1>4 DEF Inv, Placed, FramesAt, Nested, Blocks, Op
<1>9. Owned' /\ Undropped'
  BY <1>1, <1>2, <1>4, <1>5 DEF Inv, Owned, Undropped, InScope, Blocks
<1>10. NoFaultYet' /\ MovesEnforced' /\ DropsInOrder' /\ NothingLeft'
  BY <1>1, <1>2, <1>5
     DEF Inv, NoFaultYet, MovesEnforced, DropsInOrder, NothingLeft
<1>11. BuffersSound'
  <2>1. \A d : Shares(d)' = Shares(d)
    BY <1>1, <1>2 DEF Shares
  <2>2. \A d : OwnBuffer(d)' = OwnBuffer(d)
    BY <1>1, <2>1 DEF OwnBuffer
  <2> QED
    BY <1>1, <2>1, <2>2 DEF Inv, BuffersSound, FreedOnce
<1> QED
  BY <1>6, <1>7, <1>8, <1>9, <1>10, <1>11 DEF Inv

LEMMA NextInv ==
  ASSUME Inv, [Next]_vars
  PROVE  Inv'
<1>1. CASE AnalysisNext
  <2>1. ASSUME NEW op \in Lets, Declare(op)
        PROVE  Inv'
    BY <2>1, DeclareInv
  <2>2. ASSUME NEW op \in Reads, NEW d \in Visible, NEW to \in {0} \cup Visible,
               Read(op, d, to)
        PROVE  Inv'
    BY <2>2, ReadInv
  <2>3. ASSUME NEW op \in {"if", "for_in"}, Enter(op)
        PROVE  Inv'
    BY <2>3, EnterInv
  <2>4. CASE EnterElse
    BY <2>4, EnterElseInv
  <2>5. ASSUME NEW op \in Jumps, WriteJump(op)
        PROVE  Inv'
    BY <2>5, WriteJumpInv
  <2>6. CASE Leave
    BY <2>6, LeaveInv
  <2> QED
    BY <1>1, <2>1, <2>2, <2>3, <2>4, <2>5, <2>6 DEF AnalysisNext
<1>2. CASE RunNext
  <2>1. CASE RunBody
    BY <2>1, RunBodyInv
  <2>2. CASE RunDeclare
    BY <2>2, RunDeclareInv
  <2>3a. CASE RunUse
    BY <2>3a, RunUseInv
  <2>3b. CASE RunAssign
    BY <2>3b, RunAssignInv
  <2>3c. CASE RunPass
    BY <2>3c, RunPassInv
  <2>3d. CASE RunIntoStr
    BY <2>3d, RunIntoStrInv
  <2>4. CASE RunDefer
    BY <2>4, RunDeferInv
  <2>5. CASE RunIf
    BY <2>5, RunIfInv
  <2>6. CASE RunForIn
    BY <2>6, RunForInInv
  <2>7. CASE RunClose
    BY <2>7, RunCloseInv
  <2>8. CASE RunBreak
    BY <2>8, RunBreakInv
  <2>9. CASE RunContinue
    BY <2>9, RunContinueInv
  <2>10. CASE RunReturn
    BY <2>10, RunReturnInv
  <2> QED
    BY <1>2, <2>1, <2>2, <2>3a, <2>3b, <2>3c, <2>3d, <2>4, <2>5, <2>6, <2>7,
       <2>8, <2>9, <2>10
       DEF RunNext
<1>3. CASE UNCHANGED vars
  BY <1>3, StutterInv
<1> QED
  BY <1>1, <1>2, <1>3 DEF Next

LEMMA InvHolds == Spec => []Inv
<1>1. Init => Inv
  BY InitInv
<1>2. Inv /\ [Next]_vars => Inv'
  BY NextInv
<1> QED
  BY <1>1, <1>2, PTL DEF Spec

(* Analysis marks a variable when its String is handed on and refuses what *)
(* reads it later in the text: then no path the generated code can take    *)
(* through the body reads a String after it was handed on, but for a loop  *)
(* that repeats the move, a read deferred over it, or a constant.          *)
THEOREM MovesAreEnforced == Spec => []MovesEnforced
<1>1. Inv => MovesEnforced
  BY DEF Inv
<1> QED
  BY <1>1, InvHolds, PTL

(* The drops at the ends of the blocks, with arms not taken, loops run     *)
(* again and jumps out of blocks: each variable is dropped once, after its *)
(* declaration and its last read, a body that ran without a jump has left  *)
(* none of its own undropped, and no buffer is freed twice or read after   *)
(* it was freed but through a variable that shares it.                     *)
THEOREM DropsAreSound == Spec => []DropsSound
<1>1. Inv => DropsSound
  BY DEF Inv, DropsSound, BuffersSound
<1> QED
  BY <1>1, InvHolds, PTL

====
