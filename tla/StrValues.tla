------------------------------- MODULE StrValues -------------------------------
(***************************************************************************)
(* str values and what a program does with them: the functions of          *)
(* runtime.c on String, and the loops and comparisons the code generator   *)
(* emits.  Next to every str is the text it should be, by the meaning of   *)
(* the operation that made it.                                             *)
(***************************************************************************)
EXTENDS SmallStr, FiniteSetsExt, Doubling

CONSTANTS
  Literals,         \* the sequence of string literals of the program
  InternInitial,    \* capacity the intern arena starts with (4096)
  PoolCapacity,     \* INTERN_POOL_CAPACITY (1024)
  MaxLen,           \* bound: length of a text
  MaxStrs,          \* bound: str values made
  MaxBlocks         \* bound: blocks of memory; no malloc succeeds after

ASSUME StrValuesAssumption ==
  /\ Literals \in Seq(Text) /\ InternInitial \in Nat \ {0}
  /\ PoolCapacity \in Nat /\ MaxLen \in Nat /\ MaxStrs \in Nat
  /\ MaxBlocks \in Nat

VARIABLES
  blocks,    \* Seq of the blocks of memory with text, the literals first
  strs,      \* Seq of the str values made, each with its text
  pool,      \* intern_pool.pool
  arena,     \* global_intern_arena: the block and its capacity; 0 is none
  seen,      \* what the program was last told of a str
  ended,     \* the program was aborted
  risks      \* history: what was done that the runtime does not provide for

strVars == <<blocks, strs, pool, arena, seen, ended, risks>>

Block == [bytes : Text, live : BOOLEAN]

(* A str that points to memory; block 0 is NULL.                           *)
Long == [kind : {"long"}, block : Nat, off : Nat, len : Nat]
Null == [kind |-> "long", block |-> 0, off |-> 0, len |-> 0]
At(block, off, len) ==
  [kind |-> "long", block |-> block, off |-> off, len |-> len]

Str == Small \cup Long

(* equals: whether the strs were found equal, and whether their texts are. *)
(* for in: whether the loop visited the text, and whether the str does not *)
(* hold its text in itself.                                                *)
Seen == [of : {"nothing", "equals", "for in"}, said : BOOLEAN, right : BOOLEAN]
Nothing == [of |-> "nothing", said |-> TRUE, right |-> TRUE]

(* full: a text of SsoMax bytes was put into a str.  sliced: bytes were    *)
(* cut off the front of a str that holds its text.  prefix: two strs were  *)
(* compared by the pointer words that hold their texts.  no memory: a text *)
(* was lost for want of memory.  moved: the intern arena was.              *)
Risks == {"full", "sliced", "prefix", "no memory", "moved"}

TypeOK ==
  /\ blocks \in Seq(Block)
  /\ strs \in Seq([str : Str, text : Text])
  /\ pool \in Seq(Long)
  /\ arena \in [block : Nat, cap : Nat]
  /\ seen \in Seen
  /\ ended \in BOOLEAN
  /\ risks \subseteq Risks

(* Every literal is a global of its own, with a terminator.                *)
Init ==
  /\ blocks = [k \in DOMAIN Literals |->
                 [bytes |-> Append(Literals[k], 0), live |-> TRUE]]
  /\ strs = <<>>
  /\ pool = <<>>
  /\ arena = [block |-> 0, cap |-> 0]
  /\ seen = Nothing
  /\ ended = FALSE
  /\ risks = {}

-------------------------------------------------------------------------------
Alive(s) == s.kind = "long" /\ s.len > 0 => blocks[s.block].live

(* tyna_str_data and tyna_str_real_len: the text a str is read as.         *)
Content(s) ==
  IF s.kind = "small" THEN Unpacked(s)
  ELSE IF s.block = 0 THEN <<>>
  ELSE SubSeq(blocks[s.block].bytes, s.off + 1, s.off + s.len)

Malloc(bytes) ==
  IF Len(blocks) < MaxBlocks
    THEN {[blocks |-> Append(blocks, [bytes |-> bytes, live |-> TRUE]),
           at |-> Len(blocks) + 1]}
    ELSE {}

(* A str of these bytes: in itself, or copied to the heap.                 *)
tyna_str_from_buffer(bytes) ==
  IF Len(bytes) <= SsoMax
    THEN {[str |-> Packed(bytes), blocks |-> blocks, risks |->
             IF Len(bytes) = SsoMax THEN {"full"} ELSE {}]}
    ELSE {[str |-> Null, blocks |-> blocks, risks |-> {"no memory"}]} \cup
         {[str |-> At(o.at, 0, Len(bytes)), blocks |-> o.blocks, risks |-> {}] :
            o \in Malloc(Append(bytes, 0))}

Running == ~ended
Room == Running /\ Len(strs) < MaxStrs
Usable(i) == i \in DOMAIN strs /\ Alive(strs[i].str)

Makes(str, text) ==
  /\ Len(text) <= MaxLen
  /\ strs' = Append(strs, [str |-> str, text |-> text])
  /\ seen' = Nothing

Literal(k) ==
  /\ Room
  /\ Makes(At(k, 0, Len(Literals[k])), Literals[k])
  /\ UNCHANGED <<blocks, pool, arena, ended, risks>>

(* a.concat(b)                                                             *)
Concat(i, j) ==
  /\ Room /\ Usable(i) /\ Usable(j)
  /\ \E o \in tyna_str_from_buffer(Content(strs[i].str) \o Content(strs[j].str)) :
       /\ Makes(o.str, strs[i].text \o strs[j].text)
       /\ blocks' = o.blocks
       /\ risks' = risks \cup o.risks
  /\ UNCHANGED <<pool, arena, ended>>

(* str::from_array(s.to_array()).  No bytes give no memory.                *)
ThroughArray(i) ==
  LET s == strs[i].str IN
  /\ Room /\ Usable(i)
  /\ \E o \in IF s.len = 0
                THEN {[str |-> Null, blocks |-> blocks, risks |-> {}]}
                ELSE tyna_str_from_buffer(Content(s)) :
       /\ Makes(o.str, strs[i].text)
       /\ blocks' = o.blocks
       /\ risks' = risks \cup o.risks
  /\ UNCHANGED <<pool, arena, ended>>

(* s.slice(start, end), which panics out of bounds.                        *)
SliceOf(s, start, end) ==
  IF s.kind = "small" THEN SlicedSmall(s, start, end)
  ELSE IF s.block = 0 THEN Null
  ELSE At(s.block, s.off + start, end - start)

Slice(i, start, end) ==
  LET s == strs[i].str IN
  /\ Room /\ Usable(i)
  /\ start <= end /\ end <= s.len /\ end <= Len(strs[i].text)
  /\ Makes(SliceOf(s, start, end), SubSeq(strs[i].text, start + 1, end))
  /\ risks' = IF s.kind = "small" /\ (start > 0 \/ end > LowBytes)
                THEN risks \cup {"sliced"} ELSE risks
  /\ UNCHANGED <<blocks, pool, arena, ended>>

-------------------------------------------------------------------------------
(* s.intern()                                                              *)

InPool(s) == {p \in DOMAIN pool : Content(pool[p]) = Content(s)}

ArenaFits(used, size) == used + size <= arena.cap

(* tyna_intern_arena_alloc: where the arena's block, with room for size    *)
(* bytes, is then.  Growing may move it.                                   *)
ArenaRoom(size) ==
  IF arena.block = 0
    THEN LET cap == IF InternInitial < size THEN size ELSE InternInitial IN
         {[blocks |-> o.blocks, arena |-> [block |-> o.at, cap |-> cap],
           moved |-> FALSE] : o \in Malloc(<<>>)}
  ELSE LET used == Len(blocks[arena.block].bytes) IN
    IF ArenaFits(used, size)
      THEN {[blocks |-> blocks, arena |-> arena, moved |-> FALSE]}
      ELSE LET cap == Grown(arena.cap, used + size) IN
           {[blocks |-> blocks, arena |-> [arena EXCEPT !.cap = cap],
             moved |-> FALSE]} \cup
           {[blocks |-> [o.blocks EXCEPT ![arena.block] =
                           [bytes |-> <<>>, live |-> FALSE]],
             arena |-> [block |-> o.at, cap |-> cap], moved |-> TRUE] :
              o \in Malloc(blocks[arena.block].bytes)}

Interns(i) == Room /\ Usable(i) /\ \A p \in DOMAIN pool : Alive(pool[p])

InternEmpty(i) ==
  /\ Interns(i)
  /\ strs[i].str.len = 0
  /\ Makes(Null, strs[i].text)
  /\ UNCHANGED <<blocks, pool, arena, ended, risks>>

InternFound(i) ==
  /\ Interns(i)
  /\ strs[i].str.len > 0
  /\ InPool(strs[i].str) # {}
  /\ Makes(pool[Min(InPool(strs[i].str))], strs[i].text)
  /\ UNCHANGED <<blocks, pool, arena, ended, risks>>

(* Mutant: the terminator is not counted.                                  *)
InternNewUnterminated(i) ==
  LET bytes == Content(strs[i].str) IN
  /\ Interns(i)
  /\ bytes # <<>> /\ InPool(strs[i].str) = {} /\ Len(pool) < PoolCapacity
  /\ \E o \in ArenaRoom(Len(bytes)) :
       LET at == At(o.arena.block, Len(o.blocks[o.arena.block].bytes), Len(bytes))
       IN
         /\ blocks' = [o.blocks EXCEPT ![o.arena.block].bytes = @ \o bytes]
         /\ arena' = o.arena
         /\ pool' = Append(pool, at)
         /\ Makes(at, strs[i].text)
         /\ risks' = IF o.moved THEN risks \cup {"moved"} ELSE risks
  /\ UNCHANGED ended

InternNew(i) ==
  LET bytes == Content(strs[i].str) IN
  /\ Interns(i)
  /\ bytes # <<>> /\ InPool(strs[i].str) = {} /\ Len(pool) < PoolCapacity
  /\ \E o \in ArenaRoom(Len(bytes) + 1) :
       LET at == At(o.arena.block, Len(o.blocks[o.arena.block].bytes), Len(bytes))
       IN
         /\ blocks' = [o.blocks EXCEPT ![o.arena.block].bytes = @ \o bytes \o <<0>>]
         /\ arena' = o.arena
         /\ pool' = Append(pool, at)
         /\ Makes(at, strs[i].text)
         /\ risks' = IF o.moved THEN risks \cup {"moved"} ELSE risks
  /\ UNCHANGED ended

(* The pool is full, or there is no memory: abort().                       *)
InternAborts(i) ==
  /\ Interns(i)
  /\ strs[i].str.len > 0 /\ InPool(strs[i].str) = {}
  /\ ended' = TRUE
  /\ seen' = Nothing
  /\ UNCHANGED <<blocks, strs, pool, arena, risks>>

-------------------------------------------------------------------------------
(* What the program is told.                                               *)

(* The pointer words are the same, whatever they hold.                     *)
SamePointer(a, b) ==
  /\ a.kind = b.kind
  /\ IF a.kind = "small" THEN a.low = b.low
                         ELSE a.block = b.block /\ a.off = b.off

(* Mutant: the bytes are not compared.                                     *)
equals_by_pointer(a, b) == a.len = b.len /\ SamePointer(a, b)

str_equals(a, b) ==
  /\ a.len = b.len
  /\ SamePointer(a, b) \/ Content(a) = Content(b)

Equals(i, j) ==
  LET a == strs[i].str  b == strs[j].str IN
  /\ Running /\ Usable(i) /\ Usable(j)
  /\ seen' = [of |-> "equals", said |-> str_equals(a, b),
              right |-> strs[i].text = strs[j].text]
  /\ risks' = IF a.kind = "small" /\ b.kind = "small" /\ SamePointer(a, b)
                THEN risks \cup {"prefix"} ELSE risks
  /\ UNCHANGED <<blocks, strs, pool, arena, ended>>

(* for (c in s): as many bytes as the length word says, from where the     *)
(* pointer word points; a str that holds its text points nowhere.          *)
Visits(s, text) ==
  IF s.kind = "long" THEN Content(s) = text
                     ELSE s.len = 0 /\ text = <<>>

ForIn(i) ==
  /\ Running /\ Usable(i)
  /\ seen' = [of |-> "for in", said |-> Visits(strs[i].str, strs[i].text),
              right |-> strs[i].str.kind = "long"]
  /\ UNCHANGED <<blocks, strs, pool, arena, ended, risks>>

Next ==
  \/ \E k \in DOMAIN Literals : Literal(k)
  \/ \E i \in DOMAIN strs :
       \/ \E j \in DOMAIN strs : Concat(i, j) \/ Equals(i, j)
       \/ \E start, end \in 0 .. MaxLen : Slice(i, start, end)
       \/ ThroughArray(i) \/ ForIn(i)
       \/ InternEmpty(i) \/ InternFound(i) \/ InternNew(i) \/ InternAborts(i)

Spec == Init /\ [][Next]_strVars
-------------------------------------------------------------------------------
(***************************************************************************)
(* Properties.                                                             *)
(***************************************************************************)

(* However a str was put together, cut and packed, it is read as the text  *)
(* it stands for.                                                          *)
TextsKept ==
  risks \cap {"full", "sliced", "no memory", "moved"} = {} =>
    \A i \in DOMAIN strs :
      Alive(strs[i].str) /\ Content(strs[i].str) = strs[i].text

(* Nothing but a failed malloc changes the length of a str.                *)
LengthsKept ==
  "no memory" \notin risks =>
    \A i \in DOMAIN strs : strs[i].str.len = Len(strs[i].text)

(* What a program sees of its strs are their texts.  Two strs of one text  *)
(* are never told apart, and two of different texts are unless both are    *)
(* compared by their pointer words alone; a loop visits the text, wherever *)
(* cuts and interning left it, unless the str holds its text in itself.    *)
SeenAsTexts ==
  risks \cap {"full", "sliced", "no memory", "moved"} = {} =>
    CASE seen.of = "equals" ->
           /\ seen.right => seen.said
           /\ seen.said /\ "prefix" \notin risks => seen.right
      [] seen.of = "for in" -> seen.right => seen.said
      [] OTHER -> TRUE

(* A text is interned once, so that pointers decide equality, and it ends  *)
(* where C expects it to, until the arena moves.                           *)
InternedOnce ==
  "moved" \notin risks =>
    \A p \in DOMAIN pool :
      LET bytes == blocks[pool[p].block].bytes
          end == pool[p].off + pool[p].len + 1
      IN
        /\ Alive(pool[p])
        /\ end \in DOMAIN bytes /\ bytes[end] = 0
        /\ \A q \in DOMAIN pool : Content(pool[p]) = Content(pool[q]) => p = q

(* What is written to the intern arena is within its capacity.             *)
InternFits ==
  arena.block # 0 => Len(blocks[arena.block].bytes) <= arena.cap

(* A str keeps both the text and the length it was made with, through      *)
(* concat, slice, arrays and intern.                                       *)
ValuesKept == TextsKept /\ LengthsKept

(* Pool and arena hold together: one entry for a text, within the arena    *)
(* and terminated.                                                         *)
PoolSound == TypeOK /\ InternedOnce /\ InternFits
===============================================================================
