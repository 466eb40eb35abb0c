----------------------------- MODULE StringRuntime -----------------------------
(***************************************************************************)
(* Strings at run time: the functions of runtime.c on String buffers and   *)
(* str values, called by compiled functions that open and close scopes,    *)
(* push and pop arenas, move, drop and return Strings the way the code     *)
(* generator has them do it.  The program is chosen as it runs, among      *)
(* those semantic analysis accepts; loops and branches add nothing but     *)
(* repetition here, and are left out.                                      *)
(***************************************************************************)
EXTENDS StringArena, SequencesExt

CONSTANTS
  SsoMax,        \* TYNA_SSO_MAX_LEN: a str of at most this length has no memory
  BufInitial,    \* the capacity String.new() starts with (16)
  Capacities,    \* bound: the capacities Strings are declared with
  Pieces,        \* bound: lengths of the constant str values pushed
  Globals,       \* bound: String variables at the top level of the file
  MaxLen,        \* bound: length of a String
  MaxVars,       \* bound: String variables alive
  MaxStrs,       \* bound: str values held that point to memory
  MaxScopes,     \* bound: scopes open, the global one included
  MaxArenas      \* bound: arenas on the stack

ASSUME RuntimeAssumption ==
  /\ SsoMax \in Nat /\ BufInitial \in Nat \ {0} /\ Pieces \subseteq Nat \ {0}
  /\ Capacities \subseteq Nat \ {0} /\ Globals \in Nat
  /\ MaxLen \in Nat /\ MaxVars \in Nat /\ MaxStrs \in Nat /\ MaxScopes \in Nat
  /\ MaxArenas \in Nat

VARIABLES
  vars,      \* Seq of the String variables, those of inner scopes last
  scopes,    \* Seq of the scopes open, the global one first
  strs,      \* the str values the program holds that point to memory
  fault,     \* the first access to freed memory, or "no": the end
  risks      \* history: what the program did that analysis lets pass and
             \*   the runtime does not provide for

stringVars == <<memVars, vars, scopes, strs, fault, risks>>

(* TynaStringBuf.                                                          *)
Buffer == [data : Pointer, len : Nat, cap : Nat]
Empty == [data |-> Null, len |-> 0, cap |-> 0]

(* moved is analysis' is_moved: the variable may not be used again, and is *)
(* dropped all the same.                                                   *)
Variable == [buf : Buffer, level : Nat, moved : BOOLEAN]

(* A function's outermost scope, which owns its parameters, or a block;    *)
(* arena is the function's requires_arena.                                 *)
Scope == [kind : {"root", "fn", "block"}, arena : BOOLEAN]

Str == [ptr : Pointer, len : Nat]

Faults == {"no", "use after free", "double free"}

(* copied: a String of the heap was moved, so two variables hold it.       *)
(* aliased: a function returned a global String.  viewed: a str was made   *)
(* that points into a String.  self push: a String was pushed to itself.   *)
(* escaped: a global String took memory of an arena.  no push: an arena    *)
(* could not be pushed.  no pop: `?` left a function with an arena.        *)
(* early exit, emptied, overwritten: a String of the heap was left by a    *)
(* jump, turned into a str when it was empty, or assigned to.              *)
Risks == {"copied", "aliased", "viewed", "self push", "escaped", "no push",
          "no pop", "early exit", "emptied", "overwritten"}

TypeOK ==
  /\ ArenaTypeOK
  /\ vars \in Seq(Variable)
  /\ scopes \in Seq(Scope) \ {<<>>}
  /\ strs \subseteq Str
  /\ fault \in Faults
  /\ risks \subseteq Risks

(* The global Strings are as a declaration without a value leaves them.    *)
Init ==
  /\ ArenaInit
  /\ vars = [i \in 1 .. Globals |->
               [buf |-> Empty, level |-> 1, moved |-> FALSE]]
  /\ scopes = <<[kind |-> "root", arena |-> FALSE]>>
  /\ strs = {}
  /\ fault = "no"
  /\ risks = {}

-------------------------------------------------------------------------------
Level == Len(scopes)
Running == fault = "no"
InFunction == Level > 1

IsNull(p) == p.chunk = 0

(* Memory of the heap that the holder of p has to free.                    *)
OnHeap(p) == ~IsNull(p) /\ ~Owns(mem, p)

(* The outermost scope of the function running.                            *)
FnLevel == Max({l \in DOMAIN scopes : scopes[l].kind # "block"})

(* What a function reaches: globals, its own variables and, by a           *)
(* ptr<String>, those of its caller: a function with such a parameter has  *)
(* no arena (sema_fn_decl_can_use_arena).                                  *)
Reachable(level) ==
  level = 1 \/ \A l \in DOMAIN scopes : scopes[l].arena => l <= level

Usable(i) ==
  /\ Running /\ Level > 1
  /\ i \in DOMAIN vars
  /\ ~vars[i].moved
  /\ Reachable(vars[i].level)

Own(i) == vars[i].level >= FnLevel

-------------------------------------------------------------------------------
(* runtime.c: the outcomes of the operations on one buffer.                *)

Holding(m, buf) == [buf |-> buf, mem |-> m]

(* __tyna_string_with_capacity, and __tyna_string_new with 16.             *)
NewBuffer(m, cap) ==
  {Holding(o.mem, IF IsNull(o.ptr)
                    THEN Empty
                    ELSE [data |-> o.ptr, len |-> 0, cap |-> cap]) :
     o \in AllocBuffer(m, cap)}

(* The growth in __tyna_string_push.  A buffer of an arena is copied       *)
(* within the innermost arena; one of the heap is reallocated.             *)
GrownBuffer(m, buf, need) ==
  LET cap == Grown(buf.cap, need) IN
  {Holding(o.mem, IF IsNull(o.ptr)
                    THEN buf
                    ELSE [buf EXCEPT !.data = o.ptr, !.cap = cap]) :
     o \in IF Owns(m, buf.data) THEN AllocBuffer(m, cap)
                                ELSE Realloc(m, buf.data.chunk, cap + 1)}

(* __tyna_string_push on a buffer that has memory: the piece is read when  *)
(* the buffer has grown; without room for it the buffer stays as it is.    *)
Pushed(m, buf, piece) ==
  LET need == buf.len + piece.len IN
  {[buf |-> IF need > o.buf.cap THEN o.buf ELSE [o.buf EXCEPT !.len = need],
    mem |-> o.mem,
    ok |-> /\ Valid(m, buf.data)
           /\ IsNull(piece.ptr) \/ need > o.buf.cap \/ Valid(o.mem, piece.ptr)] :
     o \in IF need > buf.cap /\ Valid(m, buf.data)
             THEN GrownBuffer(m, buf, need) ELSE {Holding(m, buf)}}

(* __tyna_string_push: a buffer without memory is made anew first.         *)
string_push(buf, piece) ==
  IF ~IsNull(buf.data)
    THEN Pushed(mem, buf, piece)
    ELSE UNION {IF IsNull(o.buf.data)
                  THEN {[buf |-> o.buf, mem |-> o.mem, ok |-> TRUE]}
                  ELSE Pushed(o.mem, o.buf, piece) :
                  o \in NewBuffer(mem, BufInitial)}

(* A str of a copy: within the str itself, or of the heap.                 *)
CopiedStr(buf) ==
  IF buf.len <= SsoMax
    THEN {[ptr |-> Null, mem |-> mem]}
    ELSE Malloc(mem, buf.len + 1, buf.len + 1, 0)

Fails(why) == fault' = IF fault = "no" THEN why ELSE fault
Touches(ok) == fault' = IF ok THEN fault ELSE "use after free"

Add(str) == IF IsNull(str.ptr) THEN strs ELSE strs \cup {str}

RoomForStr == Cardinality(strs) < MaxStrs

Run(risk, did) == risks' = IF did THEN risks \cup {risk} ELSE risks

-------------------------------------------------------------------------------
(* Statements.                                                             *)

(* A declaration without a name: the value is in the innermost scope.      *)
Declared(buf) == [buf |-> buf, level |-> Level, moved |-> FALSE]

RoomForVar == Len(vars) < MaxVars

NewString(cap) ==
  /\ Running /\ Level > 1 /\ RoomForVar
  /\ \E o \in NewBuffer(mem, cap) :
       /\ mem' = o.mem
       /\ vars' = Append(vars, Declared(o.buf))
  /\ UNCHANGED <<height, scopes, strs, fault, risks>>

(* s.push(piece).  A String given for the str parameter is a view of its   *)
(* buffer.                                                                 *)
Push(i, piece) ==
  LET buf == vars[i].buf IN
  /\ Usable(i)
  /\ buf.len + piece.len <= MaxLen
  /\ \E o \in string_push(buf, piece) :
       /\ mem' = o.mem
       /\ vars' = [vars EXCEPT ![i].buf = o.buf]
       /\ Touches(o.ok)
       /\ risks' = risks \cup
            (IF ~IsNull(piece.ptr) /\ piece.ptr = buf.data
               THEN {"self push"} ELSE {}) \cup
            (IF vars[i].level = 1 /\ height > 0 THEN {"escaped"} ELSE {})
  /\ UNCHANGED <<height, scopes, strs>>

PushConstant(i) == \E n \in Pieces : Push(i, [ptr |-> Null, len |-> n])

PushStr(i) == \E str \in strs : Push(i, str)

PushString(i, j) ==
  /\ Usable(j)
  /\ vars[j].buf.len > 0
  /\ Push(i, [ptr |-> vars[j].buf.data, len |-> vars[j].buf.len])

(* s.into_str().  The variable is moved; behind a pointer it is the        *)
(* pointer that is, and a global may be used by the functions before.      *)
Emptied(i) ==
  [vars EXCEPT ![i].buf = Empty, ![i].moved = Own(i)]

IntoStrEmpty(i) ==
  LET buf == vars[i].buf IN
  /\ Usable(i)
  /\ buf.len = 0
  /\ vars' = Emptied(i)
  /\ Run("emptied", OnHeap(buf.data))
  /\ UNCHANGED <<memVars, scopes, strs, fault>>

(* Mutant: a buffer of the heap is not freed.                              *)
IntoStrShortUnfreed(i) ==
  LET buf == vars[i].buf IN
  /\ Usable(i)
  /\ buf.len \in 1 .. SsoMax
  /\ vars' = Emptied(i)
  /\ UNCHANGED <<memVars, scopes, strs, fault, risks>>

(* Mutant: the variable keeps the buffer that is freed.                    *)
IntoStrShortUncleared(i) ==
  LET buf == vars[i].buf IN
  /\ Usable(i)
  /\ buf.len \in 1 .. SsoMax
  /\ mem' = IF Owns(mem, buf.data) THEN mem ELSE Freed(mem, {buf.data.chunk})
  /\ vars' = [vars EXCEPT ![i].moved = Own(i)]
  /\ UNCHANGED <<height, scopes, strs, fault, risks>>

(* Within the str itself; a buffer of the heap is freed.                   *)
IntoStrShort(i) ==
  LET buf == vars[i].buf IN
  /\ Usable(i)
  /\ buf.len \in 1 .. SsoMax
  /\ Touches(Valid(mem, buf.data))
  /\ mem' = IF Owns(mem, buf.data) THEN mem ELSE Freed(mem, {buf.data.chunk})
  /\ vars' = Emptied(i)
  /\ UNCHANGED <<height, scopes, strs, risks>>

(* Mutant: the memory of the arena is handed out.                          *)
IntoStrUncopied(i) ==
  LET buf == vars[i].buf IN
  /\ Usable(i)
  /\ buf.len > SsoMax /\ RoomForStr
  /\ strs' = Add([ptr |-> buf.data, len |-> buf.len])
  /\ vars' = Emptied(i)
  /\ UNCHANGED <<memVars, scopes, fault, risks>>

(* A buffer of an arena is copied to the heap, one of the heap handed over.*)
(* Without memory for the copy the buffer stays.                           *)
IntoStrLong(i) ==
  LET buf == vars[i].buf IN
  /\ Usable(i)
  /\ buf.len > SsoMax /\ RoomForStr
  /\ \E o \in IF Owns(mem, buf.data)
                THEN CopiedStr(buf) ELSE {[ptr |-> buf.data, mem |-> mem]} :
       /\ mem' = o.mem
       /\ strs' = Add([ptr |-> o.ptr, len |-> buf.len])
       /\ vars' = IF IsNull(o.ptr)
                    THEN [vars EXCEPT ![i].moved = Own(i)] ELSE Emptied(i)
  /\ UNCHANGED <<height, scopes, fault, risks>>

CloneStr(i) ==
  LET buf == vars[i].buf IN
  /\ Usable(i) /\ RoomForStr
  /\ buf.len > 0
  /\ Touches(Valid(mem, buf.data))
  /\ \E o \in CopiedStr(buf) :
       /\ mem' = o.mem
       /\ strs' = Add([ptr |-> o.ptr, len |-> buf.len])
  /\ UNCHANGED <<height, vars, scopes, risks>>

(* A function that returns its str parameter, called with a String.        *)
View(i) ==
  LET buf == vars[i].buf IN
  /\ Usable(i) /\ RoomForStr
  /\ buf.len > 0
  /\ strs' = Add([ptr |-> buf.data, len |-> buf.len])
  /\ Run("viewed", TRUE)
  /\ UNCHANGED <<memVars, vars, scopes, fault>>

(* let t = s: the pointer is copied and s is not cleared.  Analysis marks s *)
(* moved in the order of the text, which for a global is not that of       *)
(* execution: moves of globals are left out.                               *)
Move(i) ==
  /\ Usable(i) /\ Own(i) /\ RoomForVar
  /\ vars' = Append([vars EXCEPT ![i].moved = TRUE], Declared(vars[i].buf))
  /\ Run("copied", OnHeap(vars[i].buf.data))
  /\ UNCHANGED <<memVars, scopes, strs, fault>>

(* s = String.new(): what s held is not dropped.                           *)
Assign(i) ==
  /\ Usable(i)
  /\ \E o \in NewBuffer(mem, BufInitial) :
       /\ mem' = o.mem
       /\ vars' = [vars EXCEPT ![i].buf = o.buf]
  /\ risks' = risks \cup
       (IF OnHeap(vars[i].buf.data) THEN {"overwritten"} ELSE {}) \cup
       (IF vars[i].level = 1 /\ height > 0 THEN {"escaped"} ELSE {})
  /\ UNCHANGED <<height, scopes, strs, fault>>

-------------------------------------------------------------------------------
(* Scopes.                                                                 *)

RoomForScope == Level < MaxScopes

OpenBlock ==
  /\ Running /\ Level > 1 /\ RoomForScope
  /\ scopes' = Append(scopes, [kind |-> "block", arena |-> FALSE])
  /\ UNCHANGED <<memVars, vars, strs, fault, risks>>

(* A function without String parameters; __tyna_string_arena_push does     *)
(* nothing when there is no memory for the arena.                          *)
Call(arena, ok) ==
  /\ Running /\ RoomForScope
  /\ arena \/ ok
  /\ arena /\ ok => height < MaxArenas
  /\ scopes' = Append(scopes, [kind |-> "fn", arena |-> arena])
  /\ height' = IF arena /\ ok THEN height + 1 ELSE height
  /\ Run("no push", ~ok)
  /\ UNCHANGED <<mem, vars, strs, fault>>

(* f(s), for a parameter of type String: moved as by a declaration.        *)
CallWith(i) ==
  /\ Usable(i) /\ Own(i) /\ RoomForScope /\ RoomForVar
  /\ scopes' = Append(scopes, [kind |-> "fn", arena |-> FALSE])
  /\ vars' = Append([vars EXCEPT ![i].moved = TRUE],
                    [buf |-> vars[i].buf, level |-> Level + 1, moved |-> FALSE])
  /\ Run("copied", OnHeap(vars[i].buf.data))
  /\ UNCHANGED <<memVars, strs, fault>>

(* The variables of the scopes above a level are the last.                 *)
Above(level) == {i \in DOMAIN vars : vars[i].level > level}
Kept(level) == SubSeq(vars, 1, Len(vars) - Cardinality(Above(level)))

(* cg_emit_scope_drops: every variable of the scope, moved or not.         *)
ToFree(level) == {i \in Above(level) : OnHeap(vars[i].buf.data)}

Drop(level) ==
  LET chunk(i) == vars[i].buf.data.chunk IN
  /\ fault' = IF /\ \A i \in ToFree(level) : Valid(mem, vars[i].buf.data)
                 /\ \A i, j \in ToFree(level) : chunk(i) = chunk(j) => i = j
                THEN fault ELSE "double free"
  /\ vars' = Kept(level)

(* Mutant: the whole chain of scopes is dropped.                           *)
AfterDropsOfChain(level) ==
  Freed(mem, {vars[i].buf.data.chunk : i \in ToFree(1)})

AfterDrops(level) == Freed(mem, {vars[i].buf.data.chunk : i \in ToFree(level)})

CloseBlock ==
  /\ Running /\ Last(scopes).kind = "block"
  /\ Drop(Level - 1)
  /\ mem' = AfterDrops(Level - 1)
  /\ scopes' = Front(scopes)
  /\ UNCHANGED <<height, strs, risks>>

(* The end of a function's body: drops, then __tyna_string_arena_pop.      *)
FallOff ==
  /\ Running /\ Last(scopes).kind = "fn"
  /\ Drop(Level - 1)
  /\ scopes' = Front(scopes)
  /\ IF Last(scopes).arena
       THEN mem' = Popped(AfterDrops(Level - 1)) /\ height' = PoppedHeight
       ELSE mem' = AfterDrops(Level - 1) /\ UNCHANGED height
  /\ UNCHANGED <<strs, risks>>

LeavesHeap(kept) ==
  \E i \in Above(FnLevel - 1) \ kept : OnHeap(vars[i].buf.data)

(* Mutant: the arena is not popped.                                        *)
ReturnUnpopped ==
  /\ Running /\ Level > 1
  /\ scopes' = SubSeq(scopes, 1, FnLevel - 1)
  /\ vars' = Kept(FnLevel - 1)
  /\ Run("early exit", LeavesHeap({}))
  /\ UNCHANGED <<memVars, strs, fault>>

(* return, of no String: the arena is popped and nothing is dropped.       *)
Return ==
  /\ Running /\ Level > 1
  /\ scopes' = SubSeq(scopes, 1, FnLevel - 1)
  /\ vars' = Kept(FnLevel - 1)
  /\ IF scopes[FnLevel].arena
       THEN mem' = Popped(mem) /\ height' = PoppedHeight
       ELSE UNCHANGED memVars
  /\ Run("early exit", LeavesHeap({}))
  /\ UNCHANGED <<strs, fault>>

(* The error of `result?`: not even the arena is popped.                   *)
Try ==
  /\ Running /\ Level > 1
  /\ scopes' = SubSeq(scopes, 1, FnLevel - 1)
  /\ vars' = Kept(FnLevel - 1)
  /\ risks' = risks \cup (IF LeavesHeap({}) THEN {"early exit"} ELSE {})
                    \cup (IF scopes[FnLevel].arena THEN {"no pop"} ELSE {})
  /\ UNCHANGED <<memVars, strs, fault>>

(* return s, and let t = f() in the caller.  A function that returns a     *)
(* String has no arena.                                                    *)
ReturnString(i) ==
  /\ Usable(i) /\ ~scopes[FnLevel].arena /\ FnLevel > 2
  /\ Own(i) \/ vars[i].level = 1
  /\ scopes' = SubSeq(scopes, 1, FnLevel - 1)
  /\ vars' = Append(Kept(FnLevel - 1),
                    [buf |-> vars[i].buf, level |-> FnLevel - 1,
                     moved |-> FALSE])
  /\ Len(vars') <= MaxVars
  /\ risks' = risks \cup (IF LeavesHeap({i}) THEN {"early exit"} ELSE {})
                    \cup (IF vars[i].level = 1 THEN {"aliased"} ELSE {})
  /\ UNCHANGED <<memVars, strs, fault>>

Next ==
  \/ \E cap \in Capacities : NewString(cap)
  \/ \E i \in DOMAIN vars :
       \/ PushConstant(i) \/ PushStr(i)
       \/ \E j \in DOMAIN vars : PushString(i, j)
       \/ IntoStrEmpty(i) \/ IntoStrShort(i) \/ IntoStrLong(i)
       \/ CloneStr(i) \/ View(i) \/ Move(i) \/ Assign(i)
       \/ CallWith(i) \/ ReturnString(i)
  \/ \E arena, ok \in BOOLEAN : Call(arena, ok)
  \/ OpenBlock \/ CloseBlock \/ FallOff \/ Return \/ Try

Spec == Init /\ [][Next]_stringVars
-------------------------------------------------------------------------------
(***************************************************************************)
(* Properties.                                                             *)
(***************************************************************************)

(* Every block of an arena is of an arena on the stack, and grants no more *)
(* than it has.                                                            *)
ArenasSound ==
  \A c \in DOMAIN mem :
    /\ mem[c].used <= mem[c].size
    /\ mem[c].live => mem[c].arena <= height

(* A String fits its memory, terminator included, and no other String that *)
(* may still be used lies in any byte of it, whatever shares the block.    *)
Extent(buf) == buf.data.off .. buf.data.off + buf.cap
Held == {i \in DOMAIN vars : ~vars[i].moved /\ Valid(mem, vars[i].buf.data)}

Fits(buf) ==
  /\ buf.len <= buf.cap
  /\ buf.data.off + buf.cap < mem[buf.data.chunk].used

BuffersApart ==
  /\ \A i \in Held : Fits(vars[i].buf)
  /\ \A i, j \in Held :
       i # j /\ vars[i].buf.data.chunk = vars[j].buf.data.chunk =>
         Extent(vars[i].buf) \cap Extent(vars[j].buf) = {}

(* The memory behind every String is there, and its own: blocks are those  *)
(* of arenas that run and grant no more than they have, and no two Strings *)
(* share a byte.  Of two Strings that are one, the memory one grows or     *)
(* shrinks is the other's.                                                 *)
HeapSound ==
  TypeOK /\ ArenasSound /\ ("aliased" \notin risks => BuffersApart)

(* A function with an arena has one of its own on the stack as long as it  *)
(* runs, and what it pops is no arena of a function it returns to.         *)
ArenasOf(level) == Cardinality({l \in 1 .. level : scopes[l].arena})

ArenasMatch ==
  /\ "no push" \notin risks => height >= ArenasOf(Level)
  /\ risks \cap {"no push", "no pop"} = {} => height = ArenasOf(Level)

(* A String that may still be used has its memory: no pop and no drop took *)
(* it away.                                                                *)
LiveBuffers ==
  risks \cap {"copied", "aliased", "escaped", "no push"} = {} =>
    \A i \in DOMAIN vars :
      ~vars[i].moved /\ ~IsNull(vars[i].buf.data) => Valid(mem, vars[i].buf.data)

(* A str never loses its memory unless it is a view of a String: whatever  *)
(* arenas are popped, the text a String was turned into is still there.    *)
LiveStrs ==
  risks \cap {"copied", "aliased", "viewed", "escaped", "no push"} = {} =>
    \A str \in strs : Valid(mem, str.ptr)

(* Whatever is dropped and popped, and in what order, every String and     *)
(* every str that the program may still use has its memory.                *)
LiveData == LiveBuffers /\ LiveStrs

(* No freed memory is touched, and none is freed twice, by a program that  *)
(* does none of these.                                                     *)
MemorySafe ==
  fault # "no" =>
    risks \cap {"copied", "aliased", "viewed", "self push", "escaped", "no push"}
      # {}

(* Memory of the heap that no variable and no str leads to was left by a   *)
(* jump, by into_str() of an empty String, or by an assignment.            *)
NothingLost ==
  Running /\ risks \cap {"early exit", "emptied", "overwritten", "copied", "aliased"} = {} =>
    \A c \in DOMAIN mem :
      mem[c].live /\ mem[c].arena = 0 =>
        \/ \E i \in DOMAIN vars : vars[i].buf.data.chunk = c
        \/ \E str \in strs : str.ptr.chunk = c
===============================================================================
