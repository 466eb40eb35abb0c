------------------------------ MODULE StringArena ------------------------------
(***************************************************************************)
(* The memory strings live in (runtime.c): the C heap and, on top of it,   *)
(* the stack of arenas.  A chunk is one result of malloc; its index is its *)
(* address, so two chunks never overlap and a pointer is a chunk and an    *)
(* offset.  A chunk with arena = 0 was handed to the caller; one with      *)
(* arena = a is a block of the a-th arena on the stack, of which the first *)
(* `used` bytes are granted.  The block an arena grants from is the one it *)
(* allocated last.                                                         *)
(*                                                                         *)
(* An operation that may fail for want of memory is the set of its         *)
(* outcomes.  The blocks' and arenas' own headers are not modelled apart   *)
(* from the failure to allocate one.                                       *)
(***************************************************************************)
EXTENDS Integers, Sequences, FiniteSets, FiniteSetsExt, Doubling

CONSTANTS
  ArenaInitial,    \* capacity of the first block of an arena (4096)
  MaxChunks        \* bound: results of malloc; no further one succeeds

ASSUME ArenaAssumption == ArenaInitial \in Nat \ {0} /\ MaxChunks \in Nat

VARIABLES
  mem,       \* Seq of chunks: all that malloc ever returned
  height     \* the number of arenas on the stack of tyna_current_arena

memVars == <<mem, height>>

Chunk == [size : Nat, used : Nat, arena : Nat, live : BOOLEAN]

Pointer == [chunk : Nat, off : Nat]
Null == [chunk |-> 0, off |-> 0]

ArenaTypeOK == mem \in Seq(Chunk) /\ height \in Nat

ArenaInit == mem = <<>> /\ height = 0

-------------------------------------------------------------------------------
(* A pointer that may be dereferenced.                                     *)
Valid(m, p) == p.chunk \in DOMAIN m /\ m[p.chunk].live

(* tyna_string_arena_owns: within a block of an arena on the stack.        *)
Owns(m, p) == Valid(m, p) /\ m[p.chunk].arena \in 1 .. height

(* The outcome of an allocation that fails.                                *)
Failed(m) == [ptr |-> Null, mem |-> m]

(* malloc of a chunk, its first `used` bytes taken.                        *)
Malloc(m, size, used, arena) ==
  {Failed(m)} \cup
  IF Len(m) < MaxChunks
    THEN {[ptr |-> [chunk |-> Len(m) + 1, off |-> 0],
           mem |-> Append(m, [size |-> size, used |-> used,
                              arena |-> arena, live |-> TRUE])]}
    ELSE {}

(* The blocks of the innermost arena.                                      *)
Blocks(m) == {c \in DOMAIN m : m[c].live /\ m[c].arena = height}

(* tyna_string_arena_alloc.  A chunk of the heap is all taken.             *)
ArenaAlloc(m, size) ==
  LET current == Max(Blocks(m))
      used == m[current].used
  IN
    IF height = 0
      THEN Malloc(m, size, size, 0)
    ELSE IF Blocks(m) = {}
      THEN Malloc(m, Max({ArenaInitial, size}), size, height)
    ELSE IF size > m[current].size - used
      THEN Malloc(m, Grown(m[current].size, used + size), size, height)
    ELSE {[ptr |-> [chunk |-> current, off |-> used],
           mem |-> [m EXCEPT ![current].used = used + size]]}

(* Mutant: the byte for the terminator is forgotten.                       *)
AllocBufferUnterminated(m, cap) == ArenaAlloc(m, cap)

(* __tyna_string_alloc_buffer: a byte more than the capacity, for the      *)
(* terminator.                                                             *)
AllocBuffer(m, cap) == ArenaAlloc(m, cap + 1)

(* What is left of a chunk once freed: its address, which is not reused.   *)
FreedChunk == [size |-> 0, used |-> 0, arena |-> 0, live |-> FALSE]

(* realloc, of a chunk of the heap: where it is, or elsewhere.             *)
Realloc(m, c, size) ==
  {Failed(m), [ptr |-> [chunk |-> c, off |-> 0],
               mem |-> [m EXCEPT ![c].size = size, ![c].used = size]]} \cup
  {[ptr |-> o.ptr, mem |-> [o.mem EXCEPT ![c] = FreedChunk]] :
     o \in Malloc(m, size, size, 0) \ {Failed(m)}}

(* free of any number of chunks.                                           *)
Freed(m, chunks) ==
  [c \in DOMAIN m |-> IF c \in chunks THEN FreedChunk ELSE m[c]]

(* What __tyna_string_arena_pop leaves of the memory.                      *)
Popped(m) == Freed(m, IF height = 0 THEN {} ELSE Blocks(m))

PoppedHeight == IF height = 0 THEN 0 ELSE height - 1
===============================================================================
