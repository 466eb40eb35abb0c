-------------------------- MODULE StringRuntimeProofs --------------------------
(***************************************************************************)
(* What is proved of Strings at run time, for every number of variables,   *)
(* scopes, arenas and results of malloc: the memory behind a String or str *)
(* is there and its own as long as the program may use it.                 *)
(***************************************************************************)
EXTENDS StringRuntime, FiniteSetTheorems, SequenceTheorems, TLAPS

(***************************************************************************)
(* Sequences and the largest of a set of positions.                        *)
(***************************************************************************)
LEMMA PrefixFacts ==
  ASSUME NEW S, NEW s \in Seq(S), NEW n \in 0 .. Len(s)
  PROVE  /\ SubSeq(s, 1, n) \in Seq(S)
         /\ Len(SubSeq(s, 1, n)) = n
         /\ DOMAIN SubSeq(s, 1, n) = 1 .. n
         /\ \A i \in 1 .. n : SubSeq(s, 1, n)[i] = s[i]
<1>1. \A i \in 1 .. n : s[i] \in S
  OBVIOUS
<1> QED
  BY <1>1, SubSeqProperties

LEMMA AppendFacts ==
  ASSUME NEW S, NEW s \in Seq(S), NEW e \in S
  PROVE  /\ Append(s, e) \in Seq(S)
         /\ DOMAIN Append(s, e) = 1 .. Len(s) + 1
         /\ Len(Append(s, e)) = Len(s) + 1
         /\ Append(s, e)[Len(s) + 1] = e
         /\ \A i \in 1 .. Len(s) : Append(s, e)[i] = s[i]
  OBVIOUS

LEMMA ExceptFacts ==
  ASSUME NEW S, NEW s \in Seq(S), NEW i \in DOMAIN s, NEW e \in S
  PROVE  /\ [s EXCEPT ![i] = e] \in Seq(S)
         /\ DOMAIN [s EXCEPT ![i] = e] = DOMAIN s
         /\ Len([s EXCEPT ![i] = e]) = Len(s)
         /\ [s EXCEPT ![i] = e][i] = e
         /\ \A j \in DOMAIN s : j # i => [s EXCEPT ![i] = e][j] = s[j]
  OBVIOUS

LEMMA SequenceOf ==
  ASSUME NEW S, NEW n \in Nat, NEW f \in [1 .. n -> S]
  PROVE  f \in Seq(S) /\ Len(f) = n
  OBVIOUS

LEMMA MaxFacts ==
  ASSUME NEW n \in Nat, NEW S \in SUBSET (1 .. n), S # {}
  PROVE  Max(S) \in S /\ \A y \in S : Max(S) >= y
<1> DEFINE T == {t \in Nat : n - t \in S}
           R == OpToRel(<, Nat)
<1>1. T \subseteq Nat /\ T # {}
  <2>1. PICK x \in S : TRUE
    OBVIOUS
  <2>2. n - x \in Nat /\ n - (n - x) = x
    BY <2>1
  <2> QED
    BY <2>1, <2>2
<1>2. IsWellFoundedOn(R, Nat)
  BY NatLessThanWellFounded
<1>3. \A x, y \in Nat : y < x => <<y, x>> \in R
  BY DEF OpToRel
<1> HIDE DEF R
<1>4. PICK m \in T : \A y \in T : ~ (<<y, m>> \in R)
  BY <1>1, <1>2, WFMin
<1>5. \A y \in T : ~ (y < m)
  BY <1>1, <1>3, <1>4
<1>6. n - m \in S
  OBVIOUS
<1>7. ASSUME NEW y \in S
      PROVE  n - m >= y
  <2>1. n - y \in T /\ y \in Nat
    OBVIOUS
  <2>2. ~ (n - y < m) /\ m \in Nat
    BY <2>1, <1>5
  <2> QED
    BY <2>1, <2>2
<1> QED
  BY <1>6, <1>7 DEF Max

(* A capacity that has grown suffices.                                     *)
LEMMA GrownFacts ==
  ASSUME NEW cap, NEW need \in Nat \ {0}
  PROVE  Grown(cap, need) \in Nat /\ Grown(cap, need) >= need
<1> DEFINE D == need .. 2 * need - 1
           P(c) == \A d \in D : IsDoubled(cap, d) => IsDoubled(cap, c)
<1>1. \E c \in D : P(c)
  <2>1. CASE \E d \in D : IsDoubled(cap, d)
    BY <2>1
  <2>2. CASE ~ \E d \in D : IsDoubled(cap, d)
    <3>1. need \in D
      OBVIOUS
    <3> QED
      BY <2>2, <3>1
  <2> QED
    BY <2>1, <2>2
<1>2. Grown(cap, need) = CHOOSE c \in D : P(c)
  BY DEF Grown
<1>3. Grown(cap, need) \in D
  <2> HIDE DEF D, P
  <2> QED
    BY <1>1, <1>2
<1> QED
  BY <1>3

(***************************************************************************)
(* Memory.  Granted: m became n, in which p is `size` bytes of a chunk of  *)
(* arena a that were nobody's; of the other chunks, but for those that are *)
(* gone, nothing was taken.                                                *)
(***************************************************************************)
MemOK(m, h) ==
  /\ m \in Seq(Chunk)
  /\ \A c \in DOMAIN m : m[c].used <= m[c].size
                         /\ (m[c].live => m[c].arena <= h)

LEMMA ChunkFacts ==
  ASSUME NEW m \in Seq(Chunk)
  PROVE  /\ Len(m) \in Nat /\ DOMAIN m = 1 .. Len(m)
         /\ \A c \in DOMAIN m :
              /\ m[c] \in Chunk /\ m[c].used \in Nat /\ m[c].size \in Nat
              /\ m[c].arena \in Nat /\ m[c].live \in BOOLEAN
<1>1. \A c \in DOMAIN m : m[c] \in Chunk
  OBVIOUS
<1> QED
  BY <1>1 DEF Chunk

LEMMA UsedFacts ==
  ASSUME NEW k \in Chunk, NEW u \in Nat
  PROVE  /\ [k EXCEPT !.used = u] \in Chunk
         /\ [k EXCEPT !.used = u].used = u
         /\ [k EXCEPT !.used = u].size = k.size
         /\ [k EXCEPT !.used = u].arena = k.arena
         /\ [k EXCEPT !.used = u].live = k.live
  BY DEF Chunk

Kin(m, n, c) ==
  /\ c \in DOMAIN n
  /\ n[c].arena = m[c].arena /\ n[c].live = m[c].live
  /\ n[c].used >= m[c].used

Granted(m, n, p, size, a, gone) ==
  /\ MemOK(n, height) /\ Len(m) <= Len(n)
  /\ \A c \in DOMAIN m \ gone : Kin(m, n, c)
  /\ p \in Pointer /\ p.chunk \in DOMAIN n
  /\ n[p.chunk].live /\ n[p.chunk].arena = a
  /\ p.off + size <= n[p.chunk].used
  /\ p.chunk \in DOMAIN m \ gone =>
       a # 0 /\ m[p.chunk].live /\ m[p.chunk].used <= p.off
  /\ a = 0 => p.off = 0
  /\ \A c \in DOMAIN n : n[c].live /\ c \notin DOMAIN m \ gone => c = p.chunk

Made(size, used, a) ==
  [size |-> size, used |-> used, arena |-> a, live |-> TRUE]

LEMMA MallocFacts ==
  ASSUME NEW m, MemOK(m, height), height \in Nat,
         NEW size \in Nat, NEW used \in 0 .. size, NEW a \in 0 .. height,
         NEW o \in Malloc(m, size, used, a)
  PROVE  \/ o = Failed(m)
         \/ /\ Granted(m, o.mem, o.ptr, used, a, {})
            /\ o.ptr.chunk = Len(m) + 1
            /\ o.mem = Append(m, Made(size, used, a))
            /\ o # Failed(m)
<1> DEFINE k == Made(size, used, a)
           n == Append(m, k)
           p == [chunk |-> Len(m) + 1, off |-> 0]
<1>1. m \in Seq(Chunk) /\ Len(m) \in Nat /\ DOMAIN m = 1 .. Len(m)
  BY DEF MemOK
<1>2. k \in Chunk /\ k.size = size /\ k.used = used /\ k.arena = a /\ k.live
  BY DEF Made, Chunk
<1>3. SUFFICES ASSUME o # Failed(m)
               PROVE  /\ Granted(m, o.mem, o.ptr, used, a, {})
                      /\ o.ptr.chunk = Len(m) + 1
                      /\ o.mem = Append(m, Made(size, used, a))
  OBVIOUS
<1>4. o.ptr = p /\ o.mem = n
  BY <1>3 DEF Malloc, Made
<1> HIDE DEF k
<1>5. /\ n \in Seq(Chunk) /\ DOMAIN n = 1 .. Len(m) + 1
      /\ Len(n) = Len(m) + 1 /\ n[Len(m) + 1] = k
      /\ \A c \in 1 .. Len(m) : n[c] = m[c]
  BY <1>1, <1>2, AppendFacts
<1>6. p \in Pointer /\ p.chunk = Len(m) + 1 /\ p.off = 0
  BY <1>1 DEF Pointer
<1> HIDE DEF n, p
<1>7. \A c \in DOMAIN n : c \in 1 .. Len(m) \/ c = Len(m) + 1
  BY <1>1, <1>5
<1>8. MemOK(n, height)
  BY <1>1, <1>2, <1>5, <1>7 DEF MemOK
<1>9. \A c \in DOMAIN m : Kin(m, n, c)
  <2>1. \A c \in 1 .. Len(m) : c \in 1 .. Len(m) + 1 /\ m[c].used \in Nat
    BY <1>1, ChunkFacts
  <2> QED
    BY <1>1, <1>5, <2>1 DEF Kin
<1>10. p.chunk \notin DOMAIN m /\ p.chunk \in DOMAIN n
  BY <1>1, <1>5, <1>6
<1>11. Len(m) <= Len(n) /\ p.off + used <= n[p.chunk].used
  BY <1>1, <1>2, <1>5, <1>6
<1>12. n[p.chunk].live /\ n[p.chunk].arena = a
  BY <1>2, <1>5, <1>6
<1>13. \A c \in DOMAIN n : n[c].live /\ c \notin DOMAIN m => c = p.chunk
  BY <1>1, <1>6, <1>7
<1>14. Granted(m, n, p, used, a, {})
  BY <1>6, <1>8, <1>9, <1>10, <1>11, <1>12, <1>13 DEF Granted
<1> QED
  BY <1>4, <1>6, <1>14 DEF n, k

LEMMA AllocFacts ==
  ASSUME NEW m, MemOK(m, height), height \in Nat,
         NEW size \in Nat \ {0}, NEW o \in ArenaAlloc(m, size)
  PROVE  o = Failed(m) \/ Granted(m, o.mem, o.ptr, size, height, {})
<1> DEFINE now == Max(Blocks(m))
           used == m[now].used
<1>1. m \in Seq(Chunk) /\ Len(m) \in Nat /\ DOMAIN m = 1 .. Len(m)
  BY DEF MemOK
<1>2. CASE height = 0
  <2>1. o \in Malloc(m, size, size, 0) /\ size \in 0 .. size
          /\ 0 \in 0 .. height
    BY <1>2 DEF ArenaAlloc
  <2> QED
    BY <1>2, <2>1, MallocFacts
<1>3. CASE height # 0 /\ Blocks(m) = {}
  <2> DEFINE most == Max({ArenaInitial, size})
  <2>1. \E x \in {ArenaInitial, size} :
          \A y \in {ArenaInitial, size} : x >= y
    BY ArenaAssumption
  <2>2. most \in Nat /\ size \in 0 .. most
    BY <2>1, ArenaAssumption DEF Max
  <2>3. o \in Malloc(m, most, size, height) /\ height \in 0 .. height
    BY <1>3 DEF ArenaAlloc
  <2> HIDE DEF most
  <2> QED
    BY <2>2, <2>3, MallocFacts
<1>4. CASE height # 0 /\ Blocks(m) # {}
  <2>1. Blocks(m) \subseteq 1 .. Len(m)
    BY <1>1 DEF Blocks
  <2>2. now \in Blocks(m)
    BY <1>1, <1>4, <2>1, MaxFacts
  <2>3. /\ now \in DOMAIN m /\ m[now].live /\ m[now].arena = height
        /\ m[now] \in Chunk /\ used <= m[now].size
    BY <1>1, <2>2 DEF Blocks, MemOK
  <2>4. used \in Nat /\ m[now].size \in Nat
    BY <2>3 DEF Chunk
  <2> HIDE DEF now
  <2>5. CASE size > m[now].size - used
    <3> DEFINE more == Grown(m[now].size, used + size)
    <3>1. used + size \in Nat \ {0}
      BY <2>4
    <3>2. more \in Nat /\ more >= used + size
      BY <3>1, GrownFacts
    <3>3. o \in Malloc(m, more, size, height) /\ height \in 0 .. height
      BY <1>4, <2>5 DEF ArenaAlloc, now
    <3> HIDE DEF more
    <3>4. size \in 0 .. more
      BY <2>4, <3>2
    <3> QED
      BY <3>2, <3>3, <3>4, MallocFacts
  <2>6. CASE ~(size > m[now].size - used)
    <3> DEFINE n == [m EXCEPT ![now].used = used + size]
               p == [chunk |-> now, off |-> used]
    <3>1. o.ptr = p /\ o.mem = n
      BY <1>4, <2>6 DEF ArenaAlloc, now
    <3>2. /\ n \in Seq(Chunk) /\ DOMAIN n = DOMAIN m /\ Len(n) = Len(m)
          /\ \A c \in DOMAIN m : c # now => n[c] = m[c]
          /\ n[now].used = used + size /\ n[now].size = m[now].size
          /\ n[now].arena = m[now].arena /\ n[now].live = m[now].live
      <4> DEFINE k == [m[now] EXCEPT !.used = used + size]
      <4>1. /\ k \in Chunk /\ k.used = used + size
            /\ k.size = m[now].size /\ k.arena = m[now].arena
            /\ k.live = m[now].live
        <5>1. used + size \in Nat
          BY <2>4
        <5> HIDE DEF used
        <5> QED
          BY <2>3, <5>1, UsedFacts
      <4>2. n = [m EXCEPT ![now] = k]
        OBVIOUS
      <4> HIDE DEF k, n
      <4>3. /\ [m EXCEPT ![now] = k] \in Seq(Chunk)
            /\ DOMAIN [m EXCEPT ![now] = k] = DOMAIN m
            /\ Len([m EXCEPT ![now] = k]) = Len(m)
            /\ [m EXCEPT ![now] = k][now] = k
            /\ \A c \in DOMAIN m : c # now => [m EXCEPT ![now] = k][c] = m[c]
        BY <1>1, <2>3, <4>1, ExceptFacts
      <4> QED
        BY <4>1, <4>2, <4>3
    <3>3. p \in Pointer /\ p.chunk = now /\ p.off = used
      BY <1>1, <2>3, <2>4 DEF Pointer
    <3> HIDE DEF n, p
    <3>4. \A c \in DOMAIN m : m[c].used \in Nat
      BY <1>1, ChunkFacts
    <3>5. n[now].used <= n[now].size /\ n[now].used >= used
      BY <2>4, <2>6, <3>2
    <3>6. MemOK(n, height)
      BY <3>2, <3>5 DEF MemOK
    <3>7. \A c \in DOMAIN m : Kin(m, n, c)
      <4>1. \A c \in DOMAIN m : m[c].used >= m[c].used
        BY <3>4
      <4> QED
        BY <3>2, <3>5, <4>1 DEF Kin
    <3>8. Len(m) <= Len(n) /\ p.off + size <= n[p.chunk].used
            /\ m[p.chunk].used <= p.off
      BY <1>1, <2>4, <3>2, <3>3
    <3> QED
      BY <1>4, <2>3, <3>1, <3>2, <3>3, <3>6, <3>7, <3>8 DEF Granted
  <2> QED
    BY <2>5, <2>6
<1> QED
  BY <1>2, <1>3, <1>4

(* realloc takes a chunk of the heap and gives one of the heap, and what   *)
(* stays of the old one, if it is another, is not live.                    *)
LEMMA ReallocFacts ==
  ASSUME NEW m, MemOK(m, height), height \in Nat,
         NEW c \in DOMAIN m, m[c].live, m[c].arena = 0, NEW size \in Nat,
         NEW o \in Realloc(m, c, size)
  PROVE  o = Failed(m) \/ Granted(m, o.mem, o.ptr, size, 0, {c})
<1>1. m \in Seq(Chunk) /\ Len(m) \in Nat /\ DOMAIN m = 1 .. Len(m)
        /\ \A d \in DOMAIN m : m[d] \in Chunk /\ m[d].used \in Nat
  BY ChunkFacts DEF MemOK
<1>2. CASE o \in {Failed(m),
                  [ptr |-> [chunk |-> c, off |-> 0],
                   mem |-> [m EXCEPT ![c].size = size, ![c].used = size]]}
             /\ o # Failed(m)
  <2> DEFINE k == [[m[c] EXCEPT !.size = size] EXCEPT !.used = size]
             n == [m EXCEPT ![c] = k]
             p == [chunk |-> c, off |-> 0]
  <2>1. /\ k \in Chunk /\ k.used = size /\ k.size = size
        /\ k.arena = 0 /\ k.live
    BY <1>1 DEF Chunk
  <2>2. [m EXCEPT ![c].size = size, ![c].used = size] = n
    BY <1>1
  <2>3. o.ptr = p /\ o.mem = n
    BY <1>2, <2>2
  <2> HIDE DEF k
  <2>4. /\ n \in Seq(Chunk) /\ DOMAIN n = DOMAIN m /\ Len(n) = Len(m)
        /\ n[c] = k /\ \A d \in DOMAIN m : d # c => n[d] = m[d]
    BY <1>1, <2>1, ExceptFacts
  <2>5. p \in Pointer /\ p.chunk = c /\ p.off = 0
    BY <1>1 DEF Pointer
  <2> HIDE DEF n, p
  <2>6. MemOK(n, height)
    BY <2>1, <2>4 DEF MemOK
  <2>7. \A d \in DOMAIN m \ {c} : Kin(m, n, d)
    BY <1>1, <2>4 DEF Kin
  <2>8. Len(m) <= Len(n) /\ p.off + size <= n[p.chunk].used
    BY <1>1, <2>1, <2>4, <2>5
  <2>9. Granted(m, n, p, size, 0, {c})
    BY <2>1, <2>4, <2>5, <2>6, <2>7, <2>8 DEF Granted
  <2> QED
    BY <2>3, <2>9
<1>3. CASE \E x \in Malloc(m, size, size, 0) \ {Failed(m)} :
             o = [ptr |-> x.ptr, mem |-> [x.mem EXCEPT ![c] = FreedChunk]]
  <2>1. PICK x \in Malloc(m, size, size, 0) \ {Failed(m)} :
          o = [ptr |-> x.ptr, mem |-> [x.mem EXCEPT ![c] = FreedChunk]]
    BY <1>3
  <2>2. Granted(m, x.mem, x.ptr, size, 0, {}) /\ x.ptr.chunk = Len(m) + 1
    <3>1. size \in 0 .. size /\ 0 \in 0 .. height
      OBVIOUS
    <3> QED
      BY <2>1, <3>1, MallocFacts
  <2> DEFINE q == x.mem
             n == [q EXCEPT ![c] = FreedChunk]
             p == x.ptr
  <2>3. o.ptr = p /\ o.mem = n
    BY <2>1
  <2>4. /\ q \in Seq(Chunk) /\ c \in DOMAIN q /\ p \in Pointer
        /\ p.chunk \in DOMAIN q /\ Len(m) <= Len(q) /\ MemOK(q, height)
    BY <2>2 DEF Granted, Kin, MemOK
  <2>5. FreedChunk \in Chunk /\ FreedChunk.used = 0 /\ FreedChunk.size = 0
          /\ FreedChunk.live = FALSE
    BY DEF FreedChunk, Chunk
  <2>6. /\ n \in Seq(Chunk) /\ DOMAIN n = DOMAIN q /\ Len(n) = Len(q)
        /\ n[c] = FreedChunk /\ \A d \in DOMAIN q : d # c => n[d] = q[d]
    BY <2>4, <2>5, ExceptFacts
  <2>7. p.chunk # c /\ p.chunk = Len(m) + 1
    BY <1>1, <2>2
  <2>8. Granted(m, q, p, size, 0, {})
    BY <2>2
  <2> HIDE DEF q, n, p
  <2>9. MemOK(n, height)
    BY <2>4, <2>5, <2>6 DEF MemOK
  <2>10. \A d \in DOMAIN m \ {c} : Kin(m, n, d)
    BY <2>6, <2>8 DEF Granted, Kin
  <2>11. n[p.chunk] = q[p.chunk] /\ Len(n) = Len(q)
    BY <2>4, <2>6, <2>7
  <2>12. \A d \in DOMAIN n : n[d].live /\ d \notin DOMAIN m \ {c}
           => d = p.chunk
    BY <2>5, <2>6, <2>8 DEF Granted
  <2>13. p.chunk \notin DOMAIN m \ {c}
    BY <1>1, <2>7
  <2>14. Granted(m, n, p, size, 0, {c})
    BY <2>4, <2>6, <2>8, <2>9, <2>10, <2>11, <2>12, <2>13 DEF Granted
  <2> QED
    BY <2>3, <2>14
<1> QED
  BY <1>2, <1>3 DEF Realloc

(***************************************************************************)
(* Buffers.                                                                *)
(***************************************************************************)
LEMMA BufferFacts ==
  ASSUME NEW b \in Buffer
  PROVE  /\ b.data \in Pointer /\ b.data.chunk \in Nat /\ b.data.off \in Nat
         /\ b.len \in Nat /\ b.cap \in Nat
  BY DEF Buffer, Pointer

LEMMA EmptyFacts ==
  /\ Empty \in Buffer /\ Empty.data = Null /\ Null.chunk = 0
  /\ Empty.len = 0 /\ Empty.cap = 0 /\ Null \in Pointer /\ IsNull(Null)
  BY DEF Empty, Buffer, Null, Pointer, IsNull

LEMMA NewBufferFacts ==
  ASSUME NEW m, MemOK(m, height), height \in Nat, NEW cap \in Nat,
         NEW o \in NewBuffer(m, cap)
  PROVE  \/ o.buf = Empty /\ o.mem = m
         \/ /\ Granted(m, o.mem, o.buf.data, cap + 1, height, {})
            /\ o.buf \in Buffer /\ o.buf.len = 0 /\ o.buf.cap = cap
<1>1. PICK x \in AllocBuffer(m, cap) :
        o = Holding(x.mem, IF IsNull(x.ptr) THEN Empty
                           ELSE [data |-> x.ptr, len |-> 0, cap |-> cap])
  BY DEF NewBuffer
<1>2. x = Failed(m) \/ Granted(m, x.mem, x.ptr, cap + 1, height, {})
  BY AllocFacts DEF AllocBuffer
<1>3. CASE x = Failed(m)
  <2>1. x.ptr = Null /\ x.mem = m
    BY <1>3 DEF Failed
  <2>2. o.buf = Empty /\ o.mem = m
    BY <1>1, <2>1, EmptyFacts DEF Holding
  <2> QED
    BY <2>2
<1>4. CASE Granted(m, x.mem, x.ptr, cap + 1, height, {})
  <2>1. x.ptr \in Pointer /\ x.ptr.chunk \in DOMAIN x.mem
          /\ x.mem \in Seq(Chunk)
    BY <1>4 DEF Granted, MemOK
  <2>2. ~IsNull(x.ptr)
    BY <2>1 DEF IsNull
  <2>3. o.buf = [data |-> x.ptr, len |-> 0, cap |-> cap] /\ o.mem = x.mem
    BY <1>1, <2>2 DEF Holding
  <2> QED
    BY <1>4, <2>1, <2>3 DEF Buffer
<1> QED
  BY <1>2, <1>3, <1>4

(* What a buffer grows by: memory of the innermost arena or, if it was of  *)
(* the heap, of the heap, and then its old memory is gone.                 *)
GrewFrom(m, buf, n, b, cap) ==
  IF m[buf.data.chunk].arena = 0
    THEN Granted(m, n, b.data, cap + 1, 0, {buf.data.chunk})
    ELSE height # 0 /\ Granted(m, n, b.data, cap + 1, height, {})

LEMMA GrownBufferFacts ==
  ASSUME NEW m, MemOK(m, height), height \in Nat,
         NEW buf \in Buffer, Valid(m, buf.data),
         NEW need \in Nat \ {0}, NEW o \in GrownBuffer(m, buf, need)
  PROVE  \/ o.buf = buf /\ o.mem = m
         \/ /\ GrewFrom(m, buf, o.mem, o.buf, o.buf.cap)
            /\ o.buf \in Buffer /\ o.buf.len = buf.len
            /\ o.buf.cap >= need
<1> DEFINE cap == Grown(buf.cap, need)
           S == IF Owns(m, buf.data) THEN AllocBuffer(m, cap)
                ELSE Realloc(m, buf.data.chunk, cap + 1)
<1>1. cap \in Nat /\ cap >= need /\ cap + 1 \in Nat \ {0}
  BY GrownFacts
<1>2. PICK x \in S : o = Holding(x.mem, IF IsNull(x.ptr) THEN buf ELSE
                             [buf EXCEPT !.data = x.ptr, !.cap = cap])
  BY DEF GrownBuffer
<1> HIDE DEF cap
<1>3. /\ buf.data.chunk \in DOMAIN m /\ m[buf.data.chunk].live
      /\ m[buf.data.chunk].arena \in Nat /\ m[buf.data.chunk].arena <= height
  BY ChunkFacts DEF Valid, MemOK
<1>4. \/ x = Failed(m)
      \/ IF m[buf.data.chunk].arena = 0
           THEN Granted(m, x.mem, x.ptr, cap + 1, 0, {buf.data.chunk})
           ELSE height # 0 /\ Granted(m, x.mem, x.ptr, cap + 1, height, {})
  <2>1. CASE Owns(m, buf.data)
    <3>1. x \in ArenaAlloc(m, cap + 1) /\ height # 0
            /\ m[buf.data.chunk].arena # 0
      BY <1>2, <1>3, <2>1 DEF AllocBuffer, Owns
    <3>2. x = Failed(m) \/ Granted(m, x.mem, x.ptr, cap + 1, height, {})
      BY <1>1, <3>1, AllocFacts
    <3> QED
      BY <3>1, <3>2
  <2>2. CASE ~Owns(m, buf.data)
    <3>1. x \in Realloc(m, buf.data.chunk, cap + 1)
      BY <1>2, <2>2
    <3>2. m[buf.data.chunk].arena = 0
      BY <1>3, <2>2 DEF Owns
    <3>3. \/ x = Failed(m)
          \/ Granted(m, x.mem, x.ptr, cap + 1, 0, {buf.data.chunk})
      BY <1>1, <1>3, <3>1, <3>2, ReallocFacts
    <3> QED
      BY <3>2, <3>3
  <2> QED
    BY <2>1, <2>2
<1>5. CASE x = Failed(m)
  <2>1. x.ptr = Null /\ x.mem = m
    BY <1>5 DEF Failed
  <2> QED
    BY <1>2, <2>1, EmptyFacts DEF Holding
<1>6. CASE x # Failed(m)
  <2>1. x.ptr \in Pointer /\ x.ptr.chunk \in DOMAIN x.mem
          /\ x.mem \in Seq(Chunk)
    BY <1>4, <1>6 DEF Granted, MemOK
  <2>2. ~IsNull(x.ptr)
    BY <2>1 DEF IsNull
  <2>3. o.buf = [buf EXCEPT !.data = x.ptr, !.cap = cap] /\ o.mem = x.mem
    BY <1>2, <2>2 DEF Holding
  <2>4. o.buf \in Buffer /\ o.buf.data = x.ptr /\ o.buf.cap = cap
          /\ o.buf.len = buf.len
    BY <1>1, <2>1, <2>3 DEF Buffer
  <2>5. GrewFrom(m, buf, o.mem, o.buf, o.buf.cap)
    BY <1>4, <1>6, <2>3, <2>4 DEF GrewFrom
  <2> QED
    BY <1>1, <2>4, <2>5
<1> QED
  BY <1>5, <1>6

(* The outcome of a push: the buffer as it was, but for its length, or     *)
(* grown.  With the buffer and the piece in memory it does not fault.      *)
LEMMA PushedFacts ==
  ASSUME NEW m, MemOK(m, height), height \in Nat,
         NEW buf \in Buffer, NEW piece, piece.len \in Nat,
         NEW o \in Pushed(m, buf, piece)
  PROVE  /\ o.buf \in Buffer
         /\ buf.len <= buf.cap => o.buf.len <= o.buf.cap
         /\ \/ /\ o.mem = m /\ o.buf.data = buf.data /\ o.buf.cap = buf.cap
            \/ /\ Valid(m, buf.data)
               /\ GrewFrom(m, buf, o.mem, o.buf, o.buf.cap)
         /\ /\ Valid(m, buf.data)
            /\ IsNull(piece.ptr) \/ Valid(o.mem, piece.ptr)
            => o.ok
<1> DEFINE need == buf.len + piece.len
           S == IF need > buf.cap /\ Valid(m, buf.data)
                THEN GrownBuffer(m, buf, need) ELSE {Holding(m, buf)}
<1>1. buf.len \in Nat /\ buf.cap \in Nat /\ need \in Nat
  BY BufferFacts
<1> DEFINE out(x) ==
             [buf |-> IF need > x.buf.cap
                        THEN x.buf ELSE [x.buf EXCEPT !.len = need],
              mem |-> x.mem,
              ok |-> /\ Valid(m, buf.data)
                     /\ IsNull(piece.ptr) \/ need > x.buf.cap
                          \/ Valid(x.mem, piece.ptr)]
<1>6. Pushed(m, buf, piece) = {out(x) : x \in S}
  BY DEF Pushed
<1>7. PICK x \in S : o = out(x)
  <2> HIDE DEF out, S
  <2> QED
    BY <1>6
<1>2. /\ x \in S
      /\ o.buf = IF need > x.buf.cap THEN x.buf
                 ELSE [x.buf EXCEPT !.len = need]
      /\ o.mem = x.mem
      /\ /\ Valid(m, buf.data)
         /\ IsNull(piece.ptr) \/ Valid(o.mem, piece.ptr)
         => o.ok
  <2> HIDE DEF S
  <2> QED
    BY <1>7
<1> HIDE DEF out
<1> HIDE DEF need
<1>3. ASSUME x.buf \in Buffer
      PROVE  /\ o.buf \in Buffer
             /\ o.buf.data = x.buf.data /\ o.buf.cap = x.buf.cap
             /\ o.buf.len = x.buf.len \/ o.buf.len <= x.buf.cap
  <2>1. CASE need > x.buf.cap
    BY <1>2, <1>3, <2>1
  <2>2. CASE ~(need > x.buf.cap)
    <3>1. o.buf = [x.buf EXCEPT !.len = need]
      BY <1>2, <2>2
    <3>2. o.buf \in Buffer /\ o.buf.data = x.buf.data
            /\ o.buf.cap = x.buf.cap /\ o.buf.len = need
      BY <1>1, <1>3, <3>1 DEF Buffer
    <3>3. x.buf.cap \in Nat
      BY <1>3, BufferFacts
    <3> QED
      BY <1>1, <2>2, <3>2, <3>3
  <2> QED
    BY <2>1, <2>2
<1>4. CASE x = Holding(m, buf)
  <2>1. x.buf = buf /\ x.mem = m
    BY <1>4 DEF Holding
  <2> QED
    BY <1>2, <1>3, <2>1
<1>5. CASE need > buf.cap /\ Valid(m, buf.data)
  <2>1. x \in GrownBuffer(m, buf, need) /\ need \in Nat \ {0}
    BY <1>1, <1>2, <1>5
  <2>2. \/ x.buf = buf /\ x.mem = m
        \/ /\ GrewFrom(m, buf, x.mem, x.buf, x.buf.cap)
           /\ x.buf \in Buffer /\ x.buf.len = buf.len
           /\ x.buf.cap >= need
    BY <1>5, <2>1, GrownBufferFacts
  <2>3. CASE x.buf = buf /\ x.mem = m
    BY <1>2, <1>3, <2>3
  <2>4. CASE /\ GrewFrom(m, buf, x.mem, x.buf, x.buf.cap)
             /\ x.buf \in Buffer /\ x.buf.len = buf.len
             /\ x.buf.cap >= need
    <3>1. GrewFrom(m, buf, o.mem, o.buf, o.buf.cap)
      BY <1>2, <1>3, <2>4 DEF GrewFrom
    <3>2. x.buf.cap \in Nat /\ ~(need > x.buf.cap)
      BY <1>1, <2>4, BufferFacts
    <3>3. o.buf.len <= x.buf.cap
      <4>1. o.buf = [x.buf EXCEPT !.len = need]
        BY <1>2, <3>2
      <4>2. o.buf.len = need
        BY <2>4, <4>1 DEF Buffer
      <4> QED
        BY <1>1, <3>2, <4>2
    <3> QED
      BY <1>2, <1>3, <1>5, <2>4, <3>1, <3>3
  <2> QED
    BY <2>2, <2>3, <2>4
<1> QED
  BY <1>2, <1>4, <1>5

(***************************************************************************)
(* The invariant, its parts over any memory, variables and scopes.         *)
(***************************************************************************)

(* Scope 1 is the file, scope 2 the first function called; blocks have no  *)
(* arena.                                                                  *)
ScopesOK(sc) ==
  /\ sc \in Seq(Scope) /\ sc # <<>>
  /\ \A l \in DOMAIN sc : /\ sc[l].kind = "root" <=> l = 1
                          /\ sc[l].arena => sc[l].kind = "fn"
  /\ Len(sc) > 1 => sc[2].kind = "fn"

(* The variables are those of the scopes open, of inner ones last; none    *)
(* points to memory that is yet to come.                                   *)
VariableOK(m, v, level) ==
  /\ v \in Variable /\ v.level \in 1 .. level
  /\ v.buf.data.chunk <= Len(m)
  /\ IsNull(v.buf.data) => v.buf.len = 0

VarsOK(m, vs, level) ==
  /\ vs \in Seq(Variable)
  /\ \A i \in DOMAIN vs : VariableOK(m, vs[i], level)
  /\ \A i, j \in DOMAIN vs : i < j => vs[i].level <= vs[j].level

Shape ==
  /\ height \in Nat /\ MemOK(mem, height)
  /\ ScopesOK(scopes) /\ VarsOK(mem, vars, Level)
  /\ strs \subseteq Str /\ fault \in Faults /\ risks \subseteq Risks

(* Strings that may be used and have their memory are apart; of two in one *)
(* chunk one lies wholly before the other, and in the heap each has a chunk *)
(* to itself.                                                              *)
HeldIn(m, v) == ~v.moved /\ Valid(m, v.buf.data)

Before(b, c) == b.data.off + b.cap < c.data.off

ApartIn(m, vs) ==
  /\ \A i \in DOMAIN vs : HeldIn(m, vs[i]) =>
       /\ vs[i].buf.len <= vs[i].buf.cap
       /\ vs[i].buf.data.off + vs[i].buf.cap < m[vs[i].buf.data.chunk].used
       /\ m[vs[i].buf.data.chunk].arena = 0 => vs[i].buf.data.off = 0
  /\ \A i, j \in DOMAIN vs :
       /\ HeldIn(m, vs[i]) /\ HeldIn(m, vs[j]) /\ i # j
       /\ vs[i].buf.data.chunk = vs[j].buf.data.chunk
       => Before(vs[i].buf, vs[j].buf) \/ Before(vs[j].buf, vs[i].buf)

(* Memory in the a-th arena is there as long as a scope of the given level: *)
(* each of the functions above it pops an arena of its own.                *)
ArenasAbove(sc, level) == {l \in DOMAIN sc : l > level /\ sc[l].arena}

Room(h, sc, a, level) == a = 0 \/ a + Cardinality(ArenasAbove(sc, level)) <= h

(* Every variable, moved or not, has its memory as long as it is in scope, *)
(* and one of the heap is that of no other variable.                       *)
AnchoredIn(m, h, vs, sc) ==
  \A i \in DOMAIN vs : ~IsNull(vs[i].buf.data) =>
    /\ Valid(m, vs[i].buf.data)
    /\ Room(h, sc, m[vs[i].buf.data.chunk].arena, vs[i].level)

UniqueIn(m, vs) ==
  \A i, j \in DOMAIN vs :
    /\ i # j /\ ~IsNull(vs[i].buf.data)
    /\ vs[i].buf.data.chunk = vs[j].buf.data.chunk
    => m[vs[i].buf.data.chunk].arena # 0

LiveIn(m, h, vs, sc) == AnchoredIn(m, h, vs, sc) /\ UniqueIn(m, vs)

(* The memory of a str is of the heap and of no variable.                  *)
StrsOwnIn(m, vs, ss) ==
  \A s \in ss : /\ Valid(m, s.ptr) /\ m[s.ptr.chunk].arena = 0
                /\ \A i \in DOMAIN vs : vs[i].buf.data.chunk # s.ptr.chunk

(* All memory of the heap is that of a variable or a str.                  *)
FoundIn(m, vs, ss) ==
  \A c \in DOMAIN m : m[c].live /\ m[c].arena = 0 =>
    \/ \E i \in DOMAIN vs : vs[i].buf.data.chunk = c
    \/ \E s \in ss : s.ptr.chunk = c

Sharing == {"copied", "aliased", "escaped", "no push"}

RuntimeInv ==
  /\ Shape
  /\ "aliased" \notin risks => ApartIn(mem, vars)
  /\ ArenasMatch
  /\ risks \cap Sharing = {} => LiveIn(mem, height, vars, scopes)
  /\ risks \cap (Sharing \cup {"viewed"}) = {} => StrsOwnIn(mem, vars, strs)
  /\ NothingLost
  /\ MemorySafe

(***************************************************************************)
(* The shape of the variables.                                             *)
(***************************************************************************)
LEMMA VariableFacts ==
  ASSUME NEW v \in Variable
  PROVE  /\ v.buf \in Buffer /\ v.level \in Nat /\ v.moved \in BOOLEAN
         /\ v.buf.data \in Pointer /\ v.buf.data.chunk \in Nat
         /\ v.buf.data.off \in Nat /\ v.buf.len \in Nat /\ v.buf.cap \in Nat
         /\ v = [buf |-> v.buf, level |-> v.level, moved |-> v.moved]
<1>1. v.buf \in Buffer
  BY DEF Variable
<1> QED
  BY <1>1, BufferFacts DEF Variable

LEMMA VarsFacts ==
  ASSUME NEW m, NEW vs, NEW level, VarsOK(m, vs, level)
  PROVE  /\ DOMAIN vs = 1 .. Len(vs) /\ Len(vs) \in Nat
         /\ \A i \in DOMAIN vs :
              /\ vs[i] \in Variable /\ VariableOK(m, vs[i], level)
              /\ vs[i].buf \in Buffer /\ vs[i].moved \in BOOLEAN
              /\ vs[i].buf.data \in Pointer /\ vs[i].buf.data.chunk \in Nat
              /\ vs[i].buf.data.off \in Nat /\ vs[i].buf.len \in Nat
              /\ vs[i].buf.cap \in Nat /\ vs[i].level \in Nat
<1>1. \A i \in DOMAIN vs : vs[i] \in Variable /\ VariableOK(m, vs[i], level)
  BY DEF VarsOK, VariableOK
<1> QED
  BY <1>1, VariableFacts DEF VarsOK

LEMMA VarsWiden ==
  ASSUME NEW m, NEW n, NEW vs, NEW k \in Nat, NEW l \in Nat,
         VarsOK(m, vs, k), Len(m) \in Nat, Len(n) \in Nat,
         Len(m) <= Len(n), k <= l
  PROVE  VarsOK(n, vs, l)
<1>1. ASSUME NEW i \in DOMAIN vs
      PROVE  VariableOK(n, vs[i], l)
  <2>1. VariableOK(m, vs[i], k) /\ vs[i].buf.data.chunk \in Nat
    BY VarsFacts
  <2> QED
    BY <2>1 DEF VariableOK
<1> QED
  BY <1>1 DEF VarsOK

LEMMA VarsReplaced ==
  ASSUME NEW m, NEW vs, NEW level \in Nat, VarsOK(m, vs, level),
         NEW i \in DOMAIN vs, NEW e, VariableOK(m, e, level),
         e.level = vs[i].level
  PROVE  VarsOK(m, [vs EXCEPT ![i] = e], level)
<1> DEFINE us == [vs EXCEPT ![i] = e]
<1>1. vs \in Seq(Variable) /\ e \in Variable
  BY DEF VarsOK, VariableOK
<1>2. /\ us \in Seq(Variable) /\ DOMAIN us = DOMAIN vs /\ us[i] = e
      /\ \A j \in DOMAIN vs : j # i => us[j] = vs[j]
  BY <1>1, ExceptFacts
<1> HIDE DEF us
<1>3. \A j \in DOMAIN us :
        us[j].level = vs[j].level /\ VariableOK(m, us[j], level)
  BY <1>2 DEF VarsOK
<1>4. VarsOK(m, us, level)
  BY <1>2, <1>3 DEF VarsOK
<1> QED
  BY <1>4 DEF us

LEMMA VarsAppended ==
  ASSUME NEW m, NEW vs, NEW level \in Nat, VarsOK(m, vs, level),
         NEW e, VariableOK(m, e, level),
         \A i \in DOMAIN vs : vs[i].level <= e.level
  PROVE  VarsOK(m, Append(vs, e), level)
<1> DEFINE us == Append(vs, e)
<1>1. vs \in Seq(Variable) /\ e \in Variable /\ Len(vs) \in Nat
        /\ DOMAIN vs = 1 .. Len(vs) /\ e.level \in Nat
  BY VariableFacts DEF VarsOK, VariableOK
<1>2. /\ us \in Seq(Variable) /\ DOMAIN us = 1 .. Len(vs) + 1
      /\ us[Len(vs) + 1] = e
      /\ \A j \in 1 .. Len(vs) : us[j] = vs[j]
  BY <1>1, AppendFacts
<1> HIDE DEF us
<1>3. \A j \in DOMAIN us :
        \/ j = Len(vs) + 1
        \/ j \in DOMAIN vs /\ us[j] = vs[j]
  BY <1>1, <1>2
<1>4. \A j \in DOMAIN us : VariableOK(m, us[j], level)
  BY <1>2, <1>3 DEF VarsOK
<1>5. \A j, k \in DOMAIN us : j < k => us[j].level <= us[k].level
  BY <1>1, <1>2, <1>3 DEF VarsOK
<1>6. VarsOK(m, us, level)
  BY <1>2, <1>4, <1>5 DEF VarsOK
<1> QED
  BY <1>6 DEF us

LEMMA VarsCut ==
  ASSUME NEW m, NEW vs, NEW level \in Nat, VarsOK(m, vs, level),
         NEW k \in 0 .. Len(vs), NEW l \in Nat,
         \A i \in 1 .. k : vs[i].level <= l
  PROVE  /\ VarsOK(m, SubSeq(vs, 1, k), l)
         /\ Len(SubSeq(vs, 1, k)) = k /\ DOMAIN SubSeq(vs, 1, k) = 1 .. k
         /\ \A i \in 1 .. k : SubSeq(vs, 1, k)[i] = vs[i]
<1> DEFINE us == SubSeq(vs, 1, k)
<1>1. vs \in Seq(Variable) /\ Len(vs) \in Nat /\ DOMAIN vs = 1 .. Len(vs)
  BY DEF VarsOK
<1>2. /\ us \in Seq(Variable) /\ Len(us) = k /\ DOMAIN us = 1 .. k
      /\ \A i \in 1 .. k : us[i] = vs[i]
  BY <1>1, PrefixFacts
<1> HIDE DEF us
<1>3. ASSUME NEW i \in DOMAIN us
      PROVE  VariableOK(m, us[i], l) /\ i \in DOMAIN vs
  <2>1. i \in DOMAIN vs /\ VariableOK(m, vs[i], level)
    BY <1>1, <1>2 DEF VarsOK
  <2> QED
    BY <1>2, <2>1 DEF VariableOK
<1>4. VarsOK(m, us, l)
  BY <1>2, <1>3 DEF VarsOK
<1> QED
  BY <1>2, <1>4 DEF us

(***************************************************************************)
(* Memory granted to one variable, new or not: the others are as they were,*)
(* and what is gone was the variable's own.                                *)
(***************************************************************************)
Placed(m, vs, n, us, i, a, gone) ==
  /\ Granted(m, n, us[i].buf.data, us[i].buf.cap + 1, a, gone)
  /\ i \in DOMAIN us /\ us[i].buf \in Buffer
  /\ DOMAIN vs \subseteq DOMAIN us
  /\ \A j \in DOMAIN us : j # i => j \in DOMAIN vs /\ us[j] = vs[j]
  /\ gone # {} =>
       /\ i \in DOMAIN vs /\ HeldIn(m, vs[i])
       /\ gone = {vs[i].buf.data.chunk} /\ m[vs[i].buf.data.chunk].arena = 0

LEMMA PlacedApart ==
  ASSUME NEW m, NEW vs, NEW n, NEW us, NEW i, NEW a, NEW gone, NEW level,
         MemOK(m, height), VarsOK(m, vs, level),
         Placed(m, vs, n, us, i, a, gone), ApartIn(m, vs),
         us[i].buf.len <= us[i].buf.cap
  PROVE  ApartIn(n, us)
<1> DEFINE at(v) == v.buf.data.chunk
<1>1. DOMAIN m = 1 .. Len(m) /\ DOMAIN n = 1 .. Len(n)
        /\ Len(m) \in Nat /\ Len(n) \in Nat
  BY ChunkFacts DEF MemOK, Placed, Granted
<1>2. \A j \in DOMAIN us : j # i =>
        j \in DOMAIN vs /\ us[j] = vs[j] /\ us[j].buf \in Buffer
  BY VarsFacts DEF Placed
<1>3. ASSUME NEW j \in DOMAIN us, j # i, HeldIn(n, us[j])
      PROVE  /\ HeldIn(m, vs[j]) /\ at(us[j]) \in DOMAIN m \ gone
             /\ m[at(us[j])].used <= n[at(us[j])].used
             /\ m[at(us[j])].arena = n[at(us[j])].arena
             /\ m[at(us[j])].used \in Nat /\ n[at(us[j])].used \in Nat
  <2>1. at(us[j]) \in DOMAIN n /\ at(us[j]) = at(vs[j])
          /\ at(vs[j]) <= Len(m) /\ at(vs[j]) \in Nat
    BY <1>2, <1>3, VarsFacts DEF HeldIn, Valid, VariableOK
  <2>2. at(us[j]) \in DOMAIN m
    BY <1>1, <2>1
  <2>3. at(us[j]) \notin gone
    <3>1. SUFFICES ASSUME at(us[j]) \in gone
                   PROVE  FALSE
      OBVIOUS
    <3>2. /\ i \in DOMAIN vs /\ HeldIn(m, vs[i]) /\ at(vs[i]) = at(vs[j])
          /\ m[at(vs[i])].arena = 0
      BY <2>1, <3>1 DEF Placed
    <3>3. HeldIn(m, vs[j])
      BY <1>2, <1>3, <3>2 DEF HeldIn, Valid
    <3>4. /\ vs[i].buf.data.off = 0 /\ vs[j].buf.data.off = 0
          /\ Before(vs[i].buf, vs[j].buf) \/ Before(vs[j].buf, vs[i].buf)
      BY <1>2, <1>3, <3>2, <3>3 DEF ApartIn
    <3>5. vs[i].buf.cap \in Nat /\ vs[j].buf.cap \in Nat
      BY <1>2, <1>3, <3>2, VarsFacts
    <3> QED
      BY <3>4, <3>5 DEF Before
  <2>4. Kin(m, n, at(us[j]))
    BY <2>2, <2>3 DEF Placed, Granted
  <2>5. m[at(us[j])].used \in Nat /\ n[at(us[j])].used \in Nat
    BY <2>1, <2>2, ChunkFacts DEF MemOK, Placed, Granted
  <2>6. HeldIn(m, vs[j])
    BY <1>2, <1>3, <2>2, <2>4 DEF HeldIn, Valid, Kin
  <2> QED
    BY <2>2, <2>3, <2>4, <2>5, <2>6 DEF Kin
<1>4. /\ us[i].buf.data.off \in Nat /\ us[i].buf.cap \in Nat
      /\ us[i].buf.data.off + (us[i].buf.cap + 1) <= n[at(us[i])].used
      /\ n[at(us[i])].used \in Nat
      /\ n[at(us[i])].arena = 0 => us[i].buf.data.off = 0
      /\ at(us[i]) \in DOMAIN m \ gone =>
           m[at(us[i])].used <= us[i].buf.data.off
  BY BufferFacts, ChunkFacts DEF Placed, Granted, MemOK
<1>5. ASSUME NEW j \in DOMAIN us, HeldIn(n, us[j])
      PROVE  /\ us[j].buf.len <= us[j].buf.cap
             /\ us[j].buf.data.off + us[j].buf.cap < n[at(us[j])].used
             /\ n[at(us[j])].arena = 0 => us[j].buf.data.off = 0
  <2>1. CASE j = i
    BY <1>4, <2>1
  <2>2. CASE j # i
    <3>1. /\ us[j].buf.len <= us[j].buf.cap
          /\ us[j].buf.data.off + us[j].buf.cap < m[at(us[j])].used
          /\ m[at(us[j])].arena = 0 => us[j].buf.data.off = 0
      BY <1>2, <1>3, <1>5, <2>2 DEF ApartIn
    <3>2. us[j].buf.data.off \in Nat /\ us[j].buf.cap \in Nat
      BY <1>2, <2>2, BufferFacts
    <3> QED
      BY <1>3, <1>5, <2>2, <3>1, <3>2
  <2> QED
    BY <2>1, <2>2
<1>6. ASSUME NEW j \in DOMAIN us, j # i, HeldIn(n, us[j]),
             at(us[j]) = at(us[i])
      PROVE  Before(us[j].buf, us[i].buf)
  <2>1. m[at(us[j])].used <= us[i].buf.data.off
    BY <1>3, <1>4, <1>6
  <2>2. us[j].buf.data.off + us[j].buf.cap < m[at(us[j])].used
    BY <1>2, <1>3, <1>6 DEF ApartIn
  <2>3. us[j].buf.data.off \in Nat /\ us[j].buf.cap \in Nat
    BY <1>2, <1>6, BufferFacts
  <2>4. m[at(us[j])].used \in Nat /\ us[i].buf.data.off \in Nat
    BY <1>3, <1>4, <1>6
  <2> QED
    BY <2>1, <2>2, <2>3, <2>4 DEF Before
<1>7. ASSUME NEW j \in DOMAIN us, NEW k \in DOMAIN us, j # k,
             HeldIn(n, us[j]), HeldIn(n, us[k]), at(us[j]) = at(us[k])
      PROVE  Before(us[j].buf, us[k].buf) \/ Before(us[k].buf, us[j].buf)
  <2>1. CASE j = i \/ k = i
    BY <1>6, <1>7, <2>1
  <2>2. CASE j # i /\ k # i
    BY <1>2, <1>3, <1>7, <2>2 DEF ApartIn
  <2> QED
    BY <2>1, <2>2
<1> QED
  BY <1>5, <1>7 DEF ApartIn

LEMMA PlacedLive ==
  ASSUME NEW m, NEW vs, NEW n, NEW us, NEW i, NEW a, NEW gone, NEW level,
         MemOK(m, height), height \in Nat, VarsOK(m, vs, level),
         Placed(m, vs, n, us, i, a, gone), LiveIn(m, height, vs, scopes),
         height = 0 \/ ArenasAbove(scopes, us[i].level) = {}
  PROVE  LiveIn(n, height, us, scopes)
<1> DEFINE at(v) == v.buf.data.chunk
<1>1. \A j \in DOMAIN us : j # i => j \in DOMAIN vs /\ us[j] = vs[j]
  BY DEF Placed
<1>2. ASSUME NEW j \in DOMAIN us, j # i, ~IsNull(us[j].buf.data)
      PROVE  /\ at(us[j]) \in DOMAIN m \ gone /\ Kin(m, n, at(us[j]))
             /\ Valid(n, us[j].buf.data)
             /\ n[at(us[j])].arena = m[at(vs[j])].arena
  <2>1. at(us[j]) \in DOMAIN m /\ m[at(us[j])].live
    BY <1>1, <1>2 DEF LiveIn, AnchoredIn, Valid
  <2>2. at(us[j]) \notin gone
    BY <1>1, <1>2 DEF LiveIn, UniqueIn, Placed
  <2>3. Kin(m, n, at(us[j]))
    BY <2>1, <2>2 DEF Placed, Granted
  <2> QED
    BY <1>1, <1>2, <2>1, <2>2, <2>3 DEF Valid, Kin
<1>3. /\ Valid(n, us[i].buf.data) /\ n[at(us[i])].arena = a
      /\ a \in Nat /\ a <= height
  BY ChunkFacts DEF Placed, Granted, Valid, MemOK
<1>4. Room(height, scopes, a, us[i].level)
  <2>1. CASE height = 0
    BY <1>3, <2>1 DEF Room
  <2>2. CASE ArenasAbove(scopes, us[i].level) = {}
    <3>1. Cardinality(ArenasAbove(scopes, us[i].level)) = 0
      BY <2>2, FS_EmptySet
    <3> QED
      BY <1>3, <3>1 DEF Room
  <2> QED
    BY <2>1, <2>2
<1>5. AnchoredIn(n, height, us, scopes)
  <2>1. \A j \in DOMAIN us : j # i /\ ~IsNull(us[j].buf.data) =>
          Room(height, scopes, n[at(us[j])].arena, us[j].level)
    BY <1>1, <1>2 DEF LiveIn, AnchoredIn
  <2> QED
    BY <1>2, <1>3, <1>4, <2>1 DEF AnchoredIn
<1>6. ASSUME NEW j \in DOMAIN us, NEW k \in DOMAIN us, j # k,
             ~IsNull(us[j].buf.data), at(us[j]) = at(us[k])
      PROVE  n[at(us[j])].arena # 0
  <2>1. ~IsNull(us[k].buf.data)
    BY <1>6 DEF IsNull
  <2>2. CASE j = i \/ k = i
    <3>1. at(us[i]) \in DOMAIN m \ gone
      BY <1>2, <1>6, <2>1, <2>2
    <3> QED
      BY <1>3, <1>6, <2>2, <3>1 DEF Placed, Granted
  <2>3. CASE j # i /\ k # i
    BY <1>1, <1>2, <1>6, <2>3 DEF LiveIn, UniqueIn
  <2> QED
    BY <2>2, <2>3
<1> QED
  BY <1>5, <1>6 DEF LiveIn, UniqueIn

LEMMA PlacedStrs ==
  ASSUME NEW m, NEW vs, NEW n, NEW us, NEW i, NEW a, NEW gone, NEW ss,
         Placed(m, vs, n, us, i, a, gone), StrsOwnIn(m, vs, ss)
  PROVE  StrsOwnIn(n, us, ss)
<1>1. ASSUME NEW s \in ss
      PROVE  s.ptr.chunk \in DOMAIN m \ gone /\ Kin(m, n, s.ptr.chunk)
  BY DEF StrsOwnIn, Valid, Placed, Granted
<1>2. ASSUME NEW s \in ss
      PROVE  Valid(n, s.ptr) /\ n[s.ptr.chunk].arena = 0
  BY <1>1 DEF StrsOwnIn, Valid, Kin
<1>3. ASSUME NEW s \in ss, NEW j \in DOMAIN us
      PROVE  us[j].buf.data.chunk # s.ptr.chunk
  <2>1. CASE j = i
    BY <1>1, <1>2, <2>1 DEF Placed, Granted
  <2>2. CASE j # i
    BY <2>2 DEF StrsOwnIn, Placed
  <2> QED
    BY <2>1, <2>2
<1> QED
  BY <1>2, <1>3 DEF StrsOwnIn

LEMMA PlacedFound ==
  ASSUME NEW m, NEW vs, NEW n, NEW us, NEW i, NEW a, NEW gone, NEW ss,
         Placed(m, vs, n, us, i, a, gone), FoundIn(m, vs, ss),
         /\ i \in DOMAIN vs /\ Valid(m, vs[i].buf.data)
         /\ m[vs[i].buf.data.chunk].arena = 0
         => vs[i].buf.data.chunk \in gone
  PROVE  FoundIn(n, us, ss)
<1>1. SUFFICES ASSUME NEW c \in DOMAIN n, n[c].live, n[c].arena = 0
               PROVE  \/ \E j \in DOMAIN us : us[j].buf.data.chunk = c
                      \/ \E s \in ss : s.ptr.chunk = c
  BY DEF FoundIn
<1>2. CASE c \notin DOMAIN m \ gone
  BY <1>1, <1>2 DEF Placed, Granted
<1>3. CASE c \in DOMAIN m \ gone
  <2>1. m[c].live /\ m[c].arena = 0
    BY <1>1, <1>3 DEF Placed, Granted, Kin
  <2>2. CASE \E s \in ss : s.ptr.chunk = c
    BY <2>2
  <2>3. ASSUME NEW j \in DOMAIN vs, vs[j].buf.data.chunk = c
        PROVE  \E k \in DOMAIN us : us[k].buf.data.chunk = c
    <3>1. j # i
      BY <1>3, <2>1, <2>3 DEF Valid
    <3> QED
      BY <2>3, <3>1 DEF Placed
  <2> QED
    BY <1>3, <2>1, <2>2, <2>3 DEF FoundIn
<1> QED
  BY <1>2, <1>3

(***************************************************************************)
(* string_push keeps what held of the memory and the variables, one step   *)
(* of it at a time: a buffer is made, the buffer grows.                    *)
(***************************************************************************)
Keeps(m, vs, n, us, level) ==
  /\ MemOK(n, height) /\ VarsOK(n, us, Level)
  /\ ApartIn(m, vs) => ApartIn(n, us)
  /\ /\ LiveIn(m, height, vs, scopes)
     /\ height = 0 \/ ArenasAbove(scopes, level) = {}
     => LiveIn(n, height, us, scopes)
  /\ StrsOwnIn(m, vs, strs) => StrsOwnIn(n, us, strs)

Finds(m, vs, n, us) == FoundIn(m, vs, strs) => FoundIn(n, us, strs)

LEMMA BufSet ==
  ASSUME NEW m, NEW vs, NEW level \in Nat, VarsOK(m, vs, level),
         NEW i \in DOMAIN vs, NEW b \in Buffer
  PROVE  /\ [vs EXCEPT ![i].buf = b] =
              [vs EXCEPT ![i] = [vs[i] EXCEPT !.buf = b]]
         /\ DOMAIN [vs EXCEPT ![i].buf = b] = DOMAIN vs
         /\ [vs EXCEPT ![i].buf = b][i].buf = b
         /\ [vs EXCEPT ![i].buf = b][i].level = vs[i].level
         /\ [vs EXCEPT ![i].buf = b][i].moved = vs[i].moved
         /\ \A j \in DOMAIN vs : j # i =>
              [vs EXCEPT ![i].buf = b][j] = vs[j]
         /\ \A n : /\ Len(m) \in Nat /\ Len(n) \in Nat /\ Len(m) <= Len(n)
                   /\ b.data.chunk <= Len(n)
                   /\ IsNull(b.data) => b.len = 0
                   => VarsOK(n, [vs EXCEPT ![i].buf = b], level)
<1> DEFINE e == [vs[i] EXCEPT !.buf = b]
           us == [vs EXCEPT ![i].buf = b]
<1>1. vs[i] \in Variable /\ vs[i].level \in 1 .. level
  BY VarsFacts DEF VariableOK
<1>2. e \in Variable /\ e.buf = b /\ e.level = vs[i].level
        /\ e.moved = vs[i].moved
  BY <1>1 DEF Variable
<1>3. us = [vs EXCEPT ![i] = e]
  OBVIOUS
<1> HIDE DEF e
<1>4. /\ DOMAIN us = DOMAIN vs /\ us[i] = e
      /\ \A j \in DOMAIN vs : j # i => us[j] = vs[j]
  BY <1>3
<1>5. ASSUME NEW n, Len(m) \in Nat, Len(n) \in Nat, Len(m) <= Len(n),
             b.data.chunk <= Len(n), IsNull(b.data) => b.len = 0
      PROVE  VarsOK(n, us, level)
  <2>1. VarsOK(n, vs, level)
    BY <1>5, VarsWiden
  <2>2. VariableOK(n, e, level)
    BY <1>1, <1>2, <1>5 DEF VariableOK
  <2> QED
    BY <1>2, <1>3, <2>1, <2>2, VarsReplaced
<1> HIDE DEF us
<1> QED
  BY <1>2, <1>3, <1>4, <1>5 DEF us, e

(* All that is said of a variable is where its memory is.                  *)
LEMMA SameMemoryKeeps ==
  ASSUME NEW m, NEW vs, NEW us, MemOK(m, height), NEW level,
         VarsOK(m, us, Level), DOMAIN us = DOMAIN vs,
         \A j \in DOMAIN vs :
           /\ us[j].buf.data = vs[j].buf.data /\ us[j].buf.cap = vs[j].buf.cap
           /\ us[j].level = vs[j].level /\ (vs[j].moved => us[j].moved)
           /\ vs[j].buf.len <= vs[j].buf.cap => us[j].buf.len <= us[j].buf.cap
  PROVE  Keeps(m, vs, m, us, level) /\ Finds(m, vs, m, us)
<1>1. ApartIn(m, vs) => ApartIn(m, us)
  BY DEF ApartIn, HeldIn, Before
<1>2. LiveIn(m, height, vs, scopes) => LiveIn(m, height, us, scopes)
  BY DEF LiveIn, AnchoredIn, UniqueIn
<1>3. StrsOwnIn(m, vs, strs) => StrsOwnIn(m, us, strs)
  BY DEF StrsOwnIn
<1>4. FoundIn(m, vs, strs) => FoundIn(m, us, strs)
  BY DEF FoundIn
<1> QED
  BY <1>1, <1>2, <1>3, <1>4 DEF Keeps, Finds

LEMMA PlacedKeeps ==
  ASSUME NEW m, NEW vs, NEW n, NEW us, NEW i, NEW a, NEW gone,
         MemOK(m, height), height \in Nat, VarsOK(m, vs, Level),
         Placed(m, vs, n, us, i, a, gone), VarsOK(n, us, Level),
         ApartIn(m, vs) => us[i].buf.len <= us[i].buf.cap
  PROVE  /\ Keeps(m, vs, n, us, us[i].level)
         /\ (/\ i \in DOMAIN vs /\ Valid(m, vs[i].buf.data)
             /\ m[vs[i].buf.data.chunk].arena = 0
             => vs[i].buf.data.chunk \in gone)
            => Finds(m, vs, n, us)
<1>1. ApartIn(m, vs) => ApartIn(n, us)
  BY PlacedApart
<1>2. /\ LiveIn(m, height, vs, scopes)
      /\ height = 0 \/ ArenasAbove(scopes, us[i].level) = {}
      => LiveIn(n, height, us, scopes)
  BY PlacedLive
<1>3. StrsOwnIn(m, vs, strs) => StrsOwnIn(n, us, strs)
  BY PlacedStrs
<1>4. ASSUME /\ i \in DOMAIN vs /\ Valid(m, vs[i].buf.data)
             /\ m[vs[i].buf.data.chunk].arena = 0
             => vs[i].buf.data.chunk \in gone
      PROVE  Finds(m, vs, n, us)
  BY <1>4, PlacedFound DEF Finds
<1>5. MemOK(n, height)
  BY DEF Placed, Granted
<1> QED
  BY <1>1, <1>2, <1>3, <1>4, <1>5 DEF Keeps

LEMMA PushedKeeps ==
  ASSUME NEW m, NEW vs, MemOK(m, height), height \in Nat, Level \in Nat,
         VarsOK(m, vs, Level), NEW i \in DOMAIN vs, ~vs[i].moved,
         ~IsNull(vs[i].buf.data), NEW piece, piece.len \in Nat,
         NEW o \in Pushed(m, vs[i].buf, piece)
  PROVE  /\ o.buf \in Buffer
         /\ Keeps(m, vs, o.mem, [vs EXCEPT ![i].buf = o.buf], vs[i].level)
         /\ Finds(m, vs, o.mem, [vs EXCEPT ![i].buf = o.buf])
<1> DEFINE buf == vs[i].buf
           us == [vs EXCEPT ![i].buf = o.buf]
<1>1. buf \in Buffer /\ buf.data.chunk <= Len(m) /\ Len(m) \in Nat
  BY VarsFacts DEF VariableOK, MemOK
<1>2. /\ o.buf \in Buffer
      /\ buf.len <= buf.cap => o.buf.len <= o.buf.cap
      /\ \/ /\ o.mem = m /\ o.buf.data = buf.data /\ o.buf.cap = buf.cap
         \/ Valid(m, buf.data) /\ GrewFrom(m, buf, o.mem, o.buf, o.buf.cap)
  BY <1>1, PushedFacts
<1> HIDE DEF us
<1>3. /\ DOMAIN us = DOMAIN vs /\ us[i].buf = o.buf
      /\ us[i].level = vs[i].level /\ us[i].moved = vs[i].moved
      /\ \A j \in DOMAIN vs : j # i => us[j] = vs[j]
      /\ \A n : /\ Len(m) \in Nat /\ Len(n) \in Nat /\ Len(m) <= Len(n)
                /\ o.buf.data.chunk <= Len(n)
                /\ IsNull(o.buf.data) => o.buf.len = 0
                => VarsOK(n, us, Level)
  BY <1>2, BufSet DEF us
<1>4. CASE o.mem = m /\ o.buf.data = buf.data /\ o.buf.cap = buf.cap
  <2>1. VarsOK(m, us, Level)
    BY <1>1, <1>3, <1>4
  <2>2. Keeps(m, vs, m, us, vs[i].level) /\ Finds(m, vs, m, us)
    BY <1>2, <1>3, <1>4, <2>1, SameMemoryKeeps
  <2> QED
    BY <1>2, <1>4, <2>2 DEF us
<1>5. CASE Valid(m, buf.data) /\ GrewFrom(m, buf, o.mem, o.buf, o.buf.cap)
  <2>1. \E a, gone :
          /\ Granted(m, o.mem, o.buf.data, o.buf.cap + 1, a, gone)
          /\ gone # {} => /\ gone = {buf.data.chunk}
                          /\ m[buf.data.chunk].arena = 0
          /\ m[buf.data.chunk].arena = 0 => buf.data.chunk \in gone
    BY <1>5 DEF GrewFrom
  <2>2. PICK a, gone :
          /\ Granted(m, o.mem, o.buf.data, o.buf.cap + 1, a, gone)
          /\ gone # {} => /\ gone = {buf.data.chunk}
                          /\ m[buf.data.chunk].arena = 0
          /\ m[buf.data.chunk].arena = 0 => buf.data.chunk \in gone
    BY <2>1
  <2>3. Placed(m, vs, o.mem, us, i, a, gone)
    BY <1>2, <1>3, <1>5, <2>2 DEF Placed, HeldIn
  <2>4. Len(m) <= Len(o.mem) /\ Len(o.mem) \in Nat
          /\ o.buf.data.chunk \in 1 .. Len(o.mem)
    BY <2>2 DEF Granted, MemOK
  <2>5. VarsOK(o.mem, us, Level)
    BY <1>1, <1>3, <2>4 DEF IsNull
  <2>6. ApartIn(m, vs) => us[i].buf.len <= us[i].buf.cap
    BY <1>2, <1>3, <1>5 DEF ApartIn, HeldIn
  <2>7. Keeps(m, vs, o.mem, us, us[i].level) /\ Finds(m, vs, o.mem, us)
    BY <2>2, <2>3, <2>5, <2>6, PlacedKeeps
  <2> QED
    BY <1>2, <1>3, <2>7 DEF us
<1> QED
  BY <1>2, <1>4, <1>5

LEMMA NewBufferKeeps ==
  ASSUME NEW m, NEW vs, MemOK(m, height), height \in Nat, Level \in Nat,
         VarsOK(m, vs, Level), NEW i \in DOMAIN vs,
         NEW cap \in Nat, NEW o \in NewBuffer(m, cap)
  PROVE  /\ o.buf \in Buffer
         /\ Keeps(m, vs, o.mem, [vs EXCEPT ![i].buf = o.buf], vs[i].level)
         /\ (Valid(m, vs[i].buf.data)
             => m[vs[i].buf.data.chunk].arena # 0)
            => Finds(m, vs, o.mem, [vs EXCEPT ![i].buf = o.buf])
<1> DEFINE us == [vs EXCEPT ![i].buf = o.buf]
           arenas == Valid(m, vs[i].buf.data)
                     => m[vs[i].buf.data.chunk].arena # 0
<1>1. Len(m) \in Nat
  BY DEF MemOK
<1>2. \/ o.buf = Empty /\ o.mem = m
      \/ /\ Granted(m, o.mem, o.buf.data, cap + 1, height, {})
         /\ o.buf \in Buffer /\ o.buf.len = 0 /\ o.buf.cap = cap
  BY NewBufferFacts
<1>3. o.buf \in Buffer
  BY <1>2, EmptyFacts
<1> HIDE DEF us
<1>4. /\ DOMAIN us = DOMAIN vs /\ us[i].buf = o.buf
      /\ us[i].level = vs[i].level /\ us[i].moved = vs[i].moved
      /\ \A j \in DOMAIN vs : j # i => us[j] = vs[j]
      /\ \A n : /\ Len(m) \in Nat /\ Len(n) \in Nat /\ Len(m) <= Len(n)
                /\ o.buf.data.chunk <= Len(n)
                /\ IsNull(o.buf.data) => o.buf.len = 0
                => VarsOK(n, us, Level)
  BY <1>3, BufSet DEF us
<1>5. CASE o.buf = Empty /\ o.mem = m
  <2>1. VarsOK(m, us, Level)
    BY <1>1, <1>4, <1>5, EmptyFacts
  <2>2. ApartIn(m, vs) => ApartIn(m, us)
    <3>1. \A j \in DOMAIN us :
            HeldIn(m, us[j]) => HeldIn(m, vs[j]) /\ us[j] = vs[j]
      <4>1. ~HeldIn(m, us[i])
        BY <1>4, <1>5, EmptyFacts DEF HeldIn, Valid, MemOK
      <4> QED
        BY <1>4, <4>1
    <3> QED
      BY <1>4, <3>1 DEF ApartIn
  <2>3. \A j \in DOMAIN us : ~IsNull(us[j].buf.data) => us[j] = vs[j]
    BY <1>4, <1>5, EmptyFacts
  <2>4. LiveIn(m, height, vs, scopes) => LiveIn(m, height, us, scopes)
    <3>1. \A j, k \in DOMAIN us :
            us[j].buf.data.chunk = us[k].buf.data.chunk =>
              (IsNull(us[j].buf.data) <=> IsNull(us[k].buf.data))
      BY DEF IsNull
    <3> QED
      BY <1>4, <2>3, <3>1 DEF LiveIn, AnchoredIn, UniqueIn
  <2>5. StrsOwnIn(m, vs, strs) => StrsOwnIn(m, us, strs)
    BY <1>4, <1>5, EmptyFacts DEF StrsOwnIn, Valid, MemOK
  <2>6. ASSUME arenas
        PROVE  Finds(m, vs, m, us)
    <3>1. ASSUME NEW c \in DOMAIN m, m[c].live, m[c].arena = 0,
                 NEW j \in DOMAIN vs, vs[j].buf.data.chunk = c
          PROVE  j \in DOMAIN us /\ us[j].buf.data.chunk = c
      <4>1. j # i
        BY <2>6, <3>1 DEF Valid
      <4> QED
        BY <1>4, <3>1, <4>1
    <3> QED
      BY <3>1 DEF FoundIn, Finds
  <2>7. Keeps(m, vs, m, us, vs[i].level)
    BY <2>1, <2>2, <2>4, <2>5 DEF Keeps
  <2> QED
    BY <1>3, <1>5, <2>6, <2>7 DEF us
<1>6. CASE /\ Granted(m, o.mem, o.buf.data, cap + 1, height, {})
           /\ o.buf.len = 0 /\ o.buf.cap = cap
  <2>1. Placed(m, vs, o.mem, us, i, height, {})
    BY <1>3, <1>4, <1>6 DEF Placed
  <2>2. Len(m) <= Len(o.mem) /\ Len(o.mem) \in Nat
          /\ o.buf.data.chunk \in 1 .. Len(o.mem)
    BY <1>6 DEF Granted, MemOK
  <2>3. VarsOK(o.mem, us, Level)
    BY <1>1, <1>4, <1>6, <2>2
  <2>4. /\ Keeps(m, vs, o.mem, us, us[i].level)
        /\ arenas => Finds(m, vs, o.mem, us)
    BY <1>4, <1>6, <2>1, <2>3, PlacedKeeps
  <2> QED
    BY <1>3, <1>4, <2>4 DEF us
<1> QED
  BY <1>2, <1>5, <1>6

LEMMA StringPushKeeps ==
  ASSUME Shape, NEW i \in DOMAIN vars, ~vars[i].moved,
         NEW piece, piece.len \in Nat, NEW o \in string_push(vars[i].buf, piece)
  PROVE  /\ Keeps(mem, vars, o.mem, [vars EXCEPT ![i].buf = o.buf],
                  vars[i].level)
         /\ Finds(mem, vars, o.mem, [vars EXCEPT ![i].buf = o.buf])
<1> DEFINE buf == vars[i].buf
           us == [vars EXCEPT ![i].buf = o.buf]
<1>1. /\ MemOK(mem, height) /\ height \in Nat /\ VarsOK(mem, vars, Level)
      /\ Level \in Nat
  BY DEF Shape, Level, ScopesOK
<1>2. CASE ~IsNull(buf.data)
  BY <1>1, <1>2, PushedKeeps DEF string_push
<1>3. CASE IsNull(buf.data)
  <2>1. PICK x \in NewBuffer(mem, BufInitial) :
          o \in IF IsNull(x.buf.data)
                  THEN {[buf |-> x.buf, mem |-> x.mem, ok |-> TRUE]}
                  ELSE Pushed(x.mem, x.buf, piece)
    BY <1>3 DEF string_push
  <2> DEFINE ws == [vars EXCEPT ![i].buf = x.buf]
  <2>2. BufInitial \in Nat /\ ~Valid(mem, buf.data)
    BY <1>1, <1>3, RuntimeAssumption DEF Valid, IsNull, MemOK
  <2>3. /\ x.buf \in Buffer
        /\ Keeps(mem, vars, x.mem, ws, vars[i].level)
        /\ Finds(mem, vars, x.mem, ws)
    BY <1>1, <2>2, NewBufferKeeps
  <2>4. CASE IsNull(x.buf.data)
    <3>1. o.buf = x.buf /\ o.mem = x.mem
      BY <2>1, <2>4
    <3> QED
      BY <2>3, <3>1
  <2>5. CASE ~IsNull(x.buf.data)
    <3>1. /\ DOMAIN ws = DOMAIN vars /\ ws[i].buf = x.buf
          /\ ws[i].level = vars[i].level /\ ws[i].moved = vars[i].moved
      BY <1>1, <2>3, BufSet
    <3>2. [ws EXCEPT ![i].buf = o.buf] = us
      OBVIOUS
    <3> HIDE DEF ws, us
    <3>3. o \in Pushed(x.mem, ws[i].buf, piece)
      BY <2>1, <2>5, <3>1
    <3>4. /\ Keeps(x.mem, ws, o.mem, us, vars[i].level)
          /\ Finds(x.mem, ws, o.mem, us)
      <4>1. MemOK(x.mem, height) /\ VarsOK(x.mem, ws, Level)
        BY <2>3 DEF Keeps
      <4> QED
        BY <1>1, <2>5, <3>1, <3>2, <3>3, <4>1, PushedKeeps
    <3>5. Keeps(mem, vars, o.mem, us, vars[i].level)
      BY <2>3, <3>4 DEF Keeps
    <3>6. Finds(mem, vars, o.mem, us)
      BY <2>3, <3>4 DEF Finds
    <3> QED
      BY <3>5, <3>6 DEF us
  <2> QED
    BY <2>4, <2>5
<1> QED
  BY <1>2, <1>3

(* Nor does it touch freed memory when the piece is in memory that the     *)
(* buffer does not give up as it grows.                                    *)
LEMMA PushedOk ==
  ASSUME NEW m, MemOK(m, height), height \in Nat, NEW buf \in Buffer,
         NEW piece, piece.len \in Nat, NEW o \in Pushed(m, buf, piece),
         Valid(m, buf.data),
         \/ IsNull(piece.ptr)
         \/ /\ Valid(m, piece.ptr)
            /\ piece.ptr.chunk # buf.data.chunk
               \/ m[buf.data.chunk].arena # 0
  PROVE  o.ok
<1>1. /\ o.mem = m \/ GrewFrom(m, buf, o.mem, o.buf, o.buf.cap)
      /\ Valid(m, buf.data) /\ (IsNull(piece.ptr) \/ Valid(o.mem, piece.ptr))
         => o.ok
  BY PushedFacts
<1>2. IsNull(piece.ptr) \/ Valid(o.mem, piece.ptr)
  BY <1>1 DEF GrewFrom, Granted, Kin, Valid
<1> QED
  BY <1>1, <1>2

LEMMA StringPushOk ==
  ASSUME Shape, NEW i \in DOMAIN vars, LiveIn(mem, height, vars, scopes),
         NEW piece, piece.len \in Nat, NEW o \in string_push(vars[i].buf, piece),
         \/ IsNull(piece.ptr)
         \/ /\ Valid(mem, piece.ptr)
            /\ piece.ptr.chunk # vars[i].buf.data.chunk
               \/ mem[vars[i].buf.data.chunk].arena # 0
  PROVE  o.ok
<1> DEFINE buf == vars[i].buf
<1>1. /\ MemOK(mem, height) /\ height \in Nat /\ buf \in Buffer
  BY VarsFacts DEF Shape
<1>2. CASE ~IsNull(buf.data)
  <2>1. Valid(mem, buf.data)
    BY <1>2 DEF LiveIn, AnchoredIn
  <2> QED
    BY <1>1, <1>2, <2>1, PushedOk DEF string_push
<1>3. CASE IsNull(buf.data)
  <2>1. PICK x \in NewBuffer(mem, BufInitial) :
          o \in IF IsNull(x.buf.data)
                  THEN {[buf |-> x.buf, mem |-> x.mem, ok |-> TRUE]}
                  ELSE Pushed(x.mem, x.buf, piece)
    BY <1>3 DEF string_push
  <2>2. BufInitial \in Nat
    BY RuntimeAssumption
  <2>3. \/ x.buf = Empty /\ x.mem = mem
        \/ /\ Granted(mem, x.mem, x.buf.data, BufInitial + 1, height, {})
           /\ x.buf \in Buffer
    BY <1>1, <2>2, NewBufferFacts
  <2>4. CASE IsNull(x.buf.data)
    BY <2>1, <2>4
  <2>5. CASE ~IsNull(x.buf.data)
    <3>1. /\ Granted(mem, x.mem, x.buf.data, BufInitial + 1, height, {})
          /\ x.buf \in Buffer
      BY <2>3, <2>5, EmptyFacts
    <3>2. Valid(x.mem, x.buf.data) /\ MemOK(x.mem, height)
      BY <3>1 DEF Granted, Valid
    <3>3. \/ IsNull(piece.ptr)
          \/ /\ Valid(x.mem, piece.ptr)
             /\ piece.ptr.chunk # x.buf.data.chunk
                \/ x.mem[x.buf.data.chunk].arena # 0
      <4>1. CASE Valid(mem, piece.ptr)
        <5>1. Valid(x.mem, piece.ptr)
          BY <3>1, <4>1 DEF Granted, Kin, Valid
        <5>2. CASE piece.ptr.chunk = x.buf.data.chunk
          <6>1. height # 0
            BY <3>1, <4>1, <5>2 DEF Granted, Valid
          <6> QED
            BY <3>1, <5>1, <6>1 DEF Granted
        <5> QED
          BY <5>1, <5>2
      <4> QED
        BY <4>1
    <3>4. o \in Pushed(x.mem, x.buf, piece)
      BY <2>1, <2>5
    <3> QED
      BY <1>1, <3>1, <3>2, <3>3, <3>4, PushedOk
  <2> QED
    BY <2>4, <2>5
<1> QED
  BY <1>2, <1>3

(***************************************************************************)
(* The actions.  What an action does not do to the memory, it does to what *)
(* is said of it: the invariant holds after it if each part does of a      *)
(* program that has taken none of the risks the part is about.             *)
(***************************************************************************)
Unsafe == {"copied", "aliased", "viewed", "self push", "escaped", "no push"}
Losing == {"early exit", "emptied", "overwritten", "copied", "aliased"}

LEMMA InvCarried ==
  ASSUME RuntimeInv, risks \subseteq risks', Running, Shape', ArenasMatch',
         "aliased" \notin risks' /\ ApartIn(mem, vars) => ApartIn(mem, vars)',
         risks' \cap Sharing = {} /\ LiveIn(mem, height, vars, scopes)
           => LiveIn(mem, height, vars, scopes)',
         /\ risks' \cap (Sharing \cup {"viewed"}) = {}
         /\ LiveIn(mem, height, vars, scopes) /\ StrsOwnIn(mem, vars, strs)
         => StrsOwnIn(mem, vars, strs)',
         /\ risks' \cap Losing = {} /\ fault' = "no"
         /\ FoundIn(mem, vars, strs)
         => FoundIn(mem, vars, strs)',
         /\ risks' \cap Unsafe = {} /\ LiveIn(mem, height, vars, scopes)
         /\ StrsOwnIn(mem, vars, strs)
         => fault' = "no"
  PROVE  RuntimeInv'
<1>1. ("aliased" \notin risks => ApartIn(mem, vars))'
  BY DEF RuntimeInv
<1>2. (risks \cap Sharing = {} => LiveIn(mem, height, vars, scopes))'
  BY DEF RuntimeInv
<1>3. (risks \cap (Sharing \cup {"viewed"}) = {}
         => StrsOwnIn(mem, vars, strs))'
  BY DEF RuntimeInv
<1>4. NothingLost'
  <2>1. NothingLost <=>
          (Running /\ risks \cap Losing = {} => FoundIn(mem, vars, strs))
    BY DEF NothingLost, FoundIn, Losing
  <2>2. NothingLost' <=>
          (fault' = "no" /\ risks' \cap Losing = {}
             => FoundIn(mem, vars, strs)')
    BY DEF NothingLost, FoundIn, Losing, Running
  <2> QED
    BY <2>1, <2>2 DEF RuntimeInv
<1>5. MemorySafe'
  <2>1. SUFFICES ASSUME risks' \cap Unsafe = {}
                 PROVE  fault' = "no"
    BY DEF MemorySafe, Unsafe
  <2>2. risks \cap (Sharing \cup {"viewed"}) = {} /\ risks \cap Sharing = {}
    BY <2>1 DEF Sharing, Unsafe
  <2> QED
    BY <2>1, <2>2 DEF RuntimeInv
<1> QED
  BY <1>1, <1>2, <1>3, <1>4, <1>5 DEF RuntimeInv

LEMMA SameArenas ==
  ASSUME ArenasMatch, risks \subseteq risks', height' = height,
         scopes' = scopes
  PROVE  ArenasMatch'
BY DEF ArenasMatch, ArenasOf, Level

LEMMA ReachFacts ==
  ASSUME ScopesOK(scopes), NEW level \in Nat, Reachable(level)
  PROVE  level = 1 \/ ArenasAbove(scopes, level) = {}
<1>1. ASSUME level # 1, NEW l \in ArenasAbove(scopes, level)
      PROVE  FALSE
  <2>1. l \in DOMAIN scopes /\ l > level /\ scopes[l].arena
    BY <1>1 DEF ArenasAbove
  <2>2. l <= level /\ l \in Nat
    BY <1>1, <2>1 DEF Reachable, ScopesOK
  <2> QED
    BY <2>1, <2>2
<1> QED
  BY <1>1

LEMMA TopFacts ==
  ASSUME ScopesOK(scopes)
  PROVE  /\ Level \in Nat \ {0} /\ DOMAIN scopes = 1 .. Level
         /\ \A l \in DOMAIN scopes : /\ scopes[l] \in Scope
                                     /\ scopes[l].arena \in BOOLEAN
         /\ ArenasAbove(scopes, Level) = {}
<1>1. scopes \in Seq(Scope) /\ scopes # <<>>
  BY DEF ScopesOK
<1>2. Level \in Nat \ {0} /\ DOMAIN scopes = 1 .. Level
  BY <1>1 DEF Level
<1>3. \A l \in DOMAIN scopes : scopes[l] \in Scope
  BY <1>1
<1>4. ArenasAbove(scopes, Level) = {}
  BY <1>2 DEF ArenasAbove
<1> QED
  BY <1>2, <1>3, <1>4 DEF Scope

LEMMA InvKept ==
  ASSUME RuntimeInv, Running, UNCHANGED <<height, scopes, strs>>,
         risks \subseteq risks', risks' \subseteq Risks, fault' \in Faults,
         NEW level, Keeps(mem, vars, mem', vars', level),
         risks' \cap Sharing = {} =>
           height = 0 \/ ArenasAbove(scopes, level) = {},
         risks' \cap Losing = {} => Finds(mem, vars, mem', vars'),
         /\ risks' \cap Unsafe = {} /\ LiveIn(mem, height, vars, scopes)
         /\ StrsOwnIn(mem, vars, strs)
         => fault' = "no"
  PROVE  RuntimeInv'
<1>1. Shape'
  <2>1. Level' = Level /\ MemOK(mem', height') /\ VarsOK(mem', vars', Level')
    BY DEF Keeps, Level
  <2>2. strs' \subseteq Str /\ height' \in Nat /\ ScopesOK(scopes')
    BY DEF RuntimeInv, Shape
  <2> QED
    BY <2>1, <2>2 DEF Shape
<1>2. ASSUME risks' \cap Sharing = {}, LiveIn(mem, height, vars, scopes)
      PROVE  LiveIn(mem, height, vars, scopes)'
  <2>1. LiveIn(mem', height, vars', scopes)
    BY <1>2 DEF Keeps
  <2> QED
    BY <2>1
<1>3. StrsOwnIn(mem, vars, strs) => StrsOwnIn(mem, vars, strs)'
  BY DEF Keeps
<1>4. ASSUME risks' \cap Losing = {}, FoundIn(mem, vars, strs)
      PROVE  FoundIn(mem, vars, strs)'
  BY <1>4 DEF Finds
<1>5. ApartIn(mem, vars) => ApartIn(mem, vars)'
  BY DEF Keeps
<1>6. ArenasMatch'
  BY SameArenas DEF RuntimeInv
<1> QED
  BY <1>1, <1>2, <1>3, <1>4, <1>5, <1>6, InvCarried

(* What is pushed is in memory: a constant, a str of the program's, or     *)
(* another String.                                                         *)
LEMMA PushInv ==
  ASSUME RuntimeInv, NEW i \in DOMAIN vars, NEW piece, piece.len \in Nat,
         Push(i, piece),
         /\ risks' \cap Unsafe = {} /\ LiveIn(mem, height, vars, scopes)
         /\ StrsOwnIn(mem, vars, strs)
         => \/ IsNull(piece.ptr)
            \/ /\ Valid(mem, piece.ptr)
               /\ piece.ptr.chunk # vars[i].buf.data.chunk
                  \/ mem[vars[i].buf.data.chunk].arena # 0
  PROVE  RuntimeInv'
<1>1. Shape /\ ArenasMatch /\ Running /\ ~vars[i].moved
        /\ Reachable(vars[i].level)
  BY DEF RuntimeInv, Push, Usable
<1>2. PICK o \in string_push(vars[i].buf, piece) :
        /\ mem' = o.mem
        /\ vars' = [vars EXCEPT ![i].buf = o.buf]
        /\ Touches(o.ok)
  BY DEF Push
<1>3. /\ UNCHANGED <<height, scopes, strs>>
      /\ risks \subseteq risks' /\ risks' \subseteq Risks
      /\ vars[i].level = 1 /\ height # 0 => "escaped" \in risks'
  <2>1. height \in Nat /\ risks \subseteq Risks
    BY <1>1 DEF Shape
  <2> DEFINE A == IF /\ ~IsNull(piece.ptr)
                     /\ piece.ptr = vars[i].buf.data
                    THEN {"self push"} ELSE {}
             B == IF vars[i].level = 1 /\ height > 0 THEN {"escaped"} ELSE {}
  <2>2. risks' = risks \cup A \cup B
    BY DEF Push
  <2>5. A \subseteq {"self push"}
    OBVIOUS
  <2>3. B \subseteq {"escaped"}
          /\ (vars[i].level = 1 /\ height # 0 => "escaped" \in B)
    <3>1. height # 0 => height > 0
      BY <2>1
    <3>2. CASE vars[i].level = 1 /\ height > 0
      BY <3>2
    <3>3. CASE ~(vars[i].level = 1 /\ height > 0)
      BY <3>1, <3>3
    <3> QED
      BY <3>2, <3>3
  <2> HIDE DEF A, B
  <2>4. risks \subseteq risks' /\ risks' \subseteq Risks
    BY <2>1, <2>2, <2>3, <2>5 DEF Risks
  <2> QED
    BY <2>2, <2>3, <2>4 DEF Push
<1>4. /\ Keeps(mem, vars, mem', vars', vars[i].level)
      /\ Finds(mem, vars, mem', vars')
  BY <1>1, <1>2, StringPushKeeps
<1>5. fault' \in {fault, "use after free"} /\ (o.ok => fault' = "no")
  BY <1>1, <1>2 DEF Touches, Running
<1>6. ASSUME risks' \cap Sharing = {}
      PROVE  height = 0 \/ ArenasAbove(scopes, vars[i].level) = {}
  <2>1. vars[i].level \in Nat /\ ScopesOK(scopes)
    BY <1>1, VarsFacts DEF Shape
  <2>2. vars[i].level = 1 \/ ArenasAbove(scopes, vars[i].level) = {}
    BY <1>1, <2>1, ReachFacts
  <2> QED
    BY <1>3, <1>6, <2>2 DEF Sharing
<1>7. ASSUME risks' \cap Unsafe = {}, LiveIn(mem, height, vars, scopes),
             StrsOwnIn(mem, vars, strs)
      PROVE  fault' = "no"
  BY <1>1, <1>2, <1>5, <1>7, StringPushOk
<1>8. fault' \in Faults
  BY <1>1, <1>5 DEF Shape, Faults
<1> QED
  BY <1>1, <1>3, <1>4, <1>6, <1>7, <1>8, InvKept

LEMMA PushesInv ==
  ASSUME RuntimeInv, NEW i \in DOMAIN vars,
         PushConstant(i) \/ PushStr(i) \/ \E j \in DOMAIN vars : PushString(i, j)
  PROVE  RuntimeInv'
<1>1. ASSUME NEW n \in Pieces, Push(i, [ptr |-> Null, len |-> n])
      PROVE  RuntimeInv'
  <2> DEFINE piece == [ptr |-> Null, len |-> n]
  <2>1. n \in Nat
    BY RuntimeAssumption
  <2>2. piece.len \in Nat /\ IsNull(piece.ptr) /\ Push(i, piece)
    BY <1>1, <2>1, EmptyFacts
  <2> HIDE DEF piece
  <2> QED
    BY <2>2, PushInv
<1>2. ASSUME NEW str \in strs, Push(i, str)
      PROVE  RuntimeInv'
  <2>1. str.len \in Nat
    BY DEF RuntimeInv, Shape, Str
  <2>2. StrsOwnIn(mem, vars, strs) =>
          /\ Valid(mem, str.ptr)
          /\ str.ptr.chunk # vars[i].buf.data.chunk
    BY DEF StrsOwnIn
  <2> QED
    BY <1>2, <2>1, <2>2, PushInv
<1>3. ASSUME NEW j \in DOMAIN vars, PushString(i, j)
      PROVE  RuntimeInv'
  <2> DEFINE piece == [ptr |-> vars[j].buf.data, len |-> vars[j].buf.len]
  <2>1. piece.len \in Nat /\ piece.ptr = vars[j].buf.data
    BY VarsFacts DEF RuntimeInv, Shape
  <2>2. Push(i, piece)
    BY <1>3 DEF PushString
  <2>3. ~IsNull(piece.ptr) /\ piece.ptr = vars[i].buf.data
          => "self push" \in risks'
    BY <2>2 DEF Push
  <2> HIDE DEF piece
  <2>4. ASSUME risks' \cap Unsafe = {}, LiveIn(mem, height, vars, scopes),
               ~IsNull(piece.ptr)
        PROVE  /\ Valid(mem, piece.ptr)
               /\ piece.ptr.chunk # vars[i].buf.data.chunk
                  \/ mem[vars[i].buf.data.chunk].arena # 0
    <3>1. Valid(mem, piece.ptr)
      BY <2>1, <2>4 DEF LiveIn, AnchoredIn
    <3>2. i # j
      BY <2>1, <2>3, <2>4 DEF Unsafe
    <3> QED
      BY <2>1, <2>4, <3>1, <3>2 DEF LiveIn, UniqueIn
  <2> QED
    BY <2>1, <2>2, <2>4, PushInv
<1> QED
  BY <1>1, <1>2, <1>3 DEF PushConstant, PushStr

LEMMA AppendedEmpty ==
  ASSUME Shape
  PROVE  /\ Keeps(mem, vars, mem, Append(vars, Declared(Empty)), Level)
         /\ Finds(mem, vars, mem, Append(vars, Declared(Empty)))
<1> DEFINE e == Declared(Empty)
           us == Append(vars, e)
           k == Len(vars) + 1
<1>1. /\ MemOK(mem, height) /\ VarsOK(mem, vars, Level) /\ Level \in Nat \ {0}
      /\ Len(mem) \in Nat /\ DOMAIN mem = 1 .. Len(mem)
  BY TopFacts DEF Shape, MemOK
<1>2. e \in Variable /\ e.buf = Empty /\ e.level = Level /\ e.moved = FALSE
  BY <1>1, EmptyFacts DEF Declared, Variable
<1> HIDE DEF e
<1>3. VariableOK(mem, e, Level)
  BY <1>1, <1>2, EmptyFacts DEF VariableOK
<1>4. \A i \in DOMAIN vars : vars[i].level <= e.level
  BY <1>1, <1>2, VarsFacts DEF VariableOK
<1>5. VarsOK(mem, us, Level)
  BY <1>1, <1>3, <1>4, VarsAppended
<1>6. /\ DOMAIN us = 1 .. k /\ us[k] = e /\ k \notin DOMAIN vars
      /\ \A j \in DOMAIN us : j # k => j \in DOMAIN vars /\ us[j] = vars[j]
      /\ \A j \in DOMAIN vars : j \in DOMAIN us /\ us[j] = vars[j]
  <2>1. vars \in Seq(Variable) /\ Len(vars) \in Nat
          /\ DOMAIN vars = 1 .. Len(vars)
    BY <1>1 DEF VarsOK
  <2>2. /\ DOMAIN us = 1 .. k /\ us[k] = e
        /\ \A j \in 1 .. Len(vars) : us[j] = vars[j]
    BY <1>2, <2>1, AppendFacts
  <2> HIDE DEF us
  <2> QED
    BY <2>1, <2>2
<1> HIDE DEF us, k
<1>7. us[k].buf.data.chunk = 0 /\ ~HeldIn(mem, us[k]) /\ IsNull(us[k].buf.data)
  BY <1>1, <1>2, <1>6, EmptyFacts DEF HeldIn, Valid
<1>8. ApartIn(mem, vars) => ApartIn(mem, us)
  BY <1>6, <1>7 DEF ApartIn
<1>9. LiveIn(mem, height, vars, scopes) => LiveIn(mem, height, us, scopes)
  BY <1>6, <1>7 DEF LiveIn, AnchoredIn, UniqueIn, IsNull
<1>10. StrsOwnIn(mem, vars, strs) => StrsOwnIn(mem, us, strs)
  BY <1>1, <1>6, <1>7 DEF StrsOwnIn, Valid
<1>11. FoundIn(mem, vars, strs) => FoundIn(mem, us, strs)
  BY <1>6 DEF FoundIn
<1>12. Keeps(mem, vars, mem, us, Level)
  BY <1>1, <1>5, <1>8, <1>9, <1>10 DEF Keeps
<1> QED
  BY <1>11, <1>12 DEF Finds, us, e

LEMMA AppendedBuf ==
  ASSUME Shape, NEW b \in Buffer
  PROVE  Append(vars, Declared(b)) =
           [Append(vars, Declared(Empty)) EXCEPT ![Len(vars) + 1].buf = b]
<1> DEFINE e == Declared(Empty)
           d == Declared(b)
           k == Len(vars) + 1
<1>1. vars \in Seq(Variable) /\ Len(vars) \in Nat /\ Level \in Nat
  BY TopFacts DEF Shape, VarsOK
<1>3. d \in Variable /\ e \in Variable
  BY <1>1, EmptyFacts DEF Declared, Variable
<1>2. [e EXCEPT !.buf = b] = d
  <2> DEFINE v == [e EXCEPT !.buf = b]
  <2>1. /\ v \in Variable /\ v.buf = b
        /\ v.level = e.level /\ v.moved = e.moved
    BY <1>3 DEF Variable
  <2>2. e.level = Level /\ e.moved = FALSE
    BY DEF Declared
  <2> HIDE DEF v
  <2>3. v = [buf |-> v.buf, level |-> v.level, moved |-> v.moved]
    BY <2>1, VariableFacts
  <2>4. v = [buf |-> b, level |-> Level, moved |-> FALSE]
    BY <2>1, <2>2, <2>3
  <2> QED
    BY <2>4 DEF v, Declared
<1> HIDE DEF e, d
<1>4. /\ Append(vars, e) \in Seq(Variable) /\ Append(vars, d) \in Seq(Variable)
      /\ Len(Append(vars, e)) = k /\ Len(Append(vars, d)) = k
      /\ Append(vars, e)[k] = e /\ Append(vars, d)[k] = d
      /\ \A j \in 1 .. Len(vars) : Append(vars, e)[j] = Append(vars, d)[j]
  BY <1>1, <1>3, AppendFacts
<1> DEFINE s == Append(vars, e)
           t == Append(vars, d)
           r == [s EXCEPT ![k].buf = b]
<1>5. r = [s EXCEPT ![k] = d]
  BY <1>2, <1>4
<1> HIDE DEF s, t, r
<1>6. /\ r \in Seq(Variable) /\ Len(r) = k /\ r[k] = d
      /\ \A j \in 1 .. Len(vars) : r[j] = s[j]
  <2>1. k \in DOMAIN s /\ \A j \in 1 .. Len(vars) : j \in DOMAIN s /\ j # k
    BY <1>1, <1>4 DEF s
  <2>2. s \in Seq(Variable) /\ Len(s) = k
    BY <1>4 DEF s
  <2>3. /\ [s EXCEPT ![k] = d] \in Seq(Variable)
        /\ Len([s EXCEPT ![k] = d]) = Len(s)
        /\ [s EXCEPT ![k] = d][k] = d
        /\ \A j \in DOMAIN s : j # k => [s EXCEPT ![k] = d][j] = s[j]
    BY <1>3, <2>1, <2>2, ExceptFacts
  <2> QED
    BY <1>5, <2>1, <2>2, <2>3
<1>7. \A j \in 1 .. k : j = k \/ j \in 1 .. Len(vars)
  BY <1>1
<1>8. \A j \in 1 .. k : r[j] = t[j]
  BY <1>4, <1>6, <1>7 DEF s, t
<1>9. t \in Seq(Variable) /\ Len(t) = k
  BY <1>4 DEF t
<1>10. r = t
  BY <1>6, <1>8, <1>9, SeqEqual
<1> QED
  BY <1>10 DEF r, s, t, d, e

LEMMA NewStringInv ==
  ASSUME RuntimeInv, NEW cap \in Capacities, NewString(cap)
  PROVE  RuntimeInv'
<1>1. /\ Shape /\ Running /\ cap \in Nat
      /\ UNCHANGED <<height, scopes, strs, fault, risks>>
  BY RuntimeAssumption DEF RuntimeInv, NewString
<1>2. PICK o \in NewBuffer(mem, cap) :
        mem' = o.mem /\ vars' = Append(vars, Declared(o.buf))
  BY DEF NewString
<1> DEFINE k == Len(vars) + 1
           ws == Append(vars, Declared(Empty))
<1>3. /\ MemOK(mem, height) /\ height \in Nat /\ Level \in Nat
      /\ Len(vars) \in Nat /\ vars \in Seq(Variable)
      /\ ArenasAbove(scopes, Level) = {}
      /\ risks \subseteq Risks /\ fault \in Faults
  BY <1>1, TopFacts DEF Shape, VarsOK
<1>4. Keeps(mem, vars, mem, ws, Level) /\ Finds(mem, vars, mem, ws)
  BY <1>1, AppendedEmpty
<1>5. VarsOK(mem, ws, Level)
  BY <1>4 DEF Keeps
<1>6. k \in DOMAIN ws /\ ws[k].buf = Empty /\ ws[k].level = Level
  BY <1>3, EmptyFacts DEF Declared
<1> HIDE DEF ws, k
<1>7. ~Valid(mem, ws[k].buf.data)
  BY <1>3, <1>6, EmptyFacts DEF Valid, MemOK
<1>8. /\ o.buf \in Buffer
      /\ Keeps(mem, ws, mem', [ws EXCEPT ![k].buf = o.buf], Level)
      /\ Finds(mem, ws, mem', [ws EXCEPT ![k].buf = o.buf])
  BY <1>1, <1>2, <1>3, <1>5, <1>6, <1>7, NewBufferKeeps
<1>9. vars' = [ws EXCEPT ![k].buf = o.buf]
  BY <1>1, <1>2, <1>8, AppendedBuf DEF ws, k
<1>10. Keeps(mem, vars, mem', vars', Level) /\ Finds(mem, vars, mem', vars')
  BY <1>4, <1>8, <1>9 DEF Keeps, Finds
<1>11. fault' = "no"
  BY <1>1 DEF Running
<1> QED
  BY <1>1, <1>3, <1>10, <1>11, InvKept

LEMMA AssignInv ==
  ASSUME RuntimeInv, NEW i \in DOMAIN vars, Assign(i)
  PROVE  RuntimeInv'
<1>1. /\ Shape /\ Running /\ Reachable(vars[i].level)
      /\ UNCHANGED <<height, scopes, strs, fault>>
  BY DEF RuntimeInv, Assign, Usable
<1>2. PICK o \in NewBuffer(mem, BufInitial) :
        mem' = o.mem /\ vars' = [vars EXCEPT ![i].buf = o.buf]
  BY DEF Assign
<1>3. /\ MemOK(mem, height) /\ height \in Nat /\ Level \in Nat
      /\ VarsOK(mem, vars, Level) /\ ScopesOK(scopes)
      /\ risks \subseteq Risks /\ fault \in Faults /\ BufInitial \in Nat
      /\ vars[i].level \in Nat
  BY <1>1, TopFacts, VarsFacts, RuntimeAssumption DEF Shape
<1> DEFINE A == IF OnHeap(vars[i].buf.data) THEN {"overwritten"} ELSE {}
           B == IF vars[i].level = 1 /\ height > 0 THEN {"escaped"} ELSE {}
<1>4. risks' = risks \cup A \cup B
  BY DEF Assign
<1>5. A \subseteq {"overwritten"} /\ (OnHeap(vars[i].buf.data)
                                        => "overwritten" \in A)
  OBVIOUS
<1>6. B \subseteq {"escaped"} /\ (vars[i].level = 1 /\ height # 0
                                    => "escaped" \in B)
  <2>1. height # 0 => height > 0
    BY <1>3
  <2> QED
    BY <2>1
<1> HIDE DEF A, B
<1>7. risks \subseteq risks' /\ risks' \subseteq Risks
  BY <1>3, <1>4, <1>5, <1>6 DEF Risks
<1>8. /\ Keeps(mem, vars, mem', vars', vars[i].level)
      /\ (Valid(mem, vars[i].buf.data)
            => mem[vars[i].buf.data.chunk].arena # 0)
           => Finds(mem, vars, mem', vars')
  BY <1>2, <1>3, NewBufferKeeps
<1>9. ASSUME risks' \cap Sharing = {}
      PROVE  height = 0 \/ ArenasAbove(scopes, vars[i].level) = {}
  <2>1. vars[i].level = 1 \/ ArenasAbove(scopes, vars[i].level) = {}
    BY <1>1, <1>3, ReachFacts
  <2> QED
    BY <1>4, <1>6, <1>9, <2>1 DEF Sharing
<1>10. ASSUME risks' \cap Losing = {}
       PROVE  Finds(mem, vars, mem', vars')
  <2>1. ~OnHeap(vars[i].buf.data)
    BY <1>4, <1>5, <1>10 DEF Losing
  <2>2. Valid(mem, vars[i].buf.data) => ~IsNull(vars[i].buf.data)
    BY <1>3 DEF Valid, IsNull, MemOK
  <2>3. Valid(mem, vars[i].buf.data)
          => mem[vars[i].buf.data.chunk].arena # 0
    BY <2>1, <2>2 DEF OnHeap, Owns
  <2> QED
    BY <1>8, <2>3
<1>11. fault' = "no"
  BY <1>1 DEF Running
<1> QED
  BY <1>1, <1>3, <1>7, <1>8, <1>9, <1>10, <1>11, InvKept

(***************************************************************************)
(* Strings become str values: the variable is left without a buffer, the   *)
(* memory is freed, copied or handed over.                                 *)
(***************************************************************************)
LEMMA ThinnedKeeps ==
  ASSUME Shape, NEW n, NEW us, MemOK(n, height), VarsOK(n, us, Level),
         DOMAIN us = DOMAIN vars,
         \A j \in DOMAIN vars :
           /\ us[j].level = vars[j].level /\ (vars[j].moved => us[j].moved)
           /\ us[j].buf = vars[j].buf \/ us[j].buf = Empty,
         NEW i \in DOMAIN vars, NEW gone,
         \A c \in DOMAIN mem :
           /\ c \in DOMAIN n /\ (n[c].live => Kin(mem, n, c))
           /\ c \notin gone => Kin(mem, n, c),
         gone # {} =>
           /\ us[i].buf = Empty /\ gone = {vars[i].buf.data.chunk}
           /\ Valid(mem, vars[i].buf.data) =>
                mem[vars[i].buf.data.chunk].arena = 0,
         NEW level
  PROVE  Keeps(mem, vars, n, us, level)
<1> DEFINE at(v) == v.buf.data.chunk
<1>1. /\ Len(mem) \in Nat /\ DOMAIN mem = 1 .. Len(mem)
      /\ Len(n) \in Nat /\ DOMAIN n = 1 .. Len(n)
      /\ \A j \in DOMAIN vars : at(vars[j]) \in Nat /\ at(vars[j]) <= Len(mem)
  BY ChunkFacts, VarsFacts DEF Shape, MemOK, VariableOK
<1>2. ~Valid(n, Empty.data) /\ IsNull(Empty.data)
  BY <1>1, EmptyFacts DEF Valid
<1>3. ASSUME NEW j \in DOMAIN us, HeldIn(n, us[j])
      PROVE  /\ HeldIn(mem, vars[j]) /\ us[j].buf = vars[j].buf
             /\ Kin(mem, n, at(us[j]))
             /\ mem[at(us[j])].used \in Nat /\ n[at(us[j])].used \in Nat
             /\ vars[j].buf.data.off \in Nat /\ vars[j].buf.cap \in Nat
  <2>1. us[j].buf = vars[j].buf /\ n[at(us[j])].live /\ at(us[j]) \in DOMAIN n
    BY <1>2, <1>3 DEF HeldIn, Valid
  <2>2. at(us[j]) \in DOMAIN mem
    BY <1>1, <2>1
  <2>3. Kin(mem, n, at(us[j]))
    BY <2>1, <2>2
  <2>4. HeldIn(mem, vars[j])
    BY <1>3, <2>1, <2>2, <2>3 DEF HeldIn, Valid, Kin
  <2>5. mem[at(us[j])].used \in Nat /\ n[at(us[j])].used \in Nat
    BY <2>1, <2>2, ChunkFacts DEF MemOK, Shape
  <2>6. vars[j].buf.data.off \in Nat /\ vars[j].buf.cap \in Nat
    BY VarsFacts DEF Shape
  <2> QED
    BY <2>1, <2>3, <2>4, <2>5, <2>6
<1>4. ASSUME ApartIn(mem, vars)
      PROVE  ApartIn(n, us)
  <2>1. ASSUME NEW j \in DOMAIN us, HeldIn(n, us[j])
        PROVE  /\ us[j].buf.len <= us[j].buf.cap
               /\ us[j].buf.data.off + us[j].buf.cap < n[at(us[j])].used
               /\ n[at(us[j])].arena = 0 => us[j].buf.data.off = 0
    <3>1. /\ us[j].buf.len <= us[j].buf.cap
          /\ us[j].buf.data.off + us[j].buf.cap < mem[at(us[j])].used
          /\ mem[at(us[j])].arena = 0 => us[j].buf.data.off = 0
      BY <1>3, <1>4, <2>1 DEF ApartIn
    <3>2. /\ n[at(us[j])].used >= mem[at(us[j])].used
          /\ n[at(us[j])].arena = mem[at(us[j])].arena
          /\ n[at(us[j])].used \in Nat /\ mem[at(us[j])].used \in Nat
          /\ us[j].buf.data.off \in Nat /\ us[j].buf.cap \in Nat
      BY <1>3, <2>1 DEF Kin
    <3> QED
      BY <3>1, <3>2
  <2>2. ASSUME NEW j \in DOMAIN us, NEW k \in DOMAIN us, j # k,
               HeldIn(n, us[j]), HeldIn(n, us[k]), at(us[j]) = at(us[k])
        PROVE  Before(us[j].buf, us[k].buf) \/ Before(us[k].buf, us[j].buf)
    BY <1>3, <1>4, <2>2 DEF ApartIn
  <2> QED
    BY <2>1, <2>2 DEF ApartIn
<1>5. ASSUME LiveIn(mem, height, vars, scopes)
      PROVE  LiveIn(n, height, us, scopes)
  <2>1. ASSUME NEW j \in DOMAIN us, ~IsNull(us[j].buf.data)
        PROVE  /\ us[j].buf = vars[j].buf /\ Kin(mem, n, at(us[j]))
               /\ Valid(mem, us[j].buf.data)
    <3>1. us[j].buf = vars[j].buf /\ Valid(mem, vars[j].buf.data)
      BY <1>2, <1>5, <2>1 DEF LiveIn, AnchoredIn
    <3>2. at(vars[j]) \notin gone
      BY <1>2, <1>5, <2>1, <3>1 DEF LiveIn, UniqueIn, Valid
    <3> QED
      BY <3>1, <3>2 DEF Valid
  <2>2. AnchoredIn(n, height, us, scopes)
    BY <1>5, <2>1 DEF LiveIn, AnchoredIn, Kin, Valid
  <2>3. UniqueIn(n, us)
    <3>1. ASSUME NEW j \in DOMAIN us, NEW k \in DOMAIN us, j # k,
                 ~IsNull(us[j].buf.data), at(us[j]) = at(us[k])
          PROVE  n[at(us[j])].arena # 0
      <4>1. ~IsNull(us[k].buf.data)
        BY <3>1 DEF IsNull
      <4> QED
        BY <1>5, <2>1, <3>1, <4>1 DEF LiveIn, UniqueIn, Kin
    <3> QED
      BY <3>1 DEF UniqueIn
  <2> QED
    BY <2>2, <2>3 DEF LiveIn
<1>6. ASSUME StrsOwnIn(mem, vars, strs)
      PROVE  StrsOwnIn(n, us, strs)
  <2>1. ASSUME NEW s \in strs
        PROVE  s.ptr.chunk \in DOMAIN mem /\ Kin(mem, n, s.ptr.chunk)
    BY <1>6 DEF StrsOwnIn, Valid
  <2>2. ASSUME NEW s \in strs, NEW j \in DOMAIN us
        PROVE  at(us[j]) # s.ptr.chunk
    BY <1>1, <1>6, <2>1, EmptyFacts DEF StrsOwnIn
  <2> QED
    BY <1>6, <2>1, <2>2 DEF StrsOwnIn, Valid, Kin
<1> QED
  BY <1>4, <1>5, <1>6 DEF Keeps

LEMMA KinSelf ==
  ASSUME NEW m \in Seq(Chunk), NEW c \in DOMAIN m
  PROVE  Kin(m, m, c)
<1>1. m[c].used \in Nat
  BY ChunkFacts
<1> QED
  BY <1>1 DEF Kin

LEMMA EmptiedFacts ==
  ASSUME Shape, NEW i \in DOMAIN vars
  PROVE  /\ DOMAIN Emptied(i) = DOMAIN vars
         /\ Emptied(i)[i].buf = Empty
         /\ \A j \in DOMAIN vars :
              /\ Emptied(i)[j].level = vars[j].level
              /\ j # i => Emptied(i)[j] = vars[j]
         /\ VarsOK(mem, Emptied(i), Level)
<1> DEFINE e == [vars[i] EXCEPT !.buf = Empty, !.moved = Own(i)]
<1>1. /\ Level \in Nat /\ VarsOK(mem, vars, Level) /\ Len(mem) \in Nat
      /\ vars[i] \in Variable /\ VariableOK(mem, vars[i], Level)
  BY TopFacts, VarsFacts DEF Shape, MemOK
<1>2. Own(i) \in BOOLEAN
  BY DEF Own
<1>3. e \in Variable /\ e.buf = Empty /\ e.level = vars[i].level
  BY <1>1, <1>2, EmptyFacts DEF Variable
<1>4. Emptied(i) = [vars EXCEPT ![i] = e]
  BY DEF Emptied
<1> HIDE DEF e
<1>5. VariableOK(mem, e, Level)
  BY <1>1, <1>3, EmptyFacts DEF VariableOK
<1>6. VarsOK(mem, Emptied(i), Level)
  <2>1. VarsOK(mem, [vars EXCEPT ![i] = e], Level)
    BY <1>1, <1>3, <1>5, VarsReplaced
  <2> QED
    BY <1>4, <2>1
<1> QED
  BY <1>3, <1>4, <1>6

LEMMA FreedFacts ==
  ASSUME NEW m \in Seq(Chunk), NEW S
  PROVE  /\ Freed(m, S) \in Seq(Chunk) /\ Len(Freed(m, S)) = Len(m)
         /\ DOMAIN Freed(m, S) = DOMAIN m
         /\ \A c \in DOMAIN m : c \notin S => Freed(m, S)[c] = m[c]
         /\ \A c \in DOMAIN m : c \in S => Freed(m, S)[c] = FreedChunk
<1> DEFINE f == Freed(m, S)
<1>1. FreedChunk \in Chunk
  BY DEF FreedChunk, Chunk
<1>2. f \in [1 .. Len(m) -> Chunk]
  BY <1>1 DEF Freed
<1>3. f \in Seq(Chunk) /\ Len(f) = Len(m)
  <2> HIDE DEF f
  <2> QED
    BY <1>2, SequenceOf
<1> QED
  BY <1>3 DEF Freed

LEMMA FreedChunkFacts ==
  FreedChunk.used = 0 /\ FreedChunk.size = 0 /\ ~FreedChunk.live
BY DEF FreedChunk

LEMMA FreedOK ==
  ASSUME NEW m, NEW h, MemOK(m, h), NEW S
  PROVE  MemOK(Freed(m, S), h)
<1>1. \A c \in DOMAIN m :
        Freed(m, S)[c] = m[c] \/ Freed(m, S)[c] = FreedChunk
  BY FreedFacts DEF MemOK
<1> QED
  BY <1>1, FreedFacts, FreedChunkFacts DEF MemOK

LEMMA IntoStrEmptyInv ==
  ASSUME RuntimeInv, NEW i \in DOMAIN vars, IntoStrEmpty(i)
  PROVE  RuntimeInv'
<1>1. /\ Shape /\ Running /\ vars' = Emptied(i)
      /\ UNCHANGED <<height, scopes, strs, fault, mem>>
      /\ risks \subseteq risks' /\ risks' \subseteq Risks
      /\ OnHeap(vars[i].buf.data) => "emptied" \in risks'
  BY DEF RuntimeInv, Shape, IntoStrEmpty, Usable, Run, Risks, memVars
<1>2. /\ MemOK(mem, height) /\ mem \in Seq(Chunk) /\ DOMAIN mem = 1 .. Len(mem)
      /\ fault \in Faults
  BY <1>1 DEF Shape, MemOK
<1>3. \A c \in DOMAIN mem : Kin(mem, mem, c)
  BY <1>2, KinSelf
<1>4. Keeps(mem, vars, mem, Emptied(i), Level)
  <2>1. \A c \in DOMAIN mem :
          /\ c \in DOMAIN mem /\ (mem[c].live => Kin(mem, mem, c))
          /\ c \notin {} => Kin(mem, mem, c)
    BY <1>3
  <2>2. \A j \in DOMAIN vars :
          /\ Emptied(i)[j].level = vars[j].level
          /\ (vars[j].moved => Emptied(i)[j].moved)
          /\ Emptied(i)[j].buf = vars[j].buf \/ Emptied(i)[j].buf = Empty
    BY <1>1, EmptiedFacts DEF IntoStrEmpty, Usable
  <2> QED
    BY <1>1, <1>2, <2>1, <2>2, EmptiedFacts, ThinnedKeeps
<1>5. ASSUME risks' \cap Losing = {}
      PROVE  Finds(mem, vars, mem, Emptied(i))
  <2>1. ~OnHeap(vars[i].buf.data)
    BY <1>1, <1>5 DEF Losing
  <2>2. ASSUME NEW c \in DOMAIN mem, mem[c].live, mem[c].arena = 0
        PROVE  c # vars[i].buf.data.chunk
    BY <1>2, <2>1, <2>2 DEF OnHeap, Owns, IsNull
  <2> QED
    BY <1>1, <2>2, EmptiedFacts DEF Finds, FoundIn
<1>6. ArenasAbove(scopes, Level) = {}
  BY <1>1, TopFacts DEF Shape
<1>7. fault' = "no"
  BY <1>1 DEF Running
<1> QED
  BY <1>1, <1>2, <1>4, <1>5, <1>6, <1>7, InvKept

LEMMA IntoStrShortInv ==
  ASSUME RuntimeInv, NEW i \in DOMAIN vars, IntoStrShort(i)
  PROVE  RuntimeInv'
<1> DEFINE data == vars[i].buf.data
           gone == IF Owns(mem, data) THEN {} ELSE {data.chunk}
<1>1. /\ Shape /\ Running /\ vars' = Emptied(i) /\ ~vars[i].moved
      /\ UNCHANGED <<height, scopes, strs, risks>>
      /\ Touches(Valid(mem, data)) /\ vars[i].buf.len # 0
      /\ mem' = IF Owns(mem, data) THEN mem ELSE Freed(mem, {data.chunk})
  BY DEF RuntimeInv, IntoStrShort, Usable
<1>2. /\ MemOK(mem, height) /\ mem \in Seq(Chunk) /\ DOMAIN mem = 1 .. Len(mem)
      /\ fault \in Faults /\ risks \subseteq Risks /\ ~IsNull(data)
  BY <1>1, VarsFacts DEF Shape, MemOK, VariableOK
<1>3. /\ MemOK(mem', height) /\ Len(mem') = Len(mem)
      /\ DOMAIN mem' = DOMAIN mem
      /\ \A c \in DOMAIN mem : c \notin gone => mem'[c] = mem[c]
      /\ \A c \in DOMAIN mem : c \in gone => ~mem'[c].live
  <2>1. CASE Owns(mem, data)
    BY <1>1, <1>2, <2>1
  <2>2. CASE ~Owns(mem, data)
    BY <1>1, <1>2, <2>2, FreedFacts, FreedOK, FreedChunkFacts
  <2> QED
    BY <2>1, <2>2
<1>4. /\ gone # {} => gone = {data.chunk}
      /\ gone # {} /\ Valid(mem, data) => mem[data.chunk].arena = 0
      /\ gone = {} => mem[data.chunk].arena # 0
  <2>1. CASE Owns(mem, data)
    BY <2>1 DEF Owns
  <2>2. CASE ~Owns(mem, data)
    <3>1. Valid(mem, data) => /\ mem[data.chunk].arena \in Nat
                              /\ mem[data.chunk].arena <= height
      BY <1>2, ChunkFacts DEF Valid, MemOK
    <3>2. Valid(mem, data) => mem[data.chunk].arena = 0
      BY <1>1, <2>2, <3>1 DEF Owns, Shape
    <3> QED
      BY <2>2, <3>2
  <2> QED
    BY <2>1, <2>2
<1> HIDE DEF gone
<1>5. Keeps(mem, vars, mem', Emptied(i), Level)
  <2>1. ASSUME NEW c \in DOMAIN mem
        PROVE  /\ c \in DOMAIN mem' /\ (mem'[c].live => Kin(mem, mem', c))
               /\ c \notin gone => Kin(mem, mem', c)
    BY <1>2, <1>3, KinSelf DEF Kin
  <2>2. \A j \in DOMAIN vars :
          /\ Emptied(i)[j].level = vars[j].level
          /\ (vars[j].moved => Emptied(i)[j].moved)
          /\ Emptied(i)[j].buf = vars[j].buf \/ Emptied(i)[j].buf = Empty
    BY <1>1, EmptiedFacts
  <2>3. VarsOK(mem', Emptied(i), Level)
    <3>1. VarsOK(mem, Emptied(i), Level) /\ Level \in Nat /\ Len(mem) \in Nat
      BY <1>1, <1>2, EmptiedFacts, TopFacts DEF Shape
    <3>2. Len(mem) <= Len(mem') /\ Len(mem') \in Nat /\ Level <= Level
      BY <1>3, <3>1
    <3> QED
      BY <3>1, <3>2, VarsWiden
  <2> QED
    BY <1>1, <1>3, <1>4, <2>1, <2>2, <2>3, EmptiedFacts, ThinnedKeeps
<1>6. Finds(mem, vars, mem', Emptied(i))
  <2>1. ASSUME NEW c \in DOMAIN mem', mem'[c].live, mem'[c].arena = 0
        PROVE  /\ c \in DOMAIN mem /\ mem[c].live /\ mem[c].arena = 0
               /\ c # data.chunk
    <3>1. c \in DOMAIN mem /\ c \notin gone /\ mem'[c] = mem[c]
      BY <1>3, <2>1
    <3> QED
      BY <1>4, <2>1, <3>1
  <2>2. SUFFICES ASSUME FoundIn(mem, vars, strs),
                        NEW c \in DOMAIN mem', mem'[c].live, mem'[c].arena = 0
                 PROVE  \/ \E j \in DOMAIN Emptied(i) :
                              Emptied(i)[j].buf.data.chunk = c
                        \/ \E s \in strs : s.ptr.chunk = c
    BY DEF Finds, FoundIn
  <2>3. \/ \E j \in DOMAIN vars : vars[j].buf.data.chunk = c
        \/ \E s \in strs : s.ptr.chunk = c
    BY <2>1, <2>2 DEF FoundIn
  <2>4. ASSUME NEW j \in DOMAIN vars, vars[j].buf.data.chunk = c
        PROVE  j \in DOMAIN Emptied(i) /\ Emptied(i)[j].buf.data.chunk = c
    <3>1. j # i
      BY <2>1, <2>2, <2>4
    <3>2. j \in DOMAIN Emptied(i) /\ Emptied(i)[j] = vars[j]
      BY <1>1, <3>1, EmptiedFacts
    <3> QED
      BY <2>4, <3>2
  <2> QED
    BY <2>3, <2>4
<1>7. ArenasAbove(scopes, Level) = {}
  BY <1>1, TopFacts DEF Shape
<1>8. /\ fault' \in Faults
      /\ LiveIn(mem, height, vars, scopes) => fault' = "no"
  <2>1. LiveIn(mem, height, vars, scopes) => Valid(mem, data)
    BY <1>2 DEF LiveIn, AnchoredIn
  <2> QED
    BY <1>1, <1>2, <2>1 DEF Touches, Running, Faults
<1> QED
  BY <1>1, <1>2, <1>5, <1>6, <1>7, <1>8, InvKept

LEMMA StrAddedInv ==
  ASSUME RuntimeInv, Running, UNCHANGED <<height, scopes>>,
         risks \subseteq risks', risks' \subseteq Risks, fault' \in Faults,
         Keeps(mem, vars, mem', vars', Level),
         NEW p \in Pointer, NEW len \in Nat,
         strs' = strs \cup {[ptr |-> p, len |-> len]},
         /\ risks' \cap (Sharing \cup {"viewed"}) = {}
         /\ LiveIn(mem, height, vars, scopes)
         => /\ Valid(mem', p) /\ mem'[p.chunk].arena = 0
            /\ \A j \in DOMAIN vars' : vars'[j].buf.data.chunk # p.chunk,
         /\ risks' \cap Losing = {} /\ fault' = "no"
         /\ FoundIn(mem, vars, strs)
         => \A c \in DOMAIN mem' : mem'[c].live /\ mem'[c].arena = 0 =>
              \/ c = p.chunk
              \/ \E j \in DOMAIN vars' : vars'[j].buf.data.chunk = c
              \/ \E s \in strs : s.ptr.chunk = c,
         /\ risks' \cap Unsafe = {} /\ LiveIn(mem, height, vars, scopes)
         /\ StrsOwnIn(mem, vars, strs)
         => fault' = "no"
  PROVE  RuntimeInv'
<1> DEFINE str == [ptr |-> p, len |-> len]
<1>1. str \in Str /\ str.ptr = p
  BY DEF Str
<1> HIDE DEF str
<1>2. strs' = strs \cup {str}
  BY DEF str
<1>3. Shape'
  <2>1. Level' = Level /\ MemOK(mem', height') /\ VarsOK(mem', vars', Level')
    BY DEF Keeps, Level
  <2>2. strs' \subseteq Str /\ height' \in Nat /\ ScopesOK(scopes')
    BY <1>1, <1>2 DEF RuntimeInv, Shape
  <2> QED
    BY <2>1, <2>2 DEF Shape
<1>4. ASSUME risks' \cap Sharing = {}, LiveIn(mem, height, vars, scopes)
      PROVE  LiveIn(mem, height, vars, scopes)'
  <2>1. ArenasAbove(scopes, Level) = {}
    BY TopFacts DEF RuntimeInv, Shape
  <2>2. LiveIn(mem', height, vars', scopes)
    BY <1>4, <2>1 DEF Keeps
  <2> QED
    BY <2>2
<1>5. ASSUME risks' \cap (Sharing \cup {"viewed"}) = {},
             LiveIn(mem, height, vars, scopes), StrsOwnIn(mem, vars, strs)
      PROVE  StrsOwnIn(mem, vars, strs)'
  <2>1. StrsOwnIn(mem', vars', strs)
    BY <1>5 DEF Keeps
  <2>2. StrsOwnIn(mem', vars', strs')
    BY <1>1, <1>2, <1>5, <2>1 DEF StrsOwnIn
  <2> QED
    BY <2>2
<1>6. ASSUME risks' \cap Losing = {}, fault' = "no", FoundIn(mem, vars, strs)
      PROVE  FoundIn(mem, vars, strs)'
  <2>1. FoundIn(mem', vars', strs')
    BY <1>1, <1>2, <1>6 DEF FoundIn
  <2> QED
    BY <2>1
<1>7. ApartIn(mem, vars) => ApartIn(mem, vars)'
  BY DEF Keeps
<1>8. ArenasMatch'
  BY SameArenas DEF RuntimeInv
<1> QED
  BY <1>3, <1>4, <1>5, <1>6, <1>7, <1>8, InvCarried

LEMMA CopiedStrFacts ==
  ASSUME Shape, NEW buf \in Buffer, NEW o \in CopiedStr(buf)
  PROVE  \/ o.ptr = Null /\ o.mem = mem
         \/ /\ Granted(mem, o.mem, o.ptr, buf.len + 1, 0, {})
            /\ o.ptr.chunk = Len(mem) + 1
<1>1. CASE buf.len <= SsoMax
  BY <1>1 DEF CopiedStr
<1>2. CASE ~(buf.len <= SsoMax)
  <2>1. o \in Malloc(mem, buf.len + 1, buf.len + 1, 0)
    BY <1>2 DEF CopiedStr
  <2>2. /\ buf.len + 1 \in Nat /\ buf.len + 1 \in 0 .. buf.len + 1
        /\ MemOK(mem, height) /\ height \in Nat /\ 0 \in 0 .. height
    BY BufferFacts DEF Shape
  <2>3. \/ o = Failed(mem)
        \/ /\ Granted(mem, o.mem, o.ptr, buf.len + 1, 0, {})
           /\ o.ptr.chunk = Len(mem) + 1
    BY <2>1, <2>2, MallocFacts
  <2> QED
    BY <2>3 DEF Failed
<1> QED
  BY <1>1, <1>2

(* Memory for a str, the variables as they were but perhaps for one that   *)
(* is emptied.                                                             *)
LEMMA CopyKeeps ==
  ASSUME Shape, NEW n, NEW p, NEW size, Granted(mem, n, p, size, 0, {}),
         NEW us, VarsOK(mem, us, Level), DOMAIN us = DOMAIN vars,
         \A j \in DOMAIN vars :
           /\ us[j].level = vars[j].level /\ (vars[j].moved => us[j].moved)
           /\ us[j].buf = vars[j].buf \/ us[j].buf = Empty,
         NEW i \in DOMAIN vars
  PROVE  Keeps(mem, vars, n, us, Level)
<1>1. \A c \in DOMAIN mem :
        /\ c \in DOMAIN n /\ (n[c].live => Kin(mem, n, c))
        /\ c \notin {} => Kin(mem, n, c)
  BY DEF Granted, Kin
<1>2. MemOK(n, height) /\ VarsOK(n, us, Level)
  <2>1. /\ MemOK(n, height) /\ Len(mem) <= Len(n)
        /\ Len(n) \in Nat /\ Len(mem) \in Nat /\ Level \in Nat /\ Level <= Level
    BY TopFacts DEF Granted, MemOK, Shape
  <2> QED
    BY <2>1, VarsWiden
<1> QED
  BY <1>1, <1>2, ThinnedKeeps

LEMMA SomeStr ==
  ASSUME NEW p, ~IsNull(p), NEW len
  PROVE  Add([ptr |-> p, len |-> len]) = strs \cup {[ptr |-> p, len |-> len]}
BY DEF Add

LEMMA NoStr ==
  ASSUME NEW len
  PROVE  Add([ptr |-> Null, len |-> len]) = strs
BY EmptyFacts DEF Add

LEMMA CloneStrInv ==
  ASSUME RuntimeInv, NEW i \in DOMAIN vars, CloneStr(i)
  PROVE  RuntimeInv'
<1> DEFINE buf == vars[i].buf
<1>1. /\ Shape /\ Running /\ UNCHANGED <<height, vars, scopes, risks>>
      /\ Touches(Valid(mem, buf.data)) /\ buf.len > 0
  BY DEF RuntimeInv, CloneStr, Usable
<1>2. PICK o \in CopiedStr(buf) :
        mem' = o.mem /\ strs' = Add([ptr |-> o.ptr, len |-> buf.len])
  BY DEF CloneStr
<1>3. /\ MemOK(mem, height) /\ mem \in Seq(Chunk) /\ DOMAIN mem = 1 .. Len(mem)
      /\ Len(mem) \in Nat
      /\ fault \in Faults /\ risks \subseteq Risks /\ buf \in Buffer
      /\ buf.len \in Nat /\ ~IsNull(buf.data) /\ VarsOK(mem, vars, Level)
      /\ \A j \in DOMAIN vars : vars[j].buf.data.chunk <= Len(mem)
                                /\ vars[j].buf.data.chunk \in Nat
  BY <1>1, VarsFacts DEF Shape, MemOK, VariableOK
<1>4. /\ fault' \in Faults
      /\ LiveIn(mem, height, vars, scopes) => fault' = "no"
  <2>1. LiveIn(mem, height, vars, scopes) => Valid(mem, buf.data)
    BY <1>3 DEF LiveIn, AnchoredIn
  <2> QED
    BY <1>1, <1>3, <2>1 DEF Touches, Running, Faults
<1>5. CASE o.ptr = Null /\ o.mem = mem
  <2>1. UNCHANGED <<mem, vars, strs>>
    BY <1>1, <1>2, <1>5, NoStr
  <2>2. /\ Keeps(mem, vars, mem', vars', Level)
        /\ Finds(mem, vars, mem', vars')
    BY <1>3, <2>1 DEF Keeps, Finds
  <2>3. ArenasAbove(scopes, Level) = {}
    BY <1>1, TopFacts DEF Shape
  <2> QED
    BY <1>1, <1>3, <1>4, <2>1, <2>2, <2>3, InvKept
<1>6. CASE /\ Granted(mem, o.mem, o.ptr, buf.len + 1, 0, {})
           /\ o.ptr.chunk = Len(mem) + 1
  <2>1. /\ o.ptr \in Pointer /\ ~IsNull(o.ptr) /\ Valid(mem', o.ptr)
        /\ mem'[o.ptr.chunk].arena = 0
    BY <1>2, <1>3, <1>6 DEF Granted, IsNull, Valid
  <2>2. strs' = strs \cup {[ptr |-> o.ptr, len |-> buf.len]}
    BY <1>2, <2>1, SomeStr
  <2>3. Keeps(mem, vars, mem', vars', Level)
    BY <1>1, <1>2, <1>3, <1>6, CopyKeeps
  <2>4. \A j \in DOMAIN vars' : vars'[j].buf.data.chunk # o.ptr.chunk
    BY <1>1, <1>3, <1>6
  <2>5. ASSUME FoundIn(mem, vars, strs), NEW c \in DOMAIN mem', mem'[c].live,
               mem'[c].arena = 0
        PROVE  \/ c = o.ptr.chunk
               \/ \E j \in DOMAIN vars' : vars'[j].buf.data.chunk = c
               \/ \E s \in strs : s.ptr.chunk = c
    <3>1. CASE c \in DOMAIN mem
      BY <1>1, <1>2, <1>6, <2>5, <3>1 DEF Granted, Kin, FoundIn
    <3>2. CASE c \notin DOMAIN mem
      BY <1>2, <1>6, <2>5, <3>2 DEF Granted
    <3> QED
      BY <3>1, <3>2
  <2> QED
    BY <1>1, <1>3, <1>4, <2>1, <2>2, <2>3, <2>4, <2>5, StrAddedInv
<1> QED
  BY <1>1, <1>3, <1>5, <1>6, CopiedStrFacts

LEMMA ViewInv ==
  ASSUME RuntimeInv, NEW i \in DOMAIN vars, View(i)
  PROVE  RuntimeInv'
<1> DEFINE buf == vars[i].buf
<1>1. /\ Shape /\ Running /\ UNCHANGED <<mem, height, vars, scopes, fault>>
      /\ buf.len > 0 /\ strs' = Add([ptr |-> buf.data, len |-> buf.len])
      /\ risks' = risks \cup {"viewed"}
  BY DEF RuntimeInv, View, Usable, Run, memVars
<1>2. /\ MemOK(mem, height) /\ fault \in Faults /\ risks \subseteq Risks
      /\ buf.data \in Pointer /\ buf.len \in Nat /\ ~IsNull(buf.data)
      /\ VarsOK(mem, vars, Level)
  BY <1>1, VarsFacts DEF Shape, VariableOK
<1>3. strs' = strs \cup {[ptr |-> buf.data, len |-> buf.len]}
  BY <1>1, <1>2, SomeStr
<1>4. Keeps(mem, vars, mem', vars', Level)
  BY <1>1, <1>2 DEF Keeps
<1>5. risks \subseteq risks' /\ risks' \subseteq Risks /\ "viewed" \in risks'
  BY <1>1, <1>2 DEF Risks
<1>6. FoundIn(mem, vars, strs) =>
        \A c \in DOMAIN mem' : mem'[c].live /\ mem'[c].arena = 0 =>
          \/ c = buf.data.chunk
          \/ \E j \in DOMAIN vars' : vars'[j].buf.data.chunk = c
          \/ \E s \in strs : s.ptr.chunk = c
  BY <1>1 DEF FoundIn
<1>7. fault' = "no"
  BY <1>1 DEF Running
<1> QED
  BY <1>1, <1>2, <1>3, <1>4, <1>5, <1>6, <1>7, StrAddedInv

LEMMA MovedFacts ==
  ASSUME Shape, NEW i \in DOMAIN vars, NEW x \in BOOLEAN
  PROVE  /\ DOMAIN [vars EXCEPT ![i].moved = x] = DOMAIN vars
         /\ \A j \in DOMAIN vars :
              /\ [vars EXCEPT ![i].moved = x][j].level = vars[j].level
              /\ [vars EXCEPT ![i].moved = x][j].buf = vars[j].buf
              /\ j # i => [vars EXCEPT ![i].moved = x][j] = vars[j]
         /\ [vars EXCEPT ![i].moved = x][i].moved = x
         /\ Len([vars EXCEPT ![i].moved = x]) = Len(vars)
         /\ VarsOK(mem, [vars EXCEPT ![i].moved = x], Level)
<1> DEFINE e == [vars[i] EXCEPT !.moved = x]
           us == [vars EXCEPT ![i].moved = x]
<1>1. /\ Level \in Nat /\ VarsOK(mem, vars, Level)
      /\ vars[i] \in Variable /\ VariableOK(mem, vars[i], Level)
  BY TopFacts, VarsFacts DEF Shape
<1>2. e \in Variable /\ e.buf = vars[i].buf /\ e.level = vars[i].level
        /\ e.moved = x
  BY <1>1 DEF Variable
<1>3. us = [vars EXCEPT ![i] = e]
  OBVIOUS
<1> HIDE DEF e
<1>4. VariableOK(mem, e, Level)
  BY <1>1, <1>2 DEF VariableOK
<1>5. VarsOK(mem, [vars EXCEPT ![i] = e], Level)
  BY <1>1, <1>2, <1>4, VarsReplaced
<1>8. Len(us) = Len(vars)
  <2>1. vars \in Seq(Variable)
    BY <1>1 DEF VarsOK
  <2> QED
    BY <1>2, <1>3, <2>1, ExceptFacts
<1> HIDE DEF us
<1>6. /\ DOMAIN us = DOMAIN vars /\ us[i] = e
      /\ \A j \in DOMAIN vars : j # i => us[j] = vars[j]
  BY <1>3
<1>7. VarsOK(mem, us, Level)
  BY <1>3, <1>5
<1> QED
  BY <1>2, <1>6, <1>7, <1>8 DEF us

LEMMA IntoStrLongInv ==
  ASSUME RuntimeInv, NEW i \in DOMAIN vars, IntoStrLong(i)
  PROVE  RuntimeInv'
<1> DEFINE buf == vars[i].buf
           data == vars[i].buf.data
<1>1. /\ Shape /\ Running /\ UNCHANGED <<height, scopes, fault, risks>>
      /\ ~vars[i].moved /\ buf.len > SsoMax
  BY DEF RuntimeInv, IntoStrLong, Usable
<1>2. PICK o \in IF Owns(mem, data)
                   THEN CopiedStr(buf) ELSE {[ptr |-> data, mem |-> mem]} :
        /\ mem' = o.mem
        /\ strs' = Add([ptr |-> o.ptr, len |-> buf.len])
        /\ vars' = IF IsNull(o.ptr)
                     THEN [vars EXCEPT ![i].moved = Own(i)] ELSE Emptied(i)
  BY DEF IntoStrLong
<1>3. /\ MemOK(mem, height) /\ mem \in Seq(Chunk) /\ DOMAIN mem = 1 .. Len(mem)
      /\ Len(mem) \in Nat
      /\ fault \in Faults /\ risks \subseteq Risks /\ buf \in Buffer
      /\ buf.len \in Nat /\ data \in Pointer
      /\ VarsOK(mem, vars, Level) /\ height \in Nat
      /\ \A j \in DOMAIN vars : vars[j].buf.data.chunk <= Len(mem)
                                /\ vars[j].buf.data.chunk \in Nat
  BY <1>1, VarsFacts DEF Shape, MemOK, VariableOK
<1>4. ~IsNull(data)
  <2>1. IsNull(data) => buf.len = 0
    BY <1>3, VarsFacts DEF VariableOK
  <2> QED
    BY <1>1, <1>3, <2>1, RuntimeAssumption
<1>5. fault' = "no" /\ ArenasAbove(scopes, Level) = {}
  BY <1>1, TopFacts DEF Running, Shape
<1>6. /\ DOMAIN Emptied(i) = DOMAIN vars /\ Emptied(i)[i].buf = Empty
      /\ VarsOK(mem, Emptied(i), Level)
      /\ \A j \in DOMAIN vars :
           /\ Emptied(i)[j].level = vars[j].level
           /\ vars[j].moved => Emptied(i)[j].moved
           /\ j # i => Emptied(i)[j] = vars[j]
  BY <1>1, EmptiedFacts
<1>7. \A j \in DOMAIN vars :
        Emptied(i)[j].buf = vars[j].buf \/ Emptied(i)[j].buf = Empty
  BY <1>6
<1>8. CASE Owns(mem, data) /\ o.ptr = Null /\ o.mem = mem
  <2>1. /\ UNCHANGED <<mem, strs>>
        /\ vars' = [vars EXCEPT ![i].moved = Own(i)]
    BY <1>2, <1>8, NoStr, EmptyFacts
  <2>2. /\ DOMAIN vars' = DOMAIN vars /\ VarsOK(mem, vars', Level)
        /\ \A j \in DOMAIN vars :
             /\ vars'[j].level = vars[j].level /\ vars'[j].buf = vars[j].buf
             /\ vars[j].moved => vars'[j].moved
    <3>1. PICK x \in BOOLEAN : vars' = [vars EXCEPT ![i].moved = x]
      <4>1. CASE Own(i)
        <5>1. vars' = [vars EXCEPT ![i].moved = TRUE]
          BY <2>1, <4>1
        <5> QED
          BY <5>1
      <4>2. CASE ~Own(i)
        <5>1. Own(i) = FALSE
          BY <4>2 DEF Own
        <5>2. vars' = [vars EXCEPT ![i].moved = FALSE]
          BY <2>1, <5>1
        <5> QED
          BY <5>2
      <4> QED
        BY <4>1, <4>2
    <3> DEFINE us == [vars EXCEPT ![i].moved = x]
    <3>2. /\ DOMAIN us = DOMAIN vars /\ VarsOK(mem, us, Level)
          /\ \A j \in DOMAIN vars :
               /\ us[j].level = vars[j].level
               /\ us[j].buf = vars[j].buf
               /\ j # i => us[j] = vars[j]
      BY <1>1, MovedFacts
    <3>3. vars' = us
      BY <3>1
    <3> HIDE DEF us
    <3> QED
      BY <1>1, <3>2, <3>3
  <2>3. /\ Keeps(mem, vars, mem', vars', Level)
        /\ Finds(mem, vars, mem', vars')
    BY <1>3, <2>1, <2>2, SameMemoryKeeps
  <2> QED
    BY <1>1, <1>3, <1>5, <2>1, <2>3, InvKept
<1>9. CASE /\ Owns(mem, data)
           /\ Granted(mem, o.mem, o.ptr, buf.len + 1, 0, {})
           /\ o.ptr.chunk = Len(mem) + 1
  <2>1. /\ o.ptr \in Pointer /\ ~IsNull(o.ptr) /\ Valid(mem', o.ptr)
        /\ mem'[o.ptr.chunk].arena = 0
    BY <1>2, <1>3, <1>9 DEF Granted, IsNull, Valid
  <2>2. /\ strs' = strs \cup {[ptr |-> o.ptr, len |-> buf.len]}
        /\ vars' = Emptied(i)
    BY <1>2, <2>1, SomeStr
  <2>3. Keeps(mem, vars, mem', vars', Level)
    BY <1>1, <1>2, <1>6, <1>7, <1>9, <2>2, CopyKeeps
  <2>4. \A j \in DOMAIN vars' : vars'[j].buf.data.chunk # o.ptr.chunk
    BY <1>3, <1>6, <1>7, <1>9, <2>2, EmptyFacts
  <2>5. ASSUME FoundIn(mem, vars, strs), NEW c \in DOMAIN mem', mem'[c].live,
               mem'[c].arena = 0
        PROVE  \/ c = o.ptr.chunk
               \/ \E j \in DOMAIN vars' : vars'[j].buf.data.chunk = c
               \/ \E s \in strs : s.ptr.chunk = c
    <3>1. CASE c \in DOMAIN mem
      <4>1. mem[c].live /\ mem[c].arena = 0
        BY <1>2, <1>9, <2>5, <3>1 DEF Granted, Kin
      <4>2. c # data.chunk
        BY <1>9, <4>1 DEF Owns
      <4>3. \/ \E j \in DOMAIN vars : vars[j].buf.data.chunk = c
            \/ \E s \in strs : s.ptr.chunk = c
        BY <2>5, <3>1, <4>1 DEF FoundIn
      <4> QED
        BY <1>6, <2>2, <4>2, <4>3
    <3>2. CASE c \notin DOMAIN mem
      BY <1>2, <1>9, <2>5, <3>2 DEF Granted
    <3> QED
      BY <3>1, <3>2
  <2> QED
    BY <1>1, <1>3, <1>5, <2>1, <2>2, <2>3, <2>4, <2>5, StrAddedInv
<1>10. CASE ~Owns(mem, data)
  <2>1. /\ strs' = strs \cup {[ptr |-> data, len |-> buf.len]}
        /\ vars' = Emptied(i) /\ mem' = mem
    BY <1>2, <1>4, <1>10, SomeStr
  <2>2. Keeps(mem, vars, mem', vars', Level)
    <3>1. \A c \in DOMAIN mem :
            /\ c \in DOMAIN mem /\ (mem[c].live => Kin(mem, mem, c))
            /\ c \notin {} => Kin(mem, mem, c)
      BY <1>3, KinSelf
    <3> QED
      BY <1>1, <1>3, <1>6, <1>7, <2>1, <3>1, ThinnedKeeps
  <2>3. ASSUME LiveIn(mem, height, vars, scopes)
        PROVE  /\ Valid(mem', data) /\ mem'[data.chunk].arena = 0
               /\ \A j \in DOMAIN vars' : vars'[j].buf.data.chunk # data.chunk
    <3>1. Valid(mem, data)
      BY <1>4, <2>3 DEF LiveIn, AnchoredIn
    <3>2. mem[data.chunk].arena \in Nat /\ mem[data.chunk].arena <= height
      BY <1>3, <3>1, ChunkFacts DEF Valid, MemOK
    <3>3. mem[data.chunk].arena = 0
      BY <1>3, <1>10, <3>1, <3>2 DEF Owns
    <3>4. \A j \in DOMAIN vars : j # i => vars[j].buf.data.chunk # data.chunk
      BY <1>4, <2>3, <3>3 DEF LiveIn, UniqueIn
    <3> QED
      BY <1>4, <1>6, <2>1, <3>1, <3>3, <3>4, EmptyFacts DEF IsNull
  <2>4. FoundIn(mem, vars, strs) =>
          \A c \in DOMAIN mem' : mem'[c].live /\ mem'[c].arena = 0 =>
            \/ c = data.chunk
            \/ \E j \in DOMAIN vars' : vars'[j].buf.data.chunk = c
            \/ \E s \in strs : s.ptr.chunk = c
    BY <1>6, <2>1 DEF FoundIn
  <2> QED
    BY <1>1, <1>3, <1>5, <2>1, <2>2, <2>3, <2>4, StrAddedInv
<1>11. CASE Owns(mem, data)
  <2>1. o \in CopiedStr(buf)
    BY <1>2, <1>11
  <2>2. \/ o.ptr = Null /\ o.mem = mem
        \/ /\ Granted(mem, o.mem, o.ptr, buf.len + 1, 0, {})
           /\ o.ptr.chunk = Len(mem) + 1
    BY <1>1, <1>3, <2>1, CopiedStrFacts
  <2> QED
    BY <1>8, <1>9, <1>11, <2>2
<1> QED
  BY <1>10, <1>11

(***************************************************************************)
(* A String is moved: to a variable, or to a function's parameter.         *)
(***************************************************************************)
Handed(i, level) ==
  Append([vars EXCEPT ![i].moved = TRUE],
         [buf |-> vars[i].buf, level |-> level, moved |-> FALSE])

IsHanded(us, i, level) ==
  /\ VarsOK(mem, us, level)
  /\ DOMAIN us = 1 .. Len(vars) + 1
  /\ us[Len(vars) + 1].buf = vars[i].buf
  /\ us[Len(vars) + 1].level = level
  /\ us[i].moved = TRUE
  /\ \A j \in DOMAIN vars :
       /\ us[j].buf = vars[j].buf /\ us[j].level = vars[j].level
       /\ j # i => us[j] = vars[j]

LEMMA HandedFacts ==
  ASSUME Shape, NEW i \in DOMAIN vars, NEW level \in {Level, Level + 1}
  PROVE  IsHanded(Handed(i, level), i, level)
<1> DEFINE ws == [vars EXCEPT ![i].moved = TRUE]
           e == [buf |-> vars[i].buf, level |-> level, moved |-> FALSE]
<1>1. /\ Level \in Nat \ {0} /\ level \in Nat \ {0} /\ Level <= level
      /\ VarsOK(mem, vars, Level) /\ Len(mem) \in Nat
      /\ vars[i] \in Variable /\ VariableOK(mem, vars[i], Level)
      /\ vars[i].buf \in Buffer
  BY TopFacts, VarsFacts DEF Shape, MemOK
<1>2. /\ DOMAIN ws = DOMAIN vars /\ VarsOK(mem, ws, Level)
      /\ ws[i].moved = TRUE /\ Len(ws) = Len(vars)
      /\ \A j \in DOMAIN vars :
           /\ ws[j].level = vars[j].level /\ ws[j].buf = vars[j].buf
           /\ j # i => ws[j] = vars[j]
  BY MovedFacts
<1>3. /\ e \in Variable /\ e.buf = vars[i].buf /\ e.level = level
      /\ e.moved = FALSE
  BY <1>1 DEF Variable
<1> HIDE DEF ws, e
<1>4. VariableOK(mem, e, level)
  BY <1>1, <1>3 DEF VariableOK
<1>5. VarsOK(mem, ws, level)
  <2>1. Len(mem) <= Len(mem)
    BY <1>1
  <2> QED
    BY <1>1, <1>2, <2>1, VarsWiden
<1>6. \A j \in DOMAIN ws : ws[j].level <= e.level
  <2>1. \A j \in DOMAIN ws : ws[j].level \in 1 .. level
    BY <1>5 DEF VarsOK, VariableOK
  <2> QED
    BY <1>3, <2>1
<1>7. VarsOK(mem, Append(ws, e), level)
  BY <1>1, <1>4, <1>5, <1>6, VarsAppended
<1>8. /\ ws \in Seq(Variable) /\ vars \in Seq(Variable)
      /\ Len(ws) \in Nat /\ Len(vars) = Len(ws)
      /\ DOMAIN vars = 1 .. Len(vars)
  <2>1. ws \in Seq(Variable) /\ vars \in Seq(Variable)
    BY <1>1, <1>2 DEF VarsOK
  <2>2. DOMAIN ws = 1 .. Len(ws) /\ DOMAIN vars = 1 .. Len(vars)
          /\ Len(ws) \in Nat /\ Len(vars) \in Nat
    BY <2>1
  <2> QED
    BY <1>2, <2>1, <2>2
<1>9. /\ DOMAIN Append(ws, e) = 1 .. Len(ws) + 1
      /\ Append(ws, e)[Len(ws) + 1] = e
      /\ \A j \in 1 .. Len(ws) : Append(ws, e)[j] = ws[j]
  BY <1>3, <1>8, AppendFacts
<1>10. Handed(i, level) = Append(ws, e)
  BY DEF Handed, ws, e
<1> QED
  BY <1>2, <1>3, <1>7, <1>8, <1>9, <1>10 DEF IsHanded

(* Its memory is now the new variable's: the old one may not be used, and  *)
(* when the memory is an arena's it is dropped to no effect.               *)
LEMMA HandedKeeps ==
  ASSUME Shape, NEW i \in DOMAIN vars, ~vars[i].moved,
         NEW level \in {Level, Level + 1}, NEW sc,
         \A l \in 1 .. Level : ArenasAbove(sc, l) = ArenasAbove(scopes, l),
         ArenasAbove(sc, level) = {}
  PROVE  /\ ApartIn(mem, vars) => ApartIn(mem, Handed(i, level))
         /\ /\ LiveIn(mem, height, vars, scopes)
            /\ ~OnHeap(vars[i].buf.data)
            => LiveIn(mem, height, Handed(i, level), sc)
         /\ StrsOwnIn(mem, vars, strs) =>
              StrsOwnIn(mem, Handed(i, level), strs)
         /\ FoundIn(mem, vars, strs) => FoundIn(mem, Handed(i, level), strs)
<1> DEFINE us == Handed(i, level)
           k == Len(vars) + 1
           src(j) == IF j = k THEN i ELSE j
<1>1. /\ DOMAIN us = 1 .. k /\ us[k].buf = vars[i].buf /\ us[k].level = level
      /\ us[i].moved /\ k \notin DOMAIN vars
      /\ \A j \in DOMAIN vars : j \in DOMAIN us /\ us[j].buf = vars[j].buf
                                /\ us[j].level = vars[j].level
                                /\ (j # i => us[j] = vars[j])
      /\ \A j \in DOMAIN us : j # k => j \in DOMAIN vars
  <2>1. IsHanded(us, i, level)
    BY HandedFacts
  <2>2. Len(vars) \in Nat /\ DOMAIN vars = 1 .. Len(vars)
    BY VarsFacts DEF Shape
  <2> HIDE DEF us
  <2> QED
    BY <2>1, <2>2 DEF IsHanded
<1>2. \A j \in DOMAIN us : src(j) \in DOMAIN vars /\ us[j].buf = vars[src(j)].buf
  BY <1>1
<1> HIDE DEF us, k
<1>3. ASSUME NEW j \in DOMAIN us, HeldIn(mem, us[j])
      PROVE  HeldIn(mem, vars[src(j)]) /\ j # i
  BY <1>1, <1>3 DEF HeldIn
<1>4. \A j, l \in DOMAIN us : j # l /\ j # i /\ l # i => src(j) # src(l)
  OBVIOUS
<1> HIDE DEF src
<1>5. ApartIn(mem, vars) => ApartIn(mem, us)
  BY <1>2, <1>3, <1>4 DEF ApartIn
<1>6. ASSUME LiveIn(mem, height, vars, scopes), ~OnHeap(vars[i].buf.data)
      PROVE  LiveIn(mem, height, us, sc)
  <2>1. /\ height \in Nat /\ MemOK(mem, height)
        /\ \A j \in DOMAIN vars : vars[j].level \in 1 .. Level
    BY VarsFacts DEF Shape, VariableOK
  <2>2. AnchoredIn(mem, height, us, sc)
    <3>1. ASSUME NEW j \in DOMAIN us, ~IsNull(us[j].buf.data)
          PROVE  /\ Valid(mem, us[j].buf.data)
                 /\ Room(height, sc, mem[us[j].buf.data.chunk].arena,
                         us[j].level)
      <4>1. Valid(mem, us[j].buf.data)
        BY <1>2, <1>6, <3>1 DEF LiveIn, AnchoredIn
      <4>2. CASE j = k
        <5>1. /\ mem[us[j].buf.data.chunk].arena \in Nat
              /\ mem[us[j].buf.data.chunk].arena <= height
          BY <2>1, <4>1, ChunkFacts DEF Valid, MemOK
        <5>2. Cardinality(ArenasAbove(sc, us[j].level)) = 0
          BY <1>1, <4>2, FS_EmptySet
        <5> QED
          BY <4>1, <5>1, <5>2 DEF Room
      <4>3. CASE j # k
        <5>1. /\ j \in DOMAIN vars /\ us[j].buf = vars[j].buf
              /\ us[j].level = vars[j].level
          BY <1>1, <4>3
        <5>2. Room(height, scopes, mem[us[j].buf.data.chunk].arena,
                   us[j].level)
          BY <1>6, <3>1, <5>1 DEF LiveIn, AnchoredIn
        <5>3. ArenasAbove(sc, us[j].level) = ArenasAbove(scopes, us[j].level)
          BY <2>1, <5>1
        <5> QED
          BY <4>1, <5>2, <5>3 DEF Room
      <4> QED
        BY <4>2, <4>3
    <3> QED
      BY <3>1 DEF AnchoredIn
  <2>3. UniqueIn(mem, us)
    <3>1. ASSUME NEW j \in DOMAIN us, NEW l \in DOMAIN us, j # l,
                 ~IsNull(us[j].buf.data),
                 us[j].buf.data.chunk = us[l].buf.data.chunk
          PROVE  mem[us[j].buf.data.chunk].arena # 0
      <4>1. CASE src(j) # src(l)
        BY <1>2, <1>6, <3>1, <4>1 DEF LiveIn, UniqueIn
      <4>2. CASE src(j) = src(l)
        <5>1. src(j) = i
          BY <3>1, <4>2 DEF src
        <5>2. us[j].buf = vars[i].buf
          BY <1>2, <5>1
        <5>3. Owns(mem, vars[i].buf.data)
          BY <1>6, <3>1, <5>2 DEF OnHeap
        <5> QED
          BY <5>2, <5>3 DEF Owns
      <4> QED
        BY <4>1, <4>2
    <3> QED
      BY <3>1 DEF UniqueIn
  <2> QED
    BY <2>2, <2>3 DEF LiveIn
<1>7. StrsOwnIn(mem, vars, strs) => StrsOwnIn(mem, us, strs)
  BY <1>2 DEF StrsOwnIn
<1>8. FoundIn(mem, vars, strs) => FoundIn(mem, us, strs)
  BY <1>1 DEF FoundIn
<1> QED
  BY <1>5, <1>6, <1>7, <1>8 DEF us

(***************************************************************************)
(* Scopes open and close: the arenas above a level are counted.            *)
(***************************************************************************)
MatchIn(h, sc, rs) ==
  LET n == Cardinality(ArenasAbove(sc, 0)) IN
  /\ "no push" \notin rs => h >= n
  /\ rs \cap {"no push", "no pop"} = {} => h = n

LEMMA AllArenas ==
  ASSUME NEW sc, ScopesOK(sc)
  PROVE  ArenasAbove(sc, 0) = {l \in 1 .. Len(sc) : sc[l].arena}
BY DEF ArenasAbove, ScopesOK

LEMMA MatchNow ==
  ASSUME ScopesOK(scopes)
  PROVE  ArenasMatch <=> MatchIn(height, scopes, risks)
BY AllArenas DEF ArenasMatch, MatchIn, ArenasOf, Level

LEMMA MatchNext ==
  ASSUME ScopesOK(scopes')
  PROVE  ArenasMatch' <=> MatchIn(height', scopes', risks')
BY AllArenas DEF ArenasMatch, MatchIn, ArenasOf, Level

LEMMA AboveFacts ==
  ASSUME NEW sc, ScopesOK(sc), NEW l
  PROVE  /\ IsFiniteSet(ArenasAbove(sc, l))
         /\ Cardinality(ArenasAbove(sc, l)) \in Nat
<1>1. ArenasAbove(sc, l) \subseteq 1 .. Len(sc) /\ Len(sc) \in Nat
  BY DEF ArenasAbove, ScopesOK
<1>2. IsFiniteSet(1 .. Len(sc))
  BY <1>1, FS_Interval
<1> QED
  BY <1>1, <1>2, FS_Subset, FS_CardinalityType

LEMMA OpenedFacts ==
  ASSUME ScopesOK(scopes), NEW s \in Scope, s.kind # "root",
         s.arena => s.kind = "fn", Level = 1 => s.kind = "fn"
  PROVE  /\ ScopesOK(Append(scopes, s)) /\ Len(Append(scopes, s)) = Level + 1
         /\ ArenasAbove(Append(scopes, s), Level + 1) = {}
         /\ ~s.arena => \A l \in 0 .. Level :
              ArenasAbove(Append(scopes, s), l) = ArenasAbove(scopes, l)
         /\ s.arena => \A l \in 0 .. Level :
              Cardinality(ArenasAbove(Append(scopes, s), l)) =
                Cardinality(ArenasAbove(scopes, l)) + 1
<1> DEFINE sc == Append(scopes, s)
           k == Level + 1
<1>1. scopes \in Seq(Scope) /\ Level \in Nat \ {0} /\ DOMAIN scopes = 1 .. Level
        /\ Level = Len(scopes)
  BY TopFacts DEF ScopesOK, Level
<1>2. /\ sc \in Seq(Scope) /\ DOMAIN sc = 1 .. k /\ Len(sc) = k /\ sc[k] = s
      /\ \A l \in 1 .. Level : sc[l] = scopes[l]
  BY <1>1, AppendFacts
<1> HIDE DEF sc
<1>3. ScopesOK(sc)
  <2>1. \A l \in DOMAIN sc : /\ sc[l].kind = "root" <=> l = 1
                             /\ sc[l].arena => sc[l].kind = "fn"
    <3>1. \A l \in DOMAIN sc : l = k \/ l \in DOMAIN scopes
      BY <1>1, <1>2
    <3>2. k # 1
      BY <1>1
    <3> QED
      BY <1>1, <1>2, <3>1, <3>2 DEF ScopesOK
  <2>2. sc[2].kind = "fn"
    <3>1. CASE Level = 1
      BY <1>1, <1>2, <3>1
    <3>2. CASE Level # 1
      <4>1. 2 \in 1 .. Level /\ Len(scopes) > 1
        BY <1>1, <3>2
      <4> QED
        BY <1>2, <4>1 DEF ScopesOK
    <3> QED
      BY <3>1, <3>2
  <2>3. sc # <<>>
    BY <1>1, <1>2
  <2> QED
    BY <1>2, <2>1, <2>2, <2>3 DEF ScopesOK
<1>4. ArenasAbove(sc, k) = {}
  BY <1>1, <1>2 DEF ArenasAbove
<1>5. ASSUME NEW l \in 0 .. Level
      PROVE  ArenasAbove(sc, l) =
               ArenasAbove(scopes, l) \cup (IF s.arena THEN {k} ELSE {})
  BY <1>1, <1>2 DEF ArenasAbove
<1>6. ASSUME NEW l \in 0 .. Level, s.arena
      PROVE  Cardinality(ArenasAbove(sc, l)) =
               Cardinality(ArenasAbove(scopes, l)) + 1
  <2>1. ArenasAbove(sc, l) = ArenasAbove(scopes, l) \cup {k}
    BY <1>5, <1>6
  <2>2. k \notin ArenasAbove(scopes, l)
    BY <1>1 DEF ArenasAbove
  <2> HIDE DEF k
  <2> QED
    BY <2>1, <2>2, AboveFacts, FS_AddElement
<1>7. ASSUME ~s.arena, NEW l \in 0 .. Level
      PROVE  ArenasAbove(sc, l) = ArenasAbove(scopes, l)
  BY <1>5, <1>7
<1> QED
  BY <1>2, <1>3, <1>4, <1>6, <1>7 DEF sc

(* A scope has opened, with an arena of its own if it asked for one and    *)
(* there was memory for it.                                                *)
Opens(s) ==
  /\ s \in Scope /\ s.kind # "root"
  /\ s.arena => s.kind = "fn"
  /\ Level = 1 => s.kind = "fn"
  /\ scopes' = Append(scopes, s)
  /\ \/ height' = height /\ ~s.arena
     \/ height' = height /\ s.arena /\ "no push" \in risks'
     \/ height' = height + 1 /\ s.arena

LEMMA OpensFacts ==
  ASSUME Shape, ArenasMatch, risks \subseteq risks', NEW s, Opens(s)
  PROVE  /\ ScopesOK(scopes') /\ Level' = Level + 1 /\ ArenasMatch'
         /\ height' \in Nat /\ height <= height' /\ MemOK(mem, height')
         /\ ArenasAbove(scopes', Level + 1) = {}
<1>1. /\ ScopesOK(scopes) /\ height \in Nat /\ MemOK(mem, height)
      /\ mem \in Seq(Chunk)
  BY DEF Shape, MemOK
<1>2. /\ ScopesOK(scopes') /\ Level' = Level + 1
      /\ ArenasAbove(scopes', Level + 1) = {}
      /\ ~s.arena => ArenasAbove(scopes', 0) = ArenasAbove(scopes, 0)
      /\ s.arena => Cardinality(ArenasAbove(scopes', 0)) =
                      Cardinality(ArenasAbove(scopes, 0)) + 1
  <2>1. Level \in Nat /\ 0 \in 0 .. Level
    BY <1>1, TopFacts
  <2> DEFINE sc == Append(scopes, s)
  <2>2. /\ ScopesOK(sc) /\ Len(sc) = Level + 1
        /\ ArenasAbove(sc, Level + 1) = {}
        /\ ~s.arena => \A l \in 0 .. Level :
             ArenasAbove(sc, l) = ArenasAbove(scopes, l)
        /\ s.arena => \A l \in 0 .. Level :
             Cardinality(ArenasAbove(sc, l)) =
               Cardinality(ArenasAbove(scopes, l)) + 1
    BY <1>1, OpenedFacts DEF Opens
  <2>3. scopes' = sc
    BY DEF Opens
  <2> HIDE DEF sc
  <2>4. Level' = Len(sc)
    BY <2>3 DEF Level
  <2> QED
    BY <2>1, <2>2, <2>3, <2>4
<1>3. MatchIn(height, scopes, risks)
  BY <1>1, MatchNow
<1> DEFINE n == Cardinality(ArenasAbove(scopes, 0))
           m == Cardinality(ArenasAbove(scopes', 0))
<1>4. n \in Nat /\ (s.arena => m = n + 1) /\ (~s.arena => m = n)
  BY <1>1, <1>2, AboveFacts
<1>5. height' \in Nat /\ height <= height'
  <2>1. height' = height \/ height' = height + 1
    BY DEF Opens
  <2> QED
    BY <1>1, <2>1
<1>6. MatchIn(height', scopes', risks')
  <2>1. ASSUME "no push" \notin risks'
        PROVE  height' >= m
    <3>1. height >= n
      BY <1>3, <2>1 DEF MatchIn
    <3>2. (height' = height /\ m = n) \/ (height' = height + 1 /\ m = n + 1)
      BY <1>4, <2>1 DEF Opens
    <3> QED
      BY <1>1, <1>4, <3>1, <3>2
  <2>2. ASSUME risks' \cap {"no push", "no pop"} = {}
        PROVE  height' = m
    <3>1. height = n
      BY <1>3, <2>2 DEF MatchIn
    <3>2. "no push" \notin risks'
      BY <2>2
    <3> QED
      BY <1>4, <3>1, <3>2 DEF Opens
  <2> QED
    BY <2>1, <2>2 DEF MatchIn
<1>7. MemOK(mem, height')
  BY <1>1, <1>5, ChunkFacts DEF MemOK
<1> QED
  BY <1>2, <1>5, <1>6, <1>7, MatchNext

LEMMA OpensInv ==
  ASSUME RuntimeInv, Running, UNCHANGED <<mem, vars, strs, fault>>,
         risks \subseteq risks', risks' \subseteq Risks, NEW s, Opens(s)
  PROVE  RuntimeInv'
<1>1. /\ Shape /\ ScopesOK(scopes) /\ height \in Nat /\ MemOK(mem, height)
      /\ VarsOK(mem, vars, Level) /\ ArenasMatch /\ Level \in Nat
      /\ Len(mem) \in Nat
  BY TopFacts DEF RuntimeInv, Shape, MemOK
<1>2. /\ ScopesOK(scopes') /\ Level' = Level + 1 /\ ArenasMatch'
      /\ height' \in Nat /\ height <= height' /\ MemOK(mem, height')
  BY <1>1, OpensFacts
<1>3. Shape'
  <2>1. Len(mem) <= Len(mem) /\ Level <= Level + 1 /\ Level + 1 \in Nat
    BY <1>1
  <2>2. VarsOK(mem, vars, Level + 1)
    BY <1>1, <2>1, VarsWiden
  <2>3. strs' \subseteq Str /\ fault' \in Faults
    BY <1>1 DEF Shape
  <2>4. VarsOK(mem', vars', Level') /\ MemOK(mem', height')
    BY <1>2, <2>2
  <2> QED
    BY <1>2, <2>3, <2>4 DEF Shape
<1>4. ASSUME risks' \cap Sharing = {}, LiveIn(mem, height, vars, scopes)
      PROVE  LiveIn(mem, height, vars, scopes)'
  <2>1. ASSUME NEW i \in DOMAIN vars, ~IsNull(vars[i].buf.data)
        PROVE  Room(height', scopes', mem[vars[i].buf.data.chunk].arena,
                    vars[i].level)
    <3> DEFINE l == vars[i].level
               a == mem[vars[i].buf.data.chunk].arena
    <3>1. Valid(mem, vars[i].buf.data) /\ Room(height, scopes, a, l)
      BY <1>4, <2>1 DEF LiveIn, AnchoredIn
    <3>2. a \in Nat
      BY <1>1, <3>1, ChunkFacts DEF Valid, MemOK
    <3>3. l \in 0 .. Level
      BY <1>1, VarsFacts DEF VariableOK
    <3> HIDE DEF l, a
    <3>4. /\ ~s.arena => ArenasAbove(scopes', l) = ArenasAbove(scopes, l)
          /\ s.arena => Cardinality(ArenasAbove(scopes', l)) =
                          Cardinality(ArenasAbove(scopes, l)) + 1
      BY <1>1, <3>3, OpenedFacts DEF Opens
    <3>5. \/ height' = height /\ ~s.arena
          \/ height' = height + 1 /\ s.arena
      BY <1>4 DEF Opens, Sharing
    <3>6. Cardinality(ArenasAbove(scopes, l)) \in Nat
      BY <1>1, AboveFacts
    <3>7. Room(height', scopes', a, l)
      BY <1>1, <3>1, <3>2, <3>4, <3>5, <3>6 DEF Room
    <3> QED
      BY <3>7 DEF l, a
  <2>2. AnchoredIn(mem, height', vars, scopes')
    BY <1>4, <2>1 DEF LiveIn, AnchoredIn
  <2>3. LiveIn(mem, height', vars, scopes')
    BY <1>4, <2>2 DEF LiveIn
  <2> QED
    BY <2>3
<1>5. /\ ApartIn(mem, vars) => ApartIn(mem, vars)'
      /\ StrsOwnIn(mem, vars, strs) => StrsOwnIn(mem, vars, strs)'
      /\ FoundIn(mem, vars, strs) => FoundIn(mem, vars, strs)'
  <2>1. mem' = mem /\ vars' = vars /\ strs' = strs
    OBVIOUS
  <2> QED
    BY <2>1
<1>6. fault' = "no"
  BY DEF Running
<1> QED
  BY <1>2, <1>3, <1>4, <1>5, <1>6, InvCarried

LEMMA OpenBlockInv ==
  ASSUME RuntimeInv, OpenBlock
  PROVE  RuntimeInv'
<1> DEFINE s == [kind |-> "block", arena |-> FALSE]
<1>1. /\ s \in Scope /\ s.kind # "root" /\ ~s.arena /\ Level # 1
  <2>1. Level \in Nat
    BY TopFacts DEF RuntimeInv, Shape
  <2> QED
    BY <2>1 DEF Scope, OpenBlock
<1>2. Opens(s)
  BY <1>1 DEF Opens, OpenBlock, memVars
<1>3. /\ Running /\ UNCHANGED <<mem, vars, strs, fault>>
      /\ risks' = risks /\ risks \subseteq Risks
  BY DEF OpenBlock, memVars, RuntimeInv, Shape
<1> HIDE DEF s
<1> QED
  BY <1>2, <1>3, OpensInv

LEMMA CallInv ==
  ASSUME RuntimeInv, NEW arena \in BOOLEAN, NEW ok \in BOOLEAN,
         Call(arena, ok)
  PROVE  RuntimeInv'
<1> DEFINE s == [kind |-> "fn", arena |-> arena]
<1>1. s \in Scope /\ s.kind = "fn" /\ s.arena = arena
  BY DEF Scope
<1>2. /\ Running /\ UNCHANGED <<mem, vars, strs, fault>>
      /\ risks \subseteq risks' /\ risks' \subseteq Risks
      /\ ~ok => "no push" \in risks'
      /\ scopes' = Append(scopes, s)
      /\ height' = IF arena /\ ok THEN height + 1 ELSE height
      /\ arena \/ ok
  BY DEF Call, Run, RuntimeInv, Shape, Risks
<1> HIDE DEF s
<1>3. Opens(s)
  BY <1>1, <1>2 DEF Opens
<1> QED
  BY <1>2, <1>3, OpensInv

LEMMA HandsOverInv ==
  ASSUME RuntimeInv, Running, UNCHANGED <<memVars, strs, fault>>,
         NEW i \in DOMAIN vars, ~vars[i].moved, Level' \in {Level, Level + 1},
         vars' = Handed(i, Level'), Run("copied", OnHeap(vars[i].buf.data)),
         ScopesOK(scopes'), ArenasMatch', ArenasAbove(scopes', Level') = {},
         \A l \in 1 .. Level : ArenasAbove(scopes', l) = ArenasAbove(scopes, l)
  PROVE  RuntimeInv'
<1>1. Shape /\ mem' = mem /\ height' = height
  BY DEF RuntimeInv, memVars
<1>2. /\ risks \subseteq risks' /\ risks' \subseteq Risks
      /\ risks' \cap Sharing = {} => ~OnHeap(vars[i].buf.data)
  BY <1>1 DEF Shape, Run, Risks, Sharing
<1> DEFINE us == Handed(i, Level')
<1>3. VarsOK(mem, us, Level')
  BY <1>1, HandedFacts DEF IsHanded
<1>4. /\ ApartIn(mem, vars) => ApartIn(mem, us)
      /\ LiveIn(mem, height, vars, scopes) /\ ~OnHeap(vars[i].buf.data)
           => LiveIn(mem, height, us, scopes')
      /\ StrsOwnIn(mem, vars, strs) => StrsOwnIn(mem, us, strs)
      /\ FoundIn(mem, vars, strs) => FoundIn(mem, us, strs)
  BY <1>1, HandedKeeps
<1>5. vars' = us
  OBVIOUS
<1> HIDE DEF us
<1>6. Shape'
  <2>1. VarsOK(mem', vars', Level') /\ MemOK(mem', height')
    BY <1>1, <1>3, <1>5 DEF Shape
  <2> QED
    BY <1>1, <1>2, <2>1 DEF Shape
<1>7. fault' = "no"
  BY DEF Running
<1>8. /\ ApartIn(mem', vars') <=> ApartIn(mem, us)
      /\ LiveIn(mem', height', vars', scopes') <=>
           LiveIn(mem, height, us, scopes')
      /\ StrsOwnIn(mem', vars', strs') <=> StrsOwnIn(mem, us, strs)
      /\ FoundIn(mem', vars', strs') <=> FoundIn(mem, us, strs)
  BY <1>1, <1>5
<1> QED
  BY <1>2, <1>4, <1>6, <1>7, <1>8, InvCarried

LEMMA MoveInv ==
  ASSUME RuntimeInv, NEW i \in DOMAIN vars, Move(i)
  PROVE  RuntimeInv'
<1>1. /\ Running /\ ~vars[i].moved /\ UNCHANGED <<memVars, scopes, strs, fault>>
      /\ vars' = Append([vars EXCEPT ![i].moved = TRUE], Declared(vars[i].buf))
      /\ Run("copied", OnHeap(vars[i].buf.data))
  BY DEF Move, Usable
<1>2. Level' = Level
  BY <1>1 DEF Level
<1>3. vars' = Handed(i, Level')
  BY <1>1, <1>2 DEF Handed, Declared
<1>4. ScopesOK(scopes) /\ ScopesOK(scopes') /\ ArenasMatch'
  <2>1. risks \subseteq risks' /\ height' = height
    BY <1>1 DEF Run, memVars
  <2> QED
    BY <1>1, <2>1, SameArenas DEF RuntimeInv, Shape
<1>5. ArenasAbove(scopes', Level') = {}
  BY <1>1, <1>2, <1>4, TopFacts
<1> QED
  BY <1>1, <1>2, <1>3, <1>4, <1>5, HandsOverInv

LEMMA CallWithInv ==
  ASSUME RuntimeInv, NEW i \in DOMAIN vars, CallWith(i)
  PROVE  RuntimeInv'
<1> DEFINE s == [kind |-> "fn", arena |-> FALSE]
<1>1. /\ Running /\ ~vars[i].moved /\ UNCHANGED <<memVars, strs, fault>>
      /\ vars' = Handed(i, Level + 1) /\ scopes' = Append(scopes, s)
      /\ Run("copied", OnHeap(vars[i].buf.data)) /\ risks \subseteq risks'
      /\ height' = height
  BY DEF CallWith, Usable, Handed, Run, memVars
<1>2. s \in Scope /\ s.kind = "fn" /\ ~s.arena
  BY DEF Scope
<1> HIDE DEF s
<1>3. Shape /\ ScopesOK(scopes) /\ ArenasMatch /\ Level \in Nat
  BY TopFacts DEF RuntimeInv, Shape
<1>4. Opens(s)
  BY <1>1, <1>2 DEF Opens
<1>5. /\ ScopesOK(scopes') /\ Level' = Level + 1 /\ ArenasMatch'
      /\ ArenasAbove(scopes', Level + 1) = {}
  BY <1>1, <1>3, <1>4, OpensFacts
<1>6. \A l \in 1 .. Level : ArenasAbove(scopes', l) = ArenasAbove(scopes, l)
  <2>1. \A l \in 0 .. Level : ArenasAbove(scopes', l) = ArenasAbove(scopes, l)
    BY <1>1, <1>2, <1>3, OpenedFacts
  <2> QED
    BY <1>3, <2>1
<1> QED
  BY <1>1, <1>5, <1>6, HandsOverInv

(***************************************************************************)
(* Scopes close.  The variables of the scopes left open come first.        *)
(***************************************************************************)
IsKept(us, l) ==
  \E k \in 0 .. Len(vars) :
    /\ us = SubSeq(vars, 1, k)
    /\ \A i \in DOMAIN vars : i <= k <=> vars[i].level <= l

LEMMA KeptFacts ==
  ASSUME Shape, NEW l \in Nat
  PROVE  IsKept(Kept(l), l)
<1> DEFINE N == Len(vars)
           low == {i \in 1 .. N : vars[i].level <= l}
<1>1. /\ DOMAIN vars = 1 .. N /\ N \in Nat
      /\ \A i \in DOMAIN vars : vars[i].level \in Nat
      /\ \A i, j \in DOMAIN vars : i < j => vars[i].level <= vars[j].level
  BY VarsFacts DEF Shape, VarsOK
<1> HIDE DEF N
<1>2. \E k \in 0 .. N : \A i \in 1 .. N : i <= k <=> vars[i].level <= l
  <2>1. CASE low = {}
    <3>1. \A i \in 1 .. N : ~(i <= 0) /\ ~(vars[i].level <= l)
      BY <2>1
    <3>2. 0 \in 0 .. N
      BY <1>1
    <3> QED
      BY <3>1, <3>2
  <2>2. CASE low # {}
    <3> DEFINE k == Max(low)
    <3>1. k \in low /\ \A y \in low : k >= y
      BY <1>1, <2>2, MaxFacts
    <3> HIDE DEF k
    <3>2. k \in 0 .. N /\ k \in 1 .. N /\ vars[k].level <= l
      BY <1>1, <3>1
    <3>3. ASSUME NEW i \in 1 .. N
          PROVE  i <= k <=> vars[i].level <= l
      <4>1. CASE i <= k
        <5>1. i = k \/ vars[i].level <= vars[k].level
          BY <1>1, <3>2, <4>1
        <5> QED
          BY <1>1, <3>2, <4>1, <5>1
      <4>2. CASE ~(i <= k)
        BY <1>1, <3>1, <3>2, <4>2
      <4> QED
        BY <4>1, <4>2
    <3> QED
      BY <3>2, <3>3
  <2> QED
    BY <2>1, <2>2
<1>3. PICK k \in 0 .. N : \A i \in 1 .. N : i <= k <=> vars[i].level <= l
  BY <1>2
<1>4. Above(l) = k + 1 .. N
  BY <1>1, <1>3 DEF Above
<1>5. Cardinality(Above(l)) = N - k
  <2>1. k + 1 \in Int /\ N \in Int
    BY <1>1
  <2>2. Cardinality(k + 1 .. N) = IF k + 1 > N THEN 0 ELSE N - (k + 1) + 1
    BY <2>1, FS_Interval
  <2>3. Cardinality(k + 1 .. N) = N - k
    BY <1>1, <2>2
  <2> QED
    BY <1>4, <2>3
<1>6. N - Cardinality(Above(l)) = k
  BY <1>1, <1>5
<1>7. Kept(l) = SubSeq(vars, 1, k)
  BY <1>6 DEF Kept, N
<1> QED
  BY <1>1, <1>3, <1>7 DEF IsKept, N

(* Above the outermost scope of the function running are blocks.           *)
LEMMA FnFacts ==
  ASSUME ScopesOK(scopes), Level > 1
  PROVE  /\ FnLevel \in 2 .. Level
         /\ \A l \in FnLevel + 1 .. Level : ~scopes[l].arena
<1> DEFINE S == {l \in 1 .. Level : scopes[l].kind # "block"}
           f == Max(S)
<1>1. Level \in Nat /\ DOMAIN scopes = 1 .. Level /\ Level = Len(scopes)
  BY TopFacts DEF Level
<1>2. 2 \in S
  BY <1>1 DEF ScopesOK
<1>3. FnLevel = f
  BY <1>1 DEF FnLevel
<1>4. f \in S /\ \A y \in S : f >= y
  BY <1>1, <1>2, MaxFacts
<1> HIDE DEF f
<1>5. f \in 1 .. Level /\ f >= 2
  BY <1>2, <1>4
<1>6. f \in 2 .. Level
  BY <1>1, <1>5
<1>7. ASSUME NEW l \in f + 1 .. Level
      PROVE  ~scopes[l].arena
  <2>1. l \in 1 .. Level /\ ~(f >= l)
    BY <1>1, <1>6
  <2>2. l \notin S
    BY <1>4, <2>1
  <2>3. l \in DOMAIN scopes /\ scopes[l].kind = "block"
    BY <1>1, <2>1, <2>2
  <2> QED
    BY <2>3 DEF ScopesOK
<1> QED
  BY <1>3, <1>6, <1>7

LEMMA ClosedFacts ==
  ASSUME ScopesOK(scopes), NEW k \in 1 .. Level - 1,
         \A l \in k + 2 .. Level : ~scopes[l].arena
  PROVE  /\ ScopesOK(SubSeq(scopes, 1, k)) /\ Len(SubSeq(scopes, 1, k)) = k
         /\ ArenasAbove(SubSeq(scopes, 1, k), k) = {}
         /\ ~scopes[k + 1].arena => \A l \in 0 .. k :
              ArenasAbove(SubSeq(scopes, 1, k), l) = ArenasAbove(scopes, l)
         /\ scopes[k + 1].arena => \A l \in 0 .. k :
              Cardinality(ArenasAbove(scopes, l)) =
                Cardinality(ArenasAbove(SubSeq(scopes, 1, k), l)) + 1
<1> DEFINE sc == SubSeq(scopes, 1, k)
<1>1. /\ scopes \in Seq(Scope) /\ Level \in Nat \ {0} /\ Level = Len(scopes)
      /\ DOMAIN scopes = 1 .. Level
  BY TopFacts DEF ScopesOK, Level
<1>2. /\ sc \in Seq(Scope) /\ Len(sc) = k /\ DOMAIN sc = 1 .. k
      /\ \A l \in 1 .. k : sc[l] = scopes[l]
  <2>1. k \in 0 .. Len(scopes)
    BY <1>1
  <2> QED
    BY <1>1, <2>1, PrefixFacts
<1> HIDE DEF sc
<1>3. ScopesOK(sc)
  <2>1. \A l \in 1 .. k : l \in DOMAIN scopes
    BY <1>1
  <2>2. k > 1 => Len(scopes) > 1 /\ sc[2] = scopes[2]
    BY <1>1, <1>2
  <2>3. sc # <<>>
    BY <1>1, <1>2
  <2> QED
    BY <1>2, <2>1, <2>2, <2>3 DEF ScopesOK
<1>4. ArenasAbove(sc, k) = {}
  BY <1>2 DEF ArenasAbove
<1>5. ASSUME NEW l \in 0 .. k
      PROVE  ArenasAbove(scopes, l) =
               ArenasAbove(sc, l) \cup
                 (IF scopes[k + 1].arena THEN {k + 1} ELSE {})
  <2>1. \A j \in 1 .. Level : j \in 1 .. k \/ j = k + 1 \/ j \in k + 2 .. Level
    BY <1>1
  <2>2. k + 1 \in 1 .. Level /\ k + 1 > l /\ \A j \in 1 .. k : j \in 1 .. Level
    BY <1>1
  <2> QED
    BY <1>1, <1>2, <2>1, <2>2 DEF ArenasAbove
<1>6. ASSUME NEW l \in 0 .. k, scopes[k + 1].arena
      PROVE  Cardinality(ArenasAbove(scopes, l)) =
               Cardinality(ArenasAbove(sc, l)) + 1
  <2> DEFINE x == k + 1
  <2>1. ArenasAbove(scopes, l) = ArenasAbove(sc, l) \cup {x}
    BY <1>5, <1>6
  <2>2. x \notin ArenasAbove(sc, l)
    BY <1>2 DEF ArenasAbove
  <2> HIDE DEF x
  <2> QED
    BY <1>3, <2>1, <2>2, AboveFacts, FS_AddElement
<1>7. ASSUME ~scopes[k + 1].arena, NEW l \in 0 .. k
      PROVE  ArenasAbove(sc, l) = ArenasAbove(scopes, l)
  BY <1>5, <1>7
<1> QED
  BY <1>2, <1>3, <1>4, <1>6, <1>7 DEF sc

(* The scopes above the k-th have closed; if the function's arena is not   *)
(* popped, that is a risk.                                                 *)
Closes(k) ==
  /\ k \in 1 .. Level - 1
  /\ \A l \in k + 2 .. Level : ~scopes[l].arena
  /\ scopes' = SubSeq(scopes, 1, k)
  /\ \/ height' = height /\ ~scopes[k + 1].arena
     \/ height' = height /\ scopes[k + 1].arena /\ "no pop" \in risks'
     \/ height' = PoppedHeight /\ scopes[k + 1].arena

LEMMA ClosesLevel ==
  ASSUME ScopesOK(scopes), NEW k, Closes(k)
  PROVE  k \in Nat \ {0}
<1>1. Level \in Nat
  BY TopFacts
<1>2. k \in 1 .. Level - 1
  BY DEF Closes
<1> QED
  BY <1>1, <1>2

LEMMA ClosesFacts ==
  ASSUME Shape, ArenasMatch, risks \subseteq risks', NEW k, Closes(k)
  PROVE  /\ ScopesOK(scopes') /\ Level' = k /\ ArenasMatch'
         /\ height' \in Nat /\ ArenasAbove(scopes', k) = {}
<1>1. /\ ScopesOK(scopes) /\ height \in Nat /\ Level \in Nat
      /\ k \in Nat \ {0} /\ PoppedHeight \in Nat
  <2>1. ScopesOK(scopes) /\ height \in Nat /\ Level \in Nat
    BY TopFacts DEF Shape
  <2>2. k \in Nat \ {0}
    BY <2>1, ClosesLevel
  <2>3. PoppedHeight \in Nat
    BY <2>1 DEF PoppedHeight
  <2> QED
    BY <2>1, <2>2, <2>3
<1> DEFINE sc == SubSeq(scopes, 1, k)
           n == Cardinality(ArenasAbove(scopes, 0))
           m == Cardinality(ArenasAbove(sc, 0))
<1>2. /\ ScopesOK(sc) /\ Len(sc) = k /\ ArenasAbove(sc, k) = {}
      /\ ~scopes[k + 1].arena => \A l \in 0 .. k :
           ArenasAbove(sc, l) = ArenasAbove(scopes, l)
      /\ scopes[k + 1].arena => \A l \in 0 .. k :
           Cardinality(ArenasAbove(scopes, l)) =
             Cardinality(ArenasAbove(sc, l)) + 1
  BY <1>1, ClosedFacts DEF Closes
<1>3. scopes' = sc
  BY DEF Closes
<1> HIDE DEF sc
<1>4. ScopesOK(scopes') /\ Level' = k /\ ArenasAbove(scopes', k) = {}
  BY <1>2, <1>3 DEF Level
<1>5. /\ m \in Nat /\ n \in Nat /\ (scopes[k + 1].arena => n = m + 1)
      /\ (~scopes[k + 1].arena => n = m)
  <2>1. 0 \in 0 .. k
    BY <1>1
  <2> QED
    BY <1>1, <1>2, <2>1, AboveFacts
<1>6. height' \in Nat
  BY <1>1 DEF Closes
<1>7. MatchIn(height, scopes, risks)
  BY <1>1, MatchNow
<1>8. \/ height' = height /\ n = m
      \/ height' = height /\ n = m + 1 /\ "no pop" \in risks'
      \/ height' = PoppedHeight /\ n = m + 1
  BY <1>5 DEF Closes
<1> HIDE DEF n, m
<1>9. ASSUME "no push" \notin risks'
      PROVE  height' >= m
  <2>1. height >= n
    BY <1>7, <1>9 DEF MatchIn, n
  <2>2. m \in Nat /\ n \in Nat
    BY <1>5
  <2>3. CASE n = m /\ height' = height
    BY <2>1, <2>3
  <2>4. CASE n = m + 1 /\ height' = height
    BY <1>1, <2>1, <2>2, <2>4
  <2>5. CASE n = m + 1 /\ height' = PoppedHeight
    BY <1>1, <2>1, <2>2, <2>5 DEF PoppedHeight
  <2> QED
    BY <1>8, <2>3, <2>4, <2>5
<1>10. ASSUME risks' \cap {"no push", "no pop"} = {}
       PROVE  height' = m
  <2>1. height = n
    BY <1>7, <1>10 DEF MatchIn, n
  <2>2. "no pop" \notin risks'
    BY <1>10
  <2>3. (height' = height /\ n = m) \/ (height' = PoppedHeight /\ n = m + 1)
    BY <1>8, <2>2
  <2> QED
    BY <1>1, <1>5, <2>1, <2>3 DEF PoppedHeight
<1>11. MatchIn(height', scopes', risks')
  BY <1>3, <1>9, <1>10 DEF MatchIn, m
<1> QED
  BY <1>4, <1>6, <1>11, MatchNext

(* The variables us are those kept, src says which each was; a variable    *)
(* may have been handed to the scope that is now the innermost.            *)
Keepers(us, src, k) ==
  /\ VarsOK(mem, us, k)
  /\ "aliased" \notin risks' =>
       /\ \A j \in DOMAIN us :
            /\ src[j] \in DOMAIN vars /\ us[j].buf = vars[src[j]].buf
            /\ vars[src[j]].moved => us[j].moved
            /\ \/ us[j].level = vars[src[j]].level
               \/ us[j].level = k /\ ~scopes[k + 1].arena
       /\ \A j, l \in DOMAIN us : j # l => src[j] # src[l]

Spared(us, src, i) == \E j \in DOMAIN us : src[j] = i

(* n is the memory left when the others' memory is freed and the arena     *)
(* popped.                                                                 *)
Leaves(n, h, us, src, k) ==
  /\ MemOK(n, h) /\ Len(n) = Len(mem)
  /\ \A c \in DOMAIN mem : n[c].live => n[c] = mem[c]
  /\ \A c \in DOMAIN mem : mem[c].live /\ ~n[c].live =>
       \/ /\ mem[c].arena = height /\ height # 0
          /\ scopes[k + 1].arena /\ h = height - 1
       \/ \E i \in DOMAIN vars :
            /\ ~Spared(us, src, i) /\ OnHeap(vars[i].buf.data)
            /\ vars[i].buf.data.chunk = c
  /\ scopes[k + 1].arena => h = height \/ h = PoppedHeight
  /\ ~scopes[k + 1].arena => h = height

LEMMA LeftFacts ==
  ASSUME Shape, NEW n, NEW h, NEW us, NEW src, NEW k, Leaves(n, h, us, src, k)
  PROVE  /\ DOMAIN n = DOMAIN mem
         /\ \A p : Valid(n, p) => Valid(mem, p) /\ n[p.chunk] = mem[p.chunk]
<1>1. n \in Seq(Chunk) /\ mem \in Seq(Chunk) /\ Len(n) = Len(mem)
  BY DEF Leaves, Shape, MemOK
<1>2. DOMAIN n = DOMAIN mem
  BY <1>1
<1> QED
  BY <1>2 DEF Leaves, Valid

LEMMA LeftApart ==
  ASSUME Shape, NEW n, NEW h, NEW us, NEW src, NEW k, Leaves(n, h, us, src, k),
         Keepers(us, src, k), "aliased" \notin risks', ApartIn(mem, vars)
  PROVE  ApartIn(n, us)
<1>1. ASSUME NEW j \in DOMAIN us, HeldIn(n, us[j])
      PROVE  /\ src[j] \in DOMAIN vars /\ HeldIn(mem, vars[src[j]])
             /\ us[j].buf = vars[src[j]].buf
             /\ n[us[j].buf.data.chunk] = mem[us[j].buf.data.chunk]
  BY <1>1, LeftFacts DEF HeldIn, Keepers
<1>2. \A j, l \in DOMAIN us : j # l => src[j] # src[l]
  BY DEF Keepers
<1>3. ASSUME NEW j \in DOMAIN us, HeldIn(n, us[j])
      PROVE  /\ us[j].buf.len <= us[j].buf.cap
             /\ us[j].buf.data.off + us[j].buf.cap
                  < n[us[j].buf.data.chunk].used
             /\ n[us[j].buf.data.chunk].arena = 0 => us[j].buf.data.off = 0
  BY <1>1, <1>3 DEF ApartIn
<1>4. ASSUME NEW j \in DOMAIN us, NEW l \in DOMAIN us, j # l,
             HeldIn(n, us[j]), HeldIn(n, us[l]),
             us[j].buf.data.chunk = us[l].buf.data.chunk
      PROVE  Before(us[j].buf, us[l].buf) \/ Before(us[l].buf, us[j].buf)
  BY <1>1, <1>2, <1>4 DEF ApartIn
<1> QED
  BY <1>3, <1>4 DEF ApartIn

LEMMA LeftLive ==
  ASSUME Shape, NEW n, NEW h, NEW us, NEW src, NEW k, Leaves(n, h, us, src, k),
         Keepers(us, src, k), "aliased" \notin risks',
         Closes(k), LiveIn(mem, height, vars, scopes)
  PROVE  LiveIn(n, h, us, scopes')
<1> DEFINE sc == SubSeq(scopes, 1, k)
           at(v) == v.buf.data.chunk
<1>1. /\ ScopesOK(scopes) /\ height \in Nat /\ Level \in Nat
      /\ MemOK(mem, height) /\ mem \in Seq(Chunk) /\ k \in Nat
  <2>1. ScopesOK(scopes) /\ height \in Nat /\ Level \in Nat
    BY TopFacts DEF Shape
  <2>2. k \in Nat
    BY <2>1, ClosesLevel
  <2> QED
    BY <2>1, <2>2 DEF Shape, MemOK
<1>2. /\ ArenasAbove(sc, k) = {} /\ ScopesOK(sc)
      /\ ~scopes[k + 1].arena => \A l \in 0 .. k :
           ArenasAbove(sc, l) = ArenasAbove(scopes, l)
      /\ scopes[k + 1].arena => \A l \in 0 .. k :
           Cardinality(ArenasAbove(scopes, l)) =
             Cardinality(ArenasAbove(sc, l)) + 1
  BY <1>1, ClosedFacts DEF Closes
<1>3. scopes' = sc
  BY DEF Closes
<1> HIDE DEF sc
<1>4. ASSUME NEW j \in DOMAIN us, ~IsNull(us[j].buf.data)
      PROVE  /\ src[j] \in DOMAIN vars /\ us[j].buf = vars[src[j]].buf
             /\ Valid(mem, us[j].buf.data) /\ mem[at(us[j])].arena \in Nat
             /\ mem[at(us[j])].arena <= height
  BY <1>1, <1>4, ChunkFacts DEF Keepers, LiveIn, AnchoredIn, Valid, MemOK
<1>5. ASSUME NEW j \in DOMAIN us, ~IsNull(us[j].buf.data)
      PROVE  Room(h, sc, mem[at(us[j])].arena, us[j].level)
  <2> DEFINE l == us[j].level
             a == mem[at(us[j])].arena
  <2>1. l \in 0 .. k
    BY <1>1, VarsFacts DEF Keepers, VariableOK
  <2>2. a \in Nat /\ a <= height
    BY <1>4, <1>5
  <2>3. CASE l = k /\ ~scopes[k + 1].arena
    <3>1. Cardinality(ArenasAbove(sc, l)) = 0 /\ h = height
      BY <1>2, <2>3, FS_EmptySet DEF Leaves
    <3> HIDE DEF l, a
    <3>2. Room(h, sc, a, l)
      BY <1>1, <2>2, <3>1 DEF Room
    <3> QED
      BY <3>2 DEF l, a
  <2>4. CASE l = vars[src[j]].level
    <3>1. Room(height, scopes, a, l)
      BY <1>4, <1>5, <2>4 DEF LiveIn, AnchoredIn
    <3> HIDE DEF l, a
    <3>2. \/ /\ Cardinality(ArenasAbove(sc, l)) =
                  Cardinality(ArenasAbove(scopes, l))
             /\ h = height
          \/ /\ Cardinality(ArenasAbove(sc, l)) + 1 =
                  Cardinality(ArenasAbove(scopes, l))
             /\ h = height \/ h = PoppedHeight
      BY <1>2, <2>1 DEF Leaves
    <3>3. /\ Cardinality(ArenasAbove(sc, l)) \in Nat
          /\ Cardinality(ArenasAbove(scopes, l)) \in Nat
      BY <1>1, <1>2, AboveFacts
    <3>4. a = 0 => Room(h, sc, a, l)
      BY DEF Room
    <3>5. ASSUME a # 0
          PROVE  Room(h, sc, a, l)
      <4>1. a + Cardinality(ArenasAbove(scopes, l)) <= height
        BY <3>1, <3>5 DEF Room
      <4> DEFINE x == Cardinality(ArenasAbove(sc, l))
                 y == Cardinality(ArenasAbove(scopes, l))
      <4> HIDE DEF x, y
      <4>2. a + x <= h
        <5>1. x \in Nat /\ y \in Nat /\ a + y <= height
          BY <3>3, <4>1 DEF x, y
        <5>2. \/ x = y /\ h = height
              \/ x + 1 = y /\ (h = height \/ h = PoppedHeight)
          BY <3>2 DEF x, y
        <5> QED
          BY <1>1, <2>2, <5>1, <5>2 DEF PoppedHeight
      <4> QED
        BY <4>2 DEF Room, x
    <3>6. Room(h, sc, a, l)
      BY <3>4, <3>5
    <3> QED
      BY <3>6 DEF a, l
  <2>5. l = vars[src[j]].level \/ (l = k /\ ~scopes[k + 1].arena)
    BY DEF Keepers
  <2> QED
    BY <2>3, <2>4, <2>5
<1>6. ASSUME NEW j \in DOMAIN us, ~IsNull(us[j].buf.data)
      PROVE  n[at(us[j])].live
  <2>1. SUFFICES ASSUME ~n[at(us[j])].live
                 PROVE  FALSE
    OBVIOUS
  <2>2. at(us[j]) \in DOMAIN mem /\ mem[at(us[j])].live
    BY <1>4, <1>6 DEF Valid
  <2>3. CASE /\ mem[at(us[j])].arena = height /\ height # 0
             /\ scopes[k + 1].arena /\ h = height - 1
    <3>1. Room(h, sc, height, us[j].level)
      BY <1>5, <1>6, <2>3
    <3>2. Cardinality(ArenasAbove(sc, us[j].level)) \in Nat
      BY <1>2, AboveFacts
    <3> QED
      BY <1>1, <2>3, <3>1, <3>2 DEF Room
  <2>4. ASSUME NEW i \in DOMAIN vars, ~Spared(us, src, i),
               OnHeap(vars[i].buf.data), at(vars[i]) = at(us[j])
        PROVE  FALSE
    <3>1. i # src[j] /\ src[j] \in DOMAIN vars /\ at(vars[src[j]]) = at(us[j])
      BY <1>4, <1>6, <2>4 DEF Spared
    <3>2. mem[at(us[j])].arena # 0 /\ mem[at(us[j])].arena \in 1 .. height
      <4>1. mem[at(us[j])].arena # 0
        BY <1>6, <2>4, <3>1 DEF LiveIn, UniqueIn, IsNull
      <4> QED
        BY <1>1, <1>4, <1>6, <4>1
    <3>3. Owns(mem, vars[i].buf.data)
      BY <2>2, <2>4, <3>2 DEF Owns, Valid
    <3> QED
      BY <2>4, <3>3 DEF OnHeap
  <2> QED
    BY <2>1, <2>2, <2>3, <2>4 DEF Leaves
<1>7. ASSUME NEW j \in DOMAIN us, ~IsNull(us[j].buf.data)
      PROVE  Valid(n, us[j].buf.data) /\ n[at(us[j])] = mem[at(us[j])]
  <2>1. at(us[j]) \in DOMAIN mem /\ n[at(us[j])].live
    BY <1>4, <1>6, <1>7 DEF Valid
  <2> QED
    BY <2>1, LeftFacts DEF Valid, Leaves
<1>8. AnchoredIn(n, h, us, scopes')
  BY <1>3, <1>5, <1>7 DEF AnchoredIn
<1>9. ASSUME NEW j \in DOMAIN us, NEW l \in DOMAIN us, j # l,
             ~IsNull(us[j].buf.data), at(us[j]) = at(us[l])
      PROVE  n[at(us[j])].arena # 0
  <2>1. ~IsNull(us[l].buf.data) /\ src[j] # src[l]
    BY <1>9 DEF IsNull, Keepers
  <2>2. /\ src[j] \in DOMAIN vars /\ us[j].buf = vars[src[j]].buf
        /\ src[l] \in DOMAIN vars /\ us[l].buf = vars[src[l]].buf
    BY <1>4, <1>9, <2>1
  <2>3. mem[at(us[j])].arena # 0
    BY <1>9, <2>1, <2>2 DEF LiveIn, UniqueIn
  <2> QED
    BY <1>7, <1>9, <2>3
<1> QED
  BY <1>8, <1>9 DEF LiveIn, UniqueIn

LEMMA LeftStrs ==
  ASSUME Shape, NEW n, NEW h, NEW us, NEW src, NEW k, Leaves(n, h, us, src, k),
         Keepers(us, src, k), "aliased" \notin risks',
         StrsOwnIn(mem, vars, strs)
  PROVE  StrsOwnIn(n, us, strs)
<1>1. ASSUME NEW s \in strs
      PROVE  Valid(n, s.ptr) /\ n[s.ptr.chunk].arena = 0
  <2>1. /\ s.ptr.chunk \in DOMAIN mem /\ mem[s.ptr.chunk].live
        /\ mem[s.ptr.chunk].arena = 0
        /\ \A i \in DOMAIN vars : vars[i].buf.data.chunk # s.ptr.chunk
    BY DEF StrsOwnIn, Valid
  <2>2. n[s.ptr.chunk].live
    BY <2>1 DEF Leaves
  <2> QED
    BY <2>1, <2>2, LeftFacts DEF Leaves, Valid
<1>2. ASSUME NEW s \in strs, NEW j \in DOMAIN us
      PROVE  us[j].buf.data.chunk # s.ptr.chunk
  BY DEF StrsOwnIn, Keepers
<1> QED
  BY <1>1, <1>2 DEF StrsOwnIn

LEMMA LeftFound ==
  ASSUME Shape, NEW n, NEW h, NEW us, NEW src, NEW k, Leaves(n, h, us, src, k),
         Keepers(us, src, k), "aliased" \notin risks',
         FoundIn(mem, vars, strs),
         \A i \in DOMAIN vars : OnHeap(vars[i].buf.data) =>
           \/ Spared(us, src, i)
           \/ vars[i].buf.data.chunk \in DOMAIN n
                => ~n[vars[i].buf.data.chunk].live
  PROVE  FoundIn(n, us, strs)
<1>1. SUFFICES ASSUME NEW c \in DOMAIN n, n[c].live, n[c].arena = 0
               PROVE  \/ \E j \in DOMAIN us : us[j].buf.data.chunk = c
                      \/ \E s \in strs : s.ptr.chunk = c
  BY DEF FoundIn
<1>2. c \in DOMAIN mem /\ mem[c].live /\ mem[c].arena = 0 /\ c # 0
  <2>1. DOMAIN mem = 1 .. Len(mem)
    BY DEF Shape, MemOK
  <2> QED
    BY <1>1, <2>1, LeftFacts DEF Leaves
<1>3. CASE \E s \in strs : s.ptr.chunk = c
  BY <1>3
<1>4. ASSUME NEW i \in DOMAIN vars, vars[i].buf.data.chunk = c
      PROVE  \E j \in DOMAIN us : us[j].buf.data.chunk = c
  <2>1. OnHeap(vars[i].buf.data)
    BY <1>2, <1>4 DEF OnHeap, IsNull, Owns
  <2>2. Spared(us, src, i)
    BY <1>1, <1>4, <2>1
  <2> QED
    BY <1>4, <2>2 DEF Spared, Keepers
<1> QED
  BY <1>2, <1>3, <1>4 DEF FoundIn

LEMMA ClosesInv ==
  ASSUME RuntimeInv, Running, strs' = strs, fault' \in Faults,
         risks \subseteq risks', risks' \subseteq Risks,
         NEW k, NEW src, Closes(k),
         Keepers(vars', src, k), Leaves(mem', height', vars', src, k),
         risks' \cap Losing = {} =>
           \A i \in DOMAIN vars : OnHeap(vars[i].buf.data) =>
             \/ Spared(vars', src, i)
             \/ vars[i].buf.data.chunk \in DOMAIN mem'
                  => ~mem'[vars[i].buf.data.chunk].live,
         LiveIn(mem, height, vars, scopes) => fault' = "no"
  PROVE  RuntimeInv'
<1>1. Shape /\ ArenasMatch
  BY DEF RuntimeInv
<1>2. /\ ScopesOK(scopes') /\ Level' = k /\ ArenasMatch' /\ height' \in Nat
  BY <1>1, ClosesFacts
<1>3. Shape'
  <2>1. VarsOK(mem, vars', k) /\ Len(mem') = Len(mem) /\ MemOK(mem', height')
    BY DEF Keepers, Leaves
  <2>2. VarsOK(mem', vars', Level')
    BY <1>2, <2>1 DEF VarsOK, VariableOK
  <2> QED
    BY <1>1, <1>2, <2>1, <2>2 DEF Shape
<1>4. risks' \cap Sharing = {} => "aliased" \notin risks'
  BY DEF Sharing
<1>5. risks' \cap Losing = {} => "aliased" \notin risks'
  BY DEF Losing
<1> DEFINE n == mem'
           us == vars'
           h == height'
<1>6. Leaves(n, h, us, src, k) /\ Keepers(us, src, k)
  OBVIOUS
<1>7. risks' \cap Losing = {} =>
        \A i \in DOMAIN vars : OnHeap(vars[i].buf.data) =>
          \/ Spared(us, src, i)
          \/ vars[i].buf.data.chunk \in DOMAIN n
               => ~n[vars[i].buf.data.chunk].live
  OBVIOUS
<1> HIDE DEF n, us, h
<1>8. "aliased" \notin risks' /\ ApartIn(mem, vars) => ApartIn(n, us)
  BY <1>1, <1>6, LeftApart
<1>9. "aliased" \notin risks' /\ LiveIn(mem, height, vars, scopes)
        => LiveIn(n, h, us, scopes')
  BY <1>1, <1>6, LeftLive
<1>10. "aliased" \notin risks' /\ StrsOwnIn(mem, vars, strs)
         => StrsOwnIn(n, us, strs)
  BY <1>1, <1>6, LeftStrs
<1>11. risks' \cap Losing = {} /\ FoundIn(mem, vars, strs)
         => FoundIn(n, us, strs)
  BY <1>1, <1>5, <1>6, <1>7, LeftFound
<1>12. /\ ApartIn(mem, vars)' <=> ApartIn(n, us)
       /\ LiveIn(mem, height, vars, scopes)' <=> LiveIn(n, h, us, scopes')
       /\ StrsOwnIn(mem, vars, strs)' <=> StrsOwnIn(n, us, strs)
       /\ FoundIn(mem, vars, strs)' <=> FoundIn(n, us, strs)
  BY DEF n, us, h
<1>13. risks' \cap (Sharing \cup {"viewed"}) = {} => risks' \cap Sharing = {}
  OBVIOUS
<1> QED
  BY <1>2, <1>3, <1>4, <1>8, <1>9, <1>10, <1>11, <1>12, <1>13, InvCarried

(* The variables of the scopes left open are as they were.                 *)
Same == [j \in Nat |-> j]

LEMMA KeptKeepers ==
  ASSUME Shape, NEW k \in Nat
  PROVE  /\ Keepers(Kept(k), Same, k)
         /\ \A i \in DOMAIN vars :
              Spared(Kept(k), Same, i) <=> i \notin Above(k)
<1> DEFINE us == Kept(k)
<1>1. PICK c \in 0 .. Len(vars) :
        /\ us = SubSeq(vars, 1, c)
        /\ \A i \in DOMAIN vars : i <= c <=> vars[i].level <= k
  BY KeptFacts DEF IsKept
<1>2. /\ VarsOK(mem, vars, Level) /\ Level \in Nat /\ Len(vars) \in Nat
      /\ DOMAIN vars = 1 .. Len(vars)
      /\ \A i \in DOMAIN vars : vars[i].level \in Nat
  BY TopFacts, VarsFacts DEF Shape
<1>3. \A i \in 1 .. c : i \in DOMAIN vars /\ vars[i].level <= k
  BY <1>1, <1>2
<1>4. /\ VarsOK(mem, us, k) /\ DOMAIN us = 1 .. c
      /\ \A i \in 1 .. c : us[i] = vars[i]
  <2>1. c \in 0 .. Len(vars) /\ \A i \in 1 .. c : vars[i].level <= k
    BY <1>3
  <2> DEFINE s == SubSeq(vars, 1, c)
  <2>2. /\ VarsOK(mem, s, k) /\ DOMAIN s = 1 .. c
        /\ \A i \in 1 .. c : s[i] = vars[i]
    BY <1>2, <2>1, VarsCut
  <2>3. us = s
    BY <1>1
  <2> HIDE DEF us, s
  <2> QED
    BY <2>2, <2>3
<1> HIDE DEF us
<1>5. \A j \in DOMAIN us : j \in DOMAIN vars /\ us[j] = vars[j] /\ Same[j] = j
  BY <1>3, <1>4 DEF Same
<1>6. Keepers(us, Same, k)
  BY <1>4, <1>5 DEF Keepers
<1>7. ASSUME NEW i \in DOMAIN vars
      PROVE  Spared(us, Same, i) <=> i \notin Above(k)
  <2>1. Spared(us, Same, i) <=> i \in DOMAIN us
    BY <1>5 DEF Spared
  <2>2. i \in DOMAIN us <=> vars[i].level <= k
    BY <1>1, <1>2, <1>4
  <2> QED
    BY <1>2, <2>1, <2>2 DEF Above
<1> QED
  BY <1>6, <1>7 DEF us

LEMMA FreedLeaves ==
  ASSUME Shape, NEW us, NEW src, NEW k, NEW S,
         \A c \in S : \E i \in DOMAIN vars :
           /\ ~Spared(us, src, i) /\ OnHeap(vars[i].buf.data)
           /\ vars[i].buf.data.chunk = c
  PROVE  Leaves(Freed(mem, S), height, us, src, k)
<1> DEFINE n == Freed(mem, S)
<1>1. MemOK(mem, height) /\ mem \in Seq(Chunk)
  BY DEF Shape, MemOK
<1>2. MemOK(n, height) /\ Len(n) = Len(mem)
  BY <1>1, FreedOK, FreedFacts
<1>3. \A c \in DOMAIN mem : n[c].live => n[c] = mem[c]
  BY <1>1, FreedFacts, FreedChunkFacts
<1>4. \A c \in DOMAIN mem : mem[c].live /\ ~n[c].live => c \in S
  BY <1>1, FreedFacts
<1> HIDE DEF n
<1>5. Leaves(n, height, us, src, k)
  BY <1>2, <1>3, <1>4 DEF Leaves
<1> QED
  BY <1>5 DEF n

LEMMA SameLeaves ==
  ASSUME Shape, NEW us, NEW src, NEW k
  PROVE  Leaves(mem, height, us, src, k)
BY DEF Leaves, Shape

LEMMA PoppedLeaves ==
  ASSUME Shape, NEW us, NEW src, NEW k, NEW m, Leaves(m, height, us, src, k),
         scopes[k + 1].arena
  PROVE  Leaves(Popped(m), PoppedHeight, us, src, k)
<1> DEFINE S == IF height = 0 THEN {} ELSE Blocks(m)
           n == Freed(m, S)
<1>1. /\ height \in Nat /\ MemOK(m, height) /\ m \in Seq(Chunk)
      /\ Len(m) = Len(mem) /\ DOMAIN m = DOMAIN mem
      /\ \A c \in DOMAIN mem : m[c].live => m[c] = mem[c]
  BY LeftFacts DEF Leaves, Shape, MemOK
<1>2. /\ n \in Seq(Chunk) /\ MemOK(n, height) /\ Len(n) = Len(mem)
      /\ DOMAIN n = DOMAIN mem
      /\ \A c \in DOMAIN mem : n[c].live => n[c] = m[c] /\ c \notin S
      /\ \A c \in DOMAIN mem : ~n[c].live => c \in S \/ ~m[c].live
  BY <1>1, FreedFacts, FreedOK, FreedChunkFacts
<1>3. \A c \in DOMAIN m : c \in S <=>
        height # 0 /\ m[c].live /\ m[c].arena = height
  BY DEF Blocks
<1>4. Popped(m) = n
  BY DEF Popped
<1> HIDE DEF n, S
<1>5. \/ height # 0 /\ PoppedHeight = height - 1
      \/ height = 0 /\ PoppedHeight = height
  BY DEF PoppedHeight
<1>6. MemOK(n, PoppedHeight)
  <2>1. ASSUME NEW c \in DOMAIN n, n[c].live
        PROVE  n[c].arena <= PoppedHeight
    <3>1. n[c].arena <= height /\ n[c].arena \in Nat
      BY <1>2, <2>1, ChunkFacts DEF MemOK
    <3>2. n[c].arena = height => height = 0
      BY <1>1, <1>2, <1>3, <2>1
    <3> QED
      BY <1>1, <1>5, <3>1, <3>2
  <2> QED
    BY <1>2, <2>1 DEF MemOK
<1>7. ASSUME NEW c \in DOMAIN mem, mem[c].live, ~n[c].live
      PROVE  \/ /\ mem[c].arena = height /\ height # 0
                /\ scopes[k + 1].arena /\ PoppedHeight = height - 1
             \/ \E i \in DOMAIN vars :
                  /\ ~Spared(us, src, i) /\ OnHeap(vars[i].buf.data)
                  /\ vars[i].buf.data.chunk = c
  <2>1. CASE m[c].live
    <3>1. c \in S
      BY <1>2, <1>7, <2>1
    <3>2. height # 0 /\ m[c].arena = height /\ m[c] = mem[c]
      BY <1>1, <1>3, <2>1, <3>1
    <3> QED
      BY <1>5, <3>2
  <2>2. CASE ~m[c].live
    <3>1. height # height - 1
      BY <1>1
    <3> QED
      BY <1>7, <2>2, <3>1 DEF Leaves
  <2> QED
    BY <2>1, <2>2
<1>8. \A c \in DOMAIN mem : n[c].live => n[c] = mem[c]
  BY <1>1, <1>2
<1>9. Leaves(n, PoppedHeight, us, src, k)
  BY <1>2, <1>6, <1>7, <1>8 DEF Leaves
<1> QED
  BY <1>4, <1>9

(* Scopes are left with their Strings dropped.                             *)
LEMMA DropsFacts ==
  ASSUME Shape, NEW k \in Nat, LiveIn(mem, height, vars, scopes)
  PROVE  /\ \A i \in ToFree(k) : Valid(mem, vars[i].buf.data)
         /\ \A i, j \in ToFree(k) :
              vars[i].buf.data.chunk = vars[j].buf.data.chunk => i = j
<1>1. ASSUME NEW i \in ToFree(k)
      PROVE  /\ i \in DOMAIN vars /\ ~IsNull(vars[i].buf.data)
             /\ Valid(mem, vars[i].buf.data)
             /\ mem[vars[i].buf.data.chunk].arena = 0
  <2>1. /\ i \in DOMAIN vars /\ ~IsNull(vars[i].buf.data)
        /\ ~Owns(mem, vars[i].buf.data)
    BY DEF ToFree, Above, OnHeap
  <2>2. Valid(mem, vars[i].buf.data)
    BY <2>1 DEF LiveIn, AnchoredIn
  <2>3. /\ mem[vars[i].buf.data.chunk].arena \in Nat /\ height \in Nat
        /\ mem[vars[i].buf.data.chunk].arena <= height
    BY <2>2, ChunkFacts DEF Valid, Shape, MemOK
  <2> QED
    BY <2>1, <2>2, <2>3 DEF Owns
<1> QED
  BY <1>1 DEF LiveIn, UniqueIn

LEMMA DropInv ==
  ASSUME RuntimeInv, Running, UNCHANGED <<strs, risks>>,
         NEW k, Closes(k), Drop(k),
         NEW m, m = AfterDrops(k),
         \/ mem' = m /\ height' = height
         \/ mem' = Popped(m) /\ height' = PoppedHeight /\ scopes[k + 1].arena
  PROVE  RuntimeInv'
<1>1. Shape /\ k \in Nat
  BY ClosesLevel DEF RuntimeInv, Shape
<1>2. /\ vars' = Kept(k) /\ fault' \in Faults
      /\ LiveIn(mem, height, vars, scopes) => fault' = "no"
  <2>1. fault \in Faults
    BY <1>1 DEF Shape
  <2>2. vars' = Kept(k) /\ fault' \in {fault, "double free"}
    BY DEF Drop
  <2>3. LiveIn(mem, height, vars, scopes) => fault' = fault
    BY <1>1, DropsFacts DEF Drop
  <2> QED
    BY <2>1, <2>2, <2>3 DEF Faults, Running
<1> DEFINE us == Kept(k)
           D == {vars[i].buf.data.chunk : i \in ToFree(k)}
<1>3. /\ Keepers(us, Same, k)
      /\ \A i \in DOMAIN vars : Spared(us, Same, i) <=> i \notin Above(k)
  BY <1>1, KeptKeepers
<1>4. m = Freed(mem, D)
  BY DEF AfterDrops
<1>5. vars' = us
  BY <1>2
<1> HIDE DEF us
<1>6. Leaves(m, height, us, Same, k)
  <2>1. ASSUME NEW c \in D
        PROVE  \E i \in DOMAIN vars :
                 /\ ~Spared(us, Same, i) /\ OnHeap(vars[i].buf.data)
                 /\ vars[i].buf.data.chunk = c
    BY <1>3 DEF ToFree, Above
  <2> HIDE DEF D
  <2> QED
    BY <1>1, <1>4, <2>1, FreedLeaves
<1>7. Leaves(mem', height', us, Same, k)
  BY <1>1, <1>6, PoppedLeaves
<1>8. ASSUME NEW i \in DOMAIN vars, OnHeap(vars[i].buf.data),
             ~Spared(us, Same, i), vars[i].buf.data.chunk \in DOMAIN mem'
      PROVE  ~mem'[vars[i].buf.data.chunk].live
  <2> DEFINE c == vars[i].buf.data.chunk
  <2>1. c \in D
    BY <1>3, <1>8 DEF ToFree
  <2>2. mem \in Seq(Chunk) /\ DOMAIN m = DOMAIN mem /\ DOMAIN mem' = DOMAIN mem
          /\ m \in Seq(Chunk)
    BY <1>1, <1>6, <1>7, LeftFacts DEF Shape, Leaves, MemOK
  <2> HIDE DEF c, D
  <2>3. c \in DOMAIN mem
    BY <1>8, <2>2 DEF c
  <2>4. m[c] = FreedChunk
    BY <1>4, <2>1, <2>2, <2>3, FreedFacts
  <2>5. mem'[c] = m[c] \/ mem'[c] = FreedChunk
    BY <2>2, <2>3, FreedFacts DEF Popped
  <2> QED
    BY <2>4, <2>5, FreedChunkFacts DEF c
<1>9. /\ Keepers(vars', Same, k) /\ Leaves(mem', height', vars', Same, k)
      /\ \A i \in DOMAIN vars : OnHeap(vars[i].buf.data) =>
           \/ Spared(vars', Same, i)
           \/ vars[i].buf.data.chunk \in DOMAIN mem'
                => ~mem'[vars[i].buf.data.chunk].live
  BY <1>3, <1>5, <1>7, <1>8
<1>10. risks \subseteq risks' /\ risks' \subseteq Risks /\ strs' = strs
  BY <1>1 DEF Shape
<1> QED
  BY <1>2, <1>9, <1>10, ClosesInv

LEMMA FrontFacts ==
  ASSUME ScopesOK(scopes), Level > 1
  PROVE  /\ Front(scopes) = SubSeq(scopes, 1, Level - 1)
         /\ Last(scopes) = scopes[Level] /\ Level \in DOMAIN scopes
         /\ Level - 1 \in 1 .. Level - 1 /\ Level - 1 + 1 = Level
         /\ \A l \in Level - 1 + 2 .. Level : ~scopes[l].arena
<1>1. Level \in Nat /\ DOMAIN scopes = 1 .. Level
  BY TopFacts
<1> QED
  BY <1>1 DEF Front, Last, Level

(* The file's own scope is never closed.                                   *)
LEMMA InnerScope ==
  ASSUME ScopesOK(scopes), Last(scopes).kind # "root"
  PROVE  Level > 1
<1>1. Level \in Nat \ {0} /\ DOMAIN scopes = 1 .. Level /\ Level = Len(scopes)
  BY TopFacts DEF Level
<1>2. CASE Level = 1
  <2>1. 1 \in DOMAIN scopes /\ Last(scopes) = scopes[1]
    BY <1>1, <1>2 DEF Last
  <2> QED
    BY <2>1 DEF ScopesOK
<1> QED
  BY <1>1, <1>2

LEMMA CloseBlockInv ==
  ASSUME RuntimeInv, CloseBlock
  PROVE  RuntimeInv'
<1> DEFINE k == Level - 1
<1>1. /\ Running /\ Drop(k) /\ mem' = AfterDrops(k) /\ scopes' = Front(scopes)
      /\ UNCHANGED <<height, strs, risks>> /\ Last(scopes).kind = "block"
  BY DEF CloseBlock
<1>2. ScopesOK(scopes) /\ Level > 1
  BY <1>1, InnerScope DEF RuntimeInv, Shape
<1>3. /\ scopes' = SubSeq(scopes, 1, k) /\ k \in 1 .. Level - 1
      /\ k + 1 = Level /\ Level \in DOMAIN scopes
      /\ \A l \in k + 2 .. Level : ~scopes[l].arena
      /\ Last(scopes) = scopes[Level]
  BY <1>1, <1>2, FrontFacts
<1>4. ~scopes[k + 1].arena
  BY <1>1, <1>2, <1>3 DEF ScopesOK
<1> HIDE DEF k
<1>5. Closes(k)
  BY <1>1, <1>3, <1>4 DEF Closes
<1> QED
  BY <1>1, <1>5, DropInv

LEMMA FallOffInv ==
  ASSUME RuntimeInv, FallOff
  PROVE  RuntimeInv'
<1> DEFINE k == Level - 1
           m == AfterDrops(k)
<1>1. /\ Running /\ Drop(k) /\ scopes' = Front(scopes)
      /\ UNCHANGED <<strs, risks>> /\ Last(scopes).kind = "fn"
      /\ Last(scopes).arena => mem' = Popped(m) /\ height' = PoppedHeight
      /\ ~Last(scopes).arena => mem' = m /\ height' = height
  BY DEF FallOff
<1>2. ScopesOK(scopes) /\ Level > 1
  BY <1>1, InnerScope DEF RuntimeInv, Shape
<1>3. /\ scopes' = SubSeq(scopes, 1, k) /\ k \in 1 .. Level - 1
      /\ k + 1 = Level
      /\ \A l \in k + 2 .. Level : ~scopes[l].arena
      /\ Last(scopes) = scopes[k + 1]
  BY <1>1, <1>2, FrontFacts
<1>4. m = AfterDrops(k)
  OBVIOUS
<1> HIDE DEF k, m
<1>5. Closes(k)
  BY <1>1, <1>3 DEF Closes
<1>6. \/ mem' = m /\ height' = height
      \/ mem' = Popped(m) /\ height' = PoppedHeight /\ scopes[k + 1].arena
  BY <1>1, <1>3
<1> QED
  BY <1>1, <1>4, <1>5, <1>6, DropInv

(* A jump leaves every scope of the function.                              *)
LEMMA FnCloses ==
  ASSUME ScopesOK(scopes), Level > 1
  PROVE  /\ FnLevel - 1 \in 1 .. Level - 1 /\ FnLevel - 1 + 1 = FnLevel
         /\ \A l \in FnLevel - 1 + 2 .. Level : ~scopes[l].arena
         /\ FnLevel - 1 \in Nat
<1> DEFINE f == FnLevel
<1>1. Level \in Nat /\ f \in 2 .. Level
        /\ \A l \in f + 1 .. Level : ~scopes[l].arena
  BY TopFacts, FnFacts
<1> HIDE DEF f
<1>2. /\ f - 1 \in 1 .. Level - 1 /\ f - 1 + 1 = f /\ f - 1 \in Nat
      /\ \A l \in f - 1 + 2 .. Level : ~scopes[l].arena
  BY <1>1
<1> QED
  BY <1>2 DEF f

LEMMA JumpInv ==
  ASSUME RuntimeInv, Running, UNCHANGED <<strs, fault>>,
         risks \subseteq risks', risks' \subseteq Risks,
         NEW k, Closes(k), vars' = Kept(k),
         \A i \in Above(k) :
           OnHeap(vars[i].buf.data) => "early exit" \in risks',
         \/ mem' = mem /\ height' = height
         \/ mem' = Popped(mem) /\ height' = PoppedHeight /\ scopes[k + 1].arena
  PROVE  RuntimeInv'
<1>1. Shape /\ k \in Nat
  BY ClosesLevel DEF RuntimeInv, Shape
<1>2. /\ Keepers(vars', Same, k)
      /\ \A i \in DOMAIN vars : Spared(vars', Same, i) <=> i \notin Above(k)
  BY <1>1, KeptKeepers
<1> DEFINE us == vars'
<1>3. Leaves(mem, height, us, Same, k)
  BY <1>1, SameLeaves
<1>4. Leaves(mem', height', us, Same, k)
  BY <1>1, <1>3, PoppedLeaves
<1>5. ASSUME risks' \cap Losing = {}, NEW i \in DOMAIN vars,
             OnHeap(vars[i].buf.data)
      PROVE  Spared(vars', Same, i)
  <2>1. i \notin Above(k)
    BY <1>5 DEF Losing
  <2> QED
    BY <1>2, <2>1
<1>6. fault' = "no" /\ fault' \in Faults
  BY DEF Running, Faults
<1> QED
  BY <1>2, <1>4, <1>5, <1>6, ClosesInv

LEMMA ReturnInv ==
  ASSUME RuntimeInv, Return
  PROVE  RuntimeInv'
<1> DEFINE k == FnLevel - 1
<1>1. /\ Running /\ Level > 1 /\ scopes' = SubSeq(scopes, 1, k)
      /\ vars' = Kept(k) /\ UNCHANGED <<strs, fault>>
      /\ scopes[FnLevel].arena =>
           mem' = Popped(mem) /\ height' = PoppedHeight
      /\ ~scopes[FnLevel].arena => mem' = mem /\ height' = height
      /\ Run("early exit", LeavesHeap({}))
  BY DEF Return, memVars
<1>2. ScopesOK(scopes) /\ risks \subseteq Risks
  BY DEF RuntimeInv, Shape
<1>3. /\ k \in 1 .. Level - 1 /\ k + 1 = FnLevel
      /\ \A l \in k + 2 .. Level : ~scopes[l].arena
  BY <1>1, <1>2, FnCloses
<1>4. /\ risks \subseteq risks' /\ risks' \subseteq Risks
      /\ LeavesHeap({}) => "early exit" \in risks'
  BY <1>1, <1>2 DEF Run, Risks
<1>5. \A i \in Above(k) :
        OnHeap(vars[i].buf.data) => "early exit" \in risks'
  BY <1>4 DEF LeavesHeap
<1> HIDE DEF k
<1>6. Closes(k)
  BY <1>1, <1>3 DEF Closes
<1>7. \/ mem' = mem /\ height' = height
      \/ mem' = Popped(mem) /\ height' = PoppedHeight /\ scopes[k + 1].arena
  BY <1>1, <1>3
<1> QED
  BY <1>1, <1>4, <1>5, <1>6, <1>7, JumpInv

LEMMA TryInv ==
  ASSUME RuntimeInv, Try
  PROVE  RuntimeInv'
<1> DEFINE k == FnLevel - 1
           A == IF LeavesHeap({}) THEN {"early exit"} ELSE {}
           B == IF scopes[FnLevel].arena THEN {"no pop"} ELSE {}
<1>1. /\ Running /\ Level > 1 /\ scopes' = SubSeq(scopes, 1, k)
      /\ vars' = Kept(k) /\ UNCHANGED <<strs, fault, mem, height>>
      /\ risks' = risks \cup A \cup B
  BY DEF Try, memVars
<1>2. ScopesOK(scopes) /\ risks \subseteq Risks
  BY DEF RuntimeInv, Shape
<1>3. /\ k \in 1 .. Level - 1 /\ k + 1 = FnLevel
      /\ \A l \in k + 2 .. Level : ~scopes[l].arena
  BY <1>1, <1>2, FnCloses
<1>4. /\ A \subseteq {"early exit"} /\ (LeavesHeap({}) => "early exit" \in A)
      /\ B \subseteq {"no pop"} /\ (scopes[FnLevel].arena => "no pop" \in B)
  OBVIOUS
<1>5. LeavesHeap({}) <=> \E i \in Above(k) : OnHeap(vars[i].buf.data)
  BY DEF LeavesHeap
<1> HIDE DEF k, A, B
<1>6. /\ risks \subseteq risks' /\ risks' \subseteq Risks
      /\ \A i \in Above(k) :
           OnHeap(vars[i].buf.data) => "early exit" \in risks'
      /\ scopes[k + 1].arena => "no pop" \in risks'
  BY <1>1, <1>2, <1>3, <1>4, <1>5 DEF Risks
<1>7. Closes(k)
  BY <1>1, <1>3, <1>6 DEF Closes
<1> QED
  BY <1>1, <1>6, <1>7, JumpInv

(* A String is returned: the caller's scope has it, in a function of its   *)
(* own or a block of one; of a global it is a second name.                 *)
IsReturned(us, i, k) ==
  \E src : /\ Keepers(us, src, k)
           /\ "aliased" \notin risks' =>
                \A j \in DOMAIN vars :
                  Spared(us, src, j) <=> j \notin Above(k) \/ j = i

LEMMA ReturnedFacts ==
  ASSUME Shape, NEW i \in DOMAIN vars, ~vars[i].moved, NEW k \in Nat \ {0},
         NEW us, us = Append(Kept(k), [buf |-> vars[i].buf, level |-> k,
                                       moved |-> FALSE]),
         ~scopes[k + 1].arena,
         "aliased" \notin risks' => i \in Above(k)
  PROVE  IsReturned(us, i, k)
<1> DEFINE ws == Kept(k)
           e == [buf |-> vars[i].buf, level |-> k, moved |-> FALSE]
           c == Len(ws)
           src == [j \in Nat |-> IF j = c + 1 THEN i ELSE j]
<1>1. /\ Keepers(ws, Same, k) /\ VarsOK(mem, ws, k)
      /\ \A j \in DOMAIN vars : Spared(ws, Same, j) <=> j \notin Above(k)
  <2>1. k \in Nat
    OBVIOUS
  <2> QED
    BY <2>1, KeptKeepers DEF Keepers
<1>2. PICK d \in 0 .. Len(vars) : /\ ws = SubSeq(vars, 1, d)
                                  /\ \A j \in DOMAIN vars :
                                       j <= d <=> vars[j].level <= k
  <2>1. k \in Nat
    OBVIOUS
  <2> QED
    BY <2>1, KeptFacts DEF IsKept
<1>3. /\ vars \in Seq(Variable) /\ Len(vars) \in Nat
      /\ DOMAIN vars = 1 .. Len(vars) /\ VariableOK(mem, vars[i], Level)
      /\ vars[i].buf \in Buffer
  BY VarsFacts DEF Shape, VarsOK
<1>4. /\ DOMAIN ws = 1 .. c /\ c \in Nat /\ ws \in Seq(Variable) /\ c = d
      /\ \A j \in DOMAIN ws : j \in DOMAIN vars /\ ws[j] = vars[j]
  <2> DEFINE s == SubSeq(vars, 1, d)
  <2>1. /\ s \in Seq(Variable) /\ Len(s) = d /\ DOMAIN s = 1 .. d
        /\ \A j \in 1 .. d : s[j] = vars[j]
    BY <1>3, PrefixFacts
  <2>2. ws = s
    BY <1>2
  <2>3. \A j \in 1 .. d : j \in DOMAIN vars
    BY <1>3
  <2> HIDE DEF s, ws
  <2> QED
    BY <2>1, <2>2, <2>3
<1>5. us = Append(ws, e)
  OBVIOUS
<1>6. /\ e \in Variable /\ e.buf = vars[i].buf /\ e.level = k
      /\ e.moved = FALSE
  BY <1>3 DEF Variable
<1>7. VariableOK(mem, e, k)
  BY <1>3, <1>6 DEF VariableOK
<1> HIDE DEF ws, e, c
<1>8. VarsOK(mem, us, k)
  <2>1. \A j \in DOMAIN ws : ws[j].level <= e.level
    BY <1>1, <1>6 DEF VarsOK, VariableOK
  <2>2. k \in Nat
    OBVIOUS
  <2>3. VarsOK(mem, Append(ws, e), k)
    BY <1>1, <1>7, <2>1, <2>2, VarsAppended
  <2> QED
    BY <1>5, <2>3
<1>9. /\ DOMAIN us = 1 .. c + 1 /\ us[c + 1] = e
      /\ \A j \in 1 .. c : us[j] = vars[j] /\ j \in DOMAIN vars
  <2>1. /\ DOMAIN Append(ws, e) = 1 .. Len(ws) + 1
        /\ Append(ws, e)[Len(ws) + 1] = e
        /\ \A j \in 1 .. Len(ws) : Append(ws, e)[j] = ws[j]
    BY <1>4, <1>6, AppendFacts
  <2> QED
    BY <1>4, <1>5, <2>1 DEF c
<1>10. /\ src[c + 1] = i /\ \A j \in 1 .. c : src[j] = j
  BY <1>4
<1>11. \A j \in DOMAIN us : j = c + 1 \/ j \in 1 .. c
  BY <1>4, <1>9
<1> HIDE DEF src
<1>12. ASSUME "aliased" \notin risks'
       PROVE  i \notin 1 .. c
  <2>1. i \in Above(k)
    BY <1>12
  <2>2. ~Spared(ws, Same, i)
    BY <1>1, <2>1
  <2>3. \A j \in 1 .. c : Same[j] = j
    BY <1>4 DEF Same
  <2> QED
    BY <1>4, <2>2, <2>3 DEF Spared
<1>13. Keepers(us, src, k)
  <2>1. ASSUME NEW j \in DOMAIN us
        PROVE  /\ src[j] \in DOMAIN vars /\ us[j].buf = vars[src[j]].buf
               /\ vars[src[j]].moved => us[j].moved
               /\ \/ us[j].level = vars[src[j]].level
                  \/ us[j].level = k /\ ~scopes[k + 1].arena
    BY <1>6, <1>9, <1>10, <1>11
  <2>2. ASSUME "aliased" \notin risks', NEW j \in DOMAIN us,
               NEW l \in DOMAIN us, j # l
        PROVE  src[j] # src[l]
    BY <1>10, <1>11, <1>12, <2>2
  <2> QED
    BY <1>8, <2>1, <2>2 DEF Keepers
<1>14. ASSUME NEW j \in DOMAIN vars
       PROVE  Spared(us, src, j) <=> j \notin Above(k) \/ j = i
  <2>1. Spared(us, src, j) <=> j \in 1 .. c \/ j = i
    <3>1. c + 1 \in DOMAIN us /\ \A l \in 1 .. c : l \in DOMAIN us
      BY <1>4, <1>9
    <3> QED
      BY <1>10, <1>11, <3>1 DEF Spared
  <2>2. Spared(ws, Same, j) <=> j \in 1 .. c
    <3>1. \A l \in 1 .. c : Same[l] = l
      BY <1>4 DEF Same
    <3> QED
      BY <1>4, <3>1 DEF Spared
  <2> QED
    BY <1>1, <2>1, <2>2
<1> QED
  BY <1>13, <1>14 DEF IsReturned

LEMMA ReturnStringInv ==
  ASSUME RuntimeInv, NEW i \in DOMAIN vars, ReturnString(i)
  PROVE  RuntimeInv'
<1> DEFINE k == FnLevel - 1
           A == IF LeavesHeap({i}) THEN {"early exit"} ELSE {}
           B == IF vars[i].level = 1 THEN {"aliased"} ELSE {}
<1>1. /\ Running /\ Level > 1 /\ ~vars[i].moved /\ ~scopes[FnLevel].arena
      /\ scopes' = SubSeq(scopes, 1, k)
      /\ vars' = Append(Kept(k), [buf |-> vars[i].buf, level |-> k,
                                  moved |-> FALSE])
      /\ UNCHANGED <<strs, fault, mem, height>>
      /\ risks' = risks \cup A \cup B
      /\ Own(i) \/ vars[i].level = 1
  BY DEF ReturnString, Usable, memVars
<1>2. /\ Shape /\ ScopesOK(scopes) /\ risks \subseteq Risks
      /\ vars[i].level \in Nat
  BY VarsFacts DEF RuntimeInv, Shape
<1>3. /\ k \in 1 .. Level - 1 /\ k + 1 = FnLevel
      /\ \A l \in k + 2 .. Level : ~scopes[l].arena
      /\ k \in Nat
  BY <1>1, <1>2, FnCloses
<1>4. k \in Nat \ {0}
  BY <1>3
<1>5. /\ A \subseteq {"early exit"} /\ (LeavesHeap({i}) => "early exit" \in A)
      /\ B \subseteq {"aliased"} /\ (vars[i].level = 1 => "aliased" \in B)
  OBVIOUS
<1>6. LeavesHeap({i}) <=>
        \E j \in Above(k) \ {i} : OnHeap(vars[j].buf.data)
  BY DEF LeavesHeap
<1>7. Own(i) => i \in Above(k)
  <2>1. Own(i) => vars[i].level >= k + 1
    BY <1>3 DEF Own
  <2> HIDE DEF k
  <2> QED
    BY <1>2, <1>4, <2>1 DEF Above
<1> HIDE DEF k, A, B
<1>8. /\ risks \subseteq risks' /\ risks' \subseteq Risks
      /\ LeavesHeap({i}) => "early exit" \in risks'
      /\ "aliased" \notin risks' => i \in Above(k)
  BY <1>1, <1>2, <1>5, <1>7 DEF Risks
<1>9. Closes(k)
  BY <1>1, <1>3 DEF Closes
<1>10. PICK src : /\ Keepers(vars', src, k)
                  /\ "aliased" \notin risks' =>
                       \A j \in DOMAIN vars :
                         Spared(vars', src, j) <=> j \notin Above(k) \/ j = i
  <2> DEFINE us == vars'
  <2>1. us = Append(Kept(k), [buf |-> vars[i].buf, level |-> k,
                              moved |-> FALSE])
    BY <1>1
  <2> HIDE DEF us
  <2>2. ~scopes[k + 1].arena /\ ~vars[i].moved
    BY <1>1, <1>3
  <2>3. IsReturned(us, i, k)
    BY <1>2, <1>4, <1>8, <2>1, <2>2, ReturnedFacts
  <2> QED
    BY <2>3 DEF us, IsReturned
<1>11. Leaves(mem', height', vars', src, k)
  <2> DEFINE us == vars'
  <2> HIDE DEF us
  <2>1. Leaves(mem, height, us, src, k)
    BY <1>2, SameLeaves
  <2> QED
    BY <1>1, <2>1 DEF us
<1>12. ASSUME risks' \cap Losing = {}, NEW j \in DOMAIN vars,
              OnHeap(vars[j].buf.data)
       PROVE  Spared(vars', src, j)
  <2>1. ~LeavesHeap({i}) /\ "aliased" \notin risks'
    BY <1>8, <1>12 DEF Losing
  <2>2. j \notin Above(k) \/ j = i
    BY <1>6, <1>12, <2>1
  <2> QED
    BY <1>10, <2>1, <2>2
<1>13. fault' = "no" /\ fault' \in Faults /\ strs' = strs
  BY <1>1 DEF Running, Faults
<1> QED
  BY <1>1, <1>8, <1>9, <1>10, <1>11, <1>12, <1>13, ClosesInv

(***************************************************************************)
(* The invariant holds.                                                    *)
(***************************************************************************)
LEMMA InitInv == Init => RuntimeInv
<1> SUFFICES ASSUME Init
             PROVE  RuntimeInv
  OBVIOUS
<1>1. /\ mem = <<>> /\ height = 0 /\ strs = {} /\ fault = "no" /\ risks = {}
      /\ scopes = <<[kind |-> "root", arena |-> FALSE]>>
  BY DEF Init, ArenaInit
<1> DEFINE e == [buf |-> Empty, level |-> 1, moved |-> FALSE]
<1>2. vars = [i \in 1 .. Globals |-> e] /\ Globals \in Nat
  BY RuntimeAssumption DEF Init
<1>3. e \in Variable /\ e.buf = Empty /\ e.level = 1
  BY EmptyFacts DEF Variable
<1> HIDE DEF e
<1>4. vars \in Seq(Variable) /\ \A i \in DOMAIN vars : vars[i] = e
  <2>1. vars \in [1 .. Globals -> Variable]
    BY <1>2, <1>3
  <2>2. vars \in Seq(Variable)
    BY <1>2, <2>1, SequenceOf
  <2> QED
    BY <1>2, <2>2
<1>5. /\ mem \in Seq(Chunk) /\ DOMAIN mem = {} /\ Len(mem) = 0
      /\ MemOK(mem, height) /\ height \in Nat
  BY <1>1 DEF MemOK
<1>6. /\ DOMAIN scopes = {1} /\ Level = 1
      /\ scopes[1].kind = "root" /\ ~scopes[1].arena
      /\ scopes \in Seq(Scope) /\ scopes # <<>>
  <2>1. [kind |-> "root", arena |-> FALSE] \in Scope
    BY DEF Scope
  <2> QED
    BY <1>1, <2>1 DEF Level
<1>7. ScopesOK(scopes)
  BY <1>6 DEF ScopesOK, Level
<1>8. VarsOK(mem, vars, Level)
  <2>1. VariableOK(mem, e, 1)
    BY <1>3, <1>5, EmptyFacts DEF VariableOK
  <2> QED
    BY <1>3, <1>4, <1>6, <2>1 DEF VarsOK
<1>9. Shape
  BY <1>1, <1>5, <1>7, <1>8 DEF Shape, Faults
<1>10. ApartIn(mem, vars)
  BY <1>5 DEF ApartIn, HeldIn, Valid
<1>11. \A i \in DOMAIN vars : IsNull(vars[i].buf.data)
  BY <1>3, <1>4, EmptyFacts
<1>12. LiveIn(mem, height, vars, scopes) /\ StrsOwnIn(mem, vars, strs)
  BY <1>1, <1>11 DEF LiveIn, AnchoredIn, UniqueIn, StrsOwnIn
<1>13. ArenasMatch
  <2>1. ArenasAbove(scopes, 0) = {}
    BY <1>6 DEF ArenasAbove
  <2>2. Cardinality(ArenasAbove(scopes, 0)) = 0
    BY <2>1, FS_EmptySet
  <2>3. MatchIn(height, scopes, risks)
    BY <1>1, <2>2 DEF MatchIn
  <2> QED
    BY <1>7, <2>3, MatchNow
<1>14. NothingLost /\ MemorySafe
  BY <1>1, <1>5 DEF NothingLost, MemorySafe
<1> QED
  BY <1>9, <1>10, <1>12, <1>13, <1>14 DEF RuntimeInv

LEMMA StepInv == RuntimeInv /\ [Next]_stringVars => RuntimeInv'
<1> SUFFICES ASSUME RuntimeInv, [Next]_stringVars
             PROVE  RuntimeInv'
  OBVIOUS
<1>1. CASE \E cap \in Capacities : NewString(cap)
  BY <1>1, NewStringInv
<1>2. ASSUME NEW i \in DOMAIN vars,
             \/ PushConstant(i) \/ PushStr(i)
             \/ \E j \in DOMAIN vars : PushString(i, j)
      PROVE  RuntimeInv'
  BY <1>2, PushesInv
<1>3. ASSUME NEW i \in DOMAIN vars,
             \/ IntoStrEmpty(i) \/ IntoStrShort(i) \/ IntoStrLong(i)
             \/ CloneStr(i) \/ View(i)
      PROVE  RuntimeInv'
  BY <1>3, IntoStrEmptyInv, IntoStrShortInv, IntoStrLongInv, CloneStrInv,
     ViewInv
<1>4. ASSUME NEW i \in DOMAIN vars,
             Move(i) \/ Assign(i) \/ CallWith(i) \/ ReturnString(i)
      PROVE  RuntimeInv'
  BY <1>4, MoveInv, AssignInv, CallWithInv, ReturnStringInv
<1>5. CASE \E arena, ok \in BOOLEAN : Call(arena, ok)
  BY <1>5, CallInv
<1>6. CASE OpenBlock \/ CloseBlock \/ FallOff \/ Return \/ Try
  BY <1>6, OpenBlockInv, CloseBlockInv, FallOffInv, ReturnInv, TryInv
<1>7. CASE UNCHANGED stringVars
  <2>1. /\ UNCHANGED <<mem, height, vars, scopes, strs, fault, risks>>
    BY <1>7 DEF stringVars, memVars
  <2>2. /\ Shape' <=> Shape
        /\ ApartIn(mem, vars)' <=> ApartIn(mem, vars)
        /\ LiveIn(mem, height, vars, scopes)' <=>
             LiveIn(mem, height, vars, scopes)
        /\ StrsOwnIn(mem, vars, strs)' <=> StrsOwnIn(mem, vars, strs)
    BY <2>1 DEF Shape, Level
  <2>3. /\ ArenasMatch' <=> ArenasMatch
        /\ NothingLost' <=> NothingLost
        /\ MemorySafe' <=> MemorySafe
    BY <2>1 DEF ArenasMatch, ArenasOf, Level, NothingLost, Running, MemorySafe
  <2> QED
    BY <2>1, <2>2, <2>3 DEF RuntimeInv
<1> QED
  BY <1>1, <1>2, <1>3, <1>4, <1>5, <1>6, <1>7 DEF Next

(* Whatever a program does that analysis accepts, and wherever memory runs *)
(* out, the invariant holds: functions that allocate, grow, move, drop,    *)
(* return and jump leave the memory behind Strings and str values sound.   *)
THEOREM InvHolds == Spec => []RuntimeInv
<1>1. RuntimeInv /\ [Next]_stringVars => RuntimeInv'
  BY StepInv
<1> QED
  BY <1>1, InitInv, PTL DEF Spec

LEMMA InvTyped == RuntimeInv => TypeOK
BY DEF RuntimeInv, Shape, TypeOK, ArenaTypeOK, MemOK, ScopesOK, VarsOK

LEMMA InvApart ==
  ASSUME RuntimeInv, "aliased" \notin risks
  PROVE  BuffersApart
<1>1. ApartIn(mem, vars) /\ Shape
  BY DEF RuntimeInv
<1>2. \A i \in Held : i \in DOMAIN vars /\ HeldIn(mem, vars[i])
  BY DEF Held, HeldIn
<1>3. \A i \in Held : Fits(vars[i].buf)
  BY <1>1, <1>2 DEF ApartIn, Fits
<1>4. ASSUME NEW i \in Held, NEW j \in Held, i # j,
             vars[i].buf.data.chunk = vars[j].buf.data.chunk
      PROVE  Extent(vars[i].buf) \cap Extent(vars[j].buf) = {}
  <2>1. Before(vars[i].buf, vars[j].buf) \/ Before(vars[j].buf, vars[i].buf)
    BY <1>1, <1>2, <1>4 DEF ApartIn
  <2>2. /\ vars[i].buf.data.off \in Nat /\ vars[i].buf.cap \in Nat
        /\ vars[j].buf.data.off \in Nat /\ vars[j].buf.cap \in Nat
    BY <1>1, <1>2, VarsFacts DEF Shape
  <2> QED
    BY <2>1, <2>2 DEF Before, Extent
<1> QED
  BY <1>3, <1>4 DEF BuffersApart

(* String buffers stay within what was allocated for them, terminator      *)
(* included, and no two share a byte, in arenas as in the heap.            *)
THEOREM HeapStaysSound == Spec => []HeapSound
<1>1. RuntimeInv => ArenasSound
  BY DEF RuntimeInv, Shape, MemOK, ArenasSound
<1>2. RuntimeInv => HeapSound
  BY <1>1, InvTyped, InvApart DEF HeapSound
<1> QED
  BY <1>2, InvHolds, PTL

(* A function that asks for an arena has one as long as it runs, and       *)
(* __tyna_string_arena_pop takes none from a function it returns to.       *)
THEOREM ArenasStayMatched == Spec => []ArenasMatch
<1>1. RuntimeInv => ArenasMatch
  BY DEF RuntimeInv
<1> QED
  BY <1>1, InvHolds, PTL

(* The memory of a String or str that may still be used is there, if no    *)
(* String of the heap was moved or returned as a global, and no global     *)
(* took memory of an arena.                                                *)
THEOREM DataStaysLive == Spec => []LiveData
<1>1. RuntimeInv => LiveBuffers
  BY DEF RuntimeInv, Sharing, LiveBuffers, LiveIn, AnchoredIn
<1>2. RuntimeInv => LiveStrs
  <2> SUFFICES ASSUME RuntimeInv,
                      risks \cap {"copied", "aliased", "viewed", "escaped",
                                  "no push"} = {}
               PROVE  \A str \in strs : Valid(mem, str.ptr)
    BY DEF LiveStrs
  <2>1. risks \cap (Sharing \cup {"viewed"}) = {}
    BY DEF Sharing
  <2> QED
    BY <2>1 DEF RuntimeInv, StrsOwnIn
<1>3. RuntimeInv => LiveData
  BY <1>1, <1>2 DEF LiveData
<1> QED
  BY <1>3, InvHolds, PTL

(* Freed memory is neither touched nor freed again but by a program that   *)
(* takes one of the risks named.                                           *)
THEOREM MemoryStaysSafe == Spec => []MemorySafe
<1>1. RuntimeInv => MemorySafe
  BY DEF RuntimeInv
<1> QED
  BY <1>1, InvHolds, PTL

(* All memory of the heap can be found from a variable or a str, if none   *)
(* was left by a jump, into_str() of an empty String or an assignment.     *)
THEOREM NothingGetsLost == Spec => []NothingLost
<1>1. RuntimeInv => NothingLost
  BY DEF RuntimeInv
<1> QED
  BY <1>1, InvHolds, PTL
===============================================================================
