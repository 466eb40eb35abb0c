---------------------------- MODULE StrValuesProofs ----------------------------
(***************************************************************************)
(* What is proved of str values, for every size of a word and any number   *)
(* of literals, strs and blocks of memory: what packing keeps of a text,   *)
(* that strs stay the texts they stand for, and that the pool and the      *)
(* arena of interned texts hold together.                                  *)
(***************************************************************************)
EXTENDS StrValues, SequenceTheorems, WellFoundedInduction, TLAPS

-------------------------------------------------------------------------------
(***************************************************************************)
(* A str of few bytes gives back all of a text of two bytes less than two  *)
(* words, all but the last byte of one that is a byte longer.              *)
(***************************************************************************)

(* The bytes tyna_str_sso_copy reads are those tyna_str_from_buffer took,  *)
(* but for the one the shift has pushed out.                               *)
LEMMA UnpackedBytes ==
  ASSUME NEW text \in Text, Len(text) <= 2 * WordBytes - 1,
         NEW i \in 1 .. Len(text)
  PROVE  Unpacked(Packed(text))[i] =
           IF i = 2 * WordBytes - 1 THEN 0 ELSE text[i]
<1> DEFINE s == Packed(text)
           high == [k \in Slots |-> ByteAt(text, LowBytes + k)]
<1>0. WordBytes \in Nat /\ WordBytes >= 2 /\ Len(text) \in Nat
  BY SmallStrAssumption DEF Text
<1>1. /\ s.len = Len(text)
      /\ s.low = [k \in Low |-> ByteAt(text, k)]
      /\ s.rest = ShiftedUp(high)
  BY DEF Packed
<1>2. Unpacked(s)[i] = IF i <= LowBytes THEN s.low[i]
                       ELSE ShiftedDown(s.rest)[i - LowBytes]
  BY <1>1 DEF Unpacked
<1>3. ByteAt(text, i) = text[i]
  BY DEF ByteAt, Text
<1>4. CASE i <= LowBytes
  <2>1. i \in Low /\ i # 2 * WordBytes - 1
    BY <1>0, <1>4 DEF Low, LowBytes
  <2> QED BY <1>1, <1>2, <1>3, <1>4, <2>1
<1>5. CASE ~(i <= LowBytes)
  <2> DEFINE k == i - LowBytes
  <2>1. k \in Slots /\ LowBytes + k = i
    BY <1>0, <1>5 DEF Slots, LowBytes
  <2>2. Unpacked(s)[i] = ShiftedDown(ShiftedUp(high))[k]
    BY <1>1, <1>2, <1>5
  <2>3. CASE k = WordBytes
    <3>1. ShiftedDown(ShiftedUp(high))[k] = 0
      BY <2>1, <2>3 DEF ShiftedDown
    <3>2. i = 2 * WordBytes - 1
      BY <1>0, <2>1, <2>3 DEF LowBytes
    <3> QED BY <2>2, <3>1, <3>2
  <2>4. CASE k # WordBytes
    <3>1. k + 1 \in Slots /\ k + 1 # 1 /\ (k + 1) - 1 = k
      BY <1>0, <2>1, <2>4 DEF Slots
    <3>2. ShiftedDown(ShiftedUp(high))[k] = ShiftedUp(high)[k + 1]
      BY <2>1, <2>4 DEF ShiftedDown
    <3>3. ShiftedUp(high)[k + 1] = high[(k + 1) - 1]
      BY <3>1 DEF ShiftedUp
    <3>4. high[k] = text[i]
      BY <1>3, <2>1
    <3>5. i # 2 * WordBytes - 1
      BY <1>0, <2>1, <2>4 DEF LowBytes
    <3> QED BY <2>2, <3>1, <3>2, <3>3, <3>4, <3>5
  <2> QED BY <2>3, <2>4
<1> QED BY <1>4, <1>5

(* A text that fits what the two words have room for comes back whole.     *)
THEOREM PackedTextKept ==
  ASSUME NEW text \in Text, Len(text) <= 2 * WordBytes - 2
  PROVE  Unpacked(Packed(text)) = text
<1>0. WordBytes \in Nat /\ Len(text) \in Nat
  BY SmallStrAssumption DEF Text
<1>1. \A i \in 1 .. Len(text) : Unpacked(Packed(text))[i] = text[i]
  <2> TAKE i \in 1 .. Len(text)
  <2>1. Len(text) <= 2 * WordBytes - 1 /\ i # 2 * WordBytes - 1
    BY <1>0
  <2> QED BY <2>1, UnpackedBytes
<1>2. /\ Unpacked(Packed(text)) = [i \in 1 .. Len(text) |-> Unpacked(Packed(text))[i]]
      /\ text = [i \in 1 .. Len(text) |-> text[i]]
  <2>1. Packed(text).len = Len(text)
    BY DEF Packed
  <2> QED BY <2>1 DEF Unpacked, Text
<1> QED BY <1>1, <1>2

(* A text of one byte more, which TYNA_SSO_MAX_LEN lets in, loses its last. *)
THEOREM FullTextLosesLastByte ==
  ASSUME NEW text \in Text, Len(text) = 2 * WordBytes - 1
  PROVE  Unpacked(Packed(text)) = [text EXCEPT ![2 * WordBytes - 1] = 0]
<1>0. WordBytes \in Nat /\ Len(text) \in Nat
  BY SmallStrAssumption DEF Text
<1>1. \A i \in 1 .. Len(text) :
        Unpacked(Packed(text))[i] = IF i = 2 * WordBytes - 1 THEN 0 ELSE text[i]
  BY <1>0, UnpackedBytes
<1>2. /\ Unpacked(Packed(text)) = [i \in 1 .. Len(text) |-> Unpacked(Packed(text))[i]]
      /\ text = [i \in 1 .. Len(text) |-> text[i]]
  <2>1. Packed(text).len = Len(text)
    BY DEF Packed
  <2> QED BY <2>1 DEF Unpacked, Text
<1> QED BY <1>1, <1>2

(***************************************************************************)
(* Strs of few bytes, as values.                                           *)
(***************************************************************************)
LEMMA SmallConstants ==
  /\ WordBytes \in Nat /\ WordBytes >= 2 /\ SsoMax \in Nat /\ SsoMax >= 1
  /\ SsoMax <= 2 * WordBytes - 1 /\ Base \in Nat \ {0}
  /\ LowBytes \in Nat /\ LowBytes = WordBytes - 1 /\ 0 \in Byte
  /\ Low = 1 .. LowBytes /\ Slots = 1 .. WordBytes
<1>1. /\ WordBytes \in Nat /\ WordBytes >= 2
      /\ SsoMax \in 1 .. 2 * WordBytes - 1 /\ Base \in Nat /\ SsoMax <= Base
  BY SmallStrAssumption
<1> QED
  BY <1>1 DEF LowBytes, Byte, Low, Slots

LEMMA TextTypes ==
  ASSUME NEW text \in Text
  PROVE  /\ Len(text) \in Nat /\ DOMAIN text = 1 .. Len(text)
         /\ \A i \in 1 .. Len(text) : text[i] \in Byte
         /\ \A i : ByteAt(text, i) \in Byte
<1>1. /\ Len(text) \in Nat /\ DOMAIN text = 1 .. Len(text)
      /\ \A i \in 1 .. Len(text) : text[i] \in Byte
  BY DEF Text
<1> QED
  BY <1>1, SmallConstants DEF ByteAt

(* A stretch of a text.                                                    *)
LEMMA TextCut ==
  ASSUME NEW b \in Text, NEW m \in Nat, NEW l \in Nat, m + l <= Len(b)
  PROVE  /\ SubSeq(b, m + 1, m + l) \in Text
         /\ Len(SubSeq(b, m + 1, m + l)) = l
         /\ \A i \in 1 .. l : SubSeq(b, m + 1, m + l)[i] = b[m + i]
<1>1. Len(b) \in Nat /\ \A i \in 1 .. Len(b) : b[i] \in Byte
  BY TextTypes
<1>2. PICK x \in Int, y \in Int : x = m + 1 /\ y = m + l
  OBVIOUS
<1>3. \A i \in x .. y : i \in 1 .. Len(b)
  BY <1>1, <1>2
<1>4. \A i \in x .. y : b[i] \in Byte
  BY <1>1, <1>3
<1>5. /\ SubSeq(b, x, y) \in Seq(Byte)
      /\ Len(SubSeq(b, x, y)) = IF x <= y THEN y - x + 1 ELSE 0
      /\ \A i \in 1 .. y - x + 1 : SubSeq(b, x, y)[i] = b[x + i - 1]
  BY <1>4, SubSeqProperties
<1>6. y - x + 1 = l /\ (~ (x <= y) => l = 0)
  BY <1>2
<1>7. \A i \in 1 .. l : x + i - 1 = m + i
  BY <1>2
<1>8. Len(SubSeq(b, x, y)) = l
  BY <1>5, <1>6
<1>9. \A i \in 1 .. l : SubSeq(b, x, y)[i] = b[m + i]
  BY <1>5, <1>6, <1>7
<1> QED
  BY <1>2, <1>5, <1>8, <1>9 DEF Text

LEMMA TextCutTo ==
  ASSUME NEW b \in Text, NEW start \in Nat, NEW end \in Nat,
         start <= end, end <= Len(b)
  PROVE  SubSeq(b, start + 1, end) \in Text /\ Len(SubSeq(b, start + 1, end)) = end - start
<1>1. PICK l \in Nat : l = end - start
  OBVIOUS
<1>2. end = start + l
  BY <1>1
<1>3. start + l <= Len(b)
  BY <1>2
<1>4. /\ SubSeq(b, start + 1, start + l) \in Text
      /\ Len(SubSeq(b, start + 1, start + l)) = l
  BY <1>3, TextCut
<1> QED
  BY <1>1, <1>2, <1>4

LEMMA PackedIsSmall ==
  ASSUME NEW text \in Text
  PROVE  /\ Packed(text) \in Small /\ Packed(text).kind = "small"
         /\ Packed(text).len = Len(text)
<1> DEFINE low == [k \in Low |-> ByteAt(text, k)]
           high == [k \in Slots |-> ByteAt(text, LowBytes + k)]
           rest == ShiftedUp(high)
<1>1. low \in [Low -> Byte] /\ high \in [Slots -> Byte] /\ Len(text) \in Nat
  BY TextTypes
<1> HIDE DEF high
<1>2. rest \in [Slots -> Byte]
  <2>1. \A k \in Slots : k # 1 => k - 1 \in Slots
    BY SmallConstants
  <2> QED
    BY <1>1, <2>1, SmallConstants DEF ShiftedUp
<1> HIDE DEF low, rest
<1>3. [kind |-> "small", low |-> low, rest |-> rest, len |-> Len(text)] \in Small
  BY <1>1, <1>2 DEF Small, Word
<1>4. Packed(text) = [kind |-> "small", low |-> low, rest |-> rest,
                      len |-> Len(text)]
  BY DEF Packed, low, rest, high
<1> QED
  BY <1>3, <1>4

(* A str of few bytes is read as a text of the length its word says.       *)
LEMMA UnpackedIsText ==
  ASSUME NEW s \in Small, s.len <= SsoMax
  PROVE  Unpacked(s) \in Text /\ Len(Unpacked(s)) = s.len
<1>1. s.low \in [Low -> Byte] /\ s.rest \in [Slots -> Byte] /\ s.len \in Nat
  BY DEF Small, Word
<1>2. ASSUME NEW i \in 1 .. s.len
      PROVE  (IF i <= LowBytes THEN s.low[i] ELSE ShiftedDown(s.rest)[i - LowBytes])
               \in Byte
  <2>1. CASE i <= LowBytes
    BY <1>1, <2>1, SmallConstants
  <2>2. CASE ~(i <= LowBytes)
    <3>1. i - LowBytes \in Slots
      BY <1>1, <2>2, SmallConstants
    <3>2. ASSUME NEW k \in Slots
          PROVE  (IF k = WordBytes THEN 0 ELSE s.rest[k + 1]) \in Byte
      BY <1>1, SmallConstants
    <3>3. ShiftedDown(s.rest)[i - LowBytes] \in Byte
      BY <3>1, <3>2 DEF ShiftedDown
    <3> QED
      BY <2>2, <3>3
  <2> QED
    BY <2>1, <2>2
<1>3. Unpacked(s) \in [1 .. s.len -> Byte]
  BY <1>2 DEF Unpacked
<1> HIDE DEF Unpacked
<1>4. Unpacked(s) \in Seq(Byte) /\ Len(Unpacked(s)) = s.len
  BY <1>1, <1>3
<1> QED
  BY <1>4 DEF Text

(* Cutting bytes off the end of a str of few bytes.                        *)
LEMMA SlicedIsSmall ==
  ASSUME NEW s \in Small, NEW start \in Nat, NEW end \in Nat, start <= end
  PROVE  /\ SlicedSmall(s, start, end) \in Small
         /\ SlicedSmall(s, start, end).kind = "small"
         /\ SlicedSmall(s, start, end).len = end - start
         /\ start = 0 => SlicedSmall(s, start, end).low = s.low
<1> DEFINE carry(k) ==
             IF k = 1 THEN start
             ELSE IF s.low[1] + start >= Base
                     /\ \A j \in 2 .. k - 1 : s.low[j] = Base - 1
               THEN 1 ELSE 0
           low == [k \in Low |-> (s.low[k] + carry(k)) % Base]
           rest == [k \in Slots |-> 0]
<1>1. s.low \in [Low -> Byte]
  BY DEF Small
<1>2. \A k : carry(k) \in Nat
  OBVIOUS
<1>3. start = 0 => \A k \in Low : carry(k) = 0
  <2>1. SUFFICES ASSUME start = 0, NEW k \in Low
                 PROVE  carry(k) = 0
    OBVIOUS
  <2>2. 1 \in Low
    BY SmallConstants
  <2>3. s.low[1] \in 0 .. Base - 1 /\ Base \in Nat
    BY <1>1, <2>2, SmallConstants DEF Byte
  <2>4. ~(s.low[1] + start >= Base)
    BY <2>1, <2>3
  <2> QED
    BY <2>1, <2>4
<1> HIDE DEF carry
<1>4. \A k \in Low : /\ (s.low[k] + carry(k)) % Base \in Byte
                     /\ carry(k) = 0 => (s.low[k] + carry(k)) % Base = s.low[k]
  <2> TAKE k \in Low
  <2>1. s.low[k] \in 0 .. Base - 1 /\ carry(k) \in Nat /\ Base \in Nat \ {0}
    BY <1>1, <1>2, SmallConstants DEF Byte
  <2> QED
    BY <2>1 DEF Byte
<1>5. low \in [Low -> Byte] /\ (start = 0 => low = s.low)
  BY <1>1, <1>3, <1>4
<1>6. rest \in [Slots -> Byte]
  BY SmallConstants
<1>7. Plus(s.low, start) = low
  BY DEF Plus, carry
<1> HIDE DEF low, rest
<1>8. /\ [kind |-> "small", low |-> low, rest |-> rest, len |-> end - start]
           \in Small
  BY <1>5, <1>6 DEF Small, Word
<1>9. SlicedSmall(s, start, end) =
        [kind |-> "small", low |-> low, rest |-> rest, len |-> end - start]
  BY <1>7 DEF SlicedSmall, rest
<1> QED
  BY <1>5, <1>8, <1>9

LEMMA SlicedText ==
  ASSUME NEW s \in Small, s.len <= SsoMax, NEW end \in Nat, end <= s.len,
         end <= LowBytes
  PROVE  Unpacked(SlicedSmall(s, 0, end)) = SubSeq(Unpacked(s), 1, end)
<1> DEFINE t == SlicedSmall(s, 0, end)  u == Unpacked(s)  v == SubSeq(u, 1, end)
<1>1. t \in Small /\ t.len = end /\ t.low = s.low
  BY SlicedIsSmall
<1>2. end <= SsoMax /\ s.len \in Nat
  BY SmallConstants DEF Small
<1>3. Unpacked(t) \in Text /\ Len(Unpacked(t)) = end
  BY <1>1, <1>2, UnpackedIsText
<1>4. u \in Text /\ Len(u) = s.len
  BY UnpackedIsText
<1>5. \A i \in 1 .. end : Unpacked(t)[i] = s.low[i]
  BY <1>1, SmallConstants DEF Unpacked
<1>6. \A i \in 1 .. end : u[i] = s.low[i]
  BY <1>2, SmallConstants DEF Unpacked
<1> HIDE DEF t, u
<1>7. \A i \in 1 .. end : u[i] \in Byte
  BY <1>2, <1>4, TextTypes
<1>8. /\ v \in Seq(Byte) /\ Len(v) = end
      /\ \A i \in 1 .. end : v[i] = u[i]
  BY <1>7, SubSeqProperties
<1> HIDE DEF v
<1>9. Unpacked(t) = v
  BY <1>3, <1>5, <1>6, <1>8, SeqEqual DEF Text
<1> QED
  BY <1>9 DEF t, u, v

-------------------------------------------------------------------------------
(***************************************************************************)
(* What a str is read as, in the blocks of memory it points into.          *)
(***************************************************************************)
ContentIn(bs, s) ==
  IF s.kind = "small" THEN Unpacked(s)
  ELSE IF s.block = 0 THEN <<>>
  ELSE SubSeq(bs[s.block].bytes, s.off + 1, s.off + s.len)

AliveIn(bs, s) == s.kind = "long" /\ s.len > 0 => bs[s.block].live

(* A str holds no more than there is room for in itself, or points to a    *)
(* stretch of a block, as long as there is one.                            *)
Inside(bs, s) ==
  IF s.kind = "small" THEN s.len <= SsoMax
  ELSE /\ s.block \in 0 .. Len(bs)
       /\ s.block = 0 => s.len = 0
       /\ s.block # 0 /\ bs[s.block].live
            => s.off + s.len <= Len(bs[s.block].bytes)

LEMMA ContentsHere ==
  \A s : ContentIn(blocks, s) = Content(s) /\ AliveIn(blocks, s) = Alive(s)
  BY DEF ContentIn, Content, AliveIn, Alive

LEMMA StrKinds ==
  ASSUME NEW s \in Str
  PROVE  /\ s.kind \in {"small", "long"} /\ s.len \in Nat
         /\ s.kind = "small" => s \in Small
         /\ s.kind # "small" =>
              s \in Long /\ s.kind = "long" /\ s.block \in Nat /\ s.off \in Nat
<1>1. \A x \in Small : x.kind = "small" /\ x.len \in Nat
  BY DEF Small
<1>2. \A x \in Long : /\ x.kind = "long" /\ x.len \in Nat
                      /\ x.block \in Nat /\ x.off \in Nat
  BY DEF Long
<1> QED
  BY <1>1, <1>2 DEF Str

LEMMA BlockTypes ==
  ASSUME NEW bs \in Seq(Block)
  PROVE  /\ Len(bs) \in Nat /\ DOMAIN bs = 1 .. Len(bs)
         /\ \A k \in 1 .. Len(bs) :
              /\ bs[k] \in Block /\ bs[k].bytes \in Text /\ bs[k].live \in BOOLEAN
              /\ Len(bs[k].bytes) \in Nat
<1>1. /\ Len(bs) \in Nat /\ DOMAIN bs = 1 .. Len(bs)
      /\ \A k \in 1 .. Len(bs) : bs[k] \in Block
  OBVIOUS
<1>2. \A x \in Block : x.bytes \in Text /\ x.live \in BOOLEAN
  BY DEF Block
<1> QED
  BY <1>1, <1>2, TextTypes

(* A str that is alive is read as a text as long as it says.               *)
LEMMA ContentIsText ==
  ASSUME NEW bs \in Seq(Block), NEW s \in Str, Inside(bs, s), AliveIn(bs, s)
  PROVE  /\ ContentIn(bs, s) \in Text /\ Len(ContentIn(bs, s)) = s.len
         /\ s.kind # "small" =>
              \A i \in 1 .. s.len :
                /\ s.block # 0 /\ s.off + i \in 1 .. Len(bs[s.block].bytes)
                /\ ContentIn(bs, s)[i] = bs[s.block].bytes[s.off + i]
<1>1. CASE s.kind = "small"
  BY <1>1, StrKinds, UnpackedIsText DEF ContentIn, Inside
<1>2. CASE s.kind # "small"
  <2>1. /\ s.len \in Nat /\ s.block \in Nat /\ s.off \in Nat
        /\ s.block \in 0 .. Len(bs) /\ Len(bs) \in Nat
    BY <1>2, StrKinds, BlockTypes DEF Inside
  <2>2. CASE s.len = 0
    <3>1. ContentIn(bs, s) = <<>>
      <4>1. SubSeq(bs[s.block].bytes, s.off + 1, s.off + s.len) = <<>>
        BY <2>1, <2>2, SubSeqEmpty
      <4> QED
        BY <1>2, <4>1 DEF ContentIn
    <3>2. <<>> \in Seq(Byte) /\ Len(<<>>) = 0
      BY EmptySeq
    <3> QED
      BY <2>2, <3>1, <3>2 DEF Text
  <2>3. CASE s.len # 0
    <3>1. s.block # 0 /\ s.block \in 1 .. Len(bs) /\ bs[s.block].live
      BY <1>2, <2>1, <2>3, StrKinds DEF Inside, AliveIn
    <3> DEFINE b == bs[s.block].bytes
    <3>2. s.off + s.len <= Len(b) /\ Len(b) \in Nat /\ b \in Text
      BY <1>2, <3>1, BlockTypes DEF Inside
    <3>4. /\ SubSeq(b, s.off + 1, s.off + s.len) \in Text
          /\ Len(SubSeq(b, s.off + 1, s.off + s.len)) = s.len
          /\ \A i \in 1 .. s.len :
               SubSeq(b, s.off + 1, s.off + s.len)[i] = b[s.off + i]
      <4>1. PICK a \in Text : a = b
        BY <3>2
      <4>2. s.off + s.len <= Len(a)
        BY <3>2, <4>1
      <4> HIDE DEF b
      <4> QED
        BY <2>1, <4>1, <4>2, TextCut
    <3>5. ContentIn(bs, s) = SubSeq(b, s.off + 1, s.off + s.len)
      BY <1>2, <3>1 DEF ContentIn
    <3>6. \A i \in 1 .. s.len : s.off + i \in 1 .. Len(b)
      BY <2>1, <3>2
    <3> QED
      BY <3>1, <3>4, <3>5, <3>6
  <2> QED
    BY <2>2, <2>3
<1> QED
  BY <1>1, <1>2

(* More memory, and more text in a block.                                  *)
Grows(bs, cs) ==
  /\ Len(bs) <= Len(cs)
  /\ \A k \in 1 .. Len(bs) :
       /\ cs[k].live = bs[k].live
       /\ Len(bs[k].bytes) <= Len(cs[k].bytes)
       /\ \A i \in 1 .. Len(bs[k].bytes) : cs[k].bytes[i] = bs[k].bytes[i]

(* The same, but that a block may be lost.                                 *)
Loses(bs, cs) ==
  /\ Len(bs) <= Len(cs)
  /\ \A k \in 1 .. Len(bs) :
       cs[k].live => bs[k].live /\ Len(bs[k].bytes) <= Len(cs[k].bytes)

LEMMA GrowsSame == ASSUME NEW bs \in Seq(Block) PROVE Grows(bs, bs)
  BY BlockTypes DEF Grows

LEMMA GrowsLoses ==
  ASSUME NEW bs \in Seq(Block), NEW cs \in Seq(Block), Grows(bs, cs)
  PROVE  Loses(bs, cs)
  BY DEF Grows, Loses

LEMMA GrowsOn ==
  ASSUME NEW bs \in Seq(Block), NEW cs \in Seq(Block), NEW ds \in Seq(Block),
         Grows(cs, ds)
  PROVE  /\ Grows(bs, cs) => Grows(bs, ds)
         /\ Loses(bs, cs) => Loses(bs, ds)
<1>1. Len(bs) <= Len(cs) => \A k \in 1 .. Len(bs) : k \in 1 .. Len(cs)
  BY BlockTypes
<1>2. Len(bs) <= Len(cs) => Len(bs) <= Len(ds)
  BY BlockTypes DEF Grows
<1>3. \A k \in 1 .. Len(bs) : Len(bs[k].bytes) \in Nat
  BY BlockTypes
<1>4. \A k \in 1 .. Len(cs) : Len(cs[k].bytes) \in Nat /\ Len(ds[k].bytes) \in Nat
  BY BlockTypes DEF Grows
<1>5. ASSUME Grows(bs, cs)
      PROVE  Grows(bs, ds)
  <2>1. ASSUME NEW k \in 1 .. Len(bs)
        PROVE  /\ ds[k].live = bs[k].live
               /\ Len(bs[k].bytes) <= Len(ds[k].bytes)
               /\ \A i \in 1 .. Len(bs[k].bytes) : ds[k].bytes[i] = bs[k].bytes[i]
    <3>1. k \in 1 .. Len(cs)
      BY <1>1, <1>5 DEF Grows
    <3>2. /\ ds[k].live = cs[k].live /\ cs[k].live = bs[k].live
          /\ Len(bs[k].bytes) <= Len(cs[k].bytes)
          /\ Len(cs[k].bytes) <= Len(ds[k].bytes)
      BY <1>5, <3>1 DEF Grows
    <3>3. \A i \in 1 .. Len(bs[k].bytes) :
            i \in 1 .. Len(cs[k].bytes) /\ cs[k].bytes[i] = bs[k].bytes[i]
      BY <1>3, <1>4, <1>5, <3>1, <3>2 DEF Grows
    <3>4. \A i \in 1 .. Len(cs[k].bytes) : ds[k].bytes[i] = cs[k].bytes[i]
      BY <3>1 DEF Grows
    <3>5. Len(bs[k].bytes) <= Len(ds[k].bytes)
      BY <1>3, <1>4, <3>1, <3>2
    <3>6. \A i \in 1 .. Len(bs[k].bytes) : ds[k].bytes[i] = bs[k].bytes[i]
      BY <3>3, <3>4
    <3> QED
      BY <3>2, <3>5, <3>6
  <2> QED
    BY <1>2, <1>5, <2>1 DEF Grows
<1>6. ASSUME Loses(bs, cs)
      PROVE  Loses(bs, ds)
  <2>1. ASSUME NEW k \in 1 .. Len(bs), ds[k].live
        PROVE  bs[k].live /\ Len(bs[k].bytes) <= Len(ds[k].bytes)
    <3>1. k \in 1 .. Len(cs)
      BY <1>1, <1>6 DEF Loses
    <3>2. cs[k].live /\ Len(cs[k].bytes) <= Len(ds[k].bytes)
      BY <2>1, <3>1 DEF Grows
    <3>3. bs[k].live /\ Len(bs[k].bytes) <= Len(cs[k].bytes)
      BY <1>6, <3>2 DEF Loses
    <3> QED
      BY <1>3, <1>4, <3>1, <3>2, <3>3
  <2> QED
    BY <1>2, <1>6, <2>1 DEF Loses
<1> QED
  BY <1>5, <1>6

(* What a str is read as does not change while memory is only added to.    *)
LEMMA InsideKept ==
  ASSUME NEW bs \in Seq(Block), NEW cs \in Seq(Block), NEW s \in Str,
         Inside(bs, s), Loses(bs, cs)
  PROVE  Inside(cs, s)
<1>1. CASE s.kind = "small"
  BY <1>1 DEF Inside
<1>2. CASE s.kind # "small"
  <2>1. /\ s.block \in 0 .. Len(bs) /\ (s.block = 0 => s.len = 0)
        /\ s.len \in Nat /\ s.off \in Nat /\ Len(bs) \in Nat /\ Len(cs) \in Nat
        /\ Len(bs) <= Len(cs)
    BY <1>2, StrKinds, BlockTypes DEF Inside, Loses
  <2>2. ASSUME s.block # 0, cs[s.block].live
        PROVE  s.off + s.len <= Len(cs[s.block].bytes)
    <3>1. s.block \in 1 .. Len(bs) /\ s.block \in 1 .. Len(cs)
      BY <2>1, <2>2
    <3>2. bs[s.block].live /\ Len(bs[s.block].bytes) <= Len(cs[s.block].bytes)
      BY <2>2, <3>1 DEF Loses
    <3>3. s.off + s.len <= Len(bs[s.block].bytes)
      BY <1>2, <2>2, <3>2 DEF Inside
    <3>4. Len(bs[s.block].bytes) \in Nat /\ Len(cs[s.block].bytes) \in Nat
      BY <3>1, BlockTypes
    <3>5. s.off + s.len \in Nat
      BY <2>1
    <3> QED
      BY <3>2, <3>3, <3>4, <3>5
  <2> QED
    BY <1>2, <2>1, <2>2 DEF Inside
<1> QED
  BY <1>1, <1>2

LEMMA ContentKept ==
  ASSUME NEW bs \in Seq(Block), NEW cs \in Seq(Block), NEW s \in Str,
         Inside(bs, s), AliveIn(bs, s), Grows(bs, cs)
  PROVE  AliveIn(cs, s) /\ ContentIn(cs, s) = ContentIn(bs, s)
<1>1. CASE s.kind = "small"
  BY <1>1 DEF AliveIn, ContentIn
<1>2. CASE s.kind # "small"
  <2>1. Inside(cs, s)
    BY GrowsLoses, InsideKept
  <2>2. /\ s.block \in 0 .. Len(bs) /\ (s.block = 0 => s.len = 0)
        /\ s.len \in Nat /\ Len(bs) \in Nat
    BY <1>2, StrKinds, BlockTypes DEF Inside
  <2>3. s.len > 0 => s.block \in 1 .. Len(bs)
    BY <2>2
  <2>4. AliveIn(cs, s)
    BY <2>3 DEF AliveIn, Grows
  <2>5. /\ ContentIn(bs, s) \in Text /\ Len(ContentIn(bs, s)) = s.len
        /\ ContentIn(cs, s) \in Text /\ Len(ContentIn(cs, s)) = s.len
    BY <2>1, <2>4, ContentIsText
  <2>6. ASSUME NEW i \in 1 .. s.len
        PROVE  ContentIn(cs, s)[i] = ContentIn(bs, s)[i]
    <3>1. s.block \in 1 .. Len(bs)
      BY <2>2, <2>3
    <3>2. /\ s.off + i \in 1 .. Len(bs[s.block].bytes)
          /\ ContentIn(bs, s)[i] = bs[s.block].bytes[s.off + i]
          /\ ContentIn(cs, s)[i] = cs[s.block].bytes[s.off + i]
      BY <1>2, <2>1, <2>4, ContentIsText
    <3> QED
      BY <3>1, <3>2 DEF Grows
  <2> QED
    BY <2>4, <2>5, <2>6, SeqEqual DEF Text
<1> QED
  BY <1>1, <1>2

-------------------------------------------------------------------------------
(***************************************************************************)
(* The inductive invariant.                                                *)
(***************************************************************************)
(* What takes a text away from a str.                                      *)
Losses == {"full", "sliced", "no memory", "moved"}

(* One str and the text it should be.                                      *)
Value == [str : Str, text : Text]
Faithful(bs, x, rs) ==
  /\ x \in Value /\ Inside(bs, x.str)
  /\ "no memory" \notin rs => x.str.len = Len(x.text)
  /\ rs \cap Losses = {} =>
       AliveIn(bs, x.str) /\ ContentIn(bs, x.str) = x.text

LiteralStr(k) == [str |-> At(k, 0, Len(Literals[k])), text |-> Literals[k]]

(* One entry of the pool: terminated, until the arena moves.               *)
Entry(bs, q, rs) ==
  /\ q \in Long /\ Inside(bs, q) /\ q.block # 0 /\ q.len > 0
  /\ "moved" \notin rs =>
       /\ AliveIn(bs, q)
       /\ q.off + q.len + 1 \in 1 .. Len(bs[q.block].bytes)
       /\ bs[q.block].bytes[q.off + q.len + 1] = 0

Apart(bs, pl) ==
  \A p, q \in DOMAIN pl : ContentIn(bs, pl[p]) = ContentIn(bs, pl[q]) => p = q

(* The arena's block is there, and large enough.                           *)
ArenaSound(bs, ar) ==
  /\ ar \in [block : Nat, cap : Nat] /\ ar.block \in 0 .. Len(bs)
  /\ ar.block # 0 =>
       bs[ar.block].live /\ Len(bs[ar.block].bytes) <= ar.cap

Inv ==
  /\ TypeOK
  /\ \A k \in DOMAIN Literals : Faithful(blocks, LiteralStr(k), risks)
  /\ \A i \in DOMAIN strs : Faithful(blocks, strs[i], risks)
  /\ \A p \in DOMAIN pool : Entry(blocks, pool[p], risks)
  /\ "moved" \notin risks => Apart(blocks, pool)
  /\ ArenaSound(blocks, arena)
  /\ SeenAsTexts

LEMMA ValueTypes ==
  ASSUME NEW x \in Value
  PROVE  x.str \in Str /\ x.text \in Text /\ Len(x.text) \in Nat
<1>1. x.str \in Str /\ x.text \in Text
  BY DEF Value
<1> QED
  BY <1>1, TextTypes

LEMMA FaithfulKept ==
  ASSUME NEW bs \in Seq(Block), NEW cs \in Seq(Block), NEW x, NEW rs, NEW rt,
         Faithful(bs, x, rs), rs \subseteq rt,
         Grows(bs, cs) \/ ("moved" \in rt /\ Loses(bs, cs))
  PROVE  Faithful(cs, x, rt)
<1>1. x \in Value /\ Inside(bs, x.str) /\ x.str \in Str
  BY ValueTypes DEF Faithful
<1>2. Inside(cs, x.str)
  BY <1>1, InsideKept, GrowsLoses
<1>3. ASSUME rt \cap Losses = {}
      PROVE  AliveIn(cs, x.str) /\ ContentIn(cs, x.str) = x.text
  <2>1. Grows(bs, cs) /\ rs \cap Losses = {}
    BY <1>3 DEF Losses
  <2>2. AliveIn(bs, x.str) /\ ContentIn(bs, x.str) = x.text
    BY <2>1 DEF Faithful
  <2> QED
    BY <1>1, <2>1, <2>2, ContentKept
<1> QED
  BY <1>1, <1>2, <1>3 DEF Faithful

LEMMA EntryKept ==
  ASSUME NEW bs \in Seq(Block), NEW cs \in Seq(Block), NEW q, NEW rs, NEW rt,
         Entry(bs, q, rs), rs \subseteq rt,
         Grows(bs, cs) \/ ("moved" \in rt /\ Loses(bs, cs))
  PROVE  Entry(cs, q, rt)
<1>1. q \in Long /\ q \in Str /\ Inside(bs, q) /\ q.block # 0 /\ q.len > 0
  BY DEF Entry, Str
<1>2. Inside(cs, q)
  BY <1>1, InsideKept, GrowsLoses
<1>3. ASSUME "moved" \notin rt
      PROVE  /\ AliveIn(cs, q)
             /\ q.off + q.len + 1 \in 1 .. Len(cs[q.block].bytes)
             /\ cs[q.block].bytes[q.off + q.len + 1] = 0
  <2>1. Grows(bs, cs) /\ "moved" \notin rs
    BY <1>3
  <2> DEFINE end == q.off + q.len + 1
  <2>2. /\ AliveIn(bs, q) /\ end \in 1 .. Len(bs[q.block].bytes)
        /\ bs[q.block].bytes[end] = 0
    BY <2>1 DEF Entry
  <2>3. q.block \in 1 .. Len(bs)
    <3>1. q.kind # "small"
      BY <1>1 DEF Long
    <3>2. q.block \in 0 .. Len(bs) /\ Len(bs) \in Nat
      BY <1>1, <3>1, BlockTypes DEF Inside
    <3> QED
      BY <1>1, <3>2
  <2>4. /\ Len(bs[q.block].bytes) <= Len(cs[q.block].bytes)
        /\ \A i \in 1 .. Len(bs[q.block].bytes) :
             cs[q.block].bytes[i] = bs[q.block].bytes[i]
        /\ Len(bs[q.block].bytes) \in Nat
    BY <2>1, <2>3, BlockTypes DEF Grows
  <2>5. Len(cs[q.block].bytes) \in Nat
    <3>1. q.block \in 1 .. Len(cs)
      BY <2>1, <2>3, BlockTypes DEF Grows
    <3> QED
      BY <3>1, BlockTypes
  <2>6. AliveIn(cs, q)
    BY <1>1, <2>1, <2>2, ContentKept
  <2> HIDE DEF end
  <2>7. end \in 1 .. Len(cs[q.block].bytes) /\ cs[q.block].bytes[end] = 0
    <3>1. PICK b, c : b = bs[q.block].bytes /\ c = cs[q.block].bytes
      OBVIOUS
    <3>2. /\ end \in 1 .. Len(b) /\ b[end] = 0 /\ Len(b) <= Len(c)
          /\ \A i \in 1 .. Len(b) : c[i] = b[i]
          /\ Len(b) \in Nat /\ Len(c) \in Nat
      BY <2>2, <2>4, <2>5, <3>1
    <3>3. end \in 1 .. Len(c)
      BY <3>2
    <3>4. c[end] = 0
      BY <3>2
    <3> QED
      BY <3>1, <3>3, <3>4
  <2> QED
    BY <2>6, <2>7 DEF end
<1> QED
  BY <1>1, <1>2, <1>3 DEF Entry

LEMMA EntryContent ==
  ASSUME NEW bs \in Seq(Block), NEW cs \in Seq(Block), NEW q, NEW rs,
         Entry(bs, q, rs), "moved" \notin rs, Grows(bs, cs)
  PROVE  ContentIn(cs, q) = ContentIn(bs, q)
<1>1. q \in Str /\ Inside(bs, q) /\ AliveIn(bs, q)
  BY DEF Entry, Str
<1> QED
  BY <1>1, ContentKept

LEMMA InvTypes ==
  ASSUME Inv
  PROVE  /\ blocks \in Seq(Block) /\ strs \in Seq(Value) /\ pool \in Seq(Long)
         /\ risks \subseteq Risks /\ ended \in BOOLEAN /\ seen \in Seen
         /\ arena \in [block : Nat, cap : Nat] /\ Len(strs) \in Nat
         /\ DOMAIN strs = 1 .. Len(strs)
         /\ \A i \in DOMAIN strs :
              /\ strs[i] \in Value /\ strs[i].str \in Str /\ strs[i].text \in Text
              /\ Inside(blocks, strs[i].str)
<1>1. /\ blocks \in Seq(Block) /\ strs \in Seq(Value) /\ pool \in Seq(Long)
      /\ risks \subseteq Risks /\ ended \in BOOLEAN /\ seen \in Seen
      /\ arena \in [block : Nat, cap : Nat]
  BY DEF Inv, TypeOK, Value
<1>2. Len(strs) \in Nat /\ DOMAIN strs = 1 .. Len(strs)
  BY <1>1
<1>3. \A i \in DOMAIN strs :
         strs[i] \in Value /\ Inside(blocks, strs[i].str)
  BY DEF Inv, Faithful
<1> QED
  BY <1>1, <1>2, <1>3, ValueTypes

(* What may be asked of a str in use.                                      *)
LEMMA UsableFacts ==
  ASSUME Inv, NEW i, Usable(i)
  PROVE  /\ i \in DOMAIN strs /\ strs[i].str \in Str /\ strs[i].text \in Text
         /\ Inside(blocks, strs[i].str) /\ AliveIn(blocks, strs[i].str)
         /\ Faithful(blocks, strs[i], risks)
         /\ Content(strs[i].str) = ContentIn(blocks, strs[i].str)
         /\ Content(strs[i].str) \in Text
         /\ Len(Content(strs[i].str)) = strs[i].str.len
         /\ strs[i].str.len \in Nat
<1>1. i \in DOMAIN strs /\ AliveIn(blocks, strs[i].str)
  BY ContentsHere DEF Usable
<1>2. /\ strs[i].str \in Str /\ strs[i].text \in Text
      /\ Inside(blocks, strs[i].str) /\ Faithful(blocks, strs[i], risks)
      /\ blocks \in Seq(Block)
  BY <1>1, InvTypes DEF Inv
<1>3. Content(strs[i].str) = ContentIn(blocks, strs[i].str)
  BY ContentsHere
<1>4. /\ ContentIn(blocks, strs[i].str) \in Text
      /\ Len(ContentIn(blocks, strs[i].str)) = strs[i].str.len
  BY <1>1, <1>2, ContentIsText
<1> QED
  BY <1>1, <1>2, <1>3, <1>4, StrKinds

(* A str is made: memory is at most added to.                              *)
LEMMA MadeInv ==
  ASSUME Inv, NEW x, strs' = Append(strs, x), seen' = Nothing,
         blocks' \in Seq(Block), Len(blocks) <= Len(blocks'),
         \A k \in 1 .. Len(blocks) : blocks'[k] = blocks[k],
         risks \subseteq risks', risks' \subseteq Risks,
         Faithful(blocks', x, risks'),
         pool' = pool, arena' = arena, ended' = ended
  PROVE  Inv'
<1>1. blocks \in Seq(Block) /\ x \in Value /\ strs \in Seq(Value)
  BY InvTypes DEF Faithful
<1>2. Grows(blocks, blocks')
  BY <1>1, BlockTypes DEF Grows
<1>3. TypeOK'
  <2>1. Append(strs, x) \in Seq(Value)
    BY <1>1
  <2>2. Nothing \in Seen
    BY DEF Nothing, Seen
  <2> QED
    BY <2>1, <2>2 DEF Inv, TypeOK, Value
<1>4. \A k \in DOMAIN Literals : Faithful(blocks', LiteralStr(k), risks')
  BY <1>1, <1>2, FaithfulKept DEF Inv
<1>5. ASSUME NEW i \in DOMAIN strs'
      PROVE  Faithful(blocks', strs'[i], risks')
  <2>1. CASE i \in DOMAIN strs
    <3>1. strs'[i] = strs[i]
      BY <1>1, <2>1
    <3>2. Faithful(blocks, strs[i], risks)
      BY <2>1 DEF Inv
    <3> QED
      BY <1>1, <1>2, <3>1, <3>2, FaithfulKept
  <2>2. CASE i \notin DOMAIN strs
    <3>1. strs'[i] = x
      BY <1>1, <2>2
    <3> QED
      BY <3>1
  <2> QED
    BY <2>1, <2>2
<1>6. \A p \in DOMAIN pool : Entry(blocks', pool[p], risks')
  BY <1>1, <1>2, EntryKept DEF Inv
<1>7. "moved" \notin risks' => Apart(blocks', pool)
  BY <1>1, <1>2, EntryContent DEF Inv, Apart
<1>8. ArenaSound(blocks', arena)
  BY <1>1, BlockTypes DEF Inv, ArenaSound
<1>9. SeenAsTexts'
  BY DEF SeenAsTexts, Nothing
<1> QED
  BY <1>3, <1>4, <1>5, <1>6, <1>7, <1>8, <1>9 DEF Inv, Faithful, Entry, Apart, ArenaSound, LiteralStr, Value

LEMMA InitInv == ASSUME Init PROVE Inv
<1>1. Literals \in Seq(Text)
  BY StrValuesAssumption
<1>2. /\ Len(Literals) \in Nat /\ DOMAIN Literals = 1 .. Len(Literals)
      /\ \A k \in DOMAIN Literals : Literals[k] \in Text
  BY <1>1
<1> DEFINE text(k) == Append(Literals[k], 0)
           block(k) == [bytes |-> text(k), live |-> TRUE]
<1>3. \A k \in DOMAIN Literals :
        /\ text(k) \in Text /\ Len(text(k)) = Len(Literals[k]) + 1
        /\ \A i \in 1 .. Len(Literals[k]) : text(k)[i] = Literals[k][i]
  <2> TAKE k \in DOMAIN Literals
  <2>1. Literals[k] \in Seq(Byte) /\ 0 \in Byte
    BY <1>2, SmallConstants DEF Text
  <2> QED
    BY <2>1, AppendProperties DEF Text
<1> HIDE DEF text
<1>4. \A k \in DOMAIN Literals :
        block(k) \in Block /\ block(k).bytes = text(k) /\ block(k).live = TRUE
  BY <1>3 DEF Block
<1>5. blocks = [k \in DOMAIN Literals |-> block(k)]
  BY DEF Init, text
<1> HIDE DEF block
<1>6. /\ blocks \in Seq(Block) /\ Len(blocks) = Len(Literals)
      /\ \A k \in DOMAIN Literals :
           blocks[k].bytes = text(k) /\ blocks[k].live = TRUE
  BY <1>2, <1>4, <1>5
<1>7. TypeOK
  <2>1. /\ <<>> \in Seq([str : Str, text : Text]) /\ <<>> \in Seq(Long)
    BY EmptySeq
  <2>2. Nothing \in Seen
    BY DEF Nothing, Seen
  <2>3. arena \in [block : Nat, cap : Nat]
    BY DEF Init
  <2> QED
    BY <1>6, <2>1, <2>2, <2>3 DEF Init, TypeOK
<1>8. ASSUME NEW k \in DOMAIN Literals
      PROVE  Faithful(blocks, LiteralStr(k), risks)
  <2> DEFINE s == At(k, 0, Len(Literals[k]))
  <2>1. Literals[k] \in Text /\ Len(Literals[k]) \in Nat
    BY <1>2, TextTypes
  <2>2. s \in Long /\ k \in Nat /\ k # 0 /\ k \in 0 .. Len(blocks)
    BY <1>2, <1>6, <2>1 DEF At, Long
  <2>3. s.kind = "long" /\ s.block = k /\ s.off = 0 /\ s.len = Len(Literals[k])
    BY DEF At
  <2> HIDE DEF s
  <2>4. Len(blocks[k].bytes) = Len(Literals[k]) + 1
    BY <1>3, <1>6
  <2>5. Inside(blocks, s)
    BY <2>1, <2>2, <2>3, <2>4 DEF Inside
  <2>6. AliveIn(blocks, s)
    BY <1>6, <2>3 DEF AliveIn
  <2>7. s \in Str
    BY <2>2 DEF Str
  <2>8. /\ ContentIn(blocks, s) \in Text
        /\ Len(ContentIn(blocks, s)) = Len(Literals[k])
        /\ \A i \in 1 .. Len(Literals[k]) :
             ContentIn(blocks, s)[i] = blocks[k].bytes[0 + i]
    BY <1>6, <2>3, <2>5, <2>6, <2>7, ContentIsText
  <2>9. \A i \in 1 .. Len(Literals[k]) : ContentIn(blocks, s)[i] = Literals[k][i]
    <3> TAKE i \in 1 .. Len(Literals[k])
    <3>1. 0 + i = i
      OBVIOUS
    <3> QED
      BY <1>3, <1>6, <2>8, <3>1
  <2>10. ContentIn(blocks, s) = Literals[k]
    BY <2>1, <2>8, <2>9, SeqEqual DEF Text
  <2>11. LiteralStr(k) = [str |-> s, text |-> Literals[k]]
    BY DEF LiteralStr, s
  <2>12. LiteralStr(k) \in Value
    BY <2>1, <2>7, <2>11 DEF Value
  <2>13. LiteralStr(k).str = s /\ LiteralStr(k).text = Literals[k]
    BY <2>11
  <2> QED
    BY <2>3, <2>5, <2>6, <2>10, <2>12, <2>13 DEF Faithful
<1>9. /\ \A i \in DOMAIN strs : Faithful(blocks, strs[i], risks)
      /\ \A p \in DOMAIN pool : Entry(blocks, pool[p], risks)
      /\ Apart(blocks, pool)
  <2>1. DOMAIN strs = {} /\ DOMAIN pool = {}
    BY DEF Init
  <2> QED
    BY <2>1 DEF Apart
<1>10. ArenaSound(blocks, arena)
  BY <1>2, <1>6 DEF Init, ArenaSound
<1>11. SeenAsTexts
  BY DEF Init, Nothing, SeenAsTexts
<1> QED
  BY <1>7, <1>8, <1>9, <1>10, <1>11 DEF Inv

-------------------------------------------------------------------------------
(* Nothing, as a str, and a stretch of a block.                            *)
LEMMA NullIsLong ==
  /\ Null \in Str /\ Null.kind = "long" /\ Null.len = 0 /\ Null.block = 0
  /\ \A bs : bs \in Seq(Block) => /\ Inside(bs, Null) /\ AliveIn(bs, Null)
                                  /\ ContentIn(bs, Null) = <<>>
<1>1. Null \in Long /\ Null.kind = "long" /\ Null.len = 0 /\ Null.block = 0
  BY DEF Null, Long
<1>2. Null \in Str
  BY <1>1 DEF Str
<1>3. ASSUME NEW bs \in Seq(Block)
      PROVE  /\ Inside(bs, Null) /\ AliveIn(bs, Null)
             /\ ContentIn(bs, Null) = <<>>
  <2>1. Null.block \in 0 .. Len(bs)
    BY <1>1, BlockTypes
  <2> QED
    BY <1>1, <2>1 DEF Inside, AliveIn, ContentIn
<1> QED
  BY <1>1, <1>2, <1>3

LEMMA NullFaithful ==
  ASSUME NEW bs \in Seq(Block), NEW text \in Text, NEW rs,
         text = <<>> \/ "no memory" \in rs
  PROVE  Faithful(bs, [str |-> Null, text |-> text], rs)
<1> DEFINE x == [str |-> Null, text |-> text]
<1>1. x \in Value /\ x.str = Null /\ x.text = text
  BY NullIsLong DEF Value
<1> HIDE DEF x
<1>2. Len(<<>>) = 0
  OBVIOUS
<1>3. /\ Inside(bs, Null) /\ AliveIn(bs, Null) /\ ContentIn(bs, Null) = <<>>
      /\ Null.len = 0
  BY NullIsLong
<1>4. rs \cap Losses = {} => text = <<>>
  BY DEF Losses
<1>5. Faithful(bs, x, rs)
  BY <1>1, <1>2, <1>3, <1>4 DEF Faithful
<1> QED
  BY <1>5 DEF x

LEMMA NoText == <<>> \in Text /\ Len(<<>>) = 0 /\ \A t \in Text : Len(t) = 0 => t = <<>>
<1>1. <<>> \in Seq(Byte)
  BY EmptySeq
<1> QED
  BY <1>1 DEF Text

(* What malloc gives: a new last block, as long as there is memory.        *)
LEMMA MallocFacts ==
  ASSUME blocks \in Seq(Block), NEW bytes \in Text, NEW o \in Malloc(bytes)
  PROVE  /\ o.blocks \in Seq(Block) /\ Len(o.blocks) = Len(blocks) + 1
         /\ o.at = Len(blocks) + 1 /\ Len(blocks) \in Nat
         /\ \A k \in 1 .. Len(blocks) : o.blocks[k] = blocks[k]
         /\ o.blocks[o.at].bytes = bytes /\ o.blocks[o.at].live
<1> DEFINE b == [bytes |-> bytes, live |-> TRUE]
<1>1. b \in Block /\ b.bytes = bytes /\ b.live
  BY DEF Block
<1>2. o.blocks = Append(blocks, b) /\ o.at = Len(blocks) + 1
  BY DEF Malloc
<1> HIDE DEF b
<1>3. /\ Append(blocks, b) \in Seq(Block)
      /\ Len(Append(blocks, b)) = Len(blocks) + 1
      /\ \A k \in 1 .. Len(blocks) : Append(blocks, b)[k] = blocks[k]
      /\ Append(blocks, b)[Len(blocks) + 1] = b
  BY <1>1, AppendProperties
<1> QED
  BY <1>1, <1>2, <1>3

(* Bytes that stand for a text, but for what was lost.                     *)
StandFor(b, t, rs) ==
  /\ "no memory" \notin rs => Len(b) = Len(t)
  /\ rs \cap Losses = {} => b = t

(* A str made of bytes stands for them, unless memory or room is lost.     *)
LEMMA FromBuffer ==
  ASSUME Inv, NEW b \in Text, NEW t \in Text, NEW rs,
         NEW o \in tyna_str_from_buffer(b),
         StandFor(b, t, rs)
  PROVE  /\ o.blocks \in Seq(Block) /\ Len(blocks) <= Len(o.blocks)
         /\ \A k \in 1 .. Len(blocks) : o.blocks[k] = blocks[k]
         /\ o.risks \subseteq Risks
         /\ Faithful(o.blocks, [str |-> o.str, text |-> t], rs \cup o.risks)
<1>0. blocks \in Seq(Block) /\ Len(blocks) \in Nat /\ Len(b) \in Nat
  <2>1. blocks \in Seq(Block)
    BY InvTypes
  <2>2. Len(b) \in Nat
    BY TextTypes
  <2> QED
    BY <2>1, <2>2
<1>A. o \in IF Len(b) <= SsoMax
           THEN {[str |-> Packed(b), blocks |-> blocks, risks |->
                    IF Len(b) = SsoMax THEN {"full"} ELSE {}]}
           ELSE {[str |-> Null, blocks |-> blocks, risks |-> {"no memory"}]} \cup
                {[str |-> At(m.at, 0, Len(b)), blocks |-> m.blocks, risks |-> {}] :
                   m \in Malloc(Append(b, 0))}
  BY DEF tyna_str_from_buffer
<1>1. CASE Len(b) <= SsoMax
  <2> DEFINE x == [str |-> Packed(b), text |-> t]
  <2>1. /\ o.str = Packed(b) /\ o.blocks = blocks
        /\ o.risks = IF Len(b) = SsoMax THEN {"full"} ELSE {}
    BY <1>1, <1>A
  <2>2. /\ Packed(b) \in Small /\ Packed(b).kind = "small"
        /\ Packed(b).len = Len(b)
    BY PackedIsSmall
  <2>3. x \in Value /\ x.str = Packed(b) /\ x.text = t
    BY <2>2 DEF Value, Str
  <2> HIDE DEF x
  <2>4. Inside(blocks, Packed(b)) /\ AliveIn(blocks, Packed(b))
    BY <1>1, <2>2 DEF Inside, AliveIn
  <2>5. ASSUME (rs \cup o.risks) \cap Losses = {}
        PROVE  ContentIn(blocks, Packed(b)) = t
    <3>1. Len(b) # SsoMax /\ b = t
      BY <2>1, <2>5 DEF Losses, StandFor
    <3>2. Len(b) <= 2 * WordBytes - 2
      BY <1>0, <1>1, <3>1, SmallConstants
    <3>3. Unpacked(Packed(b)) = b
      BY <3>2, PackedTextKept
    <3> QED
      BY <2>2, <3>1, <3>3 DEF ContentIn
  <2>6. Faithful(blocks, x, rs \cup o.risks)
    BY <2>2, <2>3, <2>4, <2>5 DEF Faithful, StandFor
  <2>7. o.risks \subseteq Risks
    BY <2>1 DEF Risks
  <2> QED
    BY <1>0, <2>1, <2>6, <2>7 DEF x
<1>2. CASE ~(Len(b) <= SsoMax)
  <2>1. o \in {[str |-> Null, blocks |-> blocks, risks |-> {"no memory"}]} \cup
              {[str |-> At(m.at, 0, Len(b)), blocks |-> m.blocks, risks |-> {}] :
                 m \in Malloc(Append(b, 0))}
    BY <1>2, <1>A
  <2>2. CASE o = [str |-> Null, blocks |-> blocks, risks |-> {"no memory"}]
    <3>1. o.str = Null /\ o.blocks = blocks /\ o.risks = {"no memory"}
      BY <2>2
    <3>2. Faithful(blocks, [str |-> Null, text |-> t], rs \cup {"no memory"})
      BY <1>0, NullFaithful
    <3>3. Faithful(o.blocks, [str |-> o.str, text |-> t], rs \cup o.risks)
      BY <3>1, <3>2
    <3>4. o.risks \subseteq Risks
      BY <3>1 DEF Risks
    <3>5. /\ o.blocks \in Seq(Block) /\ Len(blocks) <= Len(o.blocks)
          /\ \A k \in 1 .. Len(blocks) : o.blocks[k] = blocks[k]
      <4>1. o.blocks = blocks /\ Len(o.blocks) = Len(blocks)
        BY <3>1
      <4>2. Len(blocks) <= Len(blocks)
        BY <1>0
      <4> QED
        BY <1>0, <4>1, <4>2
    <3> QED
      BY <3>3, <3>4, <3>5
  <2>3. ASSUME NEW m \in Malloc(Append(b, 0)),
               o = [str |-> At(m.at, 0, Len(b)), blocks |-> m.blocks,
                    risks |-> {}]
        PROVE  /\ o.blocks \in Seq(Block) /\ Len(blocks) <= Len(o.blocks)
               /\ \A k \in 1 .. Len(blocks) : o.blocks[k] = blocks[k]
               /\ o.risks \subseteq Risks
               /\ Faithful(o.blocks, [str |-> o.str, text |-> t],
                           rs \cup o.risks)
    <3> DEFINE c == Append(b, 0)  s == At(m.at, 0, Len(b))
               x == [str |-> s, text |-> t]
    <3>1. o.str = s /\ o.blocks = m.blocks /\ o.risks = {}
      BY <2>3
    <3>2. /\ c \in Text /\ Len(c) = Len(b) + 1
          /\ \A i \in 1 .. Len(b) : c[i] = b[i]
      <4>1. b \in Seq(Byte) /\ 0 \in Byte
        BY SmallConstants DEF Text
      <4> QED
        BY <1>0, <4>1, AppendProperties DEF Text
    <3> HIDE DEF c
    <3>3. m \in Malloc(c)
      BY DEF c
    <3>4. /\ m.blocks \in Seq(Block) /\ Len(m.blocks) = Len(blocks) + 1
          /\ m.at = Len(blocks) + 1
          /\ \A k \in 1 .. Len(blocks) : m.blocks[k] = blocks[k]
          /\ m.blocks[m.at].bytes = c /\ m.blocks[m.at].live
      BY <1>0, <3>2, <3>3, MallocFacts
    <3>5. /\ s \in Long /\ s.kind = "long" /\ s.block = m.at /\ s.off = 0
          /\ s.len = Len(b)
      BY <1>0, <3>4 DEF At, Long
    <3>6. x \in Value /\ x.str = s /\ x.text = t
      BY <3>5 DEF Value, Str
    <3> HIDE DEF s, x
    <3>7. Inside(m.blocks, s) /\ AliveIn(m.blocks, s)
      BY <1>0, <3>2, <3>4, <3>5 DEF Inside, AliveIn
    <3>8. ContentIn(m.blocks, s) = b
      <4>1. s \in Str
        BY <3>5 DEF Str
      <4>2. /\ ContentIn(m.blocks, s) \in Text
            /\ Len(ContentIn(m.blocks, s)) = Len(b)
            /\ \A i \in 1 .. Len(b) : ContentIn(m.blocks, s)[i] = c[0 + i]
        <5>1. PICK ms \in Seq(Block) : ms = m.blocks
          BY <3>4
        <5>2. s.kind # "small" /\ Inside(ms, s) /\ AliveIn(ms, s)
          BY <3>5, <3>7, <5>1
        <5>3. /\ ContentIn(ms, s) \in Text /\ Len(ContentIn(ms, s)) = s.len
              /\ \A i \in 1 .. s.len :
                   ContentIn(ms, s)[i] = ms[s.block].bytes[s.off + i]
          BY <4>1, <5>2, ContentIsText
        <5>4. ms[s.block].bytes = c
          BY <3>4, <3>5, <5>1
        <5> QED
          BY <3>5, <5>1, <5>3, <5>4
      <4>3. \A i \in 1 .. Len(b) : ContentIn(m.blocks, s)[i] = b[i]
        <5> TAKE i \in 1 .. Len(b)
        <5>1. 0 + i = i
          OBVIOUS
        <5> QED
          BY <3>2, <4>2, <5>1
      <4> QED
        BY <4>2, <4>3, SeqEqual DEF Text
    <3>9. rs \cup o.risks = rs
      BY <3>1
    <3>10. Faithful(m.blocks, x, rs)
      BY <3>5, <3>6, <3>7, <3>8 DEF Faithful, StandFor
    <3>11. o.risks \subseteq Risks
      BY <3>1
    <3>12. Len(blocks) <= Len(m.blocks)
      BY <1>0, <3>4
    <3> QED
      BY <3>1, <3>4, <3>9, <3>10, <3>11, <3>12 DEF x
  <2> QED
    BY <2>1, <2>2, <2>3
<1> QED
  BY <1>1, <1>2

-------------------------------------------------------------------------------
(***************************************************************************)
(* Each step keeps the invariant.                                          *)
(***************************************************************************)
LEMMA LiteralInv ==
  ASSUME Inv, NEW k \in DOMAIN Literals, Literal(k)
  PROVE  Inv'
<1> DEFINE x == [str |-> At(k, 0, Len(Literals[k])), text |-> Literals[k]]
<1>1. Faithful(blocks, x, risks)
  BY DEF Inv, LiteralStr
<1>2. strs' = Append(strs, x) /\ seen' = Nothing
  BY DEF Literal, Makes
<1> HIDE DEF x
<1>3. /\ blocks' = blocks /\ pool' = pool /\ arena' = arena /\ ended' = ended
      /\ risks' = risks
  BY DEF Literal
<1>4. blocks \in Seq(Block) /\ risks \subseteq Risks
  BY InvTypes
<1> QED
  BY <1>1, <1>2, <1>3, <1>4, MadeInv, BlockTypes

(* The text of a str in use is what it stands for.                         *)
LEMMA UsableStands ==
  ASSUME Inv, NEW i, Usable(i)
  PROVE  StandFor(Content(strs[i].str), strs[i].text, risks)
  BY UsableFacts DEF Faithful, StandFor

LEMMA TextsJoined ==
  ASSUME NEW a \in Text, NEW b \in Text
  PROVE  a \o b \in Text /\ Len(a \o b) = Len(a) + Len(b)
<1>1. a \in Seq(Byte) /\ b \in Seq(Byte)
  BY DEF Text
<1> QED
  BY <1>1, ConcatProperties DEF Text

LEMMA ConcatInv ==
  ASSUME Inv, NEW i, NEW j, Concat(i, j)
  PROVE  Inv'
<1> DEFINE a == Content(strs[i].str)  b == Content(strs[j].str)
           t == strs[i].text  u == strs[j].text
<1>1. Usable(i) /\ Usable(j)
  BY DEF Concat
<1>2. a \in Text /\ b \in Text /\ t \in Text /\ u \in Text
  BY <1>1, UsableFacts
<1>3. PICK o \in tyna_str_from_buffer(a \o b) :
        /\ Makes(o.str, t \o u)
        /\ blocks' = o.blocks
        /\ risks' = risks \cup o.risks
  BY DEF Concat
<1>4. StandFor(a, t, risks) /\ StandFor(b, u, risks)
  BY <1>1, UsableStands
<1> HIDE DEF a, b, t, u
<1>5. /\ a \o b \in Text /\ Len(a \o b) = Len(a) + Len(b)
      /\ t \o u \in Text /\ Len(t \o u) = Len(t) + Len(u)
  BY <1>2, TextsJoined
<1>6. StandFor(a \o b, t \o u, risks)
  BY <1>4, <1>5 DEF StandFor
<1> DEFINE x == [str |-> o.str, text |-> t \o u]
<1>7. /\ o.blocks \in Seq(Block) /\ Len(blocks) <= Len(o.blocks)
      /\ \A k \in 1 .. Len(blocks) : o.blocks[k] = blocks[k]
      /\ o.risks \subseteq Risks
      /\ Faithful(o.blocks, x, risks \cup o.risks)
  BY <1>5, <1>6, FromBuffer
<1>8. strs' = Append(strs, x) /\ seen' = Nothing
  BY <1>3 DEF Makes
<1> HIDE DEF x
<1>9. pool' = pool /\ arena' = arena /\ ended' = ended
  BY DEF Concat
<1>10. risks \subseteq risks' /\ risks' \subseteq Risks
  BY <1>3, <1>7, InvTypes
<1> QED
  BY <1>3, <1>7, <1>8, <1>9, <1>10, MadeInv

LEMMA ThroughArrayInv ==
  ASSUME Inv, NEW i, ThroughArray(i)
  PROVE  Inv'
<1> DEFINE s == strs[i].str  a == Content(s)  t == strs[i].text
           none == [str |-> Null, blocks |-> blocks, risks |-> {}]
<1>1. Usable(i)
  BY DEF ThroughArray
<1>2. a \in Text /\ t \in Text /\ s.len = Len(a) /\ s.len \in Nat
  BY <1>1, UsableFacts
<1>3. PICK o \in IF s.len = 0 THEN {none} ELSE tyna_str_from_buffer(a) :
        /\ Makes(o.str, t)
        /\ blocks' = o.blocks
        /\ risks' = risks \cup o.risks
  BY DEF ThroughArray
<1>4. StandFor(a, t, risks)
  BY <1>1, UsableStands
<1>5. pool' = pool /\ arena' = arena /\ ended' = ended
  BY DEF ThroughArray
<1> DEFINE x == [str |-> o.str, text |-> t]
<1>6. strs' = Append(strs, x) /\ seen' = Nothing
  BY <1>3 DEF Makes
<1> HIDE DEF s, a, t
<1>7. /\ o.blocks \in Seq(Block) /\ Len(blocks) <= Len(o.blocks)
      /\ \A k \in 1 .. Len(blocks) : o.blocks[k] = blocks[k]
      /\ o.risks \subseteq Risks
      /\ Faithful(o.blocks, x, risks \cup o.risks)
  <2>1. CASE s.len = 0
    <3>1. o.str = Null /\ o.blocks = blocks /\ o.risks = {}
      BY <1>3, <2>1
    <3>2. x = [str |-> Null, text |-> t]
      BY <3>1
    <3>3. blocks \in Seq(Block)
      BY InvTypes
    <3>4. a = <<>>
      BY <1>2, <2>1, NoText
    <3>5. Faithful(blocks, [str |-> Null, text |-> t], risks)
      <4>1. "no memory" \in risks \/ t = <<>>
        <5>1. "no memory" \notin risks => Len(t) = 0
          BY <1>2, <1>4, <2>1 DEF StandFor
        <5> QED
          BY <1>2, <5>1, NoText
      <4> QED
        BY <1>2, <3>3, <4>1, NullFaithful
    <3>6. risks \cup o.risks = risks
      BY <3>1
    <3>7. Faithful(o.blocks, x, risks \cup o.risks)
      BY <3>1, <3>2, <3>5, <3>6
    <3>8. o.risks \subseteq Risks
      BY <3>1
    <3>9. /\ o.blocks \in Seq(Block) /\ Len(blocks) <= Len(o.blocks)
          /\ \A k \in 1 .. Len(blocks) : o.blocks[k] = blocks[k]
      BY <3>1, <3>3, BlockTypes
    <3> QED
      BY <3>7, <3>8, <3>9
  <2>2. CASE s.len # 0
    <3>1. o \in tyna_str_from_buffer(a)
      BY <1>3, <2>2
    <3> QED
      BY <1>2, <1>4, <3>1, FromBuffer
  <2> QED
    BY <2>1, <2>2
<1> HIDE DEF x
<1>8. risks \subseteq risks' /\ risks' \subseteq Risks
  BY <1>3, <1>7, InvTypes
<1> QED
  BY <1>3, <1>5, <1>6, <1>7, <1>8, MadeInv

LEMMA SliceInv ==
  ASSUME Inv, NEW i, NEW start \in Nat, NEW end \in Nat, Slice(i, start, end)
  PROVE  Inv'
<1> DEFINE s == strs[i].str  t == strs[i].text  r == SliceOf(s, start, end)
           v == SubSeq(t, start + 1, end)  x == [str |-> r, text |-> v]
<1>1. /\ Usable(i) /\ start <= end /\ end <= s.len /\ end <= Len(t)
      /\ blocks' = blocks /\ pool' = pool /\ arena' = arena /\ ended' = ended
  BY DEF Slice
<1>2. strs' = Append(strs, x) /\ seen' = Nothing
  BY DEF Slice, Makes
<1>3. risks' = IF s.kind = "small" /\ (start > 0 \/ end > LowBytes)
                 THEN risks \cup {"sliced"} ELSE risks
  BY DEF Slice
<1>4. /\ s \in Str /\ t \in Text /\ Inside(blocks, s) /\ AliveIn(blocks, s)
      /\ s.len \in Nat /\ Len(Content(s)) = s.len /\ Content(s) \in Text
      /\ Content(s) = ContentIn(blocks, s)
  BY <1>1, UsableFacts
<1>5. StandFor(Content(s), t, risks)
  BY <1>1, UsableStands
<1>6. blocks \in Seq(Block) /\ risks \subseteq Risks
  BY InvTypes
<1>7. risks \subseteq risks' /\ risks' \subseteq Risks
  BY <1>3, <1>6 DEF Risks
<1> HIDE DEF s, t
<1>8. Len(t) \in Nat
  BY <1>4, TextTypes
<1> HIDE DEF x, r
<1>9. v \in Text /\ Len(v) = end - start
  BY <1>1, <1>4, TextCutTo
<1> HIDE DEF v
<1>10. /\ r \in Str /\ Inside(blocks, r) /\ r.len = end - start
       /\ risks' \cap Losses = {} =>
            AliveIn(blocks, r) /\ ContentIn(blocks, r) = v
  <2>1. CASE s.kind = "small"
    <3>1. s \in Small /\ s.len <= SsoMax /\ SsoMax \in Nat
      BY <1>4, <2>1, StrKinds, SmallConstants DEF Inside
    <3>2. r = SlicedSmall(s, start, end)
      BY <2>1 DEF r, SliceOf
    <3>3. r \in Small /\ r.kind = "small" /\ r.len = end - start
      BY <1>1, <3>1, <3>2, SlicedIsSmall
    <3>4. r.len <= SsoMax
      BY <1>1, <1>4, <3>1, <3>3
    <3>5. ASSUME risks' \cap Losses = {}
          PROVE  ContentIn(blocks, r) = v
      <4>1. start = 0 /\ end <= LowBytes /\ risks \cap Losses = {}
        <5>1. "sliced" \notin risks' /\ risks \cap Losses = {}
          BY <1>7, <3>5 DEF Losses
        <5>2. ~ (start > 0 \/ end > LowBytes)
          BY <1>3, <2>1, <5>1
        <5>3. LowBytes \in Nat
          BY SmallConstants
        <5> QED
          BY <5>1, <5>2, <5>3
      <4>2. Content(s) = t /\ Content(s) = Unpacked(s)
        BY <1>4, <1>5, <2>1, <4>1 DEF StandFor, ContentIn
      <4>3. Unpacked(r) = SubSeq(t, 1, end)
        BY <1>1, <3>1, <3>2, <4>1, <4>2, SlicedText
      <4>4. v = SubSeq(t, 1, end)
        BY <4>1 DEF v
      <4> QED
        BY <3>3, <4>3, <4>4 DEF ContentIn
    <3> QED
      BY <3>3, <3>4, <3>5 DEF Inside, AliveIn, Str
  <2>2. CASE s.kind # "small" /\ s.block = 0
    <3>1. s.len = 0 /\ r = Null
      BY <1>4, <2>2 DEF Inside, r, SliceOf
    <3>2. end - start = 0
      BY <1>1, <3>1
    <3>3. v = <<>>
      BY <1>9, <3>2, NoText
    <3> QED
      BY <1>6, <3>1, <3>2, <3>3, NullIsLong
  <2>3. CASE s.kind # "small" /\ s.block # 0
    <3>1. /\ s.kind = "long" /\ s.block \in Nat /\ s.off \in Nat
          /\ s.block \in 1 .. Len(blocks)
      <4>1. s.kind = "long" /\ s.block \in Nat /\ s.off \in Nat
        BY <1>4, <2>3, StrKinds
      <4>2. s.block \in 0 .. Len(blocks) /\ Len(blocks) \in Nat
        BY <1>4, <1>6, <2>3, BlockTypes DEF Inside
      <4> QED
        BY <2>3, <4>1, <4>2
    <3>2. r = At(s.block, s.off + start, end - start)
      BY <2>3 DEF r, SliceOf
    <3>3. /\ r \in Long /\ r.kind = "long" /\ r.block = s.block
          /\ r.off = s.off + start /\ r.len = end - start
      BY <1>1, <3>1, <3>2 DEF At, Long
    <3>4. r \in Str
      BY <3>3 DEF Str
    <3>5. Inside(blocks, r)
      <4>1. ASSUME blocks[s.block].live
            PROVE  r.off + r.len <= Len(blocks[s.block].bytes)
        <5>1. s.off + s.len <= Len(blocks[s.block].bytes)
          BY <1>4, <2>3, <4>1 DEF Inside
        <5>2. Len(blocks[s.block].bytes) \in Nat
          BY <1>6, <3>1, BlockTypes
        <5>3. r.off + r.len = s.off + end
          BY <3>1, <3>3
        <5>4. s.off + end <= s.off + s.len
          BY <1>1, <1>4, <3>1
        <5>5. s.off + end \in Nat /\ s.off + s.len \in Nat
          BY <1>4, <3>1
        <5> QED
          BY <5>1, <5>2, <5>3, <5>4, <5>5
      <4>2. s.block \in 0 .. Len(blocks)
        BY <1>4, <2>3 DEF Inside
      <4> QED
        BY <2>3, <3>3, <4>1, <4>2 DEF Inside
    <3>6. AliveIn(blocks, r)
      BY <1>1, <1>4, <3>1, <3>3 DEF AliveIn
    <3>7. ASSUME risks' \cap Losses = {}
          PROVE  ContentIn(blocks, r) = v
      <4>1. risks \cap Losses = {}
        BY <1>7, <3>7
      <4>2. ContentIn(blocks, s) = t /\ Len(t) = s.len
        BY <1>4, <1>5, <4>1 DEF StandFor
      <4>3. /\ ContentIn(blocks, r) \in Text
            /\ Len(ContentIn(blocks, r)) = end - start
            /\ \A k \in 1 .. end - start :
                 ContentIn(blocks, r)[k] = blocks[s.block].bytes[(s.off + start) + k]
        <5>1. r.kind # "small"
          BY <3>3
        <5>2. /\ ContentIn(blocks, r) \in Text
              /\ Len(ContentIn(blocks, r)) = r.len
              /\ \A k \in 1 .. r.len :
                   ContentIn(blocks, r)[k] = blocks[r.block].bytes[r.off + k]
          BY <1>6, <3>4, <3>5, <3>6, <5>1, ContentIsText
        <5> QED
          BY <3>3, <5>2
      <4>4. \A k \in 1 .. s.len : t[k] = blocks[s.block].bytes[s.off + k]
        BY <1>4, <1>6, <2>3, <4>2, ContentIsText
      <4>5. ASSUME NEW k \in 1 .. end - start
            PROVE  ContentIn(blocks, r)[k] = v[k]
        <5>1. v[k] = t[start + k]
          BY <1>1, <1>4, <1>8 DEF v
        <5>2. start + k \in 1 .. s.len /\ s.off + (start + k) = (s.off + start) + k
          BY <1>1, <1>4, <3>1
        <5> QED
          BY <4>3, <4>4, <5>1, <5>2
      <4> QED
        BY <1>9, <4>3, <4>5, SeqEqual DEF Text
    <3> QED
      BY <3>3, <3>4, <3>5, <3>6, <3>7
  <2> QED
    BY <2>1, <2>2, <2>3
<1>11. x \in Value /\ x.str = r /\ x.text = v
  BY <1>9, <1>10 DEF Value, x
<1> HIDE DEF x
<1>12. Faithful(blocks, x, risks')
  BY <1>9, <1>10, <1>11 DEF Faithful
<1> QED
  BY <1>1, <1>2, <1>6, <1>7, <1>12, MadeInv, BlockTypes

(* Interning asks that the arena has not moved from under the pool.        *)
LEMMA InternsFacts ==
  ASSUME Inv, NEW i, Interns(i)
  PROVE  /\ Usable(i) /\ Len(strs) < MaxStrs
         /\ \A p \in DOMAIN pool :
              /\ pool[p] \in Str /\ pool[p].kind = "long" /\ pool[p].len > 0
              /\ Inside(blocks, pool[p]) /\ AliveIn(blocks, pool[p])
              /\ Content(pool[p]) = ContentIn(blocks, pool[p])
              /\ Content(pool[p]) \in Text
              /\ Len(Content(pool[p])) = pool[p].len
<1>1. ASSUME NEW p \in DOMAIN pool
      PROVE  /\ pool[p] \in Str /\ pool[p].kind = "long" /\ pool[p].len > 0
             /\ Inside(blocks, pool[p]) /\ AliveIn(blocks, pool[p])
             /\ Content(pool[p]) = ContentIn(blocks, pool[p])
             /\ Content(pool[p]) \in Text
             /\ Len(Content(pool[p])) = pool[p].len
  <2>1. Entry(blocks, pool[p], risks)
    BY DEF Inv
  <2>2. pool[p] \in Long /\ Inside(blocks, pool[p]) /\ pool[p].len > 0
    BY <2>1 DEF Entry
  <2>3. pool[p] \in Str /\ pool[p].kind = "long"
    BY <2>2 DEF Str, Long
  <2>4. AliveIn(blocks, pool[p]) /\ Content(pool[p]) = ContentIn(blocks, pool[p])
    BY ContentsHere DEF Interns
  <2>5. blocks \in Seq(Block)
    BY InvTypes
  <2>6. /\ ContentIn(blocks, pool[p]) \in Text
        /\ Len(ContentIn(blocks, pool[p])) = pool[p].len
    BY <2>2, <2>3, <2>4, <2>5, ContentIsText
  <2> QED
    BY <2>2, <2>3, <2>4, <2>6
<1> QED
  BY <1>1 DEF Interns, Room

(* The least of some positions.                                            *)
LEMMA MinIsOne ==
  ASSUME NEW S \in SUBSET Nat, S # {}
  PROVE  Min(S) \in S
<1> DEFINE R == OpToRel(<, Nat)
<1>1. IsWellFoundedOn(R, Nat)
  BY NatLessThanWellFounded
<1>2. \A x, y \in Nat : y < x => <<y, x>> \in R
  BY DEF OpToRel
<1> HIDE DEF R
<1>3. PICK m \in S : \A y \in S : ~ (<<y, m>> \in R)
  BY <1>1, WFMin
<1>4. ASSUME NEW y \in S
      PROVE  m <= y
  <2>1. ~ (y < m) /\ m \in Nat /\ y \in Nat
    BY <1>2, <1>3
  <2> QED
    BY <2>1
<1> QED
  BY <1>4 DEF Min

LEMMA InternEmptyInv ==
  ASSUME Inv, NEW i, InternEmpty(i)
  PROVE  Inv'
<1> DEFINE s == strs[i].str  t == strs[i].text  x == [str |-> Null, text |-> t]
<1>1. Usable(i) /\ s.len = 0
  BY DEF InternEmpty, Interns
<1>2. strs' = Append(strs, x) /\ seen' = Nothing
  BY DEF InternEmpty, Makes
<1>3. /\ blocks' = blocks /\ pool' = pool /\ arena' = arena /\ ended' = ended
      /\ risks' = risks
  BY DEF InternEmpty
<1>4. t \in Text /\ Len(Content(s)) = s.len
  BY <1>1, UsableFacts
<1>5. StandFor(Content(s), t, risks)
  BY <1>1, UsableStands
<1> HIDE DEF s, t
<1>6. t = <<>> \/ "no memory" \in risks
  <2>1. "no memory" \notin risks => Len(t) = 0
    BY <1>1, <1>4, <1>5 DEF StandFor
  <2> QED
    BY <1>4, <2>1, NoText
<1>7. blocks \in Seq(Block) /\ risks \subseteq Risks
  BY InvTypes
<1>8. Faithful(blocks, x, risks)
  BY <1>4, <1>6, <1>7, NullFaithful
<1> HIDE DEF x
<1> QED
  BY <1>2, <1>3, <1>7, <1>8, MadeInv, BlockTypes

LEMMA InternFoundInv ==
  ASSUME Inv, NEW i, InternFound(i)
  PROVE  Inv'
<1> DEFINE s == strs[i].str  t == strs[i].text  p == Min(InPool(s))  r == pool[p]
           x == [str |-> r, text |-> t]
<1>1. Interns(i) /\ InPool(s) # {}
  BY DEF InternFound
<1>2. strs' = Append(strs, x) /\ seen' = Nothing
  BY DEF InternFound, Makes
<1>3. /\ blocks' = blocks /\ pool' = pool /\ arena' = arena /\ ended' = ended
      /\ risks' = risks
  BY DEF InternFound
<1>4. Usable(i)
  BY <1>1 DEF Interns
<1>5. t \in Text /\ StandFor(Content(s), t, risks)
  BY <1>4, UsableStands, UsableFacts
<1>6. InPool(s) \in SUBSET Nat
  <2>1. pool \in Seq(Long)
    BY InvTypes
  <2> QED
    BY <2>1 DEF InPool
<1>7. p \in DOMAIN pool /\ Content(r) = Content(s)
  <2>1. p \in InPool(s)
    BY <1>1, <1>6, MinIsOne
  <2> QED
    BY <2>1 DEF InPool
<1> HIDE DEF s, t, p
<1>8. /\ r \in Str /\ Inside(blocks, r) /\ AliveIn(blocks, r)
      /\ Content(r) = ContentIn(blocks, r) /\ Len(Content(r)) = r.len
  BY <1>1, <1>7, InternsFacts
<1> HIDE DEF r
<1>9. x \in Value /\ x.str = r /\ x.text = t
  BY <1>5, <1>8 DEF Value
<1> HIDE DEF x
<1>10. Faithful(blocks, x, risks)
  BY <1>5, <1>7, <1>8, <1>9 DEF Faithful, StandFor
<1>11. blocks \in Seq(Block) /\ risks \subseteq Risks
  BY InvTypes
<1> QED
  BY <1>2, <1>3, <1>10, <1>11, MadeInv, BlockTypes

LEMMA InternAbortsInv ==
  ASSUME Inv, NEW i, InternAborts(i)
  PROVE  Inv'
<1>1. /\ ended' = TRUE /\ seen' = Nothing /\ blocks' = blocks /\ strs' = strs
      /\ pool' = pool /\ arena' = arena /\ risks' = risks
  BY DEF InternAborts
<1>2. Nothing \in Seen
  BY DEF Nothing, Seen
<1>3. TypeOK'
  BY <1>1, <1>2 DEF Inv, TypeOK
<1>4. SeenAsTexts'
  BY <1>1 DEF SeenAsTexts, Nothing
<1> QED
  BY <1>1, <1>3, <1>4 DEF Inv, Faithful, Entry, Apart, ArenaSound, LiteralStr, Value

LEMMA AskedInv ==
  ASSUME Inv, UNCHANGED <<blocks, strs, pool, arena, ended>>,
         seen' \in Seen, risks \subseteq risks', risks' \subseteq Risks,
         "moved" \in risks' => "moved" \in risks,
         "no memory" \in risks' => "no memory" \in risks,
         risks' \cap Losses = {} => risks \cap Losses = {},
         SeenAsTexts'
  PROVE  Inv'
<1>1. /\ blocks' = blocks /\ strs' = strs /\ pool' = pool /\ arena' = arena
      /\ ended' = ended
  OBVIOUS
<1>2. blocks \in Seq(Block) /\ Grows(blocks, blocks)
  BY InvTypes, GrowsSame
<1>3. TypeOK'
  BY <1>1 DEF Inv, TypeOK
<1>4. \A k \in DOMAIN Literals : Faithful(blocks, LiteralStr(k), risks')
  BY <1>2, FaithfulKept DEF Inv
<1>5. \A k \in DOMAIN strs : Faithful(blocks, strs[k], risks')
  BY <1>2, FaithfulKept DEF Inv
<1>6. \A p \in DOMAIN pool : Entry(blocks, pool[p], risks')
  BY <1>2, EntryKept DEF Inv
<1>7. ("moved" \notin risks' => Apart(blocks, pool)) /\ ArenaSound(blocks, arena)
  BY DEF Inv
<1>8. SeenAsTexts'
  OBVIOUS
<1>9. /\ \A k \in DOMAIN Literals : Faithful(blocks', LiteralStr(k), risks')
      /\ \A k \in DOMAIN strs' : Faithful(blocks', strs'[k], risks')
  BY <1>1, <1>4, <1>5
<1>10. \A p \in DOMAIN pool' : Entry(blocks', pool'[p], risks')
  BY <1>1, <1>6
<1>11. /\ "moved" \notin risks' => Apart(blocks', pool')
       /\ ArenaSound(blocks', arena')
  BY <1>1, <1>7
<1> QED
  BY <1>3, <1>8, <1>9, <1>10, <1>11 DEF Inv, Faithful, Entry, Apart, ArenaSound, LiteralStr, Value

(* Strs with the same pointer word and length are read alike, unless they  *)
(* hold their texts in themselves.                                         *)
LEMMA EqualsInv ==
  ASSUME Inv, NEW i, NEW j, Equals(i, j)
  PROVE  Inv'
<1> DEFINE a == strs[i].str  b == strs[j].str  t == strs[i].text  u == strs[j].text
           said == str_equals(a, b)  right == t = u
<1>1. Usable(i) /\ Usable(j) /\ UNCHANGED <<blocks, strs, pool, arena, ended>>
  BY DEF Equals
<1>2. seen' = [of |-> "equals", said |-> said, right |-> right]
  BY DEF Equals
<1>3. risks' = IF a.kind = "small" /\ b.kind = "small" /\ SamePointer(a, b)
                 THEN risks \cup {"prefix"} ELSE risks
  BY DEF Equals
<1>4. /\ StandFor(Content(a), t, risks) /\ StandFor(Content(b), u, risks)
      /\ a \in Str /\ b \in Str /\ a.len = Len(Content(a)) /\ b.len = Len(Content(b))
  BY <1>1, UsableFacts, UsableStands
<1>5. risks \subseteq Risks
  BY InvTypes
<1> HIDE DEF a, b, t, u
<1>6. said \in BOOLEAN /\ right \in BOOLEAN
  BY DEF str_equals
<1>7. ASSUME risks' \cap Losses = {}
      PROVE  /\ right => said
             /\ said /\ "prefix" \notin risks' => right
  <2>1. risks \cap Losses = {}
    BY <1>3, <1>7
  <2>2. Content(a) = t /\ Content(b) = u
    BY <1>4, <2>1 DEF StandFor
  <2>3. right => said
    BY <1>4, <2>2 DEF str_equals
  <2>4. ASSUME a.len = b.len, SamePointer(a, b), "prefix" \notin risks'
        PROVE  Content(a) = Content(b)
    <3>1. ~ (a.kind = "small" /\ b.kind = "small")
      BY <1>3, <2>4
    <3>2. /\ a.kind = b.kind /\ a.kind # "small"
          /\ a.block = b.block /\ a.off = b.off
      BY <2>4, <3>1 DEF SamePointer
    <3> QED
      BY <2>4, <3>2 DEF Content
  <2>5. said /\ "prefix" \notin risks' => right
    BY <2>2, <2>4 DEF str_equals
  <2> QED
    BY <2>3, <2>5
<1> HIDE DEF said, right
<1>8. seen' \in Seen /\ seen'.of = "equals" /\ seen'.said = said /\ seen'.right = right
  BY <1>2, <1>6 DEF Seen
<1>9. SeenAsTexts'
  BY <1>7, <1>8 DEF SeenAsTexts, Losses
<1>10. /\ risks \subseteq risks' /\ risks' \subseteq Risks
       /\ "moved" \in risks' => "moved" \in risks
       /\ "no memory" \in risks' => "no memory" \in risks
       /\ risks' \cap Losses = {} => risks \cap Losses = {}
  BY <1>3, <1>5 DEF Risks
<1> QED
  BY <1>1, <1>8, <1>9, <1>10, AskedInv

LEMMA ForInInv ==
  ASSUME Inv, NEW i, ForIn(i)
  PROVE  Inv'
<1> DEFINE s == strs[i].str  t == strs[i].text
           said == Visits(s, t)  right == s.kind = "long"
<1>1. Usable(i) /\ UNCHANGED <<blocks, strs, pool, arena, ended>> /\ risks' = risks
  BY DEF ForIn
<1>2. seen' = [of |-> "for in", said |-> said, right |-> right]
  BY DEF ForIn
<1>3. StandFor(Content(s), t, risks)
  BY <1>1, UsableStands
<1> HIDE DEF s, t
<1>4. said \in BOOLEAN /\ right \in BOOLEAN
  BY DEF Visits
<1>5. ASSUME risks \cap Losses = {}, right
      PROVE  said
  <2>1. Content(s) = t
    BY <1>3, <1>5 DEF StandFor
  <2> QED
    BY <1>5, <2>1 DEF Visits
<1> HIDE DEF said, right
<1>6. seen' \in Seen /\ seen'.of = "for in" /\ seen'.said = said /\ seen'.right = right
  BY <1>2, <1>4 DEF Seen
<1>7. SeenAsTexts'
  BY <1>1, <1>5, <1>6 DEF SeenAsTexts, Losses
<1>8. risks \subseteq Risks
  BY InvTypes
<1> QED
  BY <1>1, <1>6, <1>7, <1>8, AskedInv

-------------------------------------------------------------------------------
(***************************************************************************)
(* Interning a new text.                                                   *)
(***************************************************************************)
LEMMA GrownFacts ==
  ASSUME NEW cap \in Nat, NEW need \in Nat \ {0}
  PROVE  Grown(cap, need) \in Nat /\ Grown(cap, need) >= need
<1> DEFINE S == need .. 2 * need - 1
<1>1. need \in S
  OBVIOUS
<1> HIDE DEF S
<1>2. \E c \in S : \A d \in S : IsDoubled(cap, d) => IsDoubled(cap, c)
  <2>1. CASE \E c \in S : IsDoubled(cap, c)
    BY <2>1
  <2>2. CASE ~ \E c \in S : IsDoubled(cap, c)
    BY <1>1, <2>2
  <2> QED
    BY <2>1, <2>2
<1>3. Grown(cap, need) \in S
  BY <1>2 DEF Grown, S
<1> QED
  BY <1>3 DEF S

(* The arena's block has room for so many more bytes.  Nothing is lost but *)
(* by moving.                                                              *)
LEMMA RoomFacts ==
  ASSUME Inv, NEW size \in Nat \ {0}, NEW o \in ArenaRoom(size)
  PROVE  /\ o.blocks \in Seq(Block) /\ Len(blocks) <= Len(o.blocks)
         /\ o.arena \in [block : Nat, cap : Nat]
         /\ o.arena.block \in 1 .. Len(o.blocks)
         /\ o.blocks[o.arena.block].live
         /\ Len(o.blocks[o.arena.block].bytes) + size <= o.arena.cap
         /\ o.moved \in BOOLEAN
         /\ ~ o.moved => Grows(blocks, o.blocks)
         /\ o.moved => Loses(blocks, o.blocks)
<1> DEFINE k == arena.block  used == Len(blocks[k].bytes)
<1>1. /\ blocks \in Seq(Block) /\ Len(blocks) \in Nat
      /\ arena \in [block : Nat, cap : Nat] /\ k \in Nat /\ arena.cap \in Nat
      /\ Grows(blocks, blocks)
  BY InvTypes, GrowsSame
<1>2. ArenaSound(blocks, arena)
  BY DEF Inv
<1>3. CASE k = 0
  <2> DEFINE cap == IF InternInitial < size THEN size ELSE InternInitial
  <2>1. cap \in Nat /\ cap >= size
    BY StrValuesAssumption
  <2>2. PICK m \in Malloc(<<>>) :
          o = [blocks |-> m.blocks, arena |-> [block |-> m.at, cap |-> cap],
               moved |-> FALSE]
    BY <1>3 DEF ArenaRoom
  <2> HIDE DEF cap
  <2>3. /\ m.blocks \in Seq(Block) /\ Len(m.blocks) = Len(blocks) + 1
        /\ m.at = Len(blocks) + 1
        /\ \A j \in 1 .. Len(blocks) : m.blocks[j] = blocks[j]
        /\ m.blocks[m.at].bytes = <<>> /\ m.blocks[m.at].live
    BY <1>1, MallocFacts, NoText
  <2>4. Grows(blocks, m.blocks)
    BY <1>1, <2>3, BlockTypes DEF Grows
  <2>5. /\ o.blocks = m.blocks /\ o.arena = [block |-> m.at, cap |-> cap]
        /\ o.arena.block = m.at /\ o.arena.cap = cap /\ o.moved = FALSE
    BY <2>2
  <2>6. o.arena \in [block : Nat, cap : Nat] /\ m.at \in 1 .. Len(m.blocks)
    BY <1>1, <2>1, <2>3, <2>5
  <2>7. Len(m.blocks[m.at].bytes) + size <= cap
    BY <2>1, <2>3, NoText
  <2>8. Len(blocks) <= Len(m.blocks)
    BY <1>1, <2>3
  <2> QED
    BY <2>3, <2>4, <2>5, <2>6, <2>7, <2>8
<1>4. CASE k # 0
  <2>1. /\ k \in 1 .. Len(blocks) /\ blocks[k].live /\ used <= arena.cap
        /\ used \in Nat
    <3>1. k \in 1 .. Len(blocks) /\ blocks[k].live /\ used <= arena.cap
      BY <1>1, <1>2, <1>4 DEF ArenaSound
    <3> QED
      BY <1>1, <3>1, BlockTypes
  <2> DEFINE cap == Grown(arena.cap, used + size)
             larger == [arena EXCEPT !.cap = cap]
             lost == [bytes |-> <<>>, live |-> FALSE]
  <2>2. cap \in Nat /\ cap >= used + size
    <3>1. used + size \in Nat \ {0}
      BY <2>1
    <3>2. \A need : need \in Nat \ {0} =>
            Grown(arena.cap, need) \in Nat /\ Grown(arena.cap, need) >= need
      BY <1>1, GrownFacts
    <3> QED
      BY <3>1, <3>2
  <2>3. \/ ArenaFits(used, size)
           /\ o = [blocks |-> blocks, arena |-> arena, moved |-> FALSE]
        \/ o = [blocks |-> blocks, arena |-> larger, moved |-> FALSE]
        \/ \E m \in Malloc(blocks[k].bytes) :
             o = [blocks |-> [m.blocks EXCEPT ![k] = lost],
                  arena |-> [block |-> m.at, cap |-> cap], moved |-> TRUE]
    BY <1>4 DEF ArenaRoom
  <2> HIDE DEF cap, lost
  <2>4. CASE ArenaFits(used, size)
             /\ o = [blocks |-> blocks, arena |-> arena, moved |-> FALSE]
    <3>1. o.blocks = blocks /\ o.arena = arena /\ o.moved = FALSE
      BY <2>4
    <3>2. used + size <= arena.cap
      BY <2>4 DEF ArenaFits
    <3>3. Len(blocks) <= Len(blocks)
      BY <1>1
    <3>4. o.arena.block = k /\ o.arena.cap = arena.cap /\ Len(o.blocks[k].bytes) = used
      BY <3>1
    <3> QED
      BY <1>1, <2>1, <3>1, <3>2, <3>3, <3>4
  <2>5. CASE o = [blocks |-> blocks, arena |-> larger, moved |-> FALSE]
    <3>1. o.blocks = blocks /\ o.arena = larger /\ o.moved = FALSE
      BY <2>5
    <3>2. /\ larger \in [block : Nat, cap : Nat] /\ larger.block = k
          /\ larger.cap = cap
      BY <1>1, <2>2
    <3> HIDE DEF larger
    <3>3. Len(blocks) <= Len(blocks)
      BY <1>1
    <3>4. o.arena.block = k /\ o.arena.cap = cap /\ Len(o.blocks[k].bytes) = used
      BY <3>1, <3>2
    <3> QED
      BY <1>1, <2>1, <2>2, <3>1, <3>2, <3>3, <3>4
  <2>6. ASSUME NEW m \in Malloc(blocks[k].bytes),
               o = [blocks |-> [m.blocks EXCEPT ![k] = lost],
                    arena |-> [block |-> m.at, cap |-> cap], moved |-> TRUE]
        PROVE  /\ o.blocks \in Seq(Block) /\ Len(blocks) <= Len(o.blocks)
               /\ o.arena \in [block : Nat, cap : Nat]
               /\ o.arena.block \in 1 .. Len(o.blocks)
               /\ o.blocks[o.arena.block].live
               /\ Len(o.blocks[o.arena.block].bytes) + size <= o.arena.cap
               /\ o.moved = TRUE
               /\ Loses(blocks, o.blocks)
    <3>1. blocks[k].bytes \in Text
      BY <1>1, <2>1, BlockTypes
    <3>2. /\ m.blocks \in Seq(Block) /\ Len(m.blocks) = Len(blocks) + 1
          /\ m.at = Len(blocks) + 1
          /\ \A j \in 1 .. Len(blocks) : m.blocks[j] = blocks[j]
          /\ m.blocks[m.at].bytes = blocks[k].bytes /\ m.blocks[m.at].live
      BY <1>1, <3>1, MallocFacts
    <3> DEFINE cs == [m.blocks EXCEPT ![k] = lost]
    <3>3. /\ o.blocks = cs /\ o.arena = [block |-> m.at, cap |-> cap]
          /\ o.arena.block = m.at /\ o.arena.cap = cap /\ o.moved = TRUE
      BY <2>6
    <3>4. lost \in Block /\ lost.live = FALSE
      BY NoText DEF lost, Block
    <3>5. k \in 1 .. Len(m.blocks) /\ m.at \in 1 .. Len(m.blocks) /\ m.at # k
      BY <1>1, <2>1, <3>2
    <3>6. /\ cs \in Seq(Block) /\ Len(cs) = Len(m.blocks) /\ cs[k] = lost
          /\ \A j \in 1 .. Len(m.blocks) : j # k => cs[j] = m.blocks[j]
      BY <3>2, <3>4, <3>5
    <3> HIDE DEF cs
    <3>7. cs[m.at] = m.blocks[m.at]
      BY <3>5, <3>6
    <3>8. Loses(blocks, cs)
      <4>1. ASSUME NEW j \in 1 .. Len(blocks), cs[j].live
            PROVE  blocks[j].live /\ Len(blocks[j].bytes) <= Len(cs[j].bytes)
        <5>1. j # k
          BY <3>4, <3>6, <4>1
        <5>2. j \in 1 .. Len(m.blocks)
          BY <1>1, <3>2
        <5>3. cs[j] = blocks[j]
          BY <3>2, <3>6, <5>1, <5>2
        <5>4. Len(blocks[j].bytes) \in Nat
          BY <1>1, BlockTypes
        <5> QED
          BY <4>1, <5>3, <5>4
      <4>2. Len(blocks) <= Len(cs)
        BY <1>1, <3>2, <3>6
      <4> QED
        BY <4>1, <4>2 DEF Loses
    <3>9. [block |-> m.at, cap |-> cap] \in [block : Nat, cap : Nat]
      BY <1>1, <2>2, <3>2
    <3>10. Len(cs[m.at].bytes) + size <= cap
      BY <2>2, <3>2, <3>7
    <3>11. Len(blocks) <= Len(cs)
      BY <3>8 DEF Loses
    <3> QED
      BY <3>2, <3>3, <3>5, <3>6, <3>7, <3>8, <3>9, <3>10, <3>11
  <2> QED
    BY <2>3, <2>4, <2>5, <2>6
<1> QED
  BY <1>3, <1>4

(* Bytes and a terminator are written to the end of a block.               *)
LEMMA TextEnded ==
  ASSUME NEW a \in Text, NEW b \in Text
  PROVE  /\ a \o b \o <<0>> \in Text /\ Len(a) \in Nat /\ Len(b) \in Nat
         /\ Len(a \o b \o <<0>>) = Len(a) + Len(b) + 1
         /\ \A i \in 1 .. Len(a) : (a \o b \o <<0>>)[i] = a[i]
         /\ \A i \in 1 .. Len(b) : (a \o b \o <<0>>)[Len(a) + i] = b[i]
         /\ (a \o b \o <<0>>)[Len(a) + Len(b) + 1] = 0
<1>1. /\ a \in Seq(Byte) /\ b \in Seq(Byte) /\ 0 \in Byte
      /\ Len(a) \in Nat /\ Len(b) \in Nat
  BY TextTypes, SmallConstants DEF Text
<1> DEFINE ab == a \o b  c == Append(ab, 0)
<1>2. /\ ab \in Seq(Byte) /\ Len(ab) = Len(a) + Len(b)
      /\ \A i \in 1 .. Len(a) + Len(b) :
           ab[i] = IF i <= Len(a) THEN a[i] ELSE b[i - Len(a)]
  BY <1>1, ConcatProperties
<1>3. a \o b \o <<0>> = c
  BY <1>1, <1>2
<1> HIDE DEF ab
<1>4. /\ c \in Seq(Byte) /\ Len(c) = Len(ab) + 1
      /\ \A i \in 1 .. Len(ab) : c[i] = ab[i]
      /\ c[Len(ab) + 1] = 0
  BY <1>1, <1>2, AppendProperties
<1> HIDE DEF c
<1>5. PICK m \in Nat, n \in Nat : m = Len(a) /\ n = Len(b)
  BY <1>1
<1>6. /\ Len(ab) = m + n /\ Len(c) = m + n + 1 /\ c[m + n + 1] = 0
      /\ \A i \in 1 .. m + n : c[i] = IF i <= m THEN a[i] ELSE b[i - m]
  BY <1>2, <1>4, <1>5
<1>7. \A i \in 1 .. m : i \in 1 .. m + n /\ i <= m
  OBVIOUS
<1>8. \A i \in 1 .. n : m + i \in 1 .. m + n /\ ~ (m + i <= m) /\ (m + i) - m = i
  OBVIOUS
<1>9. \A i \in 1 .. m : c[i] = a[i]
  BY <1>6, <1>7
<1>10. \A i \in 1 .. n : c[m + i] = b[i]
  BY <1>6, <1>8
<1> QED
  BY <1>1, <1>3, <1>4, <1>5, <1>6, <1>9, <1>10 DEF Text

LEMMA BlockChanged ==
  ASSUME NEW bs \in Seq(Block), NEW k \in 1 .. Len(bs), NEW new \in Block
  PROVE  /\ [bs EXCEPT ![k] = new] \in Seq(Block)
         /\ Len([bs EXCEPT ![k] = new]) = Len(bs)
         /\ [bs EXCEPT ![k] = new][k] = new
         /\ \A j \in 1 .. Len(bs) : j # k => [bs EXCEPT ![k] = new][j] = bs[j]
  OBVIOUS

Written(bs, k, b) == [bs EXCEPT ![k].bytes = @ \o b \o <<0>>]

LEMMA WrittenFacts ==
  ASSUME NEW bs \in Seq(Block), NEW k \in 1 .. Len(bs), NEW b \in Text
  PROVE  /\ Written(bs, k, b) \in Seq(Block) /\ Grows(bs, Written(bs, k, b))
         /\ Len(Written(bs, k, b)) = Len(bs)
         /\ Written(bs, k, b)[k].live = bs[k].live
         /\ Written(bs, k, b)[k].bytes = bs[k].bytes \o b \o <<0>>
<1> DEFINE a == bs[k].bytes  c == a \o b \o <<0>>
           new == [bs[k] EXCEPT !.bytes = c]
           cs == [bs EXCEPT ![k] = new]
<1>1. bs[k] \in Block /\ a \in Text
  BY BlockTypes
<1>2. cs = Written(bs, k, b)
  BY DEF Written
<1> HIDE DEF a, c
<1>3. /\ c \in Text /\ Len(a) <= Len(c)
      /\ \A i \in 1 .. Len(a) : c[i] = a[i]
  <2>1. /\ a \o b \o <<0>> \in Text /\ Len(a) \in Nat /\ Len(b) \in Nat
        /\ Len(a \o b \o <<0>>) = Len(a) + Len(b) + 1
        /\ \A i \in 1 .. Len(a) : (a \o b \o <<0>>)[i] = a[i]
    BY <1>1, TextEnded
  <2>2. Len(c) = Len(a) + Len(b) + 1
    BY <2>1 DEF c
  <2>3. Len(a) <= Len(c)
    BY <2>1, <2>2
  <2> QED
    BY <2>1, <2>3 DEF c
<1>4. new \in Block /\ new.bytes = c /\ new.live = bs[k].live
  BY <1>1, <1>3 DEF Block
<1> HIDE DEF new
<1>5. /\ cs \in Seq(Block) /\ Len(cs) = Len(bs) /\ cs[k] = new
      /\ \A j \in 1 .. Len(bs) : j # k => cs[j] = bs[j]
  BY <1>4, BlockChanged
<1> HIDE DEF cs
<1>6. Grows(bs, cs)
  <2>1. ASSUME NEW j \in 1 .. Len(bs)
        PROVE  /\ cs[j].live = bs[j].live
               /\ Len(bs[j].bytes) <= Len(cs[j].bytes)
               /\ \A i \in 1 .. Len(bs[j].bytes) : cs[j].bytes[i] = bs[j].bytes[i]
    <3>1. CASE j = k
      <4>1. cs[j].bytes = c /\ bs[j].bytes = a /\ cs[j].live = bs[j].live
        BY <1>4, <1>5, <3>1 DEF a
      <4> QED
        BY <1>3, <4>1
    <3>2. CASE j # k
      BY <1>5, <3>2, BlockTypes
    <3> QED
      BY <3>1, <3>2
  <2>2. Len(bs) <= Len(cs)
    BY <1>5, BlockTypes
  <2> QED
    BY <2>1, <2>2 DEF Grows
<1> QED
  BY <1>2, <1>4, <1>5, <1>6 DEF c, a

LEMMA InternNewInv ==
  ASSUME Inv, NEW i, InternNew(i)
  PROVE  Inv'
<1> DEFINE s == strs[i].str  t == strs[i].text  b == Content(s)
<1>1. Interns(i) /\ b # <<>> /\ InPool(s) = {}
  BY DEF InternNew
<1>2. PICK o \in ArenaRoom(Len(b) + 1) :
        LET at == At(o.arena.block, Len(o.blocks[o.arena.block].bytes), Len(b))
        IN
          /\ blocks' = [o.blocks EXCEPT ![o.arena.block].bytes = @ \o b \o <<0>>]
          /\ arena' = o.arena
          /\ pool' = Append(pool, at)
          /\ Makes(at, t)
          /\ risks' = IF o.moved THEN risks \cup {"moved"} ELSE risks
  BY DEF InternNew
<1>3. ended' = ended
  BY DEF InternNew
<1>4. Usable(i)
  BY <1>1 DEF Interns
<1>5. b \in Text /\ t \in Text /\ StandFor(b, t, risks)
  BY <1>4, UsableFacts, UsableStands
<1>6. /\ blocks \in Seq(Block) /\ strs \in Seq(Value) /\ pool \in Seq(Long)
      /\ risks \subseteq Risks /\ ended \in BOOLEAN
  BY InvTypes
<1>7. \A p \in DOMAIN pool : Content(pool[p]) # b /\ Content(pool[p]) = ContentIn(blocks, pool[p])
  BY <1>1, ContentsHere DEF InPool
<1> HIDE DEF b, t
<1>8. Len(b) \in Nat /\ Len(b) + 1 \in Nat \ {0} /\ Len(b) > 0
  <2>1. Len(b) \in Nat
    BY <1>5, TextTypes
  <2>2. Len(b) # 0
    BY <1>1, <1>5, NoText
  <2> QED
    BY <2>1, <2>2
<1>0. PICK bs, k : bs = o.blocks /\ k = o.arena.block
  OBVIOUS
<1> DEFINE n == Len(bs[k].bytes)
           cs == Written(bs, k, b)
           at == At(k, n, Len(b))  x == [str |-> at, text |-> t]
<1>9. /\ bs \in Seq(Block) /\ Len(blocks) <= Len(bs)
      /\ o.arena \in [block : Nat, cap : Nat]
      /\ k \in 1 .. Len(bs) /\ bs[k].live
      /\ n + (Len(b) + 1) <= o.arena.cap
      /\ o.moved \in BOOLEAN
      /\ ~ o.moved => Grows(blocks, bs)
      /\ o.moved => Loses(blocks, bs)
  BY <1>0, <1>8, RoomFacts
<1>10. /\ blocks' = cs /\ arena' = o.arena /\ pool' = Append(pool, at)
       /\ strs' = Append(strs, x) /\ seen' = Nothing
       /\ risks' = IF o.moved THEN risks \cup {"moved"} ELSE risks
  BY <1>0, <1>2 DEF Makes, Written
<1>11. /\ cs \in Seq(Block) /\ Len(cs) = Len(bs) /\ Grows(bs, cs)
       /\ cs[k].live = bs[k].live /\ n \in Nat
       /\ Len(cs[k].bytes) = n + Len(b) + 1
       /\ \A j \in 1 .. Len(b) : cs[k].bytes[n + j] = b[j]
       /\ cs[k].bytes[n + Len(b) + 1] = 0
  <2>1. /\ cs \in Seq(Block) /\ Grows(bs, cs) /\ Len(cs) = Len(bs)
        /\ cs[k].live = bs[k].live
        /\ cs[k].bytes = bs[k].bytes \o b \o <<0>>
    BY <1>5, <1>9, WrittenFacts
  <2>2. bs[k].bytes \in Text
    BY <1>9, BlockTypes
  <2>3. PICK a \in Text : a = bs[k].bytes
    BY <2>2
  <2>4. PICK c : c = a \o b \o <<0>>
    OBVIOUS
  <2>5. /\ Len(a) \in Nat /\ Len(c) = Len(a) + Len(b) + 1
        /\ \A j \in 1 .. Len(b) : c[Len(a) + j] = b[j]
        /\ c[Len(a) + Len(b) + 1] = 0
    BY <1>5, <2>4, TextEnded
  <2>6. n = Len(a) /\ cs[k].bytes = c
    BY <2>1, <2>3, <2>4
  <2> HIDE DEF cs, n
  <2> QED
    BY <2>1, <2>5, <2>6
<1> HIDE DEF cs, n
<1>12. /\ at \in Long /\ at.kind = "long" /\ at.block = k /\ at.off = n
       /\ at.len = Len(b) /\ k \in Nat /\ k # 0 /\ k \in 0 .. Len(cs)
  <2>1. Len(bs) \in Nat
    BY <1>9, BlockTypes
  <2>2. k \in Nat /\ k # 0 /\ k \in 0 .. Len(cs)
    BY <1>9, <1>11, <2>1
  <2> QED
    BY <1>8, <1>11, <2>2 DEF At, Long
<1>13. x \in Value /\ x.str = at /\ x.text = t
  BY <1>5, <1>12 DEF Value, Str
<1> HIDE DEF n, cs, at, x
<1>14. Inside(cs, at) /\ AliveIn(cs, at)
  <2>1. at.off + at.len <= Len(cs[at.block].bytes)
    BY <1>8, <1>11, <1>12
  <2>2. Inside(cs, at)
    BY <1>12, <2>1 DEF Inside
  <2>3. AliveIn(cs, at)
    BY <1>9, <1>11, <1>12 DEF AliveIn
  <2> QED
    BY <2>2, <2>3
<1>15. at \in Str /\ ContentIn(cs, at) = b
  <2>1. at \in Str
    BY <1>12 DEF Str
  <2>2. /\ ContentIn(cs, at) \in Text /\ Len(ContentIn(cs, at)) = Len(b)
        /\ \A j \in 1 .. Len(b) : ContentIn(cs, at)[j] = cs[k].bytes[n + j]
    <3>1. at.kind # "small"
      BY <1>12
    <3>2. /\ ContentIn(cs, at) \in Text /\ Len(ContentIn(cs, at)) = at.len
          /\ \A j \in 1 .. at.len :
               ContentIn(cs, at)[j] = cs[at.block].bytes[at.off + j]
      BY <1>11, <1>14, <2>1, <3>1, ContentIsText
    <3> QED
      BY <1>12, <3>2
  <2>3. \A j \in 1 .. Len(b) : ContentIn(cs, at)[j] = b[j]
    BY <1>11, <2>2
  <2> QED
    BY <1>5, <2>1, <2>2, <2>3, SeqEqual DEF Text
<1>16. /\ risks \subseteq risks' /\ risks' \subseteq Risks
       /\ "moved" \notin risks' => ~ o.moved /\ "moved" \notin risks
  BY <1>6, <1>9, <1>10 DEF Risks
<1>17. Grows(blocks, cs) \/ ("moved" \in risks' /\ Loses(blocks, cs))
  <2>1. CASE o.moved
    BY <1>6, <1>9, <1>10, <1>11, <2>1, GrowsOn
  <2>2. CASE ~ o.moved
    BY <1>6, <1>9, <1>11, <2>2, GrowsOn
  <2> QED
    BY <2>1, <2>2
<1>18. Faithful(cs, x, risks')
  <2>1. StandFor(b, t, risks')
    BY <1>5, <1>16 DEF StandFor
  <2> QED
    BY <1>12, <1>13, <1>14, <1>15, <2>1 DEF Faithful, StandFor
<1>19. Entry(cs, at, risks')
  <2>1. n + Len(b) + 1 \in 1 .. Len(cs[k].bytes)
    BY <1>8, <1>11
  <2> QED
    BY <1>8, <1>11, <1>12, <1>14, <2>1 DEF Entry
<1>20. TypeOK'
  <2>1. Append(strs, x) \in Seq(Value) /\ Append(pool, at) \in Seq(Long)
    BY <1>6, <1>12, <1>13
  <2>2. Nothing \in Seen
    BY DEF Nothing, Seen
  <2> QED
    BY <1>3, <1>6, <1>9, <1>10, <1>11, <1>16, <2>1, <2>2 DEF TypeOK, Value
<1>21. \A j \in DOMAIN Literals : Faithful(cs, LiteralStr(j), risks')
  BY <1>6, <1>11, <1>16, <1>17, FaithfulKept DEF Inv
<1>22. ASSUME NEW j \in DOMAIN strs'
       PROVE  Faithful(cs, strs'[j], risks')
  <2>1. CASE j \in DOMAIN strs
    <3>1. strs'[j] = strs[j]
      BY <1>6, <1>10, <1>13, <2>1
    <3>2. Faithful(blocks, strs[j], risks)
      BY <2>1 DEF Inv
    <3> QED
      BY <1>6, <1>11, <1>16, <1>17, <3>1, <3>2, FaithfulKept
  <2>2. CASE j \notin DOMAIN strs
    <3>1. strs'[j] = x
      BY <1>6, <1>10, <1>13, <2>2
    <3> QED
      BY <1>18, <3>1
  <2> QED
    BY <2>1, <2>2
<1>23. \A p \in DOMAIN pool' :
         \/ p \in DOMAIN pool /\ pool'[p] = pool[p]
         \/ p = Len(pool) + 1 /\ pool'[p] = at
  BY <1>6, <1>10, <1>12
<1>24. ASSUME NEW p \in DOMAIN pool'
       PROVE  Entry(cs, pool'[p], risks')
  <2>1. CASE p \in DOMAIN pool /\ pool'[p] = pool[p]
    <3>1. Entry(blocks, pool[p], risks)
      BY <2>1 DEF Inv
    <3> QED
      BY <1>6, <1>11, <1>16, <1>17, <2>1, <3>1, EntryKept
  <2>2. CASE p = Len(pool) + 1 /\ pool'[p] = at
    BY <1>19, <2>2
  <2> QED
    BY <1>23, <2>1, <2>2
<1>25. ASSUME "moved" \notin risks'
       PROVE  Apart(cs, pool')
  <2>1. Apart(blocks, pool) /\ "moved" \notin risks /\ Grows(blocks, cs)
    BY <1>16, <1>17, <1>25 DEF Inv
  <2>2. \A p \in DOMAIN pool : ContentIn(cs, pool[p]) = ContentIn(blocks, pool[p])
    BY <1>6, <1>11, <2>1, EntryContent DEF Inv
  <2>3. ASSUME NEW p \in DOMAIN pool', NEW q \in DOMAIN pool',
               ContentIn(cs, pool'[p]) = ContentIn(cs, pool'[q])
        PROVE  p = q
    <3>1. CASE p \in DOMAIN pool /\ pool'[p] = pool[p]
      <4>1. CASE q \in DOMAIN pool /\ pool'[q] = pool[q]
        BY <2>1, <2>2, <2>3, <3>1, <4>1 DEF Apart
      <4>2. CASE pool'[q] = at
        BY <1>7, <1>15, <2>2, <2>3, <3>1, <4>2
      <4> QED
        BY <1>23, <4>1, <4>2
    <3>2. CASE p = Len(pool) + 1 /\ pool'[p] = at
      <4>1. CASE q \in DOMAIN pool /\ pool'[q] = pool[q]
        BY <1>7, <1>15, <2>2, <2>3, <3>2, <4>1
      <4>2. CASE q = Len(pool) + 1 /\ pool'[q] = at
        BY <3>2, <4>2
      <4> QED
        BY <1>23, <4>1, <4>2
    <3> QED
      BY <1>23, <3>1, <3>2
  <2> QED
    BY <2>3 DEF Apart
<1>26. ArenaSound(cs, o.arena)
  <2>1. Len(cs[k].bytes) <= o.arena.cap
    <3>1. n + Len(b) + 1 = n + (Len(b) + 1)
      BY <1>8, <1>11
    <3> QED
      BY <1>9, <1>11, <3>1
  <2> QED
    BY <1>0, <1>9, <1>11, <1>12, <2>1 DEF ArenaSound
<1>27. SeenAsTexts'
  BY <1>10 DEF SeenAsTexts, Nothing
<1>28. /\ blocks' = cs /\ arena' = o.arena
  BY <1>10
<1> QED
  BY <1>20, <1>21, <1>22, <1>24, <1>25, <1>26, <1>27, <1>28
     DEF Inv, Faithful, Entry, Apart, ArenaSound, LiteralStr, Value

LEMMA StutterInv ==
  ASSUME Inv, UNCHANGED strVars
  PROVE  Inv'
<1>1. /\ blocks' = blocks /\ strs' = strs /\ pool' = pool /\ arena' = arena
      /\ seen' = seen /\ ended' = ended /\ risks' = risks
  BY DEF strVars
<1>2. TypeOK'
  BY <1>1 DEF Inv, TypeOK
<1>3. SeenAsTexts'
  BY <1>1 DEF Inv, SeenAsTexts
<1> QED
  BY <1>1, <1>2, <1>3 DEF Inv, Faithful, Entry, Apart, ArenaSound, LiteralStr, Value

LEMMA NextInv == ASSUME Inv, [Next]_strVars PROVE Inv'
<1>1. ASSUME NEW k \in DOMAIN Literals, Literal(k)
      PROVE  Inv'
  BY <1>1, LiteralInv
<1>2. ASSUME NEW i \in DOMAIN strs, NEW j \in DOMAIN strs,
             Concat(i, j) \/ Equals(i, j)
      PROVE  Inv'
  BY <1>2, ConcatInv, EqualsInv
<1>3. ASSUME NEW i \in DOMAIN strs, NEW start \in 0 .. MaxLen,
             NEW end \in 0 .. MaxLen, Slice(i, start, end)
      PROVE  Inv'
  <2>1. start \in Nat /\ end \in Nat
    OBVIOUS
  <2> QED
    BY <1>3, <2>1, SliceInv
<1>4. ASSUME NEW i \in DOMAIN strs,
             ThroughArray(i) \/ ForIn(i) \/ InternEmpty(i) \/ InternFound(i)
               \/ InternNew(i) \/ InternAborts(i)
      PROVE  Inv'
  BY <1>4, ThroughArrayInv, ForInInv, InternEmptyInv, InternFoundInv,
     InternNewInv, InternAbortsInv
<1>5. CASE Next
  BY <1>1, <1>2, <1>3, <1>4, <1>5 DEF Next
<1>6. CASE UNCHANGED strVars
  BY <1>6, StutterInv
<1> QED
  BY <1>5, <1>6

LEMMA InvHolds == Spec => []Inv
<1>1. Init => Inv
  BY InitInv
<1>2. Inv /\ [Next]_strVars => Inv'
  BY NextInv
<1> QED
  BY <1>1, <1>2, PTL DEF Spec

-------------------------------------------------------------------------------
(***************************************************************************)
(* What holds of a program's strs.                                         *)
(***************************************************************************)
(* Whatever was put together, cut and interned, and wherever the copies    *)
(* are, a str is read as the text it stands for, at its length.            *)
THEOREM ValuesAreKept == Spec => []ValuesKept
<1>1. ASSUME Inv
      PROVE  ValuesKept
  <2>1. \A i \in DOMAIN strs : Faithful(blocks, strs[i], risks)
    BY <1>1 DEF Inv
  <2>2. TextsKept
    BY <2>1, ContentsHere DEF TextsKept, Faithful, Losses
  <2>3. LengthsKept
    BY <2>1 DEF LengthsKept, Faithful
  <2> QED
    BY <2>2, <2>3 DEF ValuesKept
<1> QED
  BY <1>1, InvHolds, PTL

(* The pool has one entry for a text, alive and terminated until the arena *)
(* moves, and what is written to the arena is within its capacity.         *)
THEOREM PoolIsSound == Spec => []PoolSound
<1>1. ASSUME Inv
      PROVE  PoolSound
  <2>1. InternedOnce
    <3>1. ASSUME "moved" \notin risks, NEW p \in DOMAIN pool
          PROVE  /\ Alive(pool[p])
                 /\ pool[p].off + pool[p].len + 1 \in DOMAIN blocks[pool[p].block].bytes
                 /\ blocks[pool[p].block].bytes[pool[p].off + pool[p].len + 1] = 0
                 /\ \A q \in DOMAIN pool :
                      Content(pool[p]) = Content(pool[q]) => p = q
      <4>1. Entry(blocks, pool[p], risks) /\ Apart(blocks, pool)
        BY <1>1, <3>1 DEF Inv
      <4> DEFINE end == pool[p].off + pool[p].len + 1
      <4>2. /\ AliveIn(blocks, pool[p])
            /\ end \in 1 .. Len(blocks[pool[p].block].bytes)
            /\ blocks[pool[p].block].bytes[end] = 0
            /\ pool[p].block # 0 /\ Inside(blocks, pool[p])
            /\ pool[p].kind = "long"
        BY <3>1, <4>1 DEF Entry, Long
      <4>3. DOMAIN blocks[pool[p].block].bytes = 1 .. Len(blocks[pool[p].block].bytes)
        <5>1. blocks \in Seq(Block)
          BY <1>1, InvTypes
        <5>2. pool[p].block \in 0 .. Len(blocks) /\ Len(blocks) \in Nat
          BY <4>2, <5>1, BlockTypes DEF Inside
        <5>3. pool[p].block \in 1 .. Len(blocks)
          BY <4>2, <5>2
        <5>4. blocks[pool[p].block].bytes \in Text
          BY <5>1, <5>3, BlockTypes
        <5> QED
          BY <5>4, TextTypes
      <4> HIDE DEF end
      <4>4. /\ Alive(pool[p]) /\ end \in DOMAIN blocks[pool[p].block].bytes
            /\ blocks[pool[p].block].bytes[end] = 0
        BY <4>2, <4>3, ContentsHere
      <4>5. \A q \in DOMAIN pool : Content(pool[p]) = Content(pool[q]) => p = q
        BY <4>1, ContentsHere DEF Apart
      <4> QED
        BY <4>4, <4>5 DEF end
    <3> QED
      BY <3>1 DEF InternedOnce
  <2>2. InternFits
    BY <1>1 DEF Inv, ArenaSound, InternFits
  <2>3. TypeOK
    BY <1>1 DEF Inv
  <2> QED
    BY <2>1, <2>2, <2>3 DEF PoolSound
<1> QED
  BY <1>1, InvHolds, PTL

(* Two strs of one text are never told apart, two of different texts are   *)
(* unless by their pointer words alone, and a loop visits the text of a    *)
(* str that does not hold it in itself.                                    *)
THEOREM StrsSeenAsTexts == Spec => []SeenAsTexts
<1>1. Inv => SeenAsTexts
  BY DEF Inv
<1> QED
  BY <1>1, InvHolds, PTL
===============================================================================
