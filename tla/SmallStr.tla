-------------------------------- MODULE SmallStr --------------------------------
(***************************************************************************)
(* A str of few bytes is kept in its own two words (runtime.c): the first  *)
(* bytes of the text in the pointer word below its tag, the others in the  *)
(* length word above the length.  Bytes of a word are numbered from the    *)
(* least significant.                                                      *)
(***************************************************************************)
EXTENDS Integers, Sequences

CONSTANTS
  WordBytes,    \* bytes of a word (8)
  SsoMax,       \* TYNA_SSO_MAX_LEN (15)
  Base          \* the values of a byte (256)

ASSUME SmallStrAssumption ==
  /\ WordBytes \in Nat \ {0, 1}
  /\ Base \in Nat
  /\ SsoMax \in 1 .. 2 * WordBytes - 1
  /\ SsoMax <= Base

Byte == 0 .. Base - 1
Text == Seq(Byte)

(* The bytes of the pointer word that hold text; the last holds the tag.   *)
LowBytes == WordBytes - 1
Low == 1 .. LowBytes
Slots == 1 .. WordBytes
Word == [Slots -> Byte]

ByteAt(text, i) == IF i \in DOMAIN text THEN text[i] ELSE 0

(* << 8 and >> 8 of an unsigned word.                                      *)
ShiftedUp(word) == [k \in Slots |-> IF k = 1 THEN 0 ELSE word[k - 1]]
ShiftedDown(word) ==
  [k \in Slots |-> IF k = WordBytes THEN 0 ELSE word[k + 1]]

(* The length has the byte of `rest` that the shift has made free.         *)
Small == [kind : {"small"}, low : [Low -> Byte], rest : Word, len : Nat]

(* tyna_str_from_buffer, of at most SsoMax bytes.                          *)
Packed(text) ==
  [kind |-> "small",
   low  |-> [k \in Low |-> ByteAt(text, k)],
   rest |-> ShiftedUp([k \in Slots |-> ByteAt(text, LowBytes + k)]),
   len  |-> Len(text)]

(* Mutant: the length is not shifted out again.                            *)
UnpackedUnshifted(s) ==
  [i \in 1 .. s.len |-> IF i <= LowBytes THEN s.low[i] ELSE s.rest[i - LowBytes]]

(* tyna_str_sso_copy.                                                      *)
Unpacked(s) ==
  [i \in 1 .. s.len |->
     IF i <= LowBytes THEN s.low[i] ELSE ShiftedDown(s.rest)[i - LowBytes]]

(* The pointer word as a number, n added to it; what is carried out of the *)
(* bytes of text is lost in that of the tag.                               *)
Plus(low, n) ==
  LET carry(k) ==
        IF k = 1 THEN n
        ELSE IF low[1] + n >= Base /\ \A j \in 2 .. k - 1 : low[j] = Base - 1
          THEN 1 ELSE 0
  IN [k \in Low |-> (low[k] + carry(k)) % Base]

(* __tyna_str_slice adds to the pointer whatever it is, and the new length *)
(* word has nothing above the length.                                      *)
SlicedSmall(s, start, end) ==
  [kind |-> "small", low |-> Plus(s.low, start),
   rest |-> [k \in Slots |-> 0], len |-> end - start]
===============================================================================
