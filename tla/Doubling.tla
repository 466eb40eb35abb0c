-------------------------------- MODULE Doubling --------------------------------
(***************************************************************************)
(* The loops that double a capacity until it suffices, in the arenas, in   *)
(* String buffers and in the intern arena (runtime.c).                     *)
(***************************************************************************)
EXTENDS Integers

IsDoubled(cap, c) == \E k \in 1 .. (c \div cap) - 1 : c = cap * 2 ^ k

(* For need > cap: of the capacities that suffice, the one that is cap     *)
(* doubled and less than twice what is needed.                             *)
Grown(cap, need) ==
  CHOOSE c \in need .. 2 * need - 1 :
    \A d \in need .. 2 * need - 1 : IsDoubled(cap, d) => IsDoubled(cap, c)
===============================================================================
