------------------------------ MODULE MCStrValues ------------------------------
EXTENDS StrValues

(* Two literals that agree in the byte a pointer word holds.               *)
SmallLiterals == <<<<>>, <<1, 1>>, <<1, 2>>>>
===============================================================================
