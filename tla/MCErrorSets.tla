---------------------------- MODULE MCErrorSets ----------------------------
(***************************************************************************)
(* Instances of ErrorSets: two functions with up to two statements each,   *)
(* and a third that asks about their results.                              *)
(***************************************************************************)
EXTENDS ErrorSets

Both == {"A", "B"}
NamedSets == [S |-> <<"B", "A">>]

Raises == [op : {"raise"}, err : Both]
HandsOn(fns) == [op : {"forward", "ask"}, fn : fns]
Bodies(fns) ==
  LET statements == Raises \cup HandsOn(fns) IN
  {<<>>} \cup {<<s>> : s \in statements}
         \cup {<<s, t>> : s \in statements, t \in statements}
Functions(fns) == [result : {"Error", "S"}, body : Bodies(fns)]

Tests(f, g) == [op : {"test"}, fn : {f, g}, err : Both]
Reuses(f, g) == [op : {"reuse"}, fn : {f, g}, by : {f, g}, err : Both]
Askers(asks) == [result : {"Error"}, body : {<<s>> : s \in asks}]

MCPrograms ==
  Functions({1, 2}) \X Functions({1, 2})
    \X Askers(Tests(1, 2) \cup Reuses(1, 2))

=============================================================================
