------------------------------- MODULE MCProgram -------------------------------
(***************************************************************************)
(* Programs of up to four files, two of which share the name "a".          *)
(***************************************************************************)
EXTENDS ProgramAssembly

A == <<"a">>
LibA == <<"lib", "a">>
LibB == <<"lib", "b">>

Fns(f, main) == [n \in {"f", "main"} |-> IF n = "f" THEN f ELSE main]
File(imports, fns, stmt, call, caller) ==
  [imports |-> imports, fns |-> fns, stmt |-> stmt, call |-> call,
   caller |-> caller, parses |-> TRUE]

As(path, alias, mode) == [path |-> path, alias |-> alias, mode |-> mode]
Whole(path) == As(path, Last(path), "namespace")
UpTo(n, S) == UNION {[1 .. k -> S] : k \in 0 .. n}

(* Order: any imports, renamed or not, circular or not; one branch.        *)
Renamed(paths) == {As(p, a, "namespace") : p \in paths, a \in {"a", "b", "x"}}
Kept(paths) == {i \in Renamed(paths) : i.alias \in {Last(i.path), "x"}}
Stmt(u, branch) == IF u \in branch THEN "branch" ELSE "plain"
Quiet(imports, stmt) ==
  File(imports, Fns("none", "none"), stmt, "none", "private")

OrderPrograms ==
  {(MainPath :> Quiet(m, Stmt(MainPath, b))) @@ (A :> Quiet(a, Stmt(A, b)))
     @@ (LibA :> Quiet(la, Stmt(LibA, b))) @@ (LibB :> Quiet(lb, Stmt(LibB, b)))
     : m \in UpTo(2, Kept({A, LibA, LibB})),
       a \in UpTo(1, Kept({LibA, MainPath})),
       la \in UpTo(1, Kept({<<"lib", "a">>, <<"b">>})),
       lb \in UpTo(1, Kept({<<"a">>, <<"lib", "b">>})),
       b \in {{}, {A}, {LibB}, {MainPath}}}

(* Names: what the main file, lib/a and the others declare, import, call.  *)
Modes(path, modes) == {As(path, Last(path), m) : m \in modes}
Spaces == {"namespace", "wildcard"}
Pairs(S, T) == {<<>>} \cup {<<s>> : s \in S} \cup {<<s, t>> : s \in S, t \in T}
Calls == {<<"none", "private">>, <<"own", "private">>, <<"own", "pub">>,
          <<"b", "private">>}
Declares == {Fns("none", "none"), Fns("private", "none"), Fns("pub", "none"),
             Fns("none", "private")}

Leaf(f) == File(<<>>, Fns(f, "none"), "none",
                IF f = "private" THEN "own" ELSE "none", "pub")

NamePrograms ==
  {(MainPath :> File(m, Fns(f, "private"), "none", call, "private"))
     @@ (LibA :> File(a, d, "none", c[1], c[2]))
     @@ (LibB :> Leaf(o)) @@ (A :> Leaf(o))
     : m \in Pairs(Modes(LibA, Spaces \cup {"select"}),
                   Modes(LibB, Spaces) \cup Modes(A, Spaces)),
       a \in Pairs(Modes(LibB, Spaces), {}),
       f \in {"none", "private"}, d \in Declares,
       o \in {"none", "private", "pub"},
       call \in {"own", "a", "b"}, c \in Calls}

(* Files that cannot be read (whatever is not in the program) or parsed.   *)
BrokenPrograms ==
  {(MainPath :> Quiet(m, "plain")) @@ (LibA :> Quiet(<<Whole(LibB)>>, "plain"))
     @@ (LibB :> [Quiet(<<>>, "plain") EXCEPT !.parses = FALSE])
     : m \in UpTo(2, {Whole(LibA), Whole(LibB), Whole(A)})}

(* An import with the name of the function the main file calls.            *)
AliasPrograms ==
  {(MainPath :> File(m, Fns(f, "none"), "none", "own", "private"))
     @@ (LibA :> Leaf(o))
     : m \in UpTo(2, Modes(LibA, Spaces) \cup {As(LibA, "f", "namespace")}),
       f \in {"none", "private"}, o \in {"none", "private", "pub"}}

MCFamilies == <<OrderPrograms, NamePrograms, BrokenPrograms, AliasPrograms>>
===============================================================================
