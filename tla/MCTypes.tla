------------------------------ MODULE MCTypes ------------------------------
EXTENDS Types

Item(kind, name, fields) == [kind |-> kind, name |-> name, fields |-> fields]

I8 == Prim("i8")
I64 == Prim("i64")
A == Named("A")
B == Named("B")

\* Structs and unions inside each other, by value and by pointer.
Values ==
  {Item("struct", "A", f) :
     f \in {<<I8, I64>>, <<B>>, <<Array(B, 2)>>, <<I8, Ptr(B)>>}}
  \cup {Item("struct", "B", f) : f \in {<<I64, I8>>, <<A>>}}
  \cup {Item("union", "B", f) : f \in {<<I8, I64>>, <<A, I8>>}}
  \cup {Item("use", "", <<e>>) :
          e \in {Either(A, I8), Either(I8, I64), Array(A, 2)}}

\* Templates of the program and Array, in each other, and structs whose names
\* read like instances.
Generics ==
  {Item("template", "Box", f) :
     f \in {<<Hole>>, <<Ptr(Hole), Hole>>, <<Array(Hole, 0)>>, <<Star(Hole)>>}}
  \cup {Item("struct", "Box_i8", <<I64>>),
        Item("struct", "Array_i8", <<Generic("Box", I8)>>)}
  \cup {Item("use", "", <<e>>) :
          e \in {Generic("Box", I8), Generic("Box", I64), Array(I8, 0),
                 Array(I8, 2), Generic("Box", Array(I64, 0)),
                 Generic("Box", Array(I8, 0)), Ptr(Generic("Box", I8)),
                 Either(Generic("Box", I64), I8)}}

\* Errors and results.
Errors ==
  {Item("error", "A", f) :
     f \in {<<I8, I64>>, <<Prim("str")>>, <<Ptr(Prim("char"))>>,
            <<B>>, <<I64, Ptr(I8)>>}}
  \cup {Item("struct", "B", <<I64>>), Item("error", "B", <<I8>>)}
  \cup {Item("use", "", <<e>>) :
          e \in {OrError(I8, A), OrError(B, A), OrError(I8, AnyError),
                 OrError(Prim("void"), A), Ptr(OrError(I8, A)),
                 Either(A, I8)}}

\* Strings inside structs and unions.
Strings ==
  {Item("struct", "A", f) :
     f \in {<<StringBuffer, I8>>, <<B, StringBuffer>>, <<Ptr(B)>>,
            <<OrError(StringBuffer, Named("E")), B>>}}
  \cup {Item("struct", "B", f) : f \in {<<StringBuffer>>, <<A>>}}
  \cup {Item("union", "B", f) : f \in {<<A, I8>>, <<StringBuffer, I8>>}}
  \cup {Item("use", "", <<e>>) :
          e \in {Either(A, I8), Ptr(Either(A, StringBuffer)),
                 Array(StringBuffer, 0)}}

MCFamilies == <<Values, Generics, Errors, Strings>>
MCWordsOf == [Box_i8 |-> <<"Box", "i8">>, Array_i8 |-> <<"Array", "i8">>]
MCPrims == <<"i8", "char", "i64", "str", "void">>
=============================================================================
