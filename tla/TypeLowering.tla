--------------------------- MODULE TypeLowering ---------------------------
(***************************************************************************)
(* How src/backend/cg_types.c turns the types of a context into LLVM       *)
(* types. LLVM keeps the named struct types of a program by name: llvm is  *)
(* a function from the names in use to their bodies, a body being the      *)
(* sequence of the fields' types, or Opaque while it is not set. A name    *)
(* and an LLVM type are both sequences of words; those of a name are what  *)
(* its `_` separate, so that two names are equal when their words are.     *)
(***************************************************************************)
EXTENDS TypeContext

CONSTANT
  WordsOf  \* the words of the names of the program that have a `_` in them

ASSUME WordsOfAssumption ==
  \A name \in DOMAIN WordsOf : Len(WordsOf[name]) > 1

Words(name) == IF name \in DOMAIN WordsOf THEN WordsOf[name] ELSE <<name>>

Opaque == <<<<"opaque">>>>

RECURSIVE TypeName(_, _)
\* type_to_name after cg_sanitize_type_name, which turns its punctuation into
\* single `_`: the words of Box<i8> are those of a struct called Box_i8.
TypeName(types, t) ==
  LET rec == types[t]
      name == Words(rec.name)
      parts == FlattenSeq([i \in DOMAIN rec.parts |->
                             TypeName(types, rec.parts[i])])
  IN  CASE rec.kind = "pointer" -> <<"ptr">> \o parts
        [] rec.kind = "struct" ->
             name \o parts
               \o (IF rec.len > 0 THEN <<ToString(rec.len)>> ELSE <<>>)
        [] rec.kind = "error" -> <<"error">> \o name
        [] rec.kind = "error_set" ->
             <<"errors">> \o (IF rec.name # "" THEN name ELSE
               FlattenSeq([i \in DOMAIN rec.members |->
                             TypeName(types, rec.members[i].type)]))
        [] rec.kind = "result" -> parts
        [] rec.kind = "union" /\ rec.tagged ->
             <<"union">> \o FlattenSeq([i \in DOMAIN rec.members |->
                                TypeName(types, rec.members[i].type)])
        [] rec.kind = "union" -> <<"union">> \o name
        [] OTHER -> name

\* Mutant: an instance goes by the name of its template.
TemplateName(types, t) == Words(types[t].name)

\* from_template shares its bytes with the target of a pointer and with the
\* success type of a result.
cg_get_struct_name(types, t) ==
  LET rec == types[t]
  IN  IF rec.from # None \/ rec.kind \in {"pointer", "result"}
      THEN TypeName(types, t) ELSE Words(rec.name)

\* The name cg_type_get_llvm keeps a type under.
LlvmName(types, t) ==
  LET rec == types[t]
  IN  CASE rec.kind = "primitive" -> <<"tyna", "string">>
        [] rec.kind = "union" -> <<"union">> \o Words(rec.name)
        [] rec.kind = "error_set" ->
             IF rec.name # "" THEN <<"errors">> \o Words(rec.name)
             ELSE <<"anon", "errors", ToString(t)>>
        [] rec.kind = "result" -> <<"result">> \o TypeName(types, t)
        [] rec.kind = "string_buffer" -> <<"tyna", "string", "buf">>
        [] OTHER -> cg_get_struct_name(types, t)

FixedArray(rec) ==
  rec.kind = "struct" /\ rec.name = "Array" /\ rec.len > 0

\* A primitive LLVM has itself: all but str.
Scalar(rec) == rec.kind = "primitive" /\ rec.name # "str"

Bytes(n) == <<"bytes", ToString(n)>>

RECURSIVE LlvmType(_, _)
\* The LLVM type a type is lowered to.
LlvmType(types, t) ==
  LET rec == types[t]
  IN  CASE Scalar(rec) -> <<rec.name>>
        [] rec.kind = "pointer" -> <<"ptr">>
        [] rec.kind = "template" -> <<"i8">>
        [] FixedArray(rec) ->
             <<"array", ToString(rec.len)>> \o LlvmType(types, rec.parts[1])
        [] OTHER -> <<"struct">> \o LlvmName(types, t)

\* The fields of the struct a type is kept as.
Body(types, t) ==
  LET rec == types[t]
  IN  CASE rec.kind = "union" ->
             LET payload == Bytes(IF rec.size > 0 THEN rec.size ELSE 1)
             IN  IF rec.tagged THEN << <<"i64">>, payload >>
                 ELSE <<payload>>
        [] rec.kind = "error_set" -> <<>>
        [] rec.kind = "result" ->
             LET success == LlvmType(types, rec.parts[1])
             IN  << IF success = <<"void">> THEN Bytes(0) ELSE success,
                    <<"i16">>, Bytes(46) >>
        [] rec.kind = "primitive" -> << <<"ptr">>, <<"i64">> >>
        [] rec.kind = "string_buffer" -> << <<"ptr">>, <<"i64">>, <<"i64">> >>
        [] OTHER -> [i \in DOMAIN rec.members |->
                       LlvmType(types, rec.members[i].type)]

\* The types whose lowering the lowering of a type calls for first.
Needed(rec) ==
  CASE rec.kind = "pointer" -> rec.parts
    [] FixedArray(rec) -> <<rec.parts[1]>>
    [] rec.kind = "result" -> <<rec.parts[1]>>
    [] rec.kind \in {"struct", "error"} -> MemberTypes(rec)
    [] OTHER -> <<>>

RECURSIVE cg_type_get_llvm(_, _, _, _)
\* The named types after a type has been lowered; busy is
\* struct_types_in_progress. A body is set when the name has none yet; those
\* of str and String when the name is new.
cg_type_get_llvm(types, llvm, busy, t) ==
  LET rec == types[t]
      all(map, doing) == FoldLeft(LAMBDA acc, u :
                           cg_type_get_llvm(types, acc, doing, u),
                           map, Needed(rec))
      name == LlvmName(types, t)
      created == IF name \in DOMAIN llvm THEN llvm
                 ELSE llvm @@ (name :> Opaque)
      set(map) == [map EXCEPT ![name] = Body(types, t)]
  IN  CASE Scalar(rec) \/ rec.kind = "template" -> llvm
        [] rec.kind \in {"primitive", "string_buffer"} ->
             IF name \in DOMAIN llvm THEN llvm ELSE set(created)
        [] rec.kind = "pointer" \/ FixedArray(rec) -> all(llvm, busy)
        [] created[name] # Opaque -> created
        [] rec.kind \in {"struct", "error"} ->
             IF t \in busy THEN created
             ELSE set(all(created, busy \cup {t}))
        [] OTHER -> set(all(created, busy))

RECURSIVE type_is_concrete(_, _)
type_is_concrete(types, t) ==
  LET rec == types[t]
      all(s) == \A i \in DOMAIN s : type_is_concrete(types, s[i])
  IN  CASE rec.kind = "primitive" -> rec.name # "unknown"
        [] rec.kind \in {"pointer", "result"} -> all(rec.parts)
        [] rec.kind = "struct" /\ rec.from # None ->
             all(rec.parts) /\ all(MemberTypes(rec))
        [] rec.kind \in {"struct", "union", "error_set"} ->
             rec.members # <<>>
        [] rec.kind = "template" -> FALSE
        [] OTHER -> TRUE

\* Every name first, so that bodies can mention each other; then the bodies.
cg_type_lower_structs(ctx, llvm) ==
  LET concrete == SelectSeq(ctx.instances,
                            LAMBDA t : type_is_concrete(ctx.types, t))
      names == {Words(ctx.types[t].name) : t \in ToSet(ctx.structs)}
                 \cup {cg_get_struct_name(ctx.types, t) : t \in ToSet(concrete)}
      declared == llvm @@ [n \in names |-> Opaque]
  IN  FoldLeft(LAMBDA acc, t : cg_type_get_llvm(ctx.types, acc, {}, t),
               declared,
               ctx.structs \o concrete \o <<ctx.string_buffer>>)
=============================================================================
