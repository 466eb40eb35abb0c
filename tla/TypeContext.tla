---------------------------- MODULE TypeContext ----------------------------
(***************************************************************************)
(* The type context of src/shared/type.c: the one table of types that the  *)
(* parser, the analysis and the code generator of every module of a        *)
(* program share. A type is an index into ctx.types, so that identity of   *)
(* the C pointers is equality of the indices.                              *)
(*                                                                         *)
(* Every getter answers [ctx, type]: the context after the call and the    *)
(* type it hands back. The C union `data` is the pair from/parts: parts is *)
(* the target of a pointer, the success type and the error set of a        *)
(* result, or the arguments of an instance of the template `from`.         *)
(***************************************************************************)
EXTENDS Integers, SequencesExt, FiniteSetsExt

None == 0

\* A type with the given kind and name, all the rest zero (xcalloc).
Blank(kind, name) ==
  [kind |-> kind, name |-> name, from |-> None, parts |-> <<>>, len |-> 0,
   members |-> <<>>, size |-> 0, align |-> 0, tagged |-> FALSE,
   drop |-> FALSE, drops |-> {}]

Member(name, type) == [name |-> name, type |-> type]

Got(ctx, t) == [ctx |-> ctx, type |-> t]

Made(ctx, list, rec) ==
  Got([ctx EXCEPT !.types = Append(@, rec),
                  ![list] = Append(@, Len(ctx.types) + 1)],
      Len(ctx.types) + 1)

First(s, Test(_)) ==
  LET i == SelectInSeq(s, Test) IN IF i = 0 THEN None ELSE s[i]

\* The first type of a list that is one of the same, or a new one.
Interned(ctx, list, same, rec) ==
  LET t == First(ctx[list], LAMBDA u : u \in same)
  IN  IF t # None THEN Got(ctx, t) ELSE Made(ctx, list, rec)

-----------------------------------------------------------------------------
\* Layout.

PrimSize ==
  [i8 |-> 1, char |-> 1, bool |-> 1, i32 |-> 4, i64 |-> 8, str |-> 16,
   void |-> 0, unknown |-> 0]

align_to(value, align) ==
  IF align = 0 THEN value ELSE ((value + align - 1) \div align) * align

AlignOf(rec) ==
  IF rec.align # 0 THEN rec.align
  ELSE IF rec.size # 0 THEN rec.size ELSE 1

MemberAlign(types, members) ==
  Max({1} \cup {AlignOf(types[members[i].type]) : i \in DOMAIN members})

\* The end of the last of the members laid out one after the other.
FieldsEnd(types, members) ==
  FoldLeft(LAMBDA at, m : align_to(at, AlignOf(types[m.type]))
                            + types[m.type].size,
           0, members)

StructSize(types, members) ==
  align_to(FieldsEnd(types, members), MemberAlign(types, members))

\* Mutant: the last member decides.
LastSize(types, members) == types[Last(members).type].size

UnionSize(types, members) ==
  align_to(Max({0} \cup {types[members[i].type].size : i \in DOMAIN members}),
           MemberAlign(types, members))

-----------------------------------------------------------------------------
\* Equality.

RECURSIVE type_equals(_, _, _)
type_equals(types, a, b) ==
  LET x == types[a]
      y == types[b]
  IN  \/ a = b
      \/ /\ x.kind = y.kind
         /\ CASE x.kind \in {"pointer", "result"} ->
                   \A i \in DOMAIN x.parts :
                     type_equals(types, x.parts[i], y.parts[i])
              [] x.kind \in {"struct", "union", "error"} ->
                   x.name = y.name /\ x.from = y.from /\ x.len = y.len
              [] x.kind = "error_set" -> x.name # "" /\ x.name = y.name
              [] x.kind = "template" ->
                   x.name = y.name /\ x.parts = y.parts
              [] OTHER -> FALSE

-----------------------------------------------------------------------------
\* Getters that hand back one type for one meaning.

\* Mutant: a new type each time.
NewPointer(ctx, to) ==
  Made(ctx, "instances", [Blank("pointer", "") EXCEPT
                            !.parts = <<to>>, !.size = 8, !.align = 8])

type_get_pointer(ctx, to) ==
  Interned(ctx, "instances",
           {t \in DOMAIN ctx.types : ctx.types[t].kind = "pointer"
                                     /\ ctx.types[t].parts = <<to>>},
           [Blank("pointer", "") EXCEPT
              !.parts = <<to>>, !.size = 8, !.align = 8])

type_get_result(ctx, success, errors) ==
  Interned(ctx, "instances",
           {t \in DOMAIN ctx.types :
              ctx.types[t].kind = "result"
              /\ ctx.types[t].parts = <<success, errors>>},
           [Blank("result", "") EXCEPT !.parts = <<success, errors>>])

type_get_error_set_anonymous(ctx) ==
  Made(ctx, "instances", Blank("error_set", ""))

type_get_named(ctx, name) ==
  First(ctx.structs \o ctx.templates, LAMBDA t : ctx.types[t].name = name)

type_get_template(ctx, name) ==
  First(ctx.templates, LAMBDA t : ctx.types[t].name = name)

type_get_struct(ctx, name) ==
  LET t == type_get_named(ctx, name)
  IN  IF t # None THEN Got(ctx, t)
      ELSE Made(ctx, "structs", Blank("struct", name))

\* A name the parser met before its declaration is an empty struct, and
\* becomes what the declaration says.
Claimed(ctx, kind, name) ==
  LET t == type_get_named(ctx, name)
  IN  IF t = None THEN Made(ctx, "structs", Blank(kind, name))
      ELSE IF ctx.types[t].kind = "struct" /\ ctx.types[t].members = <<>>
      THEN Got([ctx EXCEPT !.types[t].kind = kind], t)
      ELSE Got(ctx, t)

type_get_union(ctx, name) == Claimed(ctx, "union", name)
type_get_error(ctx, name) == Claimed(ctx, "error", name)
type_get_error_set(ctx, name) == Claimed(ctx, "error_set", name)

\* Mutant: the arguments are only counted.
SameCount(types, s, u) == Len(s) = Len(u)

SameParts(types, s, u) ==
  Len(s) = Len(u) /\ \A i \in DOMAIN s : type_equals(types, s[i], u[i])

MemberTypes(rec) == [i \in DOMAIN rec.members |-> rec.members[i].type]

type_get_union_anonymous(ctx, parts) ==
  LET members == [i \in DOMAIN parts |-> Member("", parts[i])]
  IN  Interned(ctx, "instances",
        {t \in DOMAIN ctx.types :
           /\ ctx.types[t].kind = "union"
           /\ SameParts(ctx.types, MemberTypes(ctx.types[t]), parts)},
        [Blank("union", "<anonymous union>") EXCEPT
           !.members = members, !.tagged = TRUE,
           !.align = MemberAlign(ctx.types, members),
           !.size = UnionSize(ctx.types, members)])

-----------------------------------------------------------------------------
\* Generic types.

RECURSIVE resolve_placeholder(_, _, _, _),
          type_get_instance_fixed(_, _, _, _)

\* Several blueprints one after the other: [ctx, all], all in order.
ResolvedAll(ctx, blueprints, holes, args) ==
  FoldLeft(LAMBDA acc, t :
             LET r == resolve_placeholder(acc.ctx, t, holes, args)
             IN  [ctx |-> r.ctx, all |-> Append(acc.all, r.type)],
           [ctx |-> ctx, all |-> <<>>], blueprints)

\* A pointer or an instance whose parts have become others; an array of
\* fixed length inside a template comes back without its length.
Rebuilt(inner, rec, t) ==
  IF inner.all = rec.parts THEN Got(inner.ctx, t)
  ELSE IF rec.kind = "pointer" THEN type_get_pointer(inner.ctx, inner.all[1])
  ELSE type_get_instance_fixed(inner.ctx, rec.from, inner.all, 0)

resolve_placeholder(ctx, t, holes, args) ==
  LET rec == ctx.types[t]
  IN  CASE rec.kind = "template" /\ Contains(holes, rec.name) ->
             Got(ctx, args[SelectInSeq(holes, LAMBDA h : h = rec.name)])
        [] rec.kind = "pointer" \/ (rec.kind = "struct" /\ rec.from # None) ->
             Rebuilt(ResolvedAll(ctx, rec.parts, holes, args), rec, t)
        [] OTHER -> Got(ctx, t)

\* A new instance, its members' types resolved.
NewInstance(inner, template, args, len) ==
  LET rec == inner.ctx.types[template]
      members == [i \in DOMAIN rec.members |->
                    [rec.members[i] EXCEPT !.type = inner.all[i]]]
  IN  Made(inner.ctx, "instances",
        [Blank("struct", rec.name) EXCEPT
           !.from = template, !.parts = args, !.len = len,
           !.members = members,
           !.align = MemberAlign(inner.ctx.types, members),
           !.size = StructSize(inner.ctx.types, members)])

type_get_instance_fixed(ctx, template, args, len) ==
  LET rec == ctx.types[template]
      known == First(ctx.instances, LAMBDA t :
                 /\ ctx.types[t].kind = "struct"
                 /\ ctx.types[t].from = template
                 /\ ctx.types[t].len = len
                 /\ SameParts(ctx.types, ctx.types[t].parts, args))
  IN  IF known # None THEN Got(ctx, known)
      ELSE NewInstance(ResolvedAll(ctx, MemberTypes(rec), rec.parts, args),
                       template, args, len)

type_get_instance(ctx, template, args) ==
  type_get_instance_fixed(ctx, template, args, 0)

type_get_array(ctx, elem, len) ==
  type_get_instance_fixed(ctx, type_get_template(ctx, "Array"), <<elem>>, len)

type_add_member(ctx, t, name, type) ==
  [ctx EXCEPT !.types[t].members = Append(@, Member(name, type))]

type_get_member(rec, name) ==
  SelectInSeq(rec.members, LAMBDA m : m.name # "" /\ m.name = name)

-----------------------------------------------------------------------------
\* Which types own memory that must be dropped.

RECURSIVE NeedsDrop(_, _, _)
\* type_needs_drop_recursive: the flags after the walk and its answer. A type
\* that is being visited answers with the flag it has.
NeedsDrop(types, t, stack) ==
  LET rec == types[t]
      walk == FoldLeft(LAMBDA acc, m :
                IF acc.drop THEN acc
                ELSE NeedsDrop(acc.types, m.type, Append(stack, t)),
                [types |-> types, drop |-> FALSE], rec.members)
  IN  IF Contains(stack, t) THEN [types |-> types, drop |-> rec.drop]
      ELSE IF rec.kind = "string_buffer"
      THEN [types |-> [types EXCEPT ![t].drop = TRUE], drop |-> TRUE]
      ELSE IF rec.kind \in {"struct", "union"}
      THEN [types |-> [walk.types EXCEPT ![t].drop = walk.drop],
            drop |-> walk.drop]
      ELSE [types |-> types, drop |-> rec.drop]

type_refresh_single(types, t) ==
  LET self == NeedsDrop(types, t, <<>>)
      members == types[t].members
      fields == FoldLeft(LAMBDA acc, i :
                  LET r == NeedsDrop(acc.types, members[i].type, <<>>)
                  IN  [types |-> r.types,
                       drops |-> IF r.drop THEN acc.drops \cup {i}
                                 ELSE acc.drops],
                  [types |-> self.types, drops |-> {}],
                  [i \in DOMAIN members |-> i])
  IN  IF self.drop /\ types[t].kind = "struct"
      THEN [fields.types EXCEPT ![t].drops = fields.drops]
      ELSE [self.types EXCEPT ![t].drops = {}]

\* Mutant: the instances are left out.
RefreshDeclared(ctx) ==
  [ctx EXCEPT !.types = FoldLeft(type_refresh_single, @, ctx.structs)]

type_refresh_drop_metadata(ctx) ==
  [ctx EXCEPT !.types =
     FoldLeft(type_refresh_single, @,
              ctx.prims \o <<ctx.string_buffer>> \o ctx.templates
                \o ctx.instances \o ctx.structs)]

-----------------------------------------------------------------------------
\* The context a compilation starts with: the primitives in use, the
\* templates Array and Slice, and String.
type_context_create(prims) ==
  LET n == Len(prims)
      prim(i) == [Blank("primitive", prims[i]) EXCEPT
                    !.size = PrimSize[prims[i]],
                    !.align = IF prims[i] = "str" THEN 8
                              ELSE PrimSize[prims[i]]]
      i64 == SelectInSeq(prims, LAMBDA p : p = "i64")
      data(hole) == [Blank("pointer", "") EXCEPT
                       !.parts = <<hole>>, !.size = 8]
      generic(name, members, size) ==
        [Blank("template", name) EXCEPT
           !.parts = <<"T">>, !.members = members, !.size = size]
  IN  [types |->
         [i \in 1 .. n |-> prim(i)] \o
         << Blank("template", "T"), data(n + 1),
            generic("Array", <<Member("data", n + 2), Member("len", i64),
                               Member("cap", i64)>>, 24),
            Blank("template", "T"), data(n + 4),
            generic("Slice", <<Member("data", n + 5), Member("len", i64)>>,
                    16),
            [Blank("string_buffer", "String") EXCEPT
               !.size = 24, !.align = 8, !.drop = TRUE] >>,
       prims |-> [i \in 1 .. n |-> i],
       string_buffer |-> n + 7,
       structs |-> <<>>,
       templates |-> <<n + 3, n + 6>>,
       instances |-> <<>>]

type_get_primitive(ctx, prim) ==
  First(ctx.prims, LAMBDA t : ctx.types[t].name = prim)
=============================================================================
