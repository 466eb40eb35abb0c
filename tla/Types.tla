------------------------------ MODULE Types ------------------------------
(***************************************************************************)
(* The life of a program's types. The parser of a module builds every type *)
(* it reads at once, out of names whose declarations it has only seen the  *)
(* text of; the definition pass of the analysis gives the declared types   *)
(* their members and sizes in the order of the text, importing other       *)
(* modules on the way, each with a parser and a definition pass of its     *)
(* own; the drop flags are refreshed at the end of every module; at last   *)
(* all types are lowered to LLVM.                                          *)
(***************************************************************************)
EXTENDS TypeLowering

CONSTANTS
  Families,    \* sequence of sets of items; a program draws from one
  PrimsInUse,  \* the primitive types, a sequence
  MaxItems,    \* bound: items in a program
  MaxModules   \* bound: modules of a program

ASSUME TypesAssumption ==
  /\ {"i64", "void"} \subseteq ToSet(PrimsInUse)
  /\ ToSet(PrimsInUse) \subseteq DOMAIN PrimSize
  /\ MaxItems \in Nat /\ MaxModules \in Nat

VARIABLES
  ctx,         \* the TypeContext
  work,        \* the modules in progress, the innermost first
  phase,       \* "front" (parser and analysis), "stopped", "back", "lowered"
  llvm,        \* the named LLVM types
  failed,      \* sema_error was called for the main file
  family,      \* the family of the program
  items,       \* the items read so far
  modules,     \* the modules begun so far
  early,       \* types laid out before what they hold by value
  redefined,   \* types given members by two declarations
  written      \* what the text means, and the type the parser built for it

vars == <<ctx, work, phase, llvm, failed, family, items, modules,
          early, redefined, written>>

NewModule == [todo |-> <<>>, scope |-> {}, parsing |-> TRUE]

Init ==
  /\ ctx = type_context_create(PrimsInUse)
  /\ work = <<NewModule>>
  /\ phase = "front"
  /\ llvm = <<>>
  /\ failed = FALSE
  /\ family \in DOMAIN Families
  /\ items = 0
  /\ modules = 1
  /\ early = {} /\ redefined = {} /\ written = {}

-----------------------------------------------------------------------------
(* Type expressions, as the parser reads them.                             *)

Expr(op, name, args, len) ==
  [op |-> op, name |-> name, args |-> args, len |-> len]

Prim(p) == Expr("prim", p, <<>>, 0)
StringBuffer == Expr("String", "", <<>>, 0)
Named(n) == Expr("name", n, <<>>, 0)
Star(e) == Expr("star", "", <<e>>, 0)
Ptr(e) == Expr("ptr", "", <<e>>, 0)
Array(e, n) == Expr("array", "", <<e>>, n)
Generic(n, e) == Expr("generic", n, <<e>>, 0)
Either(a, b) == Expr("union", "", <<a, b>>, 0)
OrError(a, b) == Expr("result", "", <<a, b>>, 0)
AnyError == Expr("Error", "", <<>>, 0)
Hole == Expr("hole", "T", <<>>, 0)

\* What a member of a union adds to the list of its types.
Variants(types, t) ==
  IF types[t].kind = "union" THEN MemberTypes(types[t]) ELSE <<t>>

\* A name: a type the context knows, or a struct to be declared.
ByName(c, name) ==
  LET t == type_get_named(c, name)
  IN  IF t # None THEN Got(c, t) ELSE type_get_struct(c, name)

\* What the parser makes of the type it has just read, one, and of two. A
\* placeholder ends the type, whatever stars stood before it.
Postfixed(e, one) ==
  CASE e.op = "star" /\ e.args[1].op = "hole" -> one
    [] e.op = "ptr" \/ (e.op = "star" /\ e.args[1].op # "hole") ->
         type_get_pointer(one.ctx, one.type)
    [] e.op = "array" -> type_get_array(one.ctx, one.type, e.len)
    [] e.op = "generic" ->
         LET template == type_get_template(one.ctx, e.name)
         IN  IF template # None
             THEN type_get_instance(one.ctx, template, <<one.type>>)
             ELSE ByName(one.ctx, e.name)

Joined(e, one, two) ==
  IF e.op = "result" THEN type_get_result(two.ctx, one.type, two.type)
  ELSE type_get_union_anonymous(two.ctx,
         Variants(two.ctx.types, one.type)
           \o Variants(two.ctx.types, two.type))

RECURSIVE parser_parse_type_full(_, _, _), ParsedSecond(_, _, _)
\* hole is the placeholder in scope.
parser_parse_type_full(c, e, hole) ==
  CASE e.op = "prim" -> Got(c, type_get_primitive(c, e.name))
    [] e.op = "String" -> Got(c, c.string_buffer)
    [] e.op = "name" -> ByName(c, e.name)
    [] e.op = "hole" -> Got(c, hole)
    [] e.op = "Error" -> type_get_error_set_anonymous(c)
    [] e.op \in {"star", "ptr", "array", "generic"} ->
         Postfixed(e, parser_parse_type_full(c, e.args[1], hole))
    [] e.op \in {"result", "union"} ->
         ParsedSecond(e, parser_parse_type_full(c, e.args[1], hole), hole)

ParsedSecond(e, one, hole) ==
  Joined(e, one, parser_parse_type_full(one.ctx, e.args[2], hole))

-----------------------------------------------------------------------------
(* What the text means, to compare with what was built: a term over names. *)

RECURSIVE Meaning(_, _), Means(_)
Meaning(types, t) ==
  LET rec == types[t]
      all(s) == [i \in DOMAIN s |-> Meaning(types, s[i])]
  IN  CASE rec.kind = "primitive" -> Prim(rec.name)
        [] rec.kind = "string_buffer" -> StringBuffer
        [] rec.kind = "template" -> Expr("hole", rec.name, <<>>, 0)
        [] rec.kind = "pointer" -> Expr("ptr", "", all(rec.parts), 0)
        [] rec.kind = "result" -> Expr("result", "", all(rec.parts), 0)
        [] rec.kind = "struct" /\ rec.from # None ->
             Expr("generic", rec.name, all(rec.parts), rec.len)
        [] rec.kind = "union" /\ rec.tagged ->
             Expr("union", "", all(MemberTypes(rec)), 0)
        [] rec.kind = "error_set" /\ rec.name = "" -> AnyError
        [] OTHER -> Named(rec.name)

Means(e) ==
  LET all == [i \in DOMAIN e.args |-> Means(e.args[i])]
      variants == FlattenSeq([i \in DOMAIN all |->
                    IF all[i].op = "union" THEN all[i].args ELSE <<all[i]>>])
  IN  CASE e.op \in {"star", "ptr"} -> Expr("ptr", "", all, 0)
        [] e.op = "array" -> Expr("generic", "Array", all, e.len)
        [] e.op = "union" -> Expr("union", "", variants, 0)
        [] OTHER -> [e EXCEPT !.args = all]

RECURSIVE UsedTooSoon(_, _)
\* A generic type in front of the definition pass that makes it known, which
\* only follows the parser: in the file that declares it, say. The parser
\* hands out a struct of that name without members, and drops the arguments.
UsedTooSoon(c, e) ==
  \/ e.op = "generic" /\ type_get_template(c, e.name) = None
  \/ \E i \in DOMAIN e.args : UsedTooSoon(c, e.args[i])

-----------------------------------------------------------------------------
(* What a type holds by value, through any number of members.              *)

RECURSIVE Held(_, _, _)
Held(types, ts, seen) ==
  LET new == (UNION {ToSet(MemberTypes(types[t])) : t \in ts}) \ seen
  IN  IF new = {} THEN seen ELSE Held(types, new, seen \cup new)

Holds(types, t) == Held(types, {t}, {})

\* A name whose declaration the definition pass has not reached, or has
\* given no member.
Undefined(rec) ==
  /\ rec.kind \in {"struct", "union", "error"}
  /\ rec.from = None
  /\ rec.members = <<>>

\* The types whose size a step computed, and those of them whose size came
\* from a size that was not there yet.
LaidOut(old, new) ==
  {t \in DOMAIN new :
     /\ new[t].kind \in {"struct", "union", "error"}
     /\ new[t].members # <<>>
     /\ IF t \in DOMAIN old THEN old[t].members # new[t].members ELSE TRUE}

NoteEarly(new) ==
  early' = early \cup
    {t \in LaidOut(ctx.types, new) :
       \E u \in Holds(new, t) : u \in early \/ Undefined(new[u])}

-----------------------------------------------------------------------------
(* Parsing a module.                                                       *)

Reading(phaseOfModule) ==
  /\ phase = "front"
  /\ Head(work).parsing = phaseOfModule

\* The types of the fields of a declaration, read one after the other.
ParsedFields(c, fields, hole) ==
  FoldLeft(LAMBDA acc, e :
             LET r == parser_parse_type_full(acc.ctx, e, hole)
             IN  [ctx |-> r.ctx, types |-> Append(acc.types, r.type),
                  means |-> acc.means \cup
                    {[expr |-> e, means |-> Means(e), type |-> r.type,
                      tooSoon |-> UsedTooSoon(acc.ctx, e)]}],
           [ctx |-> c, types |-> <<>>, means |-> {}], fields)

\* A declaration of a struct, union or error, of a generic struct, or the
\* declaration of a variable.
ParseItem(item) ==
  /\ Reading(TRUE)
  /\ items < MaxItems
  /\ LET generic == item.kind = "template"
         n == Len(ctx.types) + 1
         start == IF generic
                  THEN [ctx EXCEPT !.types =
                          Append(@, Blank("template", "T"))]
                  ELSE ctx
         read == ParsedFields(start, item.fields, IF generic THEN n ELSE None)
         decl == [kind |-> item.kind, name |-> item.name,
                  fields |-> read.types]
     IN  /\ ctx' = read.ctx
         /\ NoteEarly(read.ctx.types)
         /\ written' = written \cup read.means
         /\ work' = [work EXCEPT ![1].todo =
                       IF item.kind = "use" THEN @ ELSE Append(@, decl)]
  /\ items' = items + 1
  /\ UNCHANGED <<phase, llvm, failed, family, modules, redefined>>

EndOfFile ==
  /\ Reading(TRUE)
  /\ work' = [work EXCEPT ![1].parsing = FALSE]
  /\ UNCHANGED <<ctx, phase, llvm, failed, family, items, modules, early,
                 redefined, written>>

-----------------------------------------------------------------------------
(* The definition pass.                                                    *)

RECURSIVE type_has_nonpointer_recursive(_, _, _, _)
type_has_nonpointer_recursive(types, root, t, seen) ==
  LET rec == types[t]
  IN  /\ rec.kind # "pointer"
      /\ \/ t = root
         \/ /\ t \notin seen
            /\ rec.kind \in {"struct", "union"}
            /\ \E i \in DOMAIN rec.members :
                 type_has_nonpointer_recursive(types, root,
                   rec.members[i].type, seen \cup {t})

FieldNames == <<"x", "y", "z">>

Duplicate(types, t, i) == type_get_member(types[t], FieldNames[i]) # 0

\* Only primitives other than str, and pointers to char, are payload.
PayloadType(types, rec) ==
  \/ rec.kind = "primitive" /\ rec.name # "str"
  \/ rec.kind = "pointer" /\ types[rec.parts[1]].name = "char"

\* A field that is reported and left out.
Dropped(types, t, decl, i) ==
  \/ /\ decl.kind \in {"struct", "template"}
     /\ \/ Duplicate(types, t, i)
        \/ type_has_nonpointer_recursive(types, t, decl.fields[i], {})
  \/ decl.kind = "union" /\ Duplicate(types, t, i)
  \/ decl.kind = "error" /\ ~type_is_concrete(types, decl.fields[i])

\* A field that is reported and added all the same.
Refused(types, decl, i) ==
  decl.kind = "error" /\ ~PayloadType(types, types[decl.fields[i]])

\* The context after a declaration's fields have been added to the type the
\* declaration got, the fields added, and whether an error was reported.
AddedFields(claim, decl) ==
  FoldLeft(LAMBDA acc, i :
             IF Dropped(acc.ctx.types, claim.type, decl, i)
             THEN [acc EXCEPT !.error = TRUE]
             ELSE [acc EXCEPT
                     !.ctx = type_add_member(@, claim.type, FieldNames[i],
                                             decl.fields[i]),
                     !.added = Append(@, Member(FieldNames[i],
                                                decl.fields[i])),
                     !.error = @ \/ Refused(acc.ctx.types, decl, i)],
           [ctx |-> claim.ctx, type |-> claim.type, added |-> <<>>,
            error |-> FALSE],
           [i \in DOMAIN decl.fields |-> i])

\* The type a generic struct declares: known by name to the parsers that
\* run from now on.
DeclaredTemplate(c, name) ==
  LET t == type_get_template(c, name)
  IN  IF t # None THEN Got(c, t)
      ELSE Made(c, "templates", [Blank("template", name) EXCEPT
                                   !.parts = <<"T">>])

\* The declarations, once their fields r are added: the layout.
StructLaid(r) ==
  LET align == MemberAlign(r.ctx.types, r.added)
      old == r.ctx.types[r.type].align
  IN  [r EXCEPT !.ctx.types[r.type].align = Max({old, align}),
                !.ctx.types[r.type].size =
                  align_to(FieldsEnd(r.ctx.types, r.added),
                           Max({old, align}))]

UnionLaid(r) ==
  [r EXCEPT !.ctx.types[r.type].align = MemberAlign(r.ctx.types, r.added),
            !.ctx.types[r.type].size = UnionSize(r.ctx.types, r.added)]

ErrorLaid(r) ==
  LET size == StructSize(r.ctx.types, r.added)
  IN  [r EXCEPT !.ctx.types[r.type].align = MemberAlign(r.ctx.types, r.added),
                !.ctx.types[r.type].size = size,
                !.error = @ \/ size > 48]

sema_check_struct_decl(decl) ==
  StructLaid(AddedFields(IF decl.kind = "template"
                         THEN DeclaredTemplate(ctx, decl.name)
                         ELSE type_get_struct(ctx, decl.name), decl))

sema_check_union_decl(decl) ==
  UnionLaid(AddedFields(type_get_union(ctx, decl.name), decl))

sema_check_error_decl(decl) ==
  ErrorLaid(AddedFields(type_get_error(ctx, decl.name), decl))

\* An error counts only in the main file, the outermost module.
Report(error) == failed' = (failed \/ (error /\ Len(work) = 1))

\* The context and the verdict after a declaration.
Defined(r) ==
  /\ Report(r.error)
  /\ ctx' = r.ctx
  /\ NoteEarly(r.ctx.types)
  /\ redefined' = redefined \cup
       {t \in {r.type} \cap DOMAIN ctx.types : ctx.types[t].members # <<>>}

Define ==
  /\ Reading(FALSE)
  /\ Head(work).todo # <<>>
  /\ LET decl == Head(Head(work).todo)
     IN  /\ work' = [work EXCEPT ![1].todo = Tail(@),
                                 ![1].scope = @ \cup {decl.name}]
         /\ IF decl.name \in Head(work).scope
            THEN Report(TRUE) /\ UNCHANGED <<ctx, early, redefined>>
            ELSE Defined(
                   CASE decl.kind \in {"struct", "template"} ->
                          sema_check_struct_decl(decl)
                     [] decl.kind = "union" -> sema_check_union_decl(decl)
                     [] decl.kind = "error" -> sema_check_error_decl(decl))
  /\ UNCHANGED <<phase, llvm, family, items, modules, written>>

\* An import met by the definition pass: another module, from its parser on.
Import ==
  /\ Reading(FALSE)
  /\ modules < MaxModules
  /\ modules' = modules + 1
  /\ work' = <<NewModule>> \o work
  /\ UNCHANGED <<ctx, phase, llvm, failed, family, items, early, redefined,
                 written>>

\* The end of sema_analyze; after the main file, code generation starts.
FinishModule ==
  /\ Reading(FALSE)
  /\ Head(work).todo = <<>>
  /\ ctx' = type_refresh_drop_metadata(ctx)
  /\ work' = Tail(work)
  /\ phase' = IF Len(work) > 1 THEN phase
              ELSE IF failed THEN "stopped" ELSE "back"
  /\ UNCHANGED <<llvm, failed, family, items, modules, early, redefined,
                 written>>

LowerTypes ==
  /\ phase = "back"
  /\ llvm' = cg_type_lower_structs(ctx, llvm)
  /\ phase' = "lowered"
  /\ UNCHANGED <<ctx, work, failed, family, items, modules, early,
                 redefined, written>>

Next ==
  \/ \E item \in Families[family] : ParseItem(item)
  \/ EndOfFile
  \/ Define
  \/ Import
  \/ FinishModule
  \/ LowerTypes

Spec == Init /\ [][Next]_vars

-----------------------------------------------------------------------------
(* Properties.                                                             *)

Ids == DOMAIN ctx.types

\* Every type is well formed and every list is of types of the context.
TypeOK ==
  /\ \A t \in Ids :
       LET rec == ctx.types[t]
       IN  /\ rec.kind \in {"primitive", "pointer", "struct", "union",
                             "error", "error_set", "result", "template",
                             "string_buffer"}
           /\ rec.from \in Ids \cup {None}
           /\ rec.kind # "template" => ToSet(rec.parts) \subseteq Ids
           /\ ToSet(MemberTypes(rec)) \subseteq Ids
           /\ rec.size \in Nat /\ rec.align \in Nat
           /\ rec.drops \subseteq DOMAIN rec.members
  /\ ToSet(ctx.structs \o ctx.templates \o ctx.instances) \subseteq Ids
  /\ phase \in {"front", "stopped", "back", "lowered"}
  /\ (phase = "front") = (work # <<>>)
  /\ failed \in BOOLEAN

RECURSIVE Mentions(_, _)
Mentions(m, ops) ==
  m.op \in ops \/ \E i \in DOMAIN m.args : Mentions(m.args[i], ops)

\* No two types of one meaning: the analysis and the code generator compare
\* pointers, results and struct types by identity, so a second copy would be
\* another type. Every mention of Error is a set of its own, and a
\* placeholder belongs to its declaration.
OneTypePerMeaning ==
  LET compared == ToSet(ctx.structs \o ctx.instances)
      means == [t \in compared |-> Meaning(ctx.types, t)]
  IN  \A t, u \in compared :
        means[t] = means[u] => t = u \/ Mentions(means[t], {"Error", "hole"})

\* The context never refers to a type it does not have, and has each meaning
\* once: in whatever order declarations, uses and imports register them.
ContextSound == TypeOK /\ OneTypePerMeaning

RECURSIVE Nested(_)
\* A template or a union over an instance of a template.
Nested(m) ==
  \/ \E i \in DOMAIN m.args : Nested(m.args[i])
  \/ m.op \in {"generic", "union"}
     /\ \E i \in DOMAIN m.args : Mentions(m.args[i], {"generic"})

RECURSIVE StarredHole(_)
StarredHole(e) ==
  \E i \in DOMAIN e.args :
    StarredHole(e.args[i]) \/ (e.op = "star" /\ e.args[i].op = "hole")

\* Every type expression of the program means what it says, then and to the
\* end: what the parser handed out was not another type that only looks
\* equal, and no later declaration turned it into another. Not so for a
\* generic type used where the parser does not know it yet, for an instance
\* inside a template or a union, whose arguments type_equals does not look
\* at, and for a star before a placeholder, which is lost.
TypesMeanWhatTheySay ==
  \A w \in written :
    \/ Meaning(ctx.types, w.type) = w.means
    \/ w.tooSoon \/ Nested(w.means) \/ StarredHole(w.expr)

-----------------------------------------------------------------------------
\* The size and alignment LLVM gives the type a type is lowered to.
RECURSIVE Real(_, _)
Real(types, t) ==
  LET rec == types[t]
      all == [i \in DOMAIN rec.members |-> Real(types, rec.members[i].type)]
      align == Max({1} \cup {all[i].align : i \in DOMAIN all})
      end == FoldLeft(LAMBDA at, f : align_to(at, f.align) + f.size, 0, all)
  IN  IF rec.kind \in {"struct", "error"}
      THEN [size |-> align_to(end, align), align |-> align]
      ELSE IF rec.kind = "union"
      THEN [size |-> Max({1, rec.size}), align |-> 1]
      ELSE [size |-> rec.size, align |-> AlignOf(rec)]

\* What the size of a type is not kept for: arrays of fixed length, results,
\* unions with a tag, and names never declared or declared twice.
Unsized(rec) ==
  \/ FixedArray(rec)
  \/ rec.kind \in {"result", "error_set", "template"}
  \/ rec.tagged
  \/ Undefined(rec)

\* A struct, union or error is given room for what LLVM stores in it, and a
\* union for each of its members, whatever order the declarations, the
\* variables and the imports of the program come in; as long as it was laid
\* out after what it holds.
RoomEnough ==
  \A t \in Ids \ (early \cup redefined) :
    LET rec == ctx.types[t]
        held == Holds(ctx.types, t)
    IN  /\ rec.kind \in {"struct", "union", "error"}
        /\ rec.members # <<>>
        /\ \A u \in held : ~Unsized(ctx.types[u])
        /\ held \cap ({t} \cup early \cup redefined) = {}
        => IF rec.kind = "union"
           THEN \A i \in DOMAIN rec.members :
                  rec.size >= Real(ctx.types, rec.members[i].type).size
           ELSE rec.size >= Real(ctx.types, t).size

\* At the end of every module the drop flags are those of the types as they
\* are: a struct or union is dropped when it holds a String by value, also
\* through unions that hold it, and a struct drops exactly such fields.
Owns(types, t) ==
  types[t].kind = "string_buffer" \/ ctx.string_buffer \in Holds(types, t)

DropsKnown ==
  phase \in {"back", "lowered"} =>
    \A t \in ToSet(ctx.structs \o ctx.instances) :
      LET rec == ctx.types[t]
      IN  rec.kind \in {"struct", "union"} =>
            /\ rec.drop = Owns(ctx.types, t)
            /\ rec.kind = "struct" =>
                 rec.drops = {i \in DOMAIN rec.members :
                                Owns(ctx.types, rec.members[i].type)}

KeptByName(rec) ==
  rec.kind \in {"struct", "union", "error", "error_set", "result"}
    /\ ~FixedArray(rec)

RECURSIVE Seamed(_, _)
\* A name with a `_` in it occurs in the name of the type.
Seamed(types, t) ==
  \/ types[t].name \in DOMAIN WordsOf
  \/ \E i \in DOMAIN types[t].parts : Seamed(types, types[t].parts[i])

\* A type whose LLVM name is also that of another, the `_` of a declared name
\* standing where the other name has its punctuation: a struct Box_i8 and
\* Box<i8>, a struct Array_i64 and [i64].
Lookalike(t) ==
  \E u \in ToSet(ctx.structs \o ctx.instances) \ {t} :
    /\ LlvmName(ctx.types, u) = LlvmName(ctx.types, t)
    /\ Seamed(ctx.types, t) \/ Seamed(ctx.types, u)

\* After lowering, the LLVM type a type of the program uses has the fields of
\* that type: no other type took its name, and no body is missing. Not so
\* for two types that look alike because a declared name has a `_` in it.
\* All unions without a name share one LLVM name: this is for one of them.
BodiesAgree ==
  phase = "lowered" =>
    \A t \in ToSet(ctx.structs \o ctx.instances) :
      LET rec == ctx.types[t]
          rivals == {u \in ToSet(ctx.instances) : ctx.types[u].tagged}
      IN  KeptByName(rec) /\ type_is_concrete(ctx.types, t)
          /\ (rec.tagged => rivals = {t})
             /\ ~Lookalike(t)
          => llvm[LlvmName(ctx.types, t)] = Body(ctx.types, t)

\* The LLVM struct a field's type needs to know the size of.
ByValue(type) ==
  IF type[1] = "struct" THEN {Tail(type)}
  ELSE IF type[1] = "array" THEN
    LET i == SelectInSeq(type, LAMBDA w : w = "struct")
    IN  IF i = 0 THEN {} ELSE {SubSeq(type, i + 1, Len(type))}
  ELSE {}

RECURSIVE Inside(_, _)
Inside(names, seen) ==
  LET new == (UNION {ByValue(f) :
                f \in UNION {ToSet(llvm[n]) : n \in names}}) \ seen
  IN  IF new = {} THEN seen ELSE Inside(new, seen \cup new)

\* No LLVM struct contains itself, in any program accepted; except through
\* an array of fixed length, which the check for recursive fields does not
\* look into, and where two types look alike.
NoStructInsideItself ==
  /\ phase = "lowered"
  /\ \A t \in Ids : ~FixedArray(ctx.types[t])
  /\ \A t \in ToSet(ctx.structs \o ctx.instances) : ~Lookalike(t)
  =>
    \A n \in DOMAIN llvm : n \notin Inside({n}, {})

\* What LLVM is given is the program's types: every name with the body of the
\* one type it stands for, and no body that holds itself.
LlvmBodies == BodiesAgree /\ NoStructInsideItself
=============================================================================
