----------------------------- MODULE ErrorSets -----------------------------
(***************************************************************************)
(* Error sets and result tags.  A function declared `T ! Error` owns an    *)
(* anonymous error set that analysis fills while it walks the bodies, in   *)
(* the order of the text: `return E`, `return g()` and `g()?` each add     *)
(* what they may hand on, as far as it is known by then.  A function       *)
(* declared `T ! S` shares the named set S, which nothing extends.  In the *)
(* generated program an error is a number, its place in the set of the     *)
(* function that raised it, and it keeps this number wherever it is        *)
(* handed on.                                                              *)
(*                                                                         *)
(* A statement of a body is one of                                         *)
(*   [op "raise", err]          return E;                                  *)
(*   [op "forward", fn]         return g();                                *)
(*   [op "ask", fn]             g()?;                                      *)
(*   [op "test", fn, err]       let x = g(); if (x is E) ...               *)
(*   [op "reuse", fn, by, err]  let x = g(); x = h(); if (x is E) ...      *)
(* and may or may not be reached when the program runs.                    *)
(***************************************************************************)
EXTENDS Integers, Sequences, FiniteSets

CONSTANTS Errors,   \* the declared errors
          Named,    \* the declared error sets: name -> sequence of errors
          Programs  \* the texts: sequences of functions [result, body]

Anonymous == "Error"

IsSeq(s) == Len(s) \in Nat /\ DOMAIN s = 1..Len(s)

(* A statement names what it needs; a declared set lists an error once.    *)
WellFormed(p, stmt) ==
  /\ stmt.op \in {"raise", "forward", "ask", "test", "reuse"}
  /\ stmt.op \in {"raise", "test", "reuse"} => stmt.err \in Errors
  /\ stmt.op \in {"forward", "ask", "test", "reuse"} => stmt.fn \in DOMAIN p
  /\ stmt.op = "reuse" => stmt.by \in DOMAIN p

ASSUME ErrorSetsAssumption ==
  /\ \A name \in DOMAIN Named :
       /\ Named[name] \in Seq(Errors)
       /\ \A i, j \in DOMAIN Named[name] :
            Named[name][i] = Named[name][j] => i = j
  /\ \A p \in Programs :
       /\ IsSeq(p)
       /\ \A f \in DOMAIN p :
            /\ p[f].result \in {Anonymous} \cup DOMAIN Named
            /\ IsSeq(p[f].body)
            /\ \A i \in DOMAIN p[f].body : WellFormed(p, p[f].body[i])

VARIABLES text,    \* the program
          sets,    \* function -> the members of its error set
          at,      \* <<function, place, member>>: the statement analysis
                   \* checks, and the member of a set its loop is at
          phase,   \* "check", then "run", "rejected" or "panic"
          raised,  \* the error being handed on: [fn, tag, was], or None
          answer   \* what the last `is` said: [yes, asked, was], or None

vars == <<text, sets, at, phase, raised, answer>>

None == [fn |-> 0, tag |-> 0, was |-> "none"]
Unasked == [yes |-> FALSE, asked |-> "none", was |-> "none"]

Members(set) == {set[i] : i \in DOMAIN set}
IsAnonymous(f) == text[f].result = Anonymous

-----------------------------------------------------------------------------
(* Analysis: the sets grow, one statement at a time.                       *)

Init ==
  /\ text \in Programs
  /\ sets = [f \in DOMAIN text |->
               IF IsAnonymous(f) THEN <<>> ELSE Named[text[f].result]]
  /\ at = <<1, 1, 1>>
  /\ phase = "check"
  /\ raised = None
  /\ answer = Unasked

(* Mutant: a new member goes to the front.                                 *)
AddedInFront(set, err) ==
  IF err \in Members(set) THEN set ELSE <<err>> \o set

(* type_add_member, under the error_set_contains of its callers.           *)
Added(set, err) == IF err \in Members(set) THEN set ELSE Append(set, err)

Stmt == text[at[1]].body[at[2]]
AtStatement(op) ==
  /\ phase = "check"
  /\ at[1] \in DOMAIN text
  /\ at[2] \in DOMAIN text[at[1]].body
  /\ Stmt.op = op

(* The loop that adds what g may hand on: the next member of g's set, as   *)
(* long as g's set is known, goes to the set of fn.                        *)
AddMember(fn, g) ==
  /\ at[3] \in DOMAIN sets[g]
  /\ sets' = [sets EXCEPT ![fn] = Added(@, sets[g][at[3]])]
  /\ at' = [at EXCEPT ![3] = @ + 1]
  /\ UNCHANGED <<text, phase, raised, answer>>

AllAdded(g) == at[3] \notin DOMAIN sets[g]

Done(ok) ==
  /\ at' = <<at[1], at[2] + 1, 1>>
  /\ phase' = IF ok THEN "check" ELSE "rejected"
  /\ UNCHANGED <<text, raised, answer>>

(* Mutant: an error that is returned is not added to the set.              *)
CheckRaiseOnly ==
  /\ AtStatement("raise")
  /\ Done(IsAnonymous(at[1]) \/ Stmt.err \in Members(sets[at[1]]))
  /\ UNCHANGED sets

(* return E: an anonymous set takes E, a named one must have it.           *)
CheckRaise ==
  /\ AtStatement("raise")
  /\ sets' = IF IsAnonymous(at[1])
             THEN [sets EXCEPT ![at[1]] = Added(@, Stmt.err)]
             ELSE sets
  /\ Done(IsAnonymous(at[1]) \/ Stmt.err \in Members(sets[at[1]]))

(* return g(): an anonymous set takes the members of g's set known by now, *)
(* a named one must have them.                                             *)
CheckForward ==
  /\ AtStatement("forward")
  /\ IF IsAnonymous(at[1]) /\ ~AllAdded(Stmt.fn)
     THEN AddMember(at[1], Stmt.fn)
     ELSE /\ Done(Members(sets[Stmt.fn]) \subseteq Members(sets[at[1]]))
          /\ UNCHANGED sets

(* Mutant: `?` adds nothing to the set.                                    *)
CheckAskOnly ==
  /\ AtStatement("ask")
  /\ Done(TRUE)
  /\ UNCHANGED sets

(* g()?: as `return g()` for an anonymous set; a named set is not looked   *)
(* at.                                                                     *)
CheckAsk ==
  /\ AtStatement("ask")
  /\ IF IsAnonymous(at[1]) /\ ~AllAdded(Stmt.fn)
     THEN AddMember(at[1], Stmt.fn)
     ELSE Done(TRUE) /\ UNCHANGED sets

(* let x = g(); x is E: x has g's result type, if its set is not empty     *)
(* (type_is_concrete), and E must be in it.                                *)
CheckTest ==
  /\ AtStatement("test")
  /\ Done(Stmt.err \in Members(sets[Stmt.fn]))
  /\ UNCHANGED sets

(* let x = g(); x = h(); x is E: x keeps g's result type, so g's own set   *)
(* takes the members of h's when it is anonymous, and E must be in it.     *)
CheckReuse ==
  /\ AtStatement("reuse")
  /\ LET g == Stmt.fn IN
       IF sets[g] # <<>> /\ IsAnonymous(g) /\ ~AllAdded(Stmt.by)
       THEN AddMember(g, Stmt.by)
       ELSE /\ Done(/\ sets[g] # <<>>
                    /\ Members(sets[Stmt.by]) \subseteq Members(sets[g])
                    /\ Stmt.err \in Members(sets[g]))
            /\ UNCHANGED sets

NextFunction ==
  /\ phase = "check"
  /\ at[1] \in DOMAIN text
  /\ at[2] \notin DOMAIN text[at[1]].body
  /\ at' = <<at[1] + 1, 1, 1>>
  /\ UNCHANGED <<text, sets, phase, raised, answer>>

Compiled ==
  /\ phase = "check"
  /\ at[1] \notin DOMAIN text
  /\ phase' = "run"
  /\ UNCHANGED <<text, sets, at, raised, answer>>

-----------------------------------------------------------------------------
(* The program runs, with the sets as analysis left them.                  *)

(* The number of an error in a set: its place, or 0, which means success.  *)
cg_result_error_tag_index(set, err) ==
  IF err \in Members(set)
  THEN CHOOSE i \in DOMAIN set :
         set[i] = err /\ \A j \in 1..(i - 1) : set[j] # err
  ELSE 0

Reached(f, op) ==
  {i \in DOMAIN text[f].body : text[f].body[i].op = op}

(* Mutant: the first error of a set has the number of success.             *)
RaiseFromZero(f) ==
  /\ phase = "run" /\ raised = None
  /\ \E i \in Reached(f, "raise") :
       LET err == text[f].body[i].err
           tag == cg_result_error_tag_index(sets[f], err) IN
       raised' = [fn |-> f, tag |-> tag - 1, was |-> err]
  /\ UNCHANGED <<text, sets, at, phase, answer>>

(* return E.                                                               *)
Raise(f) ==
  /\ phase = "run" /\ raised = None
  /\ \E i \in Reached(f, "raise") :
       LET err == text[f].body[i].err
           tag == cg_result_error_tag_index(sets[f], err) IN
       IF tag = 0
       THEN phase' = "panic" /\ raised' = raised
       ELSE /\ raised' = [fn |-> f, tag |-> tag, was |-> err]
            /\ phase' = phase
  /\ UNCHANGED <<text, sets, at, answer>>

(* return g() and g()? give back the value g gave, tag and all.            *)
HandOn(f) ==
  /\ phase = "run" /\ raised # None
  /\ \E i \in Reached(f, "forward") \cup Reached(f, "ask") :
       text[f].body[i].fn = raised.fn
  /\ raised' = [raised EXCEPT !.fn = f]
  /\ UNCHANGED <<text, sets, at, phase, answer>>

(* x is E compares the number with E's place in the set of x's type.       *)
Asked(f, g, err) ==
  /\ answer' = [yes |-> raised.tag
                          = cg_result_error_tag_index(sets[g], err),
                asked |-> err, was |-> raised.was]
  /\ UNCHANGED <<text, sets, at, phase, raised>>

Test(f) ==
  /\ phase = "run" /\ raised # None
  /\ \E i \in Reached(f, "test") :
       /\ text[f].body[i].fn = raised.fn
       /\ Asked(f, raised.fn, text[f].body[i].err)

Reuse(f) ==
  /\ phase = "run" /\ raised # None
  /\ \E i \in Reached(f, "reuse") :
       /\ text[f].body[i].by = raised.fn
       /\ Asked(f, text[f].body[i].fn, text[f].body[i].err)

Run(f) == Raise(f) \/ HandOn(f) \/ Test(f) \/ Reuse(f)

Next ==
  \/ CheckRaise \/ CheckForward \/ CheckAsk \/ CheckTest \/ CheckReuse
  \/ NextFunction \/ Compiled
  \/ \E f \in DOMAIN text : Run(f)

Spec == Init /\ [][Next]_vars

-----------------------------------------------------------------------------
(* Properties.                                                             *)

(* The state has its shape; in particular an error never has the number of *)
(* success.                                                                *)
TypeOK ==
  /\ text \in Programs
  /\ \A f \in DOMAIN text : Members(sets[f]) \subseteq Errors
  /\ phase \in {"check", "run", "rejected", "panic"}
  /\ raised = None \/ /\ raised.fn \in DOMAIN text
                      /\ raised.was \in Errors
                      /\ raised.tag \in Nat \ {0}

(* Code generation finds a number for every error a checked program        *)
(* returns: cg_build_result_value panics when there is none.               *)
NoPanic == phase # "panic"

(* The statements that hand on errors.                                     *)
Calls(f) == {i \in DOMAIN text[f].body : text[f].body[i].op \in
                                            {"forward", "ask"}}
Callee(f, i) == text[f].body[i].fn

(* What the answers below need.  A function hands on errors of functions   *)
(* above it only, since a set is read as far as it is known; a named set   *)
(* is closed to `return`, but not to `?`; and a variable of g's result     *)
(* type that takes another result widens g's set behind those who read it. *)
CalleesAbove == \A f \in DOMAIN text : \A i \in Calls(f) : Callee(f, i) < f
NamedSetsReturn ==
  \A f \in DOMAIN text : ~IsAnonymous(f) => Reached(f, "ask") = {}
ReusedApart ==
  \A f, h \in DOMAIN text : \A i \in Reached(f, "reuse"), j \in Calls(h) :
     text[f].body[i].fn # Callee(h, j)

(* Every error a function gives back is a member of its error set, however *)
(* many calls it came through.                                             *)
ErrorsDeclared ==
  /\ CalleesAbove /\ NamedSetsReturn /\ ReusedApart
  /\ phase = "run" /\ raised # None
  => raised.was \in Members(sets[raised.fn])

(* Nothing in the code translates the numbers of one set to another: they  *)
(* agree when a function starts with the call whose errors it hands on,    *)
(* and hands on no others.  A named set only hands on itself.              *)
SameNumbers ==
  /\ \A f \in DOMAIN text : \A i \in Calls(f) :
       IF IsAnonymous(f) THEN i = 1
                         ELSE text[Callee(f, i)].result = text[f].result
  /\ \A f \in DOMAIN text : \A i \in Reached(f, "reuse") :
       text[f].body[i].fn = text[f].body[i].by

(* An error keeps its identity: `x is E` says yes of E and of no other     *)
(* error, through any chain of calls.                                      *)
ErrorsRecognised ==
  /\ CalleesAbove /\ NamedSetsReturn /\ ReusedApart /\ SameNumbers
  /\ answer # Unasked
  => (answer.yes <=> answer.asked = answer.was)

=============================================================================
