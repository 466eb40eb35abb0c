-------------------------- MODULE ErrorSetsProofs --------------------------
(***************************************************************************)
(* Proofs about ErrorSets, for every program and every set of errors:      *)
(* code generation never panics on a checked program, every error is in    *)
(* the set of the function that gives it back, and it keeps its identity,  *)
(* under the conditions ErrorSets names.                                   *)
(***************************************************************************)
EXTENDS ErrorSets, TLAPS

(* The shape of a state.                                                   *)
Once(set) == \A i, j \in DOMAIN set : set[i] = set[j] => i = j

Shape ==
  /\ text \in Programs
  /\ sets \in [DOMAIN text -> Seq(Errors)]
  /\ \A f \in DOMAIN text : Once(sets[f])
  /\ \A f \in DOMAIN text : ~IsAnonymous(f) => sets[f] = Named[text[f].result]
  /\ at \in (Nat \ {0}) \X (Nat \ {0}) \X (Nat \ {0})
  /\ phase \in {"check", "run", "rejected", "panic"}
  /\ phase = "run" => at[1] \notin DOMAIN text
  /\ phase \in {"check", "rejected"} => raised = None

(* One set is the beginning of another: its errors have the same numbers.  *)
Begins(set, other) ==
  /\ Len(set) <= Len(other)
  /\ \A i \in DOMAIN set : set[i] = other[i]

LEMMA AddedFacts ==
  ASSUME NEW set \in Seq(Errors), NEW err \in Errors, Once(set)
  PROVE  /\ Added(set, err) \in Seq(Errors)
         /\ Once(Added(set, err))
         /\ Begins(set, Added(set, err))
         /\ err \in Members(Added(set, err))
         /\ err \in Members(set) => Added(set, err) = set
         /\ err \notin Members(set) => /\ Len(Added(set, err)) = Len(set) + 1
                                       /\ Added(set, err)[Len(set) + 1] = err
<1>1. CASE err \in Members(set)
  BY <1>1 DEF Added, Begins
<1>2. CASE err \notin Members(set)
  <2> DEFINE new == Append(set, err)
  <2>1. Added(set, err) = new
    BY <1>2 DEF Added
  <2>2. /\ new \in Seq(Errors)
        /\ Len(new) = Len(set) + 1
        /\ DOMAIN new = 1..(Len(set) + 1)
        /\ DOMAIN set = 1..Len(set)
        /\ Len(set) \in Nat
        /\ \A i \in 1..Len(set) : new[i] = set[i]
        /\ new[Len(set) + 1] = err
    OBVIOUS
  <2>3. \A i \in 1..Len(set) : set[i] # err
    BY <1>2, <2>2 DEF Members
  <2> HIDE DEF new
  <2>4. Once(new)
    BY <2>2, <2>3 DEF Once
  <2>5. err \in Members(new)
    BY <2>2 DEF Members
  <2> QED
    BY <1>2, <2>1, <2>2, <2>4, <2>5 DEF Begins
<1> QED
  BY <1>1, <1>2

LEMMA BeginsMembers ==
  ASSUME NEW set \in Seq(Errors), NEW other \in Seq(Errors),
         Begins(set, other)
  PROVE  Members(set) \subseteq Members(other)
BY DEF Begins, Members

(* An error that is in a set has a number there, its only place.           *)
LEMMA IndexFacts ==
  ASSUME NEW set \in Seq(Errors), Once(set), NEW err
  PROVE  /\ err \in Members(set) =>
              /\ cg_result_error_tag_index(set, err) \in DOMAIN set
              /\ cg_result_error_tag_index(set, err) \in Nat \ {0}
              /\ set[cg_result_error_tag_index(set, err)] = err
         /\ err \notin Members(set) => cg_result_error_tag_index(set, err) = 0
<1>1. CASE err \in Members(set)
  <2> DEFINE First(i) == set[i] = err /\ \A j \in 1..(i - 1) : set[j] # err
  <2>1. PICK i \in DOMAIN set : set[i] = err
    BY <1>1 DEF Members
  <2>2. DOMAIN set = 1..Len(set) /\ Len(set) \in Nat
    OBVIOUS
  <2>3. First(i)
    BY <2>1, <2>2 DEF Once
  <2>4. cg_result_error_tag_index(set, err)
          = CHOOSE k \in DOMAIN set : First(k)
    BY <1>1 DEF cg_result_error_tag_index
  <2> HIDE DEF First
  <2>5. /\ cg_result_error_tag_index(set, err) \in DOMAIN set
        /\ First(cg_result_error_tag_index(set, err))
    BY <2>1, <2>3, <2>4
  <2> QED
    BY <1>1, <2>2, <2>5 DEF First
<1>2. CASE err \notin Members(set)
  BY <1>2 DEF cg_result_error_tag_index
<1> QED
  BY <1>1, <1>2

LEMMA IndexBegins ==
  ASSUME NEW set \in Seq(Errors), NEW other \in Seq(Errors), NEW err,
         Once(set), Once(other), Begins(set, other), err \in Members(set)
  PROVE  cg_result_error_tag_index(other, err)
           = cg_result_error_tag_index(set, err)
<1> DEFINE i == cg_result_error_tag_index(set, err)
           j == cg_result_error_tag_index(other, err)
<1>1. i \in DOMAIN set /\ set[i] = err
  BY IndexFacts
<1>2. err \in Members(other)
  BY BeginsMembers
<1>3. j \in DOMAIN other /\ other[j] = err
  BY <1>2, IndexFacts
<1>4. i \in DOMAIN other /\ other[i] = err
  BY <1>1 DEF Begins
<1> QED
  BY <1>3, <1>4 DEF Once

-----------------------------------------------------------------------------
(* A step of analysis adds at most one error, to one anonymous set.        *)

Grown(g, err) == sets' = [sets EXCEPT ![g] = Added(@, err)]

Analysis == CheckRaise \/ CheckForward \/ CheckAsk \/ CheckTest \/ CheckReuse

LEMMA Statements ==
  ASSUME Shape, at[1] \in DOMAIN text, at[2] \in DOMAIN text[at[1]].body
  PROVE  WellFormed(text, Stmt) /\ at[1] \in Nat \ {0} /\ at[2] \in Nat \ {0}
BY ErrorSetsAssumption DEF Shape, Stmt

LEMMA AddMemberGrows ==
  ASSUME Shape, phase = "check",
         NEW fn \in DOMAIN text, NEW g \in DOMAIN text,
         IsAnonymous(fn), AddMember(fn, g)
  PROVE  /\ sets[g][at[3]] \in Errors
         /\ Grown(fn, sets[g][at[3]])
         /\ at' \in (Nat \ {0}) \X (Nat \ {0}) \X (Nat \ {0})
<1>1. sets[g] \in Seq(Errors) /\ at[3] \in DOMAIN sets[g]
  BY DEF Shape, AddMember
<1>2. at' = <<at[1], at[2], at[3] + 1>>
  BY DEF Shape, AddMember
<1>3. at[1] \in Nat \ {0} /\ at[2] \in Nat \ {0} /\ at[3] + 1 \in Nat \ {0}
  BY DEF Shape
<1>4. at' \in (Nat \ {0}) \X (Nat \ {0}) \X (Nat \ {0})
  BY <1>2, <1>3
<1>5. Grown(fn, sets[g][at[3]])
  BY DEF Grown, AddMember
<1>6. sets[g][at[3]] \in Errors
  BY <1>1
<1> QED
  BY <1>4, <1>5, <1>6

LEMMA AnalysisGrows ==
  ASSUME Shape, Analysis
  PROVE  /\ phase = "check"
         /\ UNCHANGED <<text, raised, answer>>
         /\ phase' \in {"check", "rejected"}
         /\ at' \in (Nat \ {0}) \X (Nat \ {0}) \X (Nat \ {0})
         /\ \/ sets' = sets
            \/ \E g \in DOMAIN text, err \in Errors :
                  IsAnonymous(g) /\ Grown(g, err)
<1>1. /\ phase = "check"
      /\ at[1] \in DOMAIN text /\ at[2] \in DOMAIN text[at[1]].body
  BY DEF Analysis, CheckRaise, CheckForward, CheckAsk, CheckTest,
         CheckReuse, AtStatement
<1>2. WellFormed(text, Stmt)
  BY <1>1, Statements
<1>3. ASSUME NEW ok, Done(ok)
      PROVE  /\ UNCHANGED <<text, raised, answer>>
             /\ phase' \in {"check", "rejected"}
             /\ at' \in (Nat \ {0}) \X (Nat \ {0}) \X (Nat \ {0})
  BY <1>3 DEF Done, Shape
<1>4. CASE CheckRaise
  <2>1. Stmt.err \in Errors
    BY <1>2, <1>4 DEF WellFormed, CheckRaise, AtStatement
  <2>2. sets' = sets \/ (IsAnonymous(at[1]) /\ Grown(at[1], Stmt.err))
    BY <1>4 DEF CheckRaise, Grown
  <2> QED
    BY <1>1, <1>3, <1>4, <2>1, <2>2 DEF CheckRaise
<1>5. CASE CheckForward
  <2>1. Stmt.fn \in DOMAIN text
    BY <1>2, <1>5 DEF WellFormed, CheckForward, AtStatement
  <2>2. CASE IsAnonymous(at[1]) /\ AddMember(at[1], Stmt.fn)
    BY <1>1, <2>1, <2>2, AddMemberGrows DEF AddMember
  <2>3. CASE UNCHANGED sets /\ \E ok : Done(ok)
    BY <1>1, <1>3, <2>3
  <2> QED
    BY <1>5, <2>2, <2>3 DEF CheckForward
<1>6. CASE CheckAsk
  <2>1. Stmt.fn \in DOMAIN text
    BY <1>2, <1>6 DEF WellFormed, CheckAsk, AtStatement
  <2>2. CASE IsAnonymous(at[1]) /\ AddMember(at[1], Stmt.fn)
    BY <1>1, <2>1, <2>2, AddMemberGrows DEF AddMember
  <2>3. CASE UNCHANGED sets /\ \E ok : Done(ok)
    BY <1>1, <1>3, <2>3
  <2> QED
    BY <1>6, <2>2, <2>3 DEF CheckAsk
<1>7. CASE CheckTest
  BY <1>1, <1>3, <1>7 DEF CheckTest
<1>8. CASE CheckReuse
  <2>1. Stmt.fn \in DOMAIN text /\ Stmt.by \in DOMAIN text
    BY <1>2, <1>8 DEF WellFormed, CheckReuse, AtStatement
  <2>2. CASE IsAnonymous(Stmt.fn) /\ AddMember(Stmt.fn, Stmt.by)
    BY <1>1, <2>1, <2>2, AddMemberGrows DEF AddMember
  <2>3. CASE UNCHANGED sets /\ \E ok : Done(ok)
    BY <1>1, <1>3, <2>3
  <2> QED
    BY <1>8, <2>2, <2>3 DEF CheckReuse
<1> QED
  BY <1>4, <1>5, <1>6, <1>7, <1>8 DEF Analysis

LEMMA GrownShape ==
  ASSUME Shape, NEW g \in DOMAIN text, NEW err \in Errors,
         IsAnonymous(g), Grown(g, err), text' = text
  PROVE  /\ sets' \in [DOMAIN text -> Seq(Errors)]
         /\ \A f \in DOMAIN text : /\ Once(sets'[f])
                                   /\ Begins(sets[f], sets'[f])
                                   /\ ~IsAnonymous(f) => sets'[f] = sets[f]
         /\ err \in Members(sets'[g])
<1>1. sets[g] \in Seq(Errors) /\ Once(sets[g])
  BY DEF Shape
<1>2. /\ Added(sets[g], err) \in Seq(Errors)
      /\ Once(Added(sets[g], err))
      /\ Begins(sets[g], Added(sets[g], err))
      /\ err \in Members(Added(sets[g], err))
  BY <1>1, AddedFacts
<1>3. /\ sets' \in [DOMAIN text -> Seq(Errors)]
      /\ sets'[g] = Added(sets[g], err)
      /\ \A f \in DOMAIN text : f # g => sets'[f] = sets[f]
  BY <1>2 DEF Grown, Shape
<1>4. \A f \in DOMAIN text : Begins(sets[f], sets[f])
  BY DEF Shape, Begins
<1> QED
  BY <1>2, <1>3, <1>4 DEF Shape

LEMMA Grows ==
  ASSUME Shape, [Next]_vars
  PROVE  /\ Shape'
         /\ text' = text
         /\ \A f \in DOMAIN text :
              /\ Begins(sets[f], sets'[f])
              /\ Members(sets[f]) \subseteq Members(sets'[f])
<1>1. \A f \in DOMAIN text : Begins(sets[f], sets[f])
  BY DEF Shape, Begins
<1>2. CASE Analysis
  <2>1. /\ phase = "check" /\ text' = text
        /\ UNCHANGED <<text, raised, answer>>
        /\ phase' \in {"check", "rejected"}
        /\ at' \in (Nat \ {0}) \X (Nat \ {0}) \X (Nat \ {0})
        /\ \/ sets' = sets
           \/ \E g \in DOMAIN text, err \in Errors :
                 IsAnonymous(g) /\ Grown(g, err)
    BY <1>2, AnalysisGrows
  <2>2. /\ sets' \in [DOMAIN text -> Seq(Errors)]
        /\ \A f \in DOMAIN text : /\ Once(sets'[f])
                                  /\ Begins(sets[f], sets'[f])
                                  /\ ~IsAnonymous(f) => sets'[f] = sets[f]
    <3>1. CASE sets' = sets
      BY <1>1, <3>1 DEF Shape
    <3>2. CASE \E g \in DOMAIN text, err \in Errors :
                  IsAnonymous(g) /\ Grown(g, err)
      BY <2>1, <3>2, GrownShape
    <3> QED
      BY <2>1, <3>1, <3>2
  <2>3. \A f \in DOMAIN text : Members(sets[f]) \subseteq Members(sets'[f])
    BY <2>2, BeginsMembers DEF Shape
  <2> QED
    BY <2>1, <2>2, <2>3 DEF Shape, IsAnonymous
<1>3. CASE NextFunction
  BY <1>1, <1>3 DEF NextFunction, Shape, IsAnonymous
<1>4. CASE Compiled
  BY <1>1, <1>4 DEF Compiled, Shape, IsAnonymous
<1>5. ASSUME NEW f \in DOMAIN text, Run(f)
      PROVE  /\ UNCHANGED <<text, sets, at>> /\ phase = "run"
             /\ phase' \in {"run", "panic"}
  BY <1>5 DEF Run, Raise, HandOn, Test, Reuse, Asked
<1>6. CASE \E f \in DOMAIN text : Run(f)
  BY <1>1, <1>5, <1>6 DEF Shape, IsAnonymous
<1>7. CASE UNCHANGED vars
  BY <1>1, <1>7 DEF vars, Shape, IsAnonymous
<1> QED
  BY <1>2, <1>3, <1>4, <1>6, <1>7 DEF Next, Analysis

LEMMA InitShape == Init => Shape
<1> SUFFICES ASSUME Init PROVE Shape
  OBVIOUS
<1>1. sets \in [DOMAIN text -> Seq(Errors)]
  BY ErrorSetsAssumption DEF Init, IsAnonymous
<1>2. \A f \in DOMAIN text : Once(sets[f])
  BY ErrorSetsAssumption DEF Init, IsAnonymous, Once
<1> QED
  BY <1>1, <1>2 DEF Init, Shape, IsAnonymous

-----------------------------------------------------------------------------
(* NoPanic: what was checked is in the sets.                               *)

Passed(f, i) == f < at[1] \/ (f = at[1] /\ i < at[2])

RaisesKnown ==
  phase \in {"check", "run"} =>
    \A f \in DOMAIN text : \A i \in Reached(f, "raise") :
      Passed(f, i) => text[f].body[i].err \in Members(sets[f])

Numbered ==
  raised # None =>
    /\ raised.fn \in DOMAIN text
    /\ raised.was \in Errors
    /\ raised.tag \in Nat \ {0}
    /\ raised = [fn |-> raised.fn, tag |-> raised.tag, was |-> raised.was]

Inv == Shape /\ RaisesKnown /\ Numbered /\ phase # "panic"

(* The statements analysis has passed after a step are those it had passed *)
(* before, and the one it was at when the step is done with it.            *)
LEMMA PassedAfter ==
  ASSUME Shape, [Next]_vars, NEW f \in DOMAIN text,
         NEW i \in DOMAIN text[f].body, Passed(f, i)',
         phase' \in {"check", "run"}
  PROVE  /\ phase \in {"check", "run"}
         /\ \/ Passed(f, i)
            \/ /\ phase = "check" /\ f = at[1] /\ i = at[2]
               /\ Analysis /\ \E ok : ok /\ Done(ok)
<1>1. f \in Nat /\ i \in Nat
  BY ErrorSetsAssumption DEF Shape, IsSeq
<1>2. at \in Nat \X Nat \X Nat
  BY DEF Shape
<1>3. CASE Analysis
  <2>1. /\ phase = "check" /\ phase' \in {"check", "rejected"}
    BY <1>3, AnalysisGrows
  <2>2. ASSUME NEW fn, NEW g, AddMember(fn, g)
        PROVE  Passed(f, i)
    BY <1>1, <1>2, <2>2 DEF AddMember, Passed
  <2>3. ASSUME NEW ok, Done(ok)
        PROVE  /\ ok
               /\ Passed(f, i) \/ (f = at[1] /\ i = at[2])
    <3>1. at' = <<at[1], at[2] + 1, 1>> /\ phase' # "rejected"
      BY <2>3 DEF Done
    <3>2. Passed(f, i) \/ (f = at[1] /\ i = at[2])
      BY <1>1, <1>2, <3>1 DEF Passed
    <3> QED
      BY <2>3, <3>1, <3>2 DEF Done
  <2>4. (\E fn, g : AddMember(fn, g)) \/ (\E ok : Done(ok))
    BY <1>3 DEF Analysis, CheckRaise, CheckForward, CheckAsk, CheckTest,
                CheckReuse
  <2> QED
    BY <1>3, <2>1, <2>2, <2>3, <2>4
<1>4. CASE NextFunction
  <2>1. at' = <<at[1] + 1, 1, 1>> /\ phase = "check"
        /\ at[1] \in DOMAIN text /\ at[2] \notin DOMAIN text[at[1]].body
    BY <1>4 DEF NextFunction
  <2>2. DOMAIN text[at[1]].body = 1..Len(text[at[1]].body)
        /\ Len(text[at[1]].body) \in Nat /\ at[2] \in Nat \ {0}
    BY <2>1, ErrorSetsAssumption DEF Shape, IsSeq
  <2>3. f < at[1] \/ f = at[1]
    BY <1>1, <1>2, <2>1, ErrorSetsAssumption, SMTT(30) DEF Passed, Shape, IsSeq
  <2>4. f = at[1] => i < at[2]
    BY <1>1, <2>1, <2>2
  <2> QED
    BY <2>1, <2>3, <2>4 DEF Passed
<1>5. CASE Compiled
  BY <1>5 DEF Compiled, Passed
<1>6. CASE \E h \in DOMAIN text : Run(h)
  BY <1>6 DEF Run, Raise, HandOn, Test, Reuse, Asked, Passed
<1>7. CASE UNCHANGED vars
  BY <1>7 DEF vars, Passed
<1> QED
  BY <1>3, <1>4, <1>5, <1>6, <1>7 DEF Next, Analysis

LEMMA RaisesKnownStep ==
  ASSUME Inv, [Next]_vars
  PROVE  RaisesKnown'
<1> USE DEF Inv
<1>1. text' = text /\ sets' \in [DOMAIN text -> Seq(Errors)]
      /\ \A f \in DOMAIN text : Members(sets[f]) \subseteq Members(sets'[f])
  BY Grows DEF Shape
<1> SUFFICES ASSUME phase' \in {"check", "run"}, NEW f \in DOMAIN text,
                    NEW i \in DOMAIN text[f].body,
                    text[f].body[i].op = "raise", Passed(f, i)'
             PROVE  text[f].body[i].err \in Members(sets'[f])
  BY <1>1 DEF RaisesKnown, Reached
<1>2. phase \in {"check", "run"}
  BY PassedAfter
<1>3. CASE Passed(f, i)
  BY <1>1, <1>2, <1>3 DEF RaisesKnown, Reached
<1>4. CASE phase = "check" /\ f = at[1] /\ i = at[2] /\ Analysis
           /\ \E ok : ok /\ Done(ok)
  <2>1. Stmt.op = "raise" /\ Stmt = text[f].body[i]
    BY <1>4 DEF Stmt
  <2>2. CheckRaise
    BY <1>4, <2>1 DEF Analysis, CheckForward, CheckAsk, CheckTest,
                      CheckReuse, AtStatement
  <2>3. Stmt.err \in Errors
    BY <1>4, <2>1, Statements DEF WellFormed
  <2>4. CASE IsAnonymous(f)
    <3>1. Grown(f, Stmt.err)
      BY <1>4, <2>2, <2>4 DEF CheckRaise, Grown
    <3> QED
      BY <1>1, <2>1, <2>3, <2>4, <3>1, GrownShape
  <2>5. CASE ~IsAnonymous(f)
    <3>1. sets' = sets /\ Stmt.err \in Members(sets[f])
      <4>1. sets' = sets
            /\ Done(IsAnonymous(at[1]) \/ Stmt.err \in Members(sets[at[1]]))
        BY <1>4, <2>2, <2>5 DEF CheckRaise
      <4> QED
        BY <1>4, <2>5, <4>1 DEF Done
    <3> QED
      BY <2>1, <3>1
  <2> QED
    BY <2>4, <2>5
<1> QED
  BY <1>3, <1>4, PassedAfter

LEMMA RunStep ==
  ASSUME Inv, NEW f \in DOMAIN text, Run(f)
  PROVE  Numbered' /\ phase' # "panic"
<1> USE DEF Inv
<1>1. phase = "run" /\ text' = text /\ sets' = sets
  BY DEF Run, Raise, HandOn, Test, Reuse, Asked
<1>2. CASE Raise(f)
  <2>1. PICK i \in Reached(f, "raise") :
          LET err == text[f].body[i].err
              tag == cg_result_error_tag_index(sets[f], err) IN
          IF tag = 0
          THEN phase' = "panic" /\ raised' = raised
          ELSE /\ raised' = [fn |-> f, tag |-> tag, was |-> err]
               /\ phase' = phase
    BY <1>2 DEF Raise
  <2> DEFINE err == text[f].body[i].err
             tag == cg_result_error_tag_index(sets[f], err)
  <2>2. i \in DOMAIN text[f].body /\ text[f].body[i].op = "raise"
    BY <2>1 DEF Reached
  <2>3. Passed(f, i)
    <3>1. at[1] \notin DOMAIN text /\ at[1] \in Nat \ {0} /\ f \in Nat
      BY <1>1, ErrorSetsAssumption DEF Shape, IsSeq
    <3> QED
      BY <3>1, ErrorSetsAssumption DEF Passed, Shape, IsSeq
  <2>4. err \in Members(sets[f])
    BY <1>1, <2>2, <2>3 DEF RaisesKnown, Reached
  <2>5. sets[f] \in Seq(Errors) /\ Once(sets[f])
    BY DEF Shape
  <2>6. tag \in Nat \ {0}
    BY <2>4, <2>5, IndexFacts
  <2>7. err \in Errors
    BY <2>4, <2>5 DEF Members
  <2>8. raised' = [fn |-> f, tag |-> tag, was |-> err] /\ phase' = phase
    BY <2>1, <2>6
  <2> HIDE DEF err, tag
  <2> QED
    BY <1>1, <2>6, <2>7, <2>8 DEF Numbered
<1>3. CASE HandOn(f)
  BY <1>1, <1>3 DEF HandOn, Numbered
<1>4. CASE Test(f) \/ Reuse(f)
  BY <1>1, <1>4 DEF Test, Reuse, Asked, Numbered
<1> QED
  BY <1>2, <1>3, <1>4 DEF Run

LEMMA InvStep == Inv /\ [Next]_vars => Inv'
<1> SUFFICES ASSUME Inv, [Next]_vars PROVE Inv'
  OBVIOUS
<1>1. Shape' /\ text' = text
  BY Grows DEF Inv
<1>2. RaisesKnown'
  BY RaisesKnownStep
<1>3. Numbered' /\ phase' # "panic"
  <2>1. CASE Analysis
    BY <1>1, <2>1, AnalysisGrows DEF Inv, Numbered
  <2>2. CASE NextFunction \/ Compiled \/ UNCHANGED vars
    BY <1>1, <2>2 DEF Inv, Numbered, NextFunction, Compiled, vars
  <2>3. CASE \E f \in DOMAIN text : Run(f)
    BY <2>3, RunStep
  <2> QED
    BY <2>1, <2>2, <2>3 DEF Next, Analysis
<1> QED
  BY <1>1, <1>2, <1>3 DEF Inv

LEMMA InitInv == Init => Inv
<1> SUFFICES ASSUME Init PROVE Inv
  OBVIOUS
<1>1. Shape
  BY InitShape
<1>2. \A f \in DOMAIN text : \A i \in DOMAIN text[f].body : ~Passed(f, i)
  <2>1. at[1] = 1 /\ at[2] = 1
    BY DEF Init
  <2>2. \A f \in DOMAIN text : f \in Nat \ {0}
    BY <1>1, ErrorSetsAssumption DEF Shape, IsSeq
  <2>3. \A f \in DOMAIN text : \A i \in DOMAIN text[f].body : i \in Nat \ {0}
    BY <1>1, ErrorSetsAssumption DEF Shape, IsSeq
  <2> QED
    BY <2>1, <2>2, <2>3 DEF Passed
<1> QED
  BY <1>1, <1>2 DEF Init, Inv, RaisesKnown, Numbered, Reached

LEMMA Invariance == Spec => []Inv
<1> QED
  BY InitInv, InvStep, PTL DEF Spec

(* While a program is analysed and while it runs, the error sets hold      *)
(* declared errors only, and an error that is handed on has a number that  *)
(* does not mean success.                                                  *)
THEOREM TypeCorrect == Spec => []TypeOK
<1>1. Inv => TypeOK
  BY DEF Inv, Shape, Numbered, Members, TypeOK
<1> QED
  BY <1>1, Invariance, PTL

(* cg_build_result_value, which panics when an error has no number in the  *)
(* set of the function that returns it, never does so for a program that   *)
(* analysis accepted, however many functions and errors it has.            *)
THEOREM CodeGenerationNeverPanics == Spec => []NoPanic
<1>1. Inv => NoPanic
  BY DEF Inv, NoPanic
<1> QED
  BY <1>1, Invariance, PTL

-----------------------------------------------------------------------------
(* ErrorsDeclared: a set holds those of the functions it is handed.        *)

Premise == CalleesAbove /\ NamedSetsReturn /\ ReusedApart

CallsKnown ==
  phase \in {"check", "run"} =>
    \A f \in DOMAIN text : \A i \in Calls(f) :
      Passed(f, i) => Members(sets[Callee(f, i)]) \subseteq Members(sets[f])

(* What the loop over the callee's set has added so far.                   *)
LoopKnown ==
  /\ phase = "check"
  /\ at[1] \in DOMAIN text /\ at[2] \in Calls(at[1]) /\ IsAnonymous(at[1])
  => \A k \in DOMAIN sets[Stmt.fn] :
       k < at[3] => sets[Stmt.fn][k] \in Members(sets[at[1]])

Declared == raised # None => raised.was \in Members(sets[raised.fn])

DeclaredInv == Inv /\ (Premise => CallsKnown /\ LoopKnown /\ Declared)

(* A step does not touch the set of a function whose errors are handed on  *)
(* by a statement analysis has reached.                                    *)
LEMMA CalleesKept ==
  ASSUME Inv, Premise, [Next]_vars, NEW f \in DOMAIN text, NEW i \in Calls(f),
         f < at[1] \/ f = at[1]
  PROVE  /\ Callee(f, i) \in DOMAIN text
         /\ sets'[Callee(f, i)] = sets[Callee(f, i)]
<1> USE DEF Inv
<1>1. /\ i \in DOMAIN text[f].body /\ text[f].body[i].op \in {"forward", "ask"}
      /\ f \in Nat
  BY ErrorSetsAssumption DEF Calls, Shape, IsSeq
<1>2. Callee(f, i) \in DOMAIN text /\ Callee(f, i) < f /\ Callee(f, i) \in Nat
  BY <1>1, ErrorSetsAssumption
     DEF Premise, CalleesAbove, Callee, Shape, IsSeq, WellFormed
<1> SUFFICES sets'[Callee(f, i)] = sets[Callee(f, i)]
  BY <1>2
<1>3. Callee(f, i) # at[1]
  BY <1>1, <1>2 DEF Shape
<1>4. ASSUME NEW fn \in DOMAIN text, NEW g \in DOMAIN text, AddMember(fn, g),
             fn # Callee(f, i)
      PROVE  sets'[Callee(f, i)] = sets[Callee(f, i)]
  BY <1>2, <1>4 DEF AddMember, Shape
<1>5. CASE Analysis
  <2>1. at[1] \in DOMAIN text /\ at[2] \in DOMAIN text[at[1]].body
    BY <1>5 DEF Analysis, CheckRaise, CheckForward, CheckAsk, CheckTest,
                CheckReuse, AtStatement
  <2>2. WellFormed(text, Stmt)
    BY <2>1, Statements
  <2>3. CASE CheckRaise
    BY <1>2, <1>3, <2>3 DEF CheckRaise, Shape
  <2>4. CASE CheckForward \/ CheckAsk
    <3>1. Stmt.fn \in DOMAIN text
      BY <2>2, <2>4 DEF CheckForward, CheckAsk, AtStatement, WellFormed
    <3>2. CASE AddMember(at[1], Stmt.fn)
      BY <1>3, <1>4, <2>1, <3>1, <3>2
    <3> QED
      BY <2>4, <3>2 DEF CheckForward, CheckAsk
  <2>5. CASE CheckTest
    BY <2>5 DEF CheckTest
  <2>6. CASE CheckReuse
    <3>1. /\ Stmt.op = "reuse"
          /\ Stmt.fn \in DOMAIN text /\ Stmt.by \in DOMAIN text
      BY <2>2, <2>6 DEF CheckReuse, AtStatement, WellFormed
    <3>2. at[2] \in Reached(at[1], "reuse")
      BY <2>1, <3>1 DEF Reached, Stmt
    <3>3. Stmt.fn # Callee(f, i)
      BY <2>1, <3>2 DEF Premise, ReusedApart, Stmt
    <3>4. CASE AddMember(Stmt.fn, Stmt.by)
      BY <1>4, <3>1, <3>3, <3>4
    <3> QED
      BY <2>6, <3>4 DEF CheckReuse
  <2> QED
    BY <1>5, <2>3, <2>4, <2>5, <2>6 DEF Analysis
<1>6. CASE NextFunction \/ Compiled \/ UNCHANGED vars
  BY <1>6 DEF NextFunction, Compiled, vars
<1>7. CASE \E h \in DOMAIN text : Run(h)
  BY <1>7 DEF Run, Raise, HandOn, Test, Reuse, Asked
<1> QED
  BY <1>2, <1>5, <1>6, <1>7 DEF Next, Analysis

(* The loop is done: the callee's errors are in the set.                   *)
LEMMA CallDone ==
  ASSUME Inv, Premise, LoopKnown, Analysis,
         NEW ok, Done(ok), ok, at[2] \in Calls(at[1])
  PROVE  /\ sets' = sets
         /\ Members(sets[Stmt.fn]) \subseteq Members(sets[at[1]])
<1> USE DEF Inv
<1>1. /\ phase = "check" /\ at[1] \in DOMAIN text
      /\ at[2] \in DOMAIN text[at[1]].body
  BY DEF Analysis, CheckRaise, CheckForward, CheckAsk, CheckTest,
         CheckReuse, AtStatement
<1>2. Stmt.op \in {"forward", "ask"} /\ Stmt.fn \in DOMAIN text
  BY <1>1, Statements DEF Calls, Stmt, WellFormed
<1>3. ~ \E fn, g : AddMember(fn, g)
  BY DEF Done, AddMember, Shape
<1>4. CASE CheckForward
  <2>1. sets' = sets
        /\ Done(Members(sets[Stmt.fn]) \subseteq Members(sets[at[1]]))
    BY <1>3, <1>4 DEF CheckForward
  <2>2. phase' = "check"
    BY DEF Done
  <2> QED
    BY <2>1, <2>2 DEF Done
<1>5. CASE CheckAsk
  <2>1. sets' = sets /\ (IsAnonymous(at[1]) => AllAdded(Stmt.fn))
    BY <1>3, <1>5 DEF CheckAsk
  <2>2. Stmt.op = "ask" /\ at[2] \in Reached(at[1], "ask")
    BY <1>1, <1>5 DEF CheckAsk, AtStatement, Reached, Stmt
  <2>3. IsAnonymous(at[1])
    BY <1>1, <2>2 DEF Premise, NamedSetsReturn
  <2>4. DOMAIN sets[Stmt.fn] = 1..Len(sets[Stmt.fn])
        /\ Len(sets[Stmt.fn]) \in Nat /\ at[3] \in Nat \ {0}
    BY <1>2 DEF Shape
  <2>5. \A k \in DOMAIN sets[Stmt.fn] : k < at[3]
    BY <2>1, <2>3, <2>4 DEF AllAdded
  <2>6. \A k \in DOMAIN sets[Stmt.fn] :
          sets[Stmt.fn][k] \in Members(sets[at[1]])
    BY <1>1, <2>3, <2>5 DEF LoopKnown
  <2> QED
    BY <2>1, <2>6 DEF Members
<1> QED
  BY <1>2, <1>4, <1>5 DEF Analysis, CheckRaise, CheckTest, CheckReuse,
                          AtStatement

LEMMA CallsKnownStep ==
  ASSUME DeclaredInv, Premise, [Next]_vars
  PROVE  CallsKnown'
<1> USE DEF DeclaredInv
<1>1. text' = text
      /\ \A f \in DOMAIN text : Members(sets[f]) \subseteq Members(sets'[f])
  BY Grows DEF Inv
<1> SUFFICES ASSUME phase' \in {"check", "run"}, NEW f \in DOMAIN text,
                    NEW i \in Calls(f), Passed(f, i)'
             PROVE  Members(sets'[Callee(f, i)]) \subseteq Members(sets'[f])
  BY <1>1 DEF CallsKnown, Calls, Callee
<1>2. i \in DOMAIN text[f].body /\ Shape
  BY DEF Calls, Inv
<1>3. phase \in {"check", "run"}
  BY <1>2, PassedAfter
<1>4. CASE Passed(f, i)
  <2>1. sets'[Callee(f, i)] = sets[Callee(f, i)]
    BY <1>4, CalleesKept DEF Passed
  <2>2. Members(sets[Callee(f, i)]) \subseteq Members(sets[f])
    BY <1>3, <1>4 DEF CallsKnown
  <2> QED
    BY <1>1, <2>1, <2>2
<1>5. CASE /\ phase = "check" /\ f = at[1] /\ i = at[2]
           /\ Analysis /\ \E ok : ok /\ Done(ok)
  <2>1. Stmt.fn = Callee(f, i)
    BY <1>5 DEF Stmt, Callee
  <2>2. sets' = sets /\ Members(sets[Stmt.fn]) \subseteq Members(sets[at[1]])
    BY <1>5, CallDone
  <2> QED
    BY <1>5, <2>1, <2>2
<1> QED
  BY <1>2, <1>4, <1>5, PassedAfter

LEMMA LoopKnownStep ==
  ASSUME DeclaredInv, Premise, [Next]_vars
  PROVE  LoopKnown'
<1> USE DEF DeclaredInv
<1>1. Shape /\ Shape' /\ text' = text
      /\ \A f \in DOMAIN text : Members(sets[f]) \subseteq Members(sets'[f])
  BY Grows DEF Inv
<1> SUFFICES ASSUME phase' = "check", at'[1] \in DOMAIN text,
                    at'[2] \in Calls(at'[1]), IsAnonymous(at'[1]),
                    NEW k \in DOMAIN sets'[Stmt'.fn], k < at'[3]
             PROVE  sets'[Stmt'.fn][k] \in Members(sets'[at'[1]])
  BY <1>1 DEF LoopKnown, Calls, IsAnonymous
<1>2. /\ at' = <<at'[1], at'[2], at'[3]>> /\ at = <<at[1], at[2], at[3]>>
      /\ at[3] \in Nat \ {0} /\ at'[3] \in Nat \ {0} /\ at[1] \in Nat
  BY <1>1 DEF Shape
<1>3. CASE at'[1] = at[1] /\ at'[2] = at[2]
  <2>1. Stmt' = Stmt /\ phase = "check"
    BY <1>1, <1>3, AnalysisGrows
       DEF Stmt, Next, Analysis, NextFunction, Compiled, vars, Run, Raise,
           HandOn, Test, Reuse, Asked
  <2>2. Stmt.fn = Callee(at[1], at[2]) /\ at[2] \in Calls(at[1])
    BY <1>3 DEF Stmt, Callee
  <2>3. sets'[Stmt.fn] = sets[Stmt.fn]
    BY <1>3, <2>2, CalleesKept
  <2>4. CASE k < at[3]
    BY <1>1, <1>3, <2>1, <2>2, <2>3, <2>4 DEF LoopKnown
  <2>5. CASE ~(k < at[3])
    <3>1. at' # at
      BY <2>5
    <3>2. Analysis
      <4>1. ~NextFunction
        BY <1>2, <1>3 DEF NextFunction
      <4> QED
        BY <3>1, <4>1 DEF Next, Analysis, Compiled, vars, Run, Raise, HandOn,
                          Test, Reuse, Asked
    <3>3. Stmt.op \in {"forward", "ask"}
      BY <1>3, <2>2 DEF Calls, Stmt
    <3>4. ~ \E ok : Done(ok)
      BY <1>2, <1>3, <1>1 DEF Done, Shape
    <3>5. AddMember(at[1], Stmt.fn)
      BY <3>2, <3>3, <3>4 DEF Analysis, CheckRaise, CheckForward, CheckAsk,
                              CheckTest, CheckReuse, AtStatement
    <3>6. at'[3] = at[3] + 1
      BY <1>2, <3>5 DEF AddMember
    <3>7. k = at[3]
      <4>1. k \in Nat
        BY <1>1, <1>3, <2>1, <2>3, <3>3, <3>5, Statements
           DEF WellFormed, Shape, Calls
      <4> QED
        BY <1>2, <2>5, <3>6, <4>1
    <3>8. Stmt.fn \in DOMAIN text
      BY <1>1, <1>3, <3>3, Statements DEF WellFormed, Calls
    <3>9. /\ sets[Stmt.fn][at[3]] \in Errors
          /\ Grown(at[1], sets[Stmt.fn][at[3]])
      BY <1>1, <1>3, <2>1, <3>5, <3>8, AddMemberGrows
    <3>10. sets[Stmt.fn][at[3]] \in Members(sets'[at[1]])
      BY <1>1, <1>3, <3>9, GrownShape
    <3> QED
      BY <1>3, <2>1, <2>3, <3>7, <3>10
  <2> QED
    BY <2>4, <2>5
<1>4. CASE ~(at'[1] = at[1] /\ at'[2] = at[2])
  <2>1. at'[3] = 1
    <3>1. CASE Analysis
      <4>1. (\E fn, g : AddMember(fn, g)) \/ (\E ok : Done(ok))
        BY <3>1 DEF Analysis, CheckRaise, CheckForward, CheckAsk, CheckTest,
                    CheckReuse
      <4> QED
        BY <1>2, <1>4, <4>1 DEF AddMember, Done
    <3>2. CASE NextFunction
      BY <3>2 DEF NextFunction
    <3>3. CASE Compiled \/ UNCHANGED vars \/ \E f \in DOMAIN text : Run(f)
      BY <1>4, <3>3 DEF Compiled, vars, Run, Raise, HandOn, Test, Reuse, Asked
    <3> QED
      BY <3>1, <3>2, <3>3 DEF Next, Analysis
  <2>2. k \in Nat \ {0}
    <3>1. Stmt'.fn \in DOMAIN text
      BY <1>1, ErrorSetsAssumption DEF Stmt, Calls, Shape, WellFormed
    <3> QED
      BY <1>1, <3>1, SMTT(30) DEF Shape
  <2> QED
    BY <2>1, <2>2
<1> QED
  BY <1>3, <1>4

LEMMA DeclaredStep ==
  ASSUME DeclaredInv, Premise, [Next]_vars
  PROVE  Declared'
<1> USE DEF DeclaredInv
<1>1. Shape /\ Shape' /\ text' = text /\ Numbered
      /\ \A f \in DOMAIN text : Members(sets[f]) \subseteq Members(sets'[f])
  BY Grows DEF Inv
<1>2. CASE raised' = raised
  BY <1>1, <1>2 DEF Declared, Numbered
<1>3. ASSUME NEW f \in DOMAIN text, Raise(f), raised' # raised
      PROVE  Declared'
  <2>1. PICK i \in Reached(f, "raise") :
          raised' = [fn |-> f, was |-> text[f].body[i].err,
                     tag |-> cg_result_error_tag_index(sets[f],
                                                       text[f].body[i].err)]
          /\ cg_result_error_tag_index(sets[f], text[f].body[i].err) # 0
    BY <1>3 DEF Raise
  <2>2. sets[f] \in Seq(Errors) /\ Once(sets[f])
    BY <1>1 DEF Shape
  <2>3. text[f].body[i].err \in Members(sets[f])
    BY <2>1, <2>2, IndexFacts
  <2>4. sets' = sets
    BY <1>3 DEF Raise
  <2> QED
    BY <2>1, <2>3, <2>4 DEF Declared
<1>4. ASSUME NEW f \in DOMAIN text, HandOn(f)
      PROVE  Declared'
  <2>1. PICK i \in Calls(f) : Callee(f, i) = raised.fn
    BY <1>4 DEF HandOn, Calls, Callee, Reached
  <2>2. Passed(f, i) /\ phase = "run"
    <3>1. /\ phase = "run" /\ at[1] \notin DOMAIN text
          /\ at[1] \in Nat \ {0} /\ f \in Nat
      BY <1>1, <1>4, ErrorSetsAssumption DEF Shape, IsSeq, HandOn
    <3> QED
      BY <1>1, <3>1, ErrorSetsAssumption DEF Passed, Shape, IsSeq
  <2>3. Members(sets[raised.fn]) \subseteq Members(sets[f])
    BY <2>1, <2>2 DEF CallsKnown
  <2>4. sets' = sets /\ raised # None /\ raised'.was = raised.was
        /\ raised'.fn = f
    BY <1>1, <1>4 DEF HandOn, Numbered
  <2> QED
    BY <2>3, <2>4 DEF Declared
<1> QED
  BY <1>2, <1>3, <1>4, AnalysisGrows, <1>1
     DEF Next, Analysis, NextFunction, Compiled, vars, Run, Test, Reuse, Asked

LEMMA InitDeclared == Init => DeclaredInv
<1> SUFFICES ASSUME Init PROVE DeclaredInv
  OBVIOUS
<1>1. Inv
  BY InitInv
<1>2. \A f \in DOMAIN text : \A i \in DOMAIN text[f].body : ~Passed(f, i)
  <2>1. at[1] = 1 /\ at[2] = 1
    BY DEF Init
  <2>2. \A f \in DOMAIN text : f \in Nat \ {0}
    BY <1>1, ErrorSetsAssumption DEF Inv, Shape, IsSeq
  <2>3. \A f \in DOMAIN text : \A i \in DOMAIN text[f].body : i \in Nat \ {0}
    BY <1>1, ErrorSetsAssumption DEF Inv, Shape, IsSeq
  <2> QED
    BY <2>1, <2>2, <2>3 DEF Passed
<1>3. CallsKnown
  BY <1>2 DEF CallsKnown, Calls
<1>4. LoopKnown
  <2> SUFFICES ASSUME at[1] \in DOMAIN text, at[2] \in Calls(at[1]),
                      NEW k \in DOMAIN sets[Stmt.fn], k < at[3]
               PROVE  FALSE
    BY DEF LoopKnown
  <2>1. Stmt.fn \in DOMAIN text
    BY <1>1, Statements DEF Inv, Calls, WellFormed, Stmt
  <2>2. k \in Nat \ {0}
    BY <1>1, <2>1 DEF Inv, Shape
  <2> QED
    BY <2>2 DEF Init
<1>5. Declared
  BY DEF Init, Declared
<1> QED
  BY <1>1, <1>3, <1>4, <1>5 DEF DeclaredInv

LEMMA DeclaredStepAll == DeclaredInv /\ [Next]_vars => DeclaredInv'
<1> SUFFICES ASSUME DeclaredInv, [Next]_vars PROVE DeclaredInv'
  OBVIOUS
<1>1. Inv' /\ text' = text
  BY InvStep, Grows DEF DeclaredInv, Inv
<1>2. Premise' <=> Premise
  BY <1>1 DEF Premise, CalleesAbove, NamedSetsReturn, ReusedApart, Calls,
              Callee, Reached, IsAnonymous
<1> QED
  BY <1>1, <1>2, CallsKnownStep, LoopKnownStep, DeclaredStep
     DEF DeclaredInv

LEMMA DeclaredInvariance == Spec => []DeclaredInv
<1> QED
  BY InitDeclared, DeclaredStepAll, PTL DEF Spec

(* Every error a function gives back is in its error set, through any      *)
(* chain of `return g()` and `g()?`, in every program whose functions hand *)
(* on errors of functions above them, do not use `?` under a named set,    *)
(* and do not reuse the variable of a result that is handed on elsewhere.  *)
THEOREM ErrorsAreDeclared == Spec => []ErrorsDeclared
<1>1. DeclaredInv => ErrorsDeclared
  BY DEF DeclaredInv, Declared, ErrorsDeclared, Premise
<1> QED
  BY <1>1, DeclaredInvariance, PTL

-----------------------------------------------------------------------------
(* ErrorsRecognised: the sets of callees begin the sets of their callers.  *)

CallsBegin ==
  phase \in {"check", "run"} =>
    \A f \in DOMAIN text : \A i \in Calls(f) :
      Passed(f, i) => Begins(sets[Callee(f, i)], sets[f])

(* Nothing is added to a set before analysis comes to its function.        *)
EmptyAhead ==
  \A f \in DOMAIN text : IsAnonymous(f) /\ f > at[1] => sets[f] = <<>>

(* In its first statement a function copies the callee's set.              *)
Copying ==
  /\ phase = "check"
  /\ at[1] \in DOMAIN text /\ at[2] = 1 /\ 1 \in Calls(at[1])
  /\ IsAnonymous(at[1])
  => /\ Len(sets[at[1]]) = at[3] - 1
     /\ Begins(sets[at[1]], sets[Stmt.fn])

Tagged ==
  raised # None =>
    raised.tag = cg_result_error_tag_index(sets[raised.fn], raised.was)

Answered == answer # Unasked => (answer.yes <=> answer.asked = answer.was)

RecognisedInv ==
  /\ DeclaredInv
  /\ Premise /\ SameNumbers =>
       CallsBegin /\ EmptyAhead /\ Copying /\ Tagged /\ Answered

(* Only the function analysis is at has its set grown.                     *)
LEMMA OneGrows ==
  ASSUME Inv, SameNumbers, [Next]_vars
  PROVE  \A f \in DOMAIN text : f # at[1] => sets'[f] = sets[f]
<1> USE DEF Inv
<1>1. ASSUME NEW fn, AddMember(at[1], fn)
      PROVE  \A f \in DOMAIN text : f # at[1] => sets'[f] = sets[f]
  BY <1>1 DEF AddMember, Shape
<1>2. CASE CheckRaise
  BY <1>2 DEF CheckRaise, Shape
<1>3. CASE CheckForward \/ CheckAsk
  BY <1>1, <1>3 DEF CheckForward, CheckAsk
<1>4. CASE CheckReuse
  <2>1. /\ at[1] \in DOMAIN text /\ at[2] \in DOMAIN text[at[1]].body
        /\ Stmt.op = "reuse"
    BY <1>4 DEF CheckReuse, AtStatement
  <2>2. Stmt.fn = Stmt.by /\ Stmt.fn \in DOMAIN text
    BY <2>1, Statements DEF SameNumbers, Reached, Stmt, WellFormed
  <2>3. CASE AddMember(Stmt.fn, Stmt.by)
    <3> DEFINE g == Stmt.fn
    <3>1. sets[g] \in Seq(Errors) /\ Once(sets[g])
      BY <2>2 DEF Shape
    <3>2. at[3] \in DOMAIN sets[g]
      BY <2>2, <2>3 DEF AddMember
    <3>3. sets[g][at[3]] \in Members(sets[g])
      BY <3>2 DEF Members
    <3>4. Added(sets[g], sets[g][at[3]]) = sets[g]
      BY <3>3 DEF Added
    <3>5. sets' = [sets EXCEPT ![g] = sets[g]]
      BY <2>2, <2>3, <3>4 DEF AddMember
    <3> QED
      BY <3>5 DEF Shape
  <2> QED
    BY <1>4, <2>3 DEF CheckReuse
<1>5. CASE CheckTest \/ NextFunction \/ Compiled \/ UNCHANGED vars
  BY <1>5 DEF CheckTest, NextFunction, Compiled, vars
<1>6. CASE \E h \in DOMAIN text : Run(h)
  BY <1>6 DEF Run, Raise, HandOn, Test, Reuse, Asked
<1> QED
  BY <1>2, <1>3, <1>4, <1>5, <1>6 DEF Next

LEMMA BeginsTransitive ==
  ASSUME NEW a \in Seq(Errors), NEW b \in Seq(Errors), NEW c \in Seq(Errors),
         Begins(a, b), Begins(b, c)
  PROVE  Begins(a, c)
BY DEF Begins

LEMMA EmptyAheadStep ==
  ASSUME RecognisedInv, Premise, SameNumbers, [Next]_vars
  PROVE  EmptyAhead'
<1> USE DEF RecognisedInv, DeclaredInv
<1>1. Shape /\ Shape' /\ text' = text
  BY Grows DEF Inv
<1>2. at'[1] >= at[1]
  <2>1. CASE Analysis
    <3>1. (\E fn, g : AddMember(fn, g)) \/ (\E ok : Done(ok))
      BY <2>1 DEF Analysis, CheckRaise, CheckForward, CheckAsk, CheckTest,
                  CheckReuse
    <3> QED
      BY <1>1, <3>1 DEF AddMember, Done, Shape
  <2>2. CASE NextFunction \/ Compiled \/ UNCHANGED vars
    BY <1>1, <2>2 DEF NextFunction, Compiled, vars, Shape
  <2>3. CASE \E h \in DOMAIN text : Run(h)
    BY <1>1, <2>3 DEF Run, Raise, HandOn, Test, Reuse, Asked, Shape
  <2> QED
    BY <2>1, <2>2, <2>3 DEF Next, Analysis
<1>3. \A f \in DOMAIN text : f > at'[1] => f > at[1] /\ f # at[1]
  <2>1. at[1] \in Nat /\ at'[1] \in Nat
    BY <1>1 DEF Shape
  <2>2. \A f \in DOMAIN text : f \in Nat
    BY <1>1, ErrorSetsAssumption DEF Shape, IsSeq
  <2> QED
    BY <1>2, <2>1, <2>2
<1> QED
  BY <1>1, <1>3, OneGrows DEF EmptyAhead, IsAnonymous

LEMMA CallsBeginStep ==
  ASSUME RecognisedInv, Premise, SameNumbers, [Next]_vars
  PROVE  CallsBegin'
<1> USE DEF RecognisedInv, DeclaredInv
<1>1. /\ Shape /\ Shape' /\ text' = text
      /\ \A f \in DOMAIN text : Begins(sets[f], sets'[f])
  BY Grows DEF Inv
<1> SUFFICES ASSUME phase' \in {"check", "run"}, NEW f \in DOMAIN text,
                    NEW i \in Calls(f), Passed(f, i)'
             PROVE  Begins(sets'[Callee(f, i)], sets'[f])
  BY <1>1 DEF CallsBegin, Calls, Callee
<1>2. i \in DOMAIN text[f].body /\ Callee(f, i) \in DOMAIN text
  BY <1>1, ErrorSetsAssumption DEF Calls, Callee, Shape, WellFormed
<1>3. phase \in {"check", "run"}
  BY <1>1, <1>2, PassedAfter
<1>4. CASE Passed(f, i)
  <2>1. sets'[Callee(f, i)] = sets[Callee(f, i)]
    BY <1>4, CalleesKept DEF Passed
  <2>2. Begins(sets[Callee(f, i)], sets[f])
    BY <1>3, <1>4 DEF CallsBegin
  <2>3. /\ sets[Callee(f, i)] \in Seq(Errors) /\ sets[f] \in Seq(Errors)
        /\ sets'[f] \in Seq(Errors)
    BY <1>1, <1>2 DEF Shape
  <2> QED
    BY <1>1, <2>1, <2>2, <2>3, BeginsTransitive
<1>5. CASE /\ phase = "check" /\ f = at[1] /\ i = at[2]
           /\ Analysis /\ \E ok : ok /\ Done(ok)
  <2>1. Stmt.fn = Callee(f, i)
    BY <1>5 DEF Stmt, Callee
  <2>2. sets' = sets
    BY <1>5, CallDone
  <2>3. CASE IsAnonymous(f)
    <3>1. i = 1
      BY <2>3 DEF SameNumbers
    <3>2. Len(sets[f]) = at[3] - 1 /\ Begins(sets[f], sets[Stmt.fn])
      BY <1>5, <2>3, <3>1 DEF Copying
    <3>3. ~ \E fn, g : AddMember(fn, g)
      BY <1>1, <1>5 DEF Done, AddMember, Shape
    <3>4. AllAdded(Stmt.fn)
      BY <1>5, <2>3, <3>3 DEF Analysis, CheckRaise, CheckForward, CheckAsk,
                              CheckTest, CheckReuse, AtStatement, Calls, Stmt
    <3>5. /\ DOMAIN sets[f] = 1..Len(sets[f]) /\ Len(sets[f]) \in Nat
          /\ DOMAIN sets[Stmt.fn] = 1..Len(sets[Stmt.fn])
          /\ Len(sets[Stmt.fn]) \in Nat
          /\ at[3] \in Nat \ {0}
      BY <1>1, <1>2, <2>1 DEF Shape
    <3>6. Len(sets[Stmt.fn]) = Len(sets[f])
      BY <3>2, <3>4, <3>5 DEF AllAdded, Begins
    <3> QED
      BY <2>1, <2>2, <3>2, <3>5, <3>6 DEF Begins
  <2>4. CASE ~IsAnonymous(f)
    <3>1. text[Callee(f, i)].result = text[f].result
      BY <2>4 DEF SameNumbers
    <3>2. ~IsAnonymous(Callee(f, i))
      BY <2>4, <3>1 DEF IsAnonymous
    <3>3. sets[Callee(f, i)] = sets[f] /\ sets[f] \in Seq(Errors)
      BY <1>1, <1>2, <2>4, <3>1, <3>2 DEF Shape
    <3> QED
      BY <2>2, <3>3 DEF Begins
  <2> QED
    BY <2>3, <2>4
<1> QED
  BY <1>1, <1>2, <1>4, <1>5, PassedAfter

LEMMA CopyingStep ==
  ASSUME RecognisedInv, Premise, SameNumbers, [Next]_vars
  PROVE  Copying'
<1> USE DEF RecognisedInv, DeclaredInv
<1>1. Shape /\ Shape' /\ text' = text
  BY Grows DEF Inv
<1> SUFFICES ASSUME phase' = "check", at'[1] \in DOMAIN text, at'[2] = 1,
                    1 \in Calls(at'[1]), IsAnonymous(at'[1])
             PROVE  /\ Len(sets'[at'[1]]) = at'[3] - 1
                    /\ Begins(sets'[at'[1]], sets'[Stmt'.fn])
  BY <1>1 DEF Copying, Calls, IsAnonymous
<1> DEFINE f == at'[1]
           g == Callee(f, 1)
<1>2. /\ Stmt'.fn = g /\ g \in DOMAIN text
      /\ 1 \in DOMAIN text[f].body /\ text[f].body[1].op \in {"forward", "ask"}
  BY <1>1, ErrorSetsAssumption DEF Stmt, Callee, Calls, Shape, WellFormed
<1>3. /\ at' = <<at'[1], at'[2], at'[3]>> /\ at = <<at[1], at[2], at[3]>>
      /\ at[1] \in Nat \ {0} /\ at[2] \in Nat \ {0} /\ at[3] \in Nat \ {0}
  BY <1>1 DEF Shape
<1>4. ASSUME UNCHANGED <<text, sets, at>>, phase = "check"
      PROVE  /\ Len(sets'[f]) = at'[3] - 1
             /\ Begins(sets'[f], sets'[g])
  BY <1>2, <1>4 DEF Copying, Stmt, Callee
<1>5. CASE Analysis
  <2>1. ASSUME NEW ok, Done(ok)
        PROVE  FALSE
    BY <1>3, <2>1 DEF Done
  <2>2. /\ at[1] \in DOMAIN text /\ phase = "check"
        /\ at'[1] = at[1] /\ at'[2] = at[2] /\ at'[3] = at[3] + 1
    <3>1. \E fn, h : AddMember(fn, h)
      BY <1>5, <2>1 DEF Analysis, CheckRaise, CheckForward, CheckAsk,
                        CheckTest, CheckReuse
    <3>2. at[1] \in DOMAIN text /\ phase = "check"
      BY <1>5 DEF Analysis, CheckRaise, CheckForward, CheckAsk, CheckTest,
                  CheckReuse, AtStatement
    <3> QED
      BY <1>3, <3>1, <3>2 DEF AddMember
  <2>3. Stmt.fn = g /\ Stmt.op \in {"forward", "ask"}
    BY <1>2, <2>2 DEF Stmt, Callee
  <2>4. AddMember(f, g)
    BY <1>5, <2>1, <2>2, <2>3 DEF Analysis, CheckRaise, CheckForward,
         CheckAsk, CheckTest, CheckReuse, AtStatement
  <2>5. Len(sets[f]) = at[3] - 1 /\ Begins(sets[f], sets[g])
    BY <2>2, <2>3 DEF Copying
  <2>6. sets'[g] = sets[g]
    <3>1. 1 \in Calls(f) /\ f = at[1] /\ f \in DOMAIN text
      BY <2>2
    <3> QED
      BY <3>1, CalleesKept
  <2> DEFINE err == sets[g][at[3]]
  <2>7. at[3] \in DOMAIN sets[g]
    BY <2>4 DEF AddMember
  <2>8. /\ sets[f] \in Seq(Errors) /\ Once(sets[f])
        /\ sets[g] \in Seq(Errors) /\ Once(sets[g])
        /\ err \in Errors
    BY <1>1, <1>2, <2>2, <2>7 DEF Shape
  <2>9. sets'[f] = Added(sets[f], err)
    BY <1>1, <2>2, <2>4 DEF AddMember, Shape
  <2>10. /\ DOMAIN sets[f] = 1..Len(sets[f]) /\ Len(sets[f]) \in Nat
         /\ DOMAIN sets[g] = 1..Len(sets[g]) /\ Len(sets[g]) \in Nat
    BY <2>8
  <2>11. err \notin Members(sets[f])
    <3> DEFINE n == at[3]
    <3>1. n \in Nat \ {0} /\ n \in DOMAIN sets[g] /\ Len(sets[f]) = n - 1
      BY <1>3, <2>5, <2>7
    <3> HIDE DEF f, g, n
    <3>2. \A k \in DOMAIN sets[f] : sets[f][k] = sets[g][k] /\ k < n
      BY <2>5, <2>10, <3>1 DEF Begins
    <3>3. \A k \in DOMAIN sets[f] : k \in DOMAIN sets[g]
      BY <2>5, <2>10 DEF Begins
    <3>4. \A k \in DOMAIN sets[f] : sets[f][k] # sets[g][n]
      BY <2>8, <2>10, <3>1, <3>2, <3>3 DEF Once
    <3>5. err = sets[g][n]
      BY DEF n
    <3> HIDE DEF err
    <3> QED
      BY <3>4, <3>5 DEF Members
  <2>12. /\ Len(sets'[f]) = Len(sets[f]) + 1
         /\ sets'[f][Len(sets[f]) + 1] = err
         /\ Begins(sets[f], sets'[f])
         /\ sets'[f] \in Seq(Errors)
    <3> HIDE DEF f, err
    <3>1. /\ Added(sets[f], err) \in Seq(Errors)
          /\ Begins(sets[f], Added(sets[f], err))
          /\ Len(Added(sets[f], err)) = Len(sets[f]) + 1
          /\ Added(sets[f], err)[Len(sets[f]) + 1] = err
      BY <2>8, <2>11, AddedFacts
    <3> QED
      BY <2>9, <3>1
  <2>13. Len(sets'[f]) = at[3] /\ DOMAIN sets'[f] = 1..at[3]
    <3> DEFINE n == at[3]
    <3>1. n \in Nat \ {0} /\ Len(sets[f]) = n - 1
      BY <1>3, <2>5
    <3> HIDE DEF f, n, err
    <3>2. Len(sets'[f]) = n
      BY <2>10, <2>12, <3>1
    <3>3. ASSUME NEW q \in Seq(Errors)
          PROVE  DOMAIN q = 1..Len(q)
      OBVIOUS
    <3>4. DOMAIN sets'[f] = 1..Len(sets'[f])
      BY <2>12, <3>3
    <3> QED
      BY <3>2, <3>4 DEF n
  <2>14. \A j \in 1..at[3] : sets'[f][j] = sets[g][j]
    <3> HIDE DEF f, g
    <3> TAKE j \in 1..at[3]
    <3>1. CASE j = at[3]
      BY <1>3, <2>5, <2>12, <2>10, <3>1
    <3>2. CASE j # at[3]
      <4>1. j \in DOMAIN sets[f]
        BY <1>3, <2>5, <2>10, <3>2
      <4> QED
        BY <2>5, <2>12, <4>1 DEF Begins
    <3> QED
      BY <3>1, <3>2
  <2>15. at[3] <= Len(sets[g])
    BY <1>3, <2>7, <2>10
  <2>16. Begins(sets'[f], sets'[g])
    BY <2>6, <2>13, <2>14, <2>15 DEF Begins
  <2> HIDE DEF f, g
  <2> QED
    BY <1>2, <1>3, <2>2, <2>13, <2>16 DEF f
<1>6. CASE NextFunction
  <2>1. at' = <<at[1] + 1, 1, 1>> /\ sets' = sets
    BY <1>6 DEF NextFunction
  <2>2. f > at[1] /\ IsAnonymous(f) /\ at'[3] = 1
    BY <1>3, <2>1
  <2>3. sets[f] = <<>>
    BY <2>2 DEF EmptyAhead
  <2>4. sets[g] \in Seq(Errors)
    BY <1>1, <1>2 DEF Shape
  <2>5. Begins(<<>>, sets[g]) /\ Len(<<>>) = 0
    BY <2>4 DEF Begins
  <2> QED
    BY <1>2, <2>1, <2>2, <2>3, <2>5
<1>7. CASE Compiled
  BY <1>7 DEF Compiled
<1>8. CASE \E h \in DOMAIN text : Run(h)
  BY <1>8 DEF Run, Raise, HandOn, Test, Reuse, Asked
<1>9. CASE UNCHANGED vars
  <2>1. UNCHANGED <<text, sets, at>> /\ phase = "check"
    BY <1>9 DEF vars
  <2> QED
    BY <1>2, <1>4, <2>1
<1> QED
  BY <1>5, <1>6, <1>7, <1>8, <1>9 DEF Next, Analysis

LEMMA TaggedStep ==
  ASSUME RecognisedInv, Premise, SameNumbers, [Next]_vars
  PROVE  Tagged' /\ Answered'
<1> USE DEF RecognisedInv, DeclaredInv
<1>1. Shape /\ Shape' /\ text' = text /\ Numbered
  BY Grows DEF Inv
<1>2. CASE phase = "check" /\ UNCHANGED <<raised, answer>>
  BY <1>1, <1>2 DEF Tagged, Answered, Shape
<1>3. CASE UNCHANGED vars
  BY <1>3 DEF Tagged, Answered, vars
<1>4. ASSUME NEW f \in DOMAIN text, Raise(f)
      PROVE  Tagged' /\ Answered'
  BY <1>1, <1>4 DEF Raise, Tagged, Answered
<1>5. ASSUME NEW f \in DOMAIN text, HandOn(f)
      PROVE  Tagged' /\ Answered'
  <2>1. PICK i \in Calls(f) : Callee(f, i) = raised.fn
    BY <1>5 DEF HandOn, Calls, Callee, Reached
  <2>2. Passed(f, i) /\ phase = "run"
    <3>1. /\ phase = "run" /\ at[1] \notin DOMAIN text
          /\ at[1] \in Nat \ {0} /\ f \in Nat
      BY <1>1, <1>5, ErrorSetsAssumption DEF Shape, IsSeq, HandOn
    <3> QED
      BY <1>1, <3>1, ErrorSetsAssumption DEF Passed, Shape, IsSeq
  <2>3. Begins(sets[raised.fn], sets[f])
    BY <2>1, <2>2 DEF CallsBegin
  <2>4. /\ raised # None /\ raised.fn \in DOMAIN text
        /\ raised.was \in Members(sets[raised.fn])
        /\ raised.tag = cg_result_error_tag_index(sets[raised.fn], raised.was)
    BY <1>1, <1>5 DEF HandOn, Numbered, Declared, Tagged
  <2>5. /\ sets[raised.fn] \in Seq(Errors) /\ Once(sets[raised.fn])
        /\ sets[f] \in Seq(Errors) /\ Once(sets[f])
    BY <1>1, <2>4 DEF Shape
  <2>6. raised.tag = cg_result_error_tag_index(sets[f], raised.was)
    BY <2>3, <2>4, <2>5, IndexBegins
  <2>7. /\ sets' = sets /\ answer' = answer /\ raised'.fn = f
        /\ raised'.tag = raised.tag /\ raised'.was = raised.was
    BY <1>1, <1>5, <2>4 DEF HandOn, Numbered
  <2> QED
    BY <2>6, <2>7 DEF Tagged, Answered
<1>6. ASSUME NEW f \in DOMAIN text, NEW err, Asked(f, raised.fn, err),
             raised # None
      PROVE  Tagged' /\ Answered'
  <2>1. /\ raised.fn \in DOMAIN text /\ raised.tag \in Nat \ {0}
        /\ raised.was \in Members(sets[raised.fn])
        /\ raised.tag = cg_result_error_tag_index(sets[raised.fn], raised.was)
    BY <1>1, <1>6 DEF Numbered, Declared, Tagged
  <2>2. sets[raised.fn] \in Seq(Errors) /\ Once(sets[raised.fn])
    BY <1>1, <2>1 DEF Shape
  <2> DEFINE set == sets[raised.fn]
             i == cg_result_error_tag_index(set, raised.was)
             j == cg_result_error_tag_index(set, err)
  <2>3. set[i] = raised.was /\ i \in Nat \ {0}
    BY <2>1, <2>2, IndexFacts
  <2>4. err \in Members(set) => set[j] = err
    BY <2>2, IndexFacts
  <2>5. err \notin Members(set) => j = 0
    BY <2>2, IndexFacts
  <2>6. (i = j) <=> (err = raised.was)
    BY <2>1, <2>3, <2>4, <2>5
  <2>7. /\ answer' = [yes |-> raised.tag = j, asked |-> err,
                      was |-> raised.was]
        /\ UNCHANGED <<sets, raised>>
    BY <1>6 DEF Asked
  <2>8. answer'.yes = (raised.tag = j) /\ answer'.asked = err
        /\ answer'.was = raised.was
    BY <2>7
  <2>9. Answered'
    BY <2>1, <2>6, <2>8 DEF Answered
  <2> QED
    BY <2>7, <2>9 DEF Tagged
<1>7. ASSUME NEW f \in DOMAIN text, Test(f)
      PROVE  Tagged' /\ Answered'
  BY <1>6, <1>7 DEF Test
<1>8. ASSUME NEW f \in DOMAIN text, Reuse(f)
      PROVE  Tagged' /\ Answered'
  BY <1>6, <1>8 DEF Reuse, SameNumbers
<1> QED
  BY <1>1, <1>2, <1>3, <1>4, <1>5, <1>7, <1>8, AnalysisGrows
     DEF Next, Analysis, NextFunction, Compiled, Run

LEMMA RecognisedInvariance == Spec => []RecognisedInv
<1>1. Init => DeclaredInv
  BY InitInv, InitDeclared
<1>2. Init => RecognisedInv
  <2> SUFFICES ASSUME Init PROVE RecognisedInv
    OBVIOUS
  <2>1. DeclaredInv /\ Shape
    BY <1>1 DEF DeclaredInv, Inv
  <2>2. \A f \in DOMAIN text : f \in Nat \ {0} /\ ~(f < 1)
    BY <2>1, ErrorSetsAssumption DEF Shape, IsSeq
  <2>3. \A f \in DOMAIN text : \A i \in DOMAIN text[f].body :
          ~Passed(f, i)
    BY <2>1, <2>2, ErrorSetsAssumption DEF Passed, Init, Shape, IsSeq
  <2>4. CallsBegin
    BY <2>3 DEF CallsBegin, Calls
  <2>5. EmptyAhead
    BY DEF EmptyAhead, Init
  <2>6. Copying
    <3> SUFFICES ASSUME at[1] \in DOMAIN text, at[2] = 1,
                        1 \in Calls(at[1]), IsAnonymous(at[1])
                 PROVE  /\ Len(sets[at[1]]) = at[3] - 1
                        /\ Begins(sets[at[1]], sets[Stmt.fn])
      BY DEF Copying
    <3>1. sets[at[1]] = <<>> /\ at[3] = 1
      BY DEF Init
    <3>2. Stmt.fn \in DOMAIN text
      BY <2>1, Statements DEF Calls, WellFormed, Stmt
    <3>3. sets[Stmt.fn] \in Seq(Errors)
      BY <2>1, <3>2 DEF Shape
    <3>4. Begins(<<>>, sets[Stmt.fn]) /\ Len(<<>>) = 0
      BY <3>3 DEF Begins
    <3> QED
      BY <3>1, <3>4
  <2> QED
    BY <2>1, <2>4, <2>5, <2>6 DEF RecognisedInv, Tagged, Answered, Init
<1>3. RecognisedInv /\ [Next]_vars => RecognisedInv'
  <2> SUFFICES ASSUME RecognisedInv, [Next]_vars PROVE RecognisedInv'
    OBVIOUS
  <2>1. DeclaredInv' /\ text' = text
    BY DeclaredStepAll, Grows DEF RecognisedInv, DeclaredInv, Inv
  <2>2. (Premise' <=> Premise) /\ (SameNumbers' <=> SameNumbers)
    BY <2>1 DEF Premise, CalleesAbove, NamedSetsReturn, ReusedApart, Calls,
                Callee, Reached, IsAnonymous, SameNumbers
  <2> QED
    BY <2>1, <2>2, CallsBeginStep, EmptyAheadStep, CopyingStep, TaggedStep
       DEF RecognisedInv
<1> QED
  BY <1>2, <1>3, PTL DEF Spec

(* An error keeps its identity through any chain of calls: `x is E` says   *)
(* yes exactly of E, in every program whose functions begin with the only  *)
(* call whose errors they hand on.                                         *)
THEOREM ErrorsAreRecognised == Spec => []ErrorsRecognised
<1>1. RecognisedInv => ErrorsRecognised
  BY DEF RecognisedInv, Answered, ErrorsRecognised, Premise
<1> QED
  BY <1>1, RecognisedInvariance, PTL

=============================================================================
