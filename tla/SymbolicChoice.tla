---------------------------- MODULE SymbolicChoice ----------------------------
(***************************************************************************)
(* The choices of the symbolic engine (symbolic/symbolic_choice.ml, Make): *)
(* select, select_i32, assume and assertion split a path in two, extend    *)
(* the path condition of each half, and ask the solver, on a slice of it   *)
(* or on all of it, which halves to go on with.                            *)
(*                                                                         *)
(* A path is a thread.  A program is any sequence of choices: a thread     *)
(* picks its next one freely.  Threads share nothing here, so their steps  *)
(* commute: of the two halves of a choice one is followed through the      *)
(* program, the other is parked once the solver has judged it, and the     *)
(* solver's steps are taken one thread after the other (Exploration has    *)
(* the interleavings).  The solver decides exactly whether conditions have *)
(* a model (the code stops with assert false when it does not know).       *)
(***************************************************************************)
EXTENDS Naturals, FiniteSets, Sequences

CONSTANTS
  Inputs,        \* the symbols the program made before its first choice
  MaxFresh,      \* bound: the symbols select_i32 may add to a path
  Vals,          \* the values of a symbol
  Tests,         \* the conditions the program tests
  TestSymbols, TestHolds(_, _),   \* their symbols and their truth
  Exprs,         \* the expressions it concretizes
  ExprSymbols, ExprValue(_, _),   \* their symbols and their value
  MaxOps,        \* bound: the choices made on a path
  NoSlice

(* summary_symbol's choice_i32_<n>, n from num_symbols. *)
Fresh == {<<"choice_i32", n>> : n \in 0 .. MaxFresh - 1}
Symbols == Inputs \cup Fresh
Valuations == [Symbols -> Vals]

(* A condition: a test, that a symbol names an expression, that a symbol    *)
(* has a value; a test or the latter may be negated.                        *)
Test(t)           == [kind |-> "test", test |-> t, neg |-> FALSE]
Assignment(s, e)  == [kind |-> "is", sym |-> s, expr |-> e, neg |-> FALSE]
IsValue(s, v)     == [kind |-> "val", sym |-> s, val |-> v, neg |-> FALSE]

(* Faulty: the other half assumes the same condition. *)
Negation_Not(c)   == c

Negation(c)       == [c EXCEPT !.neg = ~@]

Positive ==
  {Test(t) : t \in Tests}
    \cup {Assignment(s, e) : s \in Fresh, e \in Exprs}
    \cup {IsValue(s, v) : s \in Symbols, v \in Vals}

Conditions == Positive \cup {Negation(c) : c \in Positive}

(* get_symbols, and the valuations a condition holds of. *)
GetSymbols ==
  [c \in Conditions |->
     IF c.kind = "test" THEN TestSymbols[c.test]
     ELSE IF c.kind = "val" THEN <<c.sym>>
          ELSE <<c.sym>> \o ExprSymbols[c.expr]]

Holds ==
  [c \in Conditions |->
     {a \in Valuations :
        c.neg # IF c.kind = "test" THEN TestHolds(c.test, a)
                ELSE a[c.sym] = IF c.kind = "val" THEN c.val
                                ELSE ExprValue(c.expr, a)}]

(* A condition depends on its symbols alone: the only ones the solver sees. *)
AgreeOn(syms, a, b) == \A n \in 1 .. Len(syms) : a[syms[n]] = b[syms[n]]

ASSUME ChoicesAssumption ==
  /\ Vals # {} /\ MaxFresh \in Nat /\ MaxOps \in Nat
  /\ Inputs \cap Fresh = {} /\ NoSlice \notin SUBSET Conditions
  /\ TestSymbols \in [Tests -> Seq(Inputs)]
  /\ ExprSymbols \in [Exprs -> Seq(Inputs)]
  /\ \A t \in Tests : TestSymbols[t] # <<>>
  /\ \A a, b \in Valuations :
       /\ \A t \in Tests :
            /\ TestHolds(t, a) \in BOOLEAN
            /\ AgreeOn(TestSymbols[t], a, b) =>
                 TestHolds(t, a) = TestHolds(t, b)
       /\ \A e \in Exprs :
            /\ ExprValue(e, a) \in Vals
            /\ AgreeOn(ExprSymbols[e], a, b) =>
                 ExprValue(e, a) = ExprValue(e, b)

PC == INSTANCE PathCondition WITH get_symbols <- GetSymbols

(* Solver.check on a set of conditions. *)
Models(cs) == {a \in Valuations : \A c \in cs : a \in Holds[c]}
Sat(cs) == Models(cs) # {}

VARIABLE threads      \* the paths, in the order they came to be

(* What a thread does when it is next run: "run" its program; after a yield,*)
(* "check" whether the condition it just assumed can hold; find a "model"   *)
(* of the symbol it concretizes.  The other states are ends: "stop" (no     *)
(* input takes the path), "assumed_away", "assert_failure".                 *)
Running == {"run", "check", "model"}
Ends == {"stop", "assumed_away", "assert_failure"}

NewThread ==
  [pc |-> PC!emptyPC, num_symbols |-> 0, state |-> "run",
   cond |-> NoSlice, then |-> "run", symbol |-> NoSlice, ops |-> 0,
   parked |-> FALSE]

Init == threads = <<NewThread>>

-----------------------------------------------------------------------------
AddPC(th, c) == [th EXCEPT !.pc = PC!addPC(th.pc, c)]

Became(i, th) == threads' = [threads EXCEPT ![i] = th]

(* choose: both branches go on from a clone of the thread. *)
Choose(i, a, b) ==
  \E follow \in {<<TRUE, FALSE>>, <<FALSE, TRUE>>} :
    threads' = Append([threads EXCEPT
                         ![i] = [a EXCEPT !.parked = @ \/ ~follow[1]]],
                      [b EXCEPT !.parked = @ \/ ~follow[2]])

May(i) ==
  /\ threads[i].state = "run"
  /\ threads[i].ops < MaxOps
  /\ ~threads[i].parked

(* A condition that simplifies to a constant splits nothing: select goes on *)
(* and so does select_i32, a false one ends the path in assume and in       *)
(* assertion.                                                               *)
Constant(i) ==
  /\ May(i)
  /\ \E state \in {"run", "assumed_away", "assert_failure"} :
       Became(i, [threads[i] EXCEPT !.state = state, !.ops = @ + 1])

(* One half of select_inner: add_pc, then check_reachability, which yields; *)
(* `then' is where the path goes if the half can be reached.                *)
Half(th, c, then) ==
  [AddPC(th, c) EXCEPT !.state = "check", !.cond = c, !.then = then,
                       !.ops = @ + 1]

Select(i) ==
  /\ May(i)
  /\ \E t \in Tests :
       Choose(i, Half(threads[i], Test(t), "run"),
                 Half(threads[i], Negation(Test(t)), "run"))

Assume(i) ==
  /\ May(i)
  /\ \E t \in Tests :
       Choose(i, Half(threads[i], Negation(Test(t)), "assumed_away"),
                 Half(threads[i], Test(t), "run"))

Assertion(i) ==
  /\ May(i)
  /\ \E t \in Tests :
       Choose(i, Half(threads[i], Negation(Test(t)), "assert_failure"),
                 Half(threads[i], Test(t), "run"))

(* check_reachability after its yield: the solver sees the slice. *)
CheckReachability(i) ==
  LET th == threads[i]
  IN  /\ th.state = "check"
      /\ Became(i, [th EXCEPT !.state = IF Sat(PC!slice(th.pc, th.cond))
                                        THEN th.then ELSE "stop"])

(* select_i32 of an expression: summary_symbol names it by a symbol, unless *)
(* it is one, and `generator' starts.                                       *)
SelectI32(i) ==
  /\ May(i)
  /\ \E e \in Exprs :
       LET th == threads[i]
           fresh == <<"choice_i32", th.num_symbols>>
           named == IF ExprSymbols[e] = <<e>>
                    THEN [th EXCEPT !.symbol = e]
                    ELSE [AddPC(th, Assignment(fresh, e)) EXCEPT
                            !.symbol = fresh, !.num_symbols = @ + 1]
       IN  /\ ExprSymbols[e] # <<e>> => th.num_symbols < MaxFresh
           /\ Became(i, [named EXCEPT !.state = "model", !.ops = @ + 1])

(* get_model_or_stop after its yield, then the two branches of generator:   *)
(* the value the solver found, and all the others.                          *)
GetModel(i) ==
  LET th == threads[i]
      models == Models(PC!to_set(th.pc))
  IN  /\ th.state = "model"
      /\ IF models = {} THEN Became(i, [th EXCEPT !.state = "stop"])
         ELSE \E v \in {a[th.symbol] : a \in models} :
                Choose(i,
                  [AddPC(th, IsValue(th.symbol, v)) EXCEPT !.state = "run"],
                  AddPC(th, Negation(IsValue(th.symbol, v))))

Unfinished(i) == threads[i].state \in {"check", "model"} \/ May(i)

Scheduled(i) == Unfinished(i) /\ \A j \in 1 .. i - 1 : ~Unfinished(j)

Done ==
  /\ \A i \in 1 .. Len(threads) : ~Unfinished(i)
  /\ UNCHANGED threads

Next ==
  \/ \E i \in 1 .. Len(threads) :
       /\ Scheduled(i)
       /\ \/ Constant(i) \/ Select(i) \/ Assume(i) \/ Assertion(i)
          \/ CheckReachability(i) \/ SelectI32(i) \/ GetModel(i)
  \/ Done

Spec == Init /\ [][Next]_threads

-----------------------------------------------------------------------------
(* Types; a path that is to be checked has assumed the condition, so that   *)
(* the two `assert false' of slice are out of reach.                        *)
TypeOK ==
  \A i \in 1 .. Len(threads) :
    LET th == threads[i]
    IN  /\ th.pc.set \subseteq Conditions
        /\ th.state \in Running \cup Ends
        /\ th.num_symbols \in 0 .. MaxFresh
        /\ th.ops \in 0 .. MaxOps
        /\ th.state = "check" => th.cond \in th.pc.set
        /\ th.state = "model" => th.symbol \in Symbols

(* The inputs that take a path: those with some value for the symbols the   *)
(* engine added.                                                            *)
Project(a) == [s \in Inputs |-> a[s]]
InputsOf(th) == {Project(a) : a \in Models(th.pc.set)}

(* The slice handed to the solver is what the new condition depends on: the *)
(* conditions linked to it by chains of shared symbols, all and only.       *)
SliceExact ==
  \A i \in 1 .. Len(threads) :
    LET th == threads[i]
    IN  \A c \in th.pc.set : PC!slice(th.pc, c) = PC!Linked(th.pc, c)

(* Checking the slice is as good as checking the whole path condition       *)
(* (check_reachability and get_model_or_stop rely on the same conditions).  *)
SliceDecides ==
  \A i \in 1 .. Len(threads) :
    LET th == threads[i]
    IN  th.state = "check" =>
          (Sat(PC!slice(th.pc, th.cond)) <=> Sat(th.pc.set))

(* A path the engine goes on with, or reports, can be taken: the calls to   *)
(* Solver.model find a model (solver.ml:27-35).                             *)
PathsFeasible ==
  \A i \in 1 .. Len(threads) :
    threads[i].state \in {"run", "assumed_away", "assert_failure"} =>
      Sat(threads[i].pc.set)

(* The paths partition the inputs: each input takes exactly one of them,    *)
(* whatever the choices and the models the solver picks.                    *)
PathsPartitionInputs ==
  \A input \in [Inputs -> Vals] :
    Cardinality({i \in 1 .. Len(threads) : input \in InputsOf(threads[i])}) = 1
-----------------------------------------------------------------------------
(* The inductive invariant of the paths. *)
Used(th) == Inputs \cup {<<"choice_i32", n>> : n \in 0 .. th.num_symbols - 1}

(* A path that is to be checked could be taken before its last condition;   *)
(* a symbol whose values are tried has one value for each input.            *)
ThreadGood(th) ==
  /\ DOMAIN th = DOMAIN NewThread
  /\ PC!PCGood(th.pc) /\ IsFiniteSet(th.pc.set)
  /\ th.num_symbols \in 0 .. MaxFresh /\ th.ops \in 0 .. MaxOps
  /\ \A c \in th.pc.set : PC!SymbolSet(c) \subseteq Used(th)
  /\ th.state \in Running \cup Ends
  /\ th.state = "check" =>
       /\ th.cond \in th.pc.set /\ Sat(th.pc.set \ {th.cond})
       /\ th.then \in {"run"} \cup Ends
  /\ th.state \in {"run", "assumed_away", "assert_failure"} => Sat(th.pc.set)
  /\ th.state = "model" =>
       /\ th.symbol \in Used(th)
       /\ th.symbol \in Inputs
            \/ \E e \in Exprs : Assignment(th.symbol, e) \in th.pc.set

TakesOnePath(input) ==
  \E i \in 1 .. Len(threads) :
    \A j \in 1 .. Len(threads) : input \in InputsOf(threads[j]) <=> j = i

ChoicesInv ==
  /\ threads \in Seq({threads[i] : i \in 1 .. Len(threads)})
  /\ \A i \in 1 .. Len(threads) : ThreadGood(threads[i])
  /\ \A input \in [Inputs -> Vals] : TakesOnePath(input)
=============================================================================
