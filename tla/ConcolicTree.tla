---------------------------- MODULE ConcolicTree ----------------------------
(***************************************************************************)
(* Concolic execution, `owi conc': the loop of cmd/cmd_conc.ml over the    *)
(* choices of concolic/concolic_choice.ml.  A program is run on one input, *)
(* its path condition is added to the tree of all runs, and the tree is    *)
(* searched for a node nobody went through, whose path condition gives the *)
(* input of the next run.  Each node caches how many such nodes it has     *)
(* below it.                                                               *)
(*                                                                         *)
(* A program is deterministic, so a path stands for the node it leads to   *)
(* and program[path] is what the program does there.  A path is the code's *)
(* path condition, oldest element first; of an element only the value is   *)
(* kept: the side of a select, the number of a select_i32.  A symbolic     *)
(* value is the function of the inputs it evaluates to.  The solver finds  *)
(* a model, says there is none, or does not know, which the code takes for *)
(* there is none.  What a model leaves open is drawn by the run, so a run  *)
(* is on any input that satisfies the path condition.                      *)
(***************************************************************************)
EXTENDS Naturals, FiniteSets, SequencesExt

CONSTANTS
  Inputs,      \* the values of the symbols of a program, all together
  Programs     \* per path: the operation it leads to, and its operand

Leaf == {"normal", "trap", "unreachable"}
Ops == Leaf \cup {"select", "select_i32", "assume", "assert", "abort"}

True(instr) == {v \in Inputs : instr.value[v] = "true"}

(* select, select_i32, assume and assertion: does the run go on?  abort     *)
(* does.                                                                    *)
GoesOn(instr, v) ==
  /\ instr.op \notin Leaf
  /\ instr.op \in {"assume", "assert"} => v \in True(instr)

Up(p, k) == SubSeq(p, 1, k)

(* Does the run of program g on input v end with path p? *)
Ends(g, v, p) ==
  /\ \A k \in 1 .. Len(p) :
       LET instr == g[Up(p, k - 1)]
       IN  GoesOn(instr, v) /\ p[k] = instr.value[v]
  /\ ~GoesOn(g[p], v)

Elements ==
  {"true", "false"} \cup
  UNION {{g[p].value[v] : p \in DOMAIN g, v \in Inputs} : g \in Programs}

(* Without symbols there is one input, the empty one. *)
ASSUME InputsAssumption == Inputs # {}

(* A program leads to a path one element after the other, and ends on every *)
(* input.                                                                   *)
ASSUME ProgramsAssumption ==
  \A g \in Programs :
    /\ DOMAIN g \subseteq Seq(Elements)
    /\ \A p \in DOMAIN g :
         /\ \A k \in 0 .. Len(p) : Up(p, k) \in DOMAIN g
         /\ g[p].op \in Ops /\ DOMAIN g[p].value = Inputs
         /\ g[p].op \in {"select", "assume", "assert"} =>
              \A v \in Inputs : g[p].value[v] \in {"true", "false"}
         /\ g[p].op = "abort" => True(g[p]) = Inputs
    /\ \A v \in Inputs : \E p \in DOMAIN g : Ends(g, v, p)

VARIABLES
  program,
  tree,         \* eval_tree: the nodes, by their paths
  phase,        \* "run", "judge" (the result), "search", "return" or "done"
  forced,       \* the inputs that agree with the model of the next run, if any
  trace,        \* the path of the last run
  to_update,    \* the nodes that the open calls of find_model_to_run chose
  ran,          \* reference: the complete paths run so far
  unknown,      \* reference: the solutions of what the solver gave up on
  count_path,
  verdict       \* "running", "All_OK", "Found_bug" or "assert_false"

vars ==
  <<program, tree, phase, forced, trace, to_update, ran, unknown, count_path,
    verdict>>

-----------------------------------------------------------------------------
(* The program. *)

At(p) == program[p]

(* Where the run on input v ends. *)
EndOf(v) == CHOOSE p \in DOMAIN program : Ends(program, v, p)

(* pc_elt_to_expr, as the inputs it holds of: an assertion is dropped, and  *)
(* abort assumes false.                                                     *)
Allows(instr, element) ==
  CASE instr.op = "assert" -> Inputs
    [] instr.op = "abort" -> {}
    [] OTHER -> {v \in Inputs : instr.value[v] = element}

(* The solutions of a path condition. *)
Models(p) ==
  {v \in Inputs : \A k \in 1 .. Len(p) :
                    v \in Allows(At(Up(p, k - 1)), p[k])}

(* pc_model's None: there is no solution, or the solver does not know.      *)
NoModel(S) == unknown' = unknown \cup S

SomeModel(S) == S # {} /\ UNCHANGED unknown

-----------------------------------------------------------------------------
(* The tree. *)

Unvisited == {"Not_explored", "Being_explored"}
Closed == {"Explored", "Unreachable"}

fresh_tree == [node |-> "Not_explored", unexplored |-> 1, status |-> "Unknown"]

(* new_node: the node an element makes, and the branches it starts with. *)
NodeOf == [select |-> "Select", select_i32 |-> "Select_i32",
           assume |-> "Assume", abort |-> "Assume", assert |-> "Assert"]

(* Faulty: a select has the branches that were taken. *)
Branches_Taken(op) == IF op \in {"select", "select_i32"} THEN {} ELSE {"true"}

Branches(op) ==
  CASE op = "select" -> {"true", "false"}
    [] op = "select_i32" -> {}
    [] OTHER -> {"true"}

Nodes(p) == {Up(p, k) : k \in 0 .. Len(p)}

(* What a node adds to its own count, and the nodes that branch off a path  *)
(* at or below q.                                                           *)
Own(t, q) == IF t[q].node = "Not_explored" THEN 1 ELSE 0

Beside(t, p, q) ==
  {x \in DOMAIN t \ Nodes(p) : IsPrefix(q, Front(x)) /\ Front(x) \in Nodes(p)}

(* The counts of some nodes, added up: the size of their disjoint union. *)
Together(t, S) ==
  Cardinality(UNION {{x} \X (1 .. t[x].unexplored) : x \in S})

(* Faulty: the counts of the other branches are left out. *)
update_unexplored_Alone(t, p) ==
  [q \in DOMAIN t |->
     IF q \in Nodes(p) THEN [t[q] EXCEPT !.unexplored = Own(t, p)] ELSE t[q]]

(* List.iter update_unexplored to_update, the nodes of a path from the last *)
(* one up: each gets the counts of its branches, of which the next one on   *)
(* the path has just been updated.                                          *)
update_unexplored(t, p) ==
  [q \in DOMAIN t |->
     IF q \in Nodes(p)
     THEN [t[q] EXCEPT !.unexplored = Own(t, p) + Together(t, Beside(t, p, q))]
     ELSE t[q]]

(* A trace's way through the tree: try_initialize each node, then take the  *)
(* branch, which a select_i32 may not have had.                             *)
Walk(t, p) ==
  LET passed == Nodes(p) \ {p}
      branches ==
        UNION {{Append(q, e) : e \in Branches(At(q).op)} : q \in passed}
      node(q) == IF q \in DOMAIN t THEN t[q] ELSE fresh_tree
  IN  [q \in DOMAIN t \cup branches \cup Nodes(p) |->
         IF q \in passed /\ node(q).node \in Unvisited
         THEN [node(q) EXCEPT !.node = NodeOf[At(q).op]] ELSE node(q)]

(* Faulty: the node is not closed. *)
SetEnd_Open(t, p) == t

(* The end of a trace.  A failed assertion is not on the path: if an        *)
(* assertion was its last element, it is that one which is marked.          *)
SetEnd(t, p) ==
  LET op == At(p).op
      marks == op = "assert" /\ p # <<>>
                 /\ At(Up(p, Len(p) - 1)).op = "assert"
      closed == CASE op = "normal" -> [t EXCEPT ![p].node = "Explored"]
                  [] op = "unreachable" -> [t EXCEPT ![p].node = "Unreachable"]
                  [] OTHER -> t
  IN  IF marks THEN [closed EXCEPT ![Up(p, Len(p) - 1)].status = "Invalid"]
      ELSE closed

add_trace(t, p) == update_unexplored(SetEnd(Walk(t, p), p), p)

(* The assertions of add_trace: no run passes a node that is closed, and    *)
(* none ends a second time at a node where another ended.                   *)
Sane(t, p) ==
  /\ \A q \in Nodes(p) \ {p} : q \in DOMAIN t => t[q].node \notin Closed
  /\ At(p).op \in {"normal", "unreachable"} /\ p \in DOMAIN t =>
       t[p].node \in Unvisited

-----------------------------------------------------------------------------
Init ==
  /\ program \in Programs
  /\ tree = [p \in {<<>>} |-> fresh_tree]
  /\ phase = "run"
  /\ forced = Inputs
  /\ trace = <<>>
  /\ to_update = <<>>
  /\ ran = {}
  /\ unknown = {}
  /\ count_path = 0
  /\ verdict = "running"

End(result) == phase' = "done" /\ verdict' = result

GoOn(next) == phase' = next /\ UNCHANGED verdict

(* run_once and add_trace. *)
Run ==
  /\ phase = "run"
  /\ \E v \in forced : trace' = EndOf(v)
  /\ count_path' = count_path + 1
  /\ IF Sane(tree, trace')
     THEN /\ tree' = add_trace(tree, trace')
          /\ ran' = IF At(trace').op = "assume" THEN ran ELSE ran \cup {trace'}
          /\ GoOn("judge")
     ELSE End("assert_false") /\ UNCHANGED <<tree, ran>>
  /\ UNCHANGED <<program, forced, to_update, unknown>>

(* Try to run an input of S next. *)
Retry(S) ==
  \/ SomeModel(S) /\ forced' = S /\ GoOn("run")
  \/ NoModel(S) /\ forced' = {} /\ GoOn("search")

(* Faulty: the assumption is left out of the next run. *)
AssumeFails_SameModel ==
  /\ At(trace).op = "assume"
  /\ Retry(Models(trace))
  /\ count_path' = count_path - 1

(* The run ended at a failed assumption: it does not count, and is run      *)
(* again so that the assumption holds, if the solver finds how.             *)
AssumeFails ==
  /\ At(trace).op = "assume"
  /\ Retry(Models(trace) \cap True(At(trace)))
  /\ count_path' = count_path - 1

RunsThrough ==
  /\ At(trace).op = "normal"
  /\ GoOn("search")
  /\ UNCHANGED <<forced, unknown, count_path>>

Fails ==
  /\ At(trace).op \in {"trap", "unreachable", "assert"}
  /\ End("Found_bug")
  /\ UNCHANGED <<forced, unknown, count_path>>

Judge ==
  /\ phase = "judge"
  /\ AssumeFails \/ RunsThrough \/ Fails
  /\ UNCHANGED <<program, tree, trace, to_update, ran>>

-----------------------------------------------------------------------------
(* find_node_to_run stops at a node, for some draws of its random choices.  *)

Splits(p) == tree[p].node \in {"Select", "Select_i32"}

(* Faulty: assertions are passed by. *)
Unasked_Never(p) == FALSE

Unasked(p) == tree[p].node = "Assert" /\ tree[p].status = "Unknown"

Reaches(p) ==
  \A k \in 1 .. Len(p) :
    /\ ~Unasked(Up(p, k - 1))
    /\ Splits(Up(p, k - 1)) => tree[Up(p, k)].unexplored # 0

Target(p) == tree[p].node = "Not_explored" \/ Unasked(p)

(* The root has no path condition to make a model of. *)
HasCondition(p) == p # <<>> \/ Unasked(p)

Dead(p) ==
  \/ tree[p].node \in Closed \cup {"Being_explored"}
  \/ /\ Splits(p)
     /\ \A q \in DOMAIN tree \ {<<>>} :
          Front(q) = p => tree[q].unexplored = 0

(* The path condition it stands for: of an assertion, that it fails. *)
Solutions(p) ==
  IF Unasked(p) THEN Models(p) \ True(At(p)) ELSE Models(p)

Searching(p) == phase = "search" /\ Reaches(p)

Marked(t, p, node, status) ==
  IF t[p].node = "Not_explored" THEN [t EXCEPT ![p].node = node]
  ELSE [t EXCEPT ![p].status = status]

(* A call of find_model_to_run: a node without a model is marked, and it    *)
(* calls itself again; the counts are updated only when that call is back.  *)
Trim(p) ==
  /\ Searching(p)
  /\ Target(p) /\ HasCondition(p) /\ NoModel(Solutions(p))
  /\ tree' = Marked(tree, p, "Unreachable", "Valid")
  /\ to_update' = Append(to_update, p)
  /\ UNCHANGED <<program, phase, forced, trace, ran, count_path, verdict>>

(* A node with one. *)
Pick(p) ==
  /\ Searching(p)
  /\ Target(p) /\ HasCondition(p) /\ SomeModel(Solutions(p))
  /\ forced' = Solutions(p)
  /\ tree' = Marked(tree, p, "Being_explored", "Invalid")
  /\ to_update' = Append(to_update, p)
  /\ GoOn("return")
  /\ UNCHANGED <<program, trace, ran, count_path>>

(* No node: the call returns None at once. *)
GiveUp(p) ==
  /\ Searching(p)
  /\ Dead(p)
  /\ forced' = {}
  /\ GoOn("return")
  /\ UNCHANGED <<program, tree, trace, to_update, ran, unknown, count_path>>

(* The calls return one after the other, the innermost first, each updates  *)
(* the counts on the way to its node.                                       *)
Return ==
  /\ phase = "return"
  /\ to_update # <<>>
  /\ tree' = update_unexplored(tree, Last(to_update))
  /\ to_update' = Front(to_update)
  /\ UNCHANGED <<program, phase, forced, trace, ran, unknown, count_path, verdict>>

Returned ==
  /\ phase = "return"
  /\ to_update = <<>>
  /\ IF forced = {} THEN End("All_OK") ELSE GoOn("run")
  /\ UNCHANGED <<program, tree, forced, trace, to_update, ran, unknown, count_path>>

(* assert false: the first run failed an assumption that cannot hold, or    *)
(* that the solver cannot decide.                                           *)
NoCondition(p) ==
  /\ Searching(p)
  /\ Target(p) /\ ~HasCondition(p)
  /\ End("assert_false")
  /\ UNCHANGED <<program, tree, forced, trace, to_update, ran, unknown, count_path>>

Done == phase = "done" /\ UNCHANGED vars

Next ==
  \/ Run \/ Judge
  \/ \E p \in DOMAIN tree : Trim(p) \/ Pick(p) \/ GiveUp(p) \/ NoCondition(p)
  \/ Return \/ Returned
  \/ Done

(* One thread, which keeps running: WF_vars(Next).  Every step but Done     *)
(* changes something, and there is always one before the phase is "done"    *)
(* (the runs check for deadlock), so that ENABLED <<Next>>_vars, which is   *)
(* slow to evaluate, is phase # "done".                                     *)
Fairness == []<>(phase = "done") \/ []<><<Next>>_vars

Spec == Init /\ [][Next]_vars /\ Fairness

-----------------------------------------------------------------------------
(* Properties. *)

TypeOK ==
  /\ \A p \in DOMAIN tree :
       /\ tree[p].node \in Unvisited \cup Closed \cup
                          {NodeOf[op] : op \in DOMAIN NodeOf}
       /\ tree[p].unexplored \in Nat
       /\ tree[p].status \in {"Unknown", "Valid", "Invalid"}
       /\ \A k \in 0 .. Len(p) : Up(p, k) \in DOMAIN tree
  /\ phase \in {"run", "judge", "search", "return", "done"}
  /\ forced \subseteq Inputs
  /\ trace \in DOMAIN tree
  /\ to_update \in Seq(DOMAIN tree)
  /\ ran \subseteq DOMAIN tree
  /\ unknown \subseteq Inputs
  /\ count_path \in Nat
  /\ verdict \in {"running", "All_OK", "Found_bug", "assert_false"}

(* The cached counts are those of the tree whenever no call of              *)
(* find_model_to_run that chose a node has yet to return, whatever earlier  *)
(* runs added to the tree and searches trimmed from it (cmd_conc.ml:227,    *)
(* 336).                                                                    *)
Frontier(t, p) == {x \in DOMAIN t : IsPrefix(p, x) /\ t[x].node = "Not_explored"}

Exact(t, p) == t[p].unexplored = Cardinality(Frontier(t, p))

CountsExact == to_update = <<>> => \A p \in DOMAIN tree : Exact(tree, p)

(* Each run that is counted goes where none has gone before, so the count   *)
(* of completed paths is that of different paths (cmd_conc.ml:345, 352),    *)
(* and the sanity checks of add_trace hold.                                 *)
NoPathTwice ==
  /\ phase \in {"run", "search"} => count_path = Cardinality(ran)
  /\ verdict = "assert_false" => ran = {}

Aborts(p) ==
  \E k \in 1 .. Len(p) : At(Up(p, k - 1)).op = "abort"

(* The tree forgets no input but those of a path condition the solver gave  *)
(* up on, which are forgotten for good (cmd_conc.ml:308): whenever a run or *)
(* a search is next, the path of every other input has been run, or fails   *)
(* an assumption, or goes through a node that the search may still find:    *)
(* one not explored, the one being explored, an assertion not yet negated;  *)
(* or it chooses a value that no run has chosen, which no search looks for. *)
(* A path that aborts is not followed.                                      *)
FrontierCoversInputs ==
  phase \in {"run", "search", "return"} =>
    \A v \in Inputs \ unknown :
      LET p == EndOf(v)
      IN  \/ p \in ran \/ At(p).op = "assume" \/ Aborts(p)
          \/ \E k \in 0 .. Len(p) :
               /\ Up(p, k) \in DOMAIN tree
               /\ \/ Target(Up(p, k))
                  \/ /\ tree[Up(p, k)].node = "Select_i32"
                     /\ Up(p, k + 1) \notin DOMAIN tree
                  \/ phase # "search" /\ v \in forced

(* A program whose branches can all be taken, and that asserts nothing and  *)
(* chooses no value below a select: the search is complete for those.       *)
Exhaustible ==
  \A p \in DOMAIN program :
    /\ At(p).op \notin {"select_i32", "abort"}
    /\ At(p).op = "select" =>
         /\ Models(p) \cap True(At(p)) # {}
         /\ Models(p) \ True(At(p)) # {}
    /\ At(p).op = "assert" =>
         \A k \in 1 .. Len(p) : At(Up(p, k - 1)).op # "select"

(* "All OK" is right for the programs the search is complete for, if the    *)
(* solver decided all that it was asked: no input makes them trap or fail   *)
(* an assertion (cmd_conc.ml:460).  After one answer it does not know, "All *)
(* OK" says nothing.                                                        *)
AllOkSound ==
  verdict = "All_OK" /\ Exhaustible /\ unknown = {} =>
    \A v \in Inputs :
      At(EndOf(v)).op \in {"normal", "assume"}

(* Every run of `owi conc' on a program that ends comes to a verdict: each  *)
(* turn of its loop closes a node, or makes a failed assumption hold.       *)
Terminates == <>(phase = "done")

(* "No error, we can go again if we still have stuff to explore"            *)
(* (cmd_conc.ml:374): the loop ends with "All OK" only when no node is left *)
(* to explore, and no assertion to negate, that has a model.  It does not   *)
(* hold, even if the solver always decides: the counts of trimmed nodes are *)
(* stale while the search goes on, and an assertion counts for nothing.     *)
NothingLeftToExplore ==
  verdict = "All_OK" /\ unknown = {} =>
    \A p \in DOMAIN tree : Target(p) => Solutions(p) = {}

-----------------------------------------------------------------------------
(* The inductive invariant.  The tree: its nodes are the paths taken, up to *)
(* the branches nobody took, and a node that is not a leaf is what the      *)
(* program does there.                                                      *)
NodeType ==
  [node : Unvisited \cup Closed \cup {NodeOf[op] : op \in DOMAIN NodeOf},
   unexplored : Nat,
   status : {"Unknown", "Valid", "Invalid"}]

Inner(t, p) == t[p].node \notin Unvisited \cup Closed

Shape(t) ==
  /\ <<>> \in DOMAIN t /\ IsFiniteSet(DOMAIN t) /\ DOMAIN t \subseteq Seq(Elements)
  /\ \A p \in DOMAIN t :
       /\ t[p] \in NodeType
       /\ t[p].node # "Assert" => t[p].status = "Unknown"
       /\ \A k \in 0 .. Len(p) - 1 :
            /\ Up(p, k) \in DOMAIN t /\ Inner(t, Up(p, k))
            /\ At(Up(p, k)).op # "select_i32" => p[k + 1] \in Branches(At(Up(p, k)).op)
       /\ Inner(t, p) =>
            /\ p \in DOMAIN program /\ At(p).op \notin Leaf
            /\ t[p].node = NodeOf[At(p).op]
            /\ \A e \in Branches(At(p).op) : Append(p, e) \in DOMAIN t

(* A count is stale only on the way to a node that was trimmed or taken and *)
(* whose call has yet to return.                                            *)
Stale(p) ==
  \E i \in 1 .. Len(to_update) :
    IsPrefix(p, to_update[i]) /\ tree[to_update[i]].node # "Assert"

CountsAccounted ==
  /\ to_update \in Seq(DOMAIN tree)
  /\ \A i \in 1 .. Len(to_update) :
       tree[to_update[i]].node \in
         {"Unreachable", "Assert"} \cup (IF phase = "search" THEN {} ELSE {"Being_explored"})
  /\ phase \in {"run", "judge"} => to_update = <<>>
  /\ \A p \in DOMAIN tree : Exact(tree, p) \/ Stale(p)

(* What is known of a node that the next run is not about: no input below   *)
(* it was forgotten, but those the solver gave up on.                       *)
Refuted(p) == IF At(p).op = "assume" THEN Inputs \ True(At(p)) ELSE {}

Settled(p) ==
  /\ tree[p].node = "Explored" => p \in ran /\ p \in DOMAIN program /\ At(p).op = "normal"
  /\ tree[p].node = "Unreachable" => Models(p) \subseteq unknown
  /\ tree[p].node = "Being_explored" => Models(p) \subseteq Refuted(p) \cup unknown
  /\ tree[p].node = "Assert" =>
       \/ tree[p].status = "Unknown"
       \/ tree[p].status = "Valid" /\ Models(p) \subseteq True(At(p)) \cup unknown

(* The node that it is about. *)
Open(p) ==
  /\ forced \subseteq Models(p)
  /\ \/ tree[p].node \in Unvisited /\ Models(p) \subseteq forced \cup Refuted(p)
     \/ tree[p].node = "Assert" /\ forced = Models(p) \ True(At(p))

Completed == {"normal", "trap", "unreachable", "assert", "assume"}

SearchAccounted ==
  /\ phase = "search" \/ (phase = "return" /\ forced = {}) =>
       \A p \in DOMAIN tree : Settled(p)
  /\ phase = "run" \/ (phase = "return" /\ forced # {}) =>
       \E q \in DOMAIN tree : Open(q) /\ \A p \in DOMAIN tree \ {q} : Settled(p)
  /\ phase = "judge" =>
       /\ trace \in DOMAIN tree /\ trace \in DOMAIN program /\ At(trace).op \in Completed
       /\ At(trace).op = "normal" => \A p \in DOMAIN tree : Settled(p)
       /\ At(trace).op = "assume" =>
            /\ tree[trace].node \in Unvisited
            /\ \A p \in DOMAIN tree \ {trace} : Settled(p)

(* The runs that count are those of the explored nodes, and the last one.   *)
RunsAccounted ==
  /\ count_path \in Nat
  /\ ran \subseteq DOMAIN tree
  /\ \A p \in ran :
       \/ tree[p].node = "Explored" /\ At(p).op = "normal"
       \/ /\ phase \in {"judge", "done"} /\ p = trace
          /\ At(p).op \in Completed \ {"normal", "assume"}
  /\ phase \in {"run", "search", "return"} => count_path = Cardinality(ran)
  /\ phase = "judge" =>
       count_path = Cardinality(ran) + (IF At(trace).op = "assume" THEN 1 ELSE 0)
  /\ verdict = "assert_false" => ran = {}
  /\ verdict = "running" <=> phase # "done"

(* When all branches can be taken, every node has a model; and when no node *)
(* was found, every input runs through, if the solver always decided.       *)
ExhaustionAccounted ==
  Exhaustible =>
    /\ \A p \in DOMAIN tree : Models(p) # {}
    /\ unknown = {} /\ (verdict = "All_OK" \/ (phase = "return" /\ forced = {})) =>
         \A v \in Inputs : At(EndOf(v)).op \in {"normal", "assume"}

ConcolicInv ==
  /\ program \in Programs
  /\ forced \subseteq Inputs
  /\ unknown \subseteq Inputs
  /\ phase \in {"run", "judge", "search", "return", "done"}
  /\ trace \in DOMAIN tree
  /\ verdict \in {"running", "All_OK", "Found_bug", "assert_false"}
  /\ Shape(tree)
  /\ CountsAccounted
  /\ SearchAccounted
  /\ RunsAccounted
  /\ ExhaustionAccounted
=============================================================================
