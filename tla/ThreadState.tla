----------------------------- MODULE ThreadState -----------------------------
(***************************************************************************)
(* The mutable state of the symbolic paths.  A thread holds collections of *)
(* memories, tables and globals (symbolic/thread.ml); their objects are    *)
(* mutable, `choose' clones them in both branches, and the interpreter     *)
(* works on handles it got from them (interpret/interpret.ml, exec_instr). *)
(* A memory access runs in a monad whose thread has no memories; lift_mem  *)
(* puts them back when it ends, cloned if the access made a choice.        *)
(*                                                                         *)
(* A store is one clone of the three collections, here with one memory,    *)
(* one table and one global; an object is some cells and a size.  Which    *)
(* worker runs a path does not matter: paths take their steps in any       *)
(* order.  A branch that traps, or that no input takes, ends and is left   *)
(* out; what remains of it is that the other branch was cloned.            *)
(***************************************************************************)
EXTENDS Naturals, Sequences, FiniteSets

CONSTANTS
  Cells,
  Instrs,        \* the instructions the program uses
  Symbolic,      \* the pairs of an instruction and of what may be symbolic in
                 \* its operands: its "address", or only a "size"
  MaxPaths,      \* bound: the paths
  MaxOps         \* bound: the instructions of a path

Kinds == {"memory", "table", "global"}

(* The object as it is converted from the concrete one, and before that. *)
Original == [cells |-> [c \in Cells |-> 0], size |-> 1]
Absent == [Original EXCEPT !.size = 0]

(* The object an instruction works on. *)
Kind(instr) ==
  IF instr \in {"table_set", "table_grow", "table_fill", "table_copy", "table_init"}
  THEN "table"
  ELSE IF instr = "global_set" THEN "global" ELSE "memory"

(* Faulty: a store that keeps the handle it checked the bounds with. *)
Stages_NoReread ==
  [store       |-> <<"check", "lift">>,
   memory_grow |-> <<"check", "grow">>,
   memory_fill |-> <<"check", "select", "lift">>,
   memory_copy |-> <<"check", "lift">>,
   memory_init |-> <<"check", "write">>,
   table_set   |-> <<"select", "write">>,
   table_grow  |-> <<"check", "select", "grow">>,
   table_fill  |-> <<"check", "select", "write">>,
   table_copy  |-> <<"check", "check", "select", "write">>,
   table_init  |-> <<"check", "select", "write">>,
   global_set  |-> <<"write">>]

(* What each instruction does with its handle: check the bounds (let>), get *)
(* the handle again, select_i32 an operand, then write, grow, or access the *)
(* memory through lift_mem.                                                 *)
Stages ==
  [store       |-> <<"check", "reread", "lift">>,
   memory_grow |-> <<"check", "grow">>,
   memory_fill |-> <<"check", "select", "lift">>,
   memory_copy |-> <<"check", "lift">>,
   memory_init |-> <<"check", "write">>,
   table_set   |-> <<"select", "write">>,
   table_grow  |-> <<"check", "select", "grow">>,
   table_fill  |-> <<"check", "select", "write">>,
   table_copy  |-> <<"check", "check", "select", "write">>,
   table_init  |-> <<"check", "select", "write">>,
   global_set  |-> <<"write">>]

(* Every operand known, or a store that is only checked against a symbolic  *)
(* size.  What else is symbolic makes the instruction work on a memory or a *)
(* table that other paths look at, or that its own no longer does.          *)
Sound(instr, operands) ==
  operands = "concrete" \/ <<instr, operands>> = <<"store", "size">>

ASSUME InstrsAssumption ==
  /\ Instrs \subseteq DOMAIN Stages
  /\ Symbolic \subseteq Instrs \X {"address", "size"}
  /\ Cells # {} /\ IsFiniteSet(Cells)
  /\ MaxPaths \in Nat /\ MaxOps \in Nat

VARIABLES
  stores,    \* the clones made so far
  paths      \* the paths; `want' is the reference: the effects of the path's
             \* own instructions, and of no other path's; `strayed' tells
             \* whether one of its instructions was not Sound

vars == <<stores, paths>>

Init ==
  /\ stores = <<[k \in Kinds |-> Absent]>>
  /\ paths = <<[store |-> 1, rest |-> <<>>, instr |-> "none", handle |-> 1,
                operands |-> "concrete", cells |-> Cells, ops |-> 0,
                strayed |-> FALSE,
                want |-> [k \in Kinds |-> Original]]>>

-----------------------------------------------------------------------------
At(i, stage) == paths[i].rest # <<>> /\ Head(paths[i].rest) = stage

Idle(i) == paths[i].rest = <<>>

KindOf(i) == Kind(paths[i].instr)

(* Faulty: the clone shares its objects with the original. *)
CloneId_Shallow(p, n) == p.store

(* Thread.clone in the branches of a choice; n counts the branches. *)
CloneId(p, n) == Len(stores) + n

Became(i, p) == paths' = [paths EXCEPT ![i] = p]

Done(p) == [p EXCEPT !.rest = Tail(@)]

(* choose with two branches that go on: p and q. *)
Choose(i, p, q) ==
  /\ stores' = stores \o <<stores[p.store], stores[q.store]>>
  /\ paths' = Append([paths EXCEPT ![i] = [p EXCEPT !.store = CloneId(p, 1)]],
                     [q EXCEPT !.store = CloneId(q, 2)])

(* ... with one. *)
ChooseOne(i, p) ==
  /\ stores' = Append(stores, stores[p.store])
  /\ Became(i, [p EXCEPT !.store = CloneId(p, 1)])

Branch(i) ==
  /\ Idle(i)
  /\ Len(paths) < MaxPaths
  /\ Choose(i, paths[i], paths[i])

(* get_memory, get_table and get_global convert the concrete object the     *)
(* first time.                                                              *)
Converted(object) == IF object = Absent THEN Original ELSE object

Fetch(i) ==
  /\ Idle(i)
  /\ paths[i].ops < MaxOps
  /\ \E instr \in Instrs :
       /\ stores' = [stores EXCEPT ![paths[i].store][Kind(instr)] = Converted(@)]
       /\ \E operands \in {"concrete"} \cup {x \in {"address", "size"} :
                                               <<instr, x>> \in Symbolic} :
            Became(i, [paths[i] EXCEPT !.instr = instr,
                                       !.rest = Stages[instr],
                                       !.handle = paths[i].store,
                                       !.operands = operands,
                                       !.strayed =
                                         @ \/ ~Sound(instr, operands),
                                       !.cells = Cells,
                                       !.ops = @ + 1])

Check(i) ==
  /\ At(i, "check")
  /\ IF paths[i].operands = "concrete"
     THEN Became(i, Done(paths[i])) /\ UNCHANGED stores
     ELSE ChooseOne(i, Done(paths[i]))

Reread(i) ==
  /\ At(i, "reread")
  /\ Became(i, [Done(paths[i]) EXCEPT !.handle = paths[i].store])
  /\ UNCHANGED stores

(* select_i32: the branch that has a value, the branch with the others. *)
Select(i) ==
  /\ At(i, "select")
  /\ \E c \in paths[i].cells :
       LET this == [Done(paths[i]) EXCEPT !.cells = {c}]
           others == [paths[i] EXCEPT !.cells = @ \ {c}]
       IN  IF paths[i].operands # "address"
           THEN Became(i, this) /\ UNCHANGED stores
           ELSE IF others.cells = {} \/ Len(paths) = MaxPaths
                THEN ChooseOne(i, this)
                ELSE Choose(i, this, others)

(* The path's own effect, on its handle and in the reference: a cell holds  *)
(* the path that wrote it.                                                  *)
Put(object, i, c) == [object EXCEPT !.cells[c] = i]

Wants(p, k, object) == [p EXCEPT !.want[k] = object]

Write(i) ==
  /\ At(i, "write")
  /\ LET k == KindOf(i)
     IN  \E c \in paths[i].cells :
           /\ stores' = [stores EXCEPT ![paths[i].handle][k] = Put(@, i, c)]
           /\ Became(i, Wants(Done(paths[i]), k, Put(paths[i].want[k], i, c)))

Grown(object) == [object EXCEPT !.size = @ + 1]

Grow(i) ==
  /\ At(i, "grow")
  /\ LET k == KindOf(i)
     IN  /\ stores' = [stores EXCEPT ![paths[i].handle][k] = Grown(@)]
         /\ Became(i, Wants(Done(paths[i]), k, Grown(paths[i].want[k])))

(* lift_mem: the access writes through its handle, then `restore' gives the *)
(* path its memories back, cloned if the address was chosen.  The branch    *)
(* with the other addresses goes on with the same handle and backup.        *)
LiftMem(i) ==
  /\ At(i, "lift")
  /\ \E c \in paths[i].cells :
       LET k == KindOf(i)
           written == [stores EXCEPT ![paths[i].handle][k] = Put(@, i, c)]
           this == Wants(Done(paths[i]), k, Put(paths[i].want[k], i, c))
           others == [paths[i] EXCEPT !.cells = @ \ {c}]
       IN  IF paths[i].operands # "address"
           THEN stores' = written /\ Became(i, this)
           ELSE /\ stores' = Append(written, written[paths[i].store])
                /\ LET after == [paths EXCEPT ![i] =
                                   [this EXCEPT !.store = CloneId(this, 1)]]
                   IN  paths' = IF others.cells = {} \/ Len(paths) = MaxPaths
                                THEN after ELSE Append(after, others)

Finished ==
  /\ \A i \in 1 .. Len(paths) : Idle(i) /\ paths[i].ops = MaxOps
  /\ UNCHANGED vars

Next ==
  \/ \E i \in 1 .. Len(paths) :
       \/ Branch(i) \/ Fetch(i) \/ Check(i) \/ Reread(i) \/ Select(i)
       \/ Write(i) \/ Grow(i) \/ LiftMem(i)
  \/ Finished

Spec == Init /\ [][Next]_vars

-----------------------------------------------------------------------------
Live == [cells : [Cells -> Nat], size : Nat \ {0}]
Stores == [Kinds -> Live \cup {Absent}]

StageNames == {"check", "reread", "select", "write", "grow", "lift"}

Paths ==
  [store : Nat, rest : Seq(StageNames), instr : DOMAIN Stages \cup {"none"},
   handle : Nat, operands : {"concrete", "address", "size"},
   cells : SUBSET Cells, ops : Nat, strayed : BOOLEAN, want : [Kinds -> Live]]

TypeOK == stores \in Seq(Stores) /\ paths \in Seq(Paths)

Seen(i, k) == Converted(stores[paths[i].store][k])

(* Between two instructions a path sees the effects of its own instructions *)
(* and of nothing else, as long as all of them were Sound: no write of      *)
(* another path leaks into it, not even of one that has strayed, and none   *)
(* of its own is lost in a copy it no longer looks at.                      *)
OwnEffects ==
  \A i \in 1 .. Len(paths) :
    Idle(i) /\ ~paths[i].strayed =>
      \A k \in Kinds : Seen(i, k) = paths[i].want[k]

(* When a Sound instruction is about to change an object, the handle it     *)
(* uses is still the path's.                                                *)
HandlesCurrent ==
  \A i \in 1 .. Len(paths) :
    /\ At(i, "write") \/ At(i, "grow") \/ At(i, "lift")
    /\ Sound(paths[i].instr, paths[i].operands)
    => paths[i].handle = paths[i].store

(* "choose must guarantee that the Thread.t is cloned in each branch"       *)
(* (symbolic_choice.ml:200-201): no path sees what another one writes.      *)
(* They do: the branches of a choice made inside lift_mem share a memory.   *)
NothingLeaks ==
  \A i \in 1 .. Len(paths) :
    Idle(i) => \A k \in Kinds, c \in Cells :
      Seen(i, k).cells[c] # 0 => paths[i].want[k].cells[c] # 0

(* After a symbolic memory.grow the path can use the page it got ("Store    *)
(* something on the second page: pass", test/sym/grow.wat).  It cannot.     *)
GrowthIsSeen ==
  \A i \in 1 .. Len(paths) :
    Idle(i) => Seen(i, "memory").size >= paths[i].want["memory"].size

-----------------------------------------------------------------------------
(* The inductive invariant.  No path has the store of another one, nor is   *)
(* about to use it; and each path alone is as it should be.                 *)
Apart ==
  \A i, j \in 1 .. Len(paths) : i # j =>
    /\ paths[i].store # paths[j].store
    /\ ~Idle(i) => paths[i].handle # paths[j].store

(* Nothing follows an access through lift_mem. *)
LiftLast(rest) == \A n \in 1 .. Len(rest) : rest[n] = "lift" => n = Len(rest)

(* What path p works on was converted, and by a Sound instruction through   *)
(* the handle of its own store, but for a moment: when a store was checked  *)
(* against a symbolic size and has not got its handle again.                *)
UnderWay(st, p) ==
  /\ LiftLast(p.rest)
  /\ p.instr # "none"
  /\ st[p.store][Kind(p.instr)] # Absent
  /\ st[p.handle][Kind(p.instr)] # Absent
  /\ p.strayed \/ Sound(p.instr, p.operands)
  /\ p.operands = "concrete" => p.handle = p.store
  /\ <<p.instr, p.operands>> = <<"store", "size">> =>
       \/ /\ p.rest \in {<<"check", "reread", "lift">>, <<"lift">>}
          /\ p.handle = p.store
       \/ p.rest = <<"reread", "lift">>

Good(st, p) ==
  /\ p.store \in 1 .. Len(st) /\ p.handle \in 1 .. Len(st)
  /\ p.rest # <<>> => UnderWay(st, p)
  /\ ~p.strayed => \A k \in Kinds : Converted(st[p.store][k]) = p.want[k]

ThreadInv ==
  /\ TypeOK
  /\ Apart
  /\ \A i \in 1 .. Len(paths) : Good(stores, paths[i])
=============================================================================
