---------------------------- MODULE Synchronizer ----------------------------
(***************************************************************************)
(* The synchronised container behind every work queue of the symbolic      *)
(* engine (data_structures/synchronizer.ml), with the three containers     *)
(* built on it: Wq (queue), Ws (stack) and Wpq (priority queue).           *)
(*                                                                         *)
(* Every operation of the code holds the mutex from its first to its last  *)
(* access, and Condition.wait gives it up atomically, so an operation, and *)
(* each turn of the loop of `get', is one step.  The record `sync' is the  *)
(* code's record; the mutex and the condition variable appear as           *)
(*   waiting  the threads blocked in Condition.wait,                       *)
(*   woken    the threads that were woken and have yet to take the mutex   *)
(*            again and run the loop of `get' once more.                   *)
(*                                                                         *)
(* The operations are actions on `sync' alone, for other modules to        *)
(* instantiate: SynchronizerClient drives one container in every way its   *)
(* interface allows, Exploration composes the two of `owi sym'.            *)
(***************************************************************************)
EXTENDS Integers, Sequences, FiniteSets

CONSTANTS
  Threads,     \* the threads that call `get'
  Values,      \* what the container holds
  Discipline   \* which container: "Wq", "Ws" or "Wpq"

ASSUME DisciplineAssumption == Discipline \in {"Wq", "Ws", "Wpq"}
ASSUME ThreadsAssumption == IsFiniteSet(Threads)

VARIABLE sync

SyncType ==
  [buf : Seq(Values), pledges : Int, closed : BOOLEAN,
   waiting : SUBSET Threads, woken : SUBSET Threads]

(* What `init' returns for an empty container. *)
Empty == [buf |-> <<>>, pledges |-> 0, closed |-> FALSE,
          waiting |-> {}, woken |-> {}]

-----------------------------------------------------------------------------
(* The containers: the position the getter takes, in push order. *)

(* Queue.take_opt takes the oldest element, Stack.pop_opt the newest, and   *)
(* Pq_imperative.pop one of least priority: the scheduler pushes with       *)
(* Prio.random, so it may be any of them.                                   *)
Getter(buf) ==
  {i \in 1 .. Len(buf) : /\ Discipline = "Wq" => i = 1
                         /\ Discipline = "Ws" => i = Len(buf)}

(* Faulty: drops the first element. *)
Without_First(buf, i) == [j \in 1 .. Len(buf) - 1 |-> buf[j + 1]]

(* buf without its i-th element *)
Without(buf, i) ==
  [j \in 1 .. Len(buf) - 1 |-> IF j < i THEN buf[j] ELSE buf[j + 1]]

(* Faulty: one pledge too early. *)
Finished_Early == sync.pledges <= 1 \/ sync.closed

Finished == sync.pledges = 0 \/ sync.closed

Runnable(t) == t \notin sync.waiting

(* Faulty: a pledging `get' that makes no pledge. *)
GetSome_NoPledge(t, pledge, v) ==
  /\ Runnable(t)
  /\ \E i \in Getter(sync.buf) :
       /\ v = sync.buf[i]
       /\ sync' = [sync EXCEPT !.buf = Without(sync.buf, i),
                               !.woken = @ \ {t}]

(* The branches of the loop of `get': the getter finds an element; it finds *)
(* none and none will come; it finds none and the thread waits.             *)
GetSome(t, pledge, v) ==
  /\ Runnable(t)
  /\ \E i \in Getter(sync.buf) :
       /\ v = sync.buf[i]
       /\ sync' = [sync EXCEPT !.buf = Without(sync.buf, i),
                               !.pledges = IF pledge THEN @ + 1 ELSE @,
                               !.woken = @ \ {t}]

GetNone(t) ==
  /\ Runnable(t)
  /\ sync.buf = <<>>
  /\ Finished
  /\ sync' = [sync EXCEPT !.waiting = {},
                          !.woken = (@ \cup sync.waiting) \ {t}]

GetWait(t) ==
  /\ Runnable(t)
  /\ sync.buf = <<>>
  /\ ~Finished
  /\ sync' = [sync EXCEPT !.waiting = @ \cup {t}, !.woken = @ \ {t}]

(* A waiting thread may also wake without having been signalled. *)
SpuriousWakeup(t) ==
  /\ t \in sync.waiting
  /\ sync' = [sync EXCEPT !.waiting = @ \ {t}, !.woken = @ \cup {t}]

(* Faulty: signals only when the container was empty. *)
Write_SignalIfEmpty(v) ==
  \E signalled \in SUBSET sync.waiting :
    /\ IF sync.waiting = {} \/ sync.buf # <<>>
       THEN signalled = {} ELSE \E u \in sync.waiting : signalled = {u}
    /\ sync' = [sync EXCEPT !.buf = Append(@, v),
                            !.waiting = @ \ signalled,
                            !.woken = @ \cup signalled]

(* The writers of the three containers: push, then Condition.signal, which  *)
(* wakes one of the waiting threads if there is one.                        *)
Write(v) ==
  \E signalled \in SUBSET sync.waiting :
    /\ IF sync.waiting = {} THEN signalled = {}
                            ELSE \E u \in sync.waiting : signalled = {u}
    /\ sync' = [sync EXCEPT !.buf = Append(@, v),
                            !.waiting = @ \ signalled,
                            !.woken = @ \cup signalled]

MakePledge == sync' = [sync EXCEPT !.pledges = @ + 1]

Broadcast(s) == [s EXCEPT !.waiting = {}, !.woken = @ \cup s.waiting]

(* Faulty: wakes nobody when the last pledge ends. *)
EndPledge_Quiet == sync' = [sync EXCEPT !.pledges = @ - 1]

EndPledge ==
  LET ended == [sync EXCEPT !.pledges = @ - 1]
  IN  sync' = IF ended.pledges = 0 THEN Broadcast(ended) ELSE ended

Fail == sync' = Broadcast([sync EXCEPT !.closed = TRUE])

=============================================================================
