----------------------------- MODULE Exploration -----------------------------
(***************************************************************************)
(* The parallel exploration of `owi sym': the scheduler of                 *)
(* symbolic/symbolic_choice.ml (Scheduler, Make.run) and its driver in     *)
(* cmd/cmd_sym.ml (handle_result).  Worker domains share a work queue of   *)
(* tasks; each runs a task, which ends in results, in further tasks (at a  *)
(* yield) or nowhere, pushes the tasks back and hands failures to the main *)
(* domain through a second synchronised container, the result stack.  The  *)
(* main domain spawns the workers, reads and prints the failures, joins    *)
(* the workers and states the verdict.                                     *)
(*                                                                         *)
(* The explored program is data: running task t gives the tree of statuses *)
(* of the Schedulable monad, of which Status[t] lists the leaves in the    *)
(* order handle_status visits them: a task (Yield), a result (Now) or      *)
(* Stop.  What a task computes in between (bind, choose, the solver) has   *)
(* no effect on this state.                                                *)
(***************************************************************************)
EXTENDS Integers, Sequences, SequencesExt

CONSTANTS
  MaxWorkers,
  Tasks,                \* the continuations of the explored programs
  Results,              \* the ends of their paths that return a value
  Stop,                 \* the status of a path that is given up
  Status,               \* what running a task leads to
  Outcome,              \* of a result: "EVal", "ETrap" or "EAssert"
  Crumbs,               \* of a result: the rank of its breadcrumbs
  Strategy,             \* exploration_strategy: "LIFO", "FIFO" or "Random"
  Inputs                \* the runs: a program, options, and what may fail

Workers == 1 .. MaxWorkers

(* What may fail: a task may raise an exception, creating a solver may, and *)
(* printing a failure or saving it may end in an error.                     *)
Faults == {"task", "solver", "print"}

ASSUME ProgramAssumption ==
  /\ MaxWorkers \in Nat \ {0}
  /\ Stop \notin Tasks \cup Results
  /\ Tasks \cap Results = {}
  /\ Status \in [Tasks -> Seq(Tasks \cup Results \cup {Stop})]
  /\ Outcome \in [Results -> {"EVal", "ETrap", "EAssert"}]
  /\ Crumbs \in [Results -> Nat]

ASSUME OptionsAssumption ==
  /\ Strategy \in {"LIFO", "FIFO", "Random"}
  /\ Inputs \subseteq
       [root : Tasks, workers : Workers, faults : SUBSET Faults,
        fail_mode : {"Both", "Trap_only", "Assertion_only"},
        no_stop_at_failure : BOOLEAN, deterministic_result_order : BOOLEAN]

Statuses == Tasks \cup Results \cup {Stop}

(* What a task leads to, at once or in the end: the least set that contains *)
(* the task and, with every task of it, the statuses of that task.          *)
Closed(S) == \A t \in S \cap Tasks : ToSet(Status[t]) \subseteq S

Below ==
  [x \in Statuses |->
     {y \in Statuses : \A S \in SUBSET Statuses : x \in S /\ Closed(S) => y \in S}]

(* A status is a tree of computations and each path has an end of its own,  *)
(* so the branches of a task share no result.                               *)
ASSUME PathsAssumption ==
  \A t \in Tasks : \A i, j \in 1 .. Len(Status[t]) :
    i # j => Below[Status[t][i]] \cap Below[Status[t][j]] \subseteq {Stop}

VARIABLES
  input,        \* the run; it does not change
  work,         \* the synchroniser of the work queue
  res,          \* the synchroniser of the result stack
  pc,           \* per worker: where it is
  task,         \* per worker: the task it runs or ran last, or Stop
  todo,         \* per worker: the statuses handle_status has yet to handle
  raised,       \* the workers whose domain ends with an exception
  path_count,
  main,         \* where the main domain is
  spawned,      \* how many workers it has spawned
  joined,       \* how many it has joined
  collected,    \* the results read, in order
  printed,      \* the failures printed, in order
  completed,    \* path_count as the main domain logs it
  verdict

workerVars == <<pc, task, todo, raised>>
mainVars == <<main, spawned, joined, collected, printed, completed, verdict>>
vars == <<input, work, res, workerVars, path_count, mainVars>>

-----------------------------------------------------------------------------
(* The container each exploration strategy gets. *)
QueueOf == [LIFO |-> "Wq", FIFO |-> "Ws", Random |-> "Wpq"]

MainThread == "main"

Work == INSTANCE Synchronizer
          WITH sync <- work, Threads <- Workers, Values <- Tasks,
               Discipline <- QueueOf[Strategy]
Res == INSTANCE Synchronizer
         WITH sync <- res, Threads <- {MainThread}, Values <- Results,
              Discipline <- "Ws"

(* The results the callback pushes: those its match on fail_mode lets pass. *)
Reportable ==
  {r \in Results :
     \/ Outcome[r] = "ETrap" /\ input.fail_mode \in {"Both", "Trap_only"}
     \/ Outcome[r] = "EAssert" /\ input.fail_mode \in {"Both", "Assertion_only"}}

(* Faulty: every failure passes. *)
Reports_AnyFailure(r) == Outcome[r] # "EVal"

Reports(r) == r \in Reportable

(* --deterministic-result-order implies --no-stop-at-failure. *)
Deterministic == input.deterministic_result_order
StopAtFirst == ~(Deterministic \/ input.no_stop_at_failure)

MayFail(fault) == fault \in input.faults

(* sort_results: List.sort on the breadcrumbs, which is stable. *)
SortResults(s) ==
  LET Before(i, j) == \/ Crumbs[s[i]] < Crumbs[s[j]]
                      \/ Crumbs[s[i]] = Crumbs[s[j]] /\ i < j
      Position(i) == 1 + Cardinality({j \in 1 .. Len(s) : Before(j, i)})
  IN  [k \in 1 .. Len(s) |-> s[CHOOSE i \in 1 .. Len(s) : Position(i) = k]]

-----------------------------------------------------------------------------
(* init_scheduler and add_init_task have run; no worker exists. *)
Init ==
  /\ input \in Inputs
  /\ work = [Work!Empty EXCEPT !.buf = <<input.root>>]
  /\ res = Res!Empty
  /\ pc = [w \in Workers |-> "unborn"]
  /\ task = [w \in Workers |-> Stop]
  /\ todo = [w \in Workers |-> <<>>]
  /\ raised = {}
  /\ path_count = 0
  /\ main = "pledge"
  /\ spawned = 0
  /\ joined = 0
  /\ collected = <<>>
  /\ printed = <<>>
  /\ completed = 0
  /\ verdict = "running"

-----------------------------------------------------------------------------
(* A worker: spawn_worker's domain, work and handle_status. *)

Goto(w, from, to) == pc[w] = from /\ pc' = [pc EXCEPT ![w] = to]

(* wls_init () creates the solver; it runs outside the `try' that fails the *)
(* work queue.                                                              *)
WlsInit(w) ==
  /\ Goto(w, "init", "pop")
  /\ UNCHANGED <<work, res, task, todo, raised, path_count, mainVars>>

WlsInitRaises(w) ==
  /\ MayFail("solver")
  /\ Goto(w, "init", "close")
  /\ raised' = raised \cup {w}
  /\ UNCHANGED <<work, res, task, todo, path_count, mainVars>>

(* Faulty: the task is taken without a pledge. *)
PopTask_NoPledge(w) ==
  /\ Goto(w, "pop", "run")
  /\ \E t \in Tasks : /\ Work!GetSome(w, FALSE, t)
                      /\ task' = [task EXCEPT ![w] = t]
  /\ UNCHANGED <<res, todo, raised, path_count, mainVars>>

PopTask(w) ==
  /\ Goto(w, "pop", "run")
  /\ \E t \in Tasks : /\ Work!GetSome(w, TRUE, t)
                      /\ task' = [task EXCEPT ![w] = t]
  /\ UNCHANGED <<res, todo, raised, path_count, mainVars>>

PopNothing(w) ==
  /\ Goto(w, "pop", "close")
  /\ Work!GetNone(w)
  /\ UNCHANGED <<res, task, todo, raised, path_count, mainVars>>

PopWaits(w) ==
  /\ pc[w] = "pop"
  /\ Work!GetWait(w)
  /\ UNCHANGED <<res, workerVars, path_count, mainVars>>

Spurious(w) ==
  /\ Work!SpuriousWakeup(w)
  /\ UNCHANGED <<res, workerVars, path_count, mainVars>>

(* Schedulable.run f wls computes the whole status before any of it is      *)
(* handled.                                                                 *)
RunTask(w) ==
  /\ Goto(w, "run", "handle")
  /\ todo' = [todo EXCEPT ![w] = Status[task[w]]]
  /\ UNCHANGED <<work, res, task, raised, path_count, mainVars>>

RunRaises(w) ==
  /\ MayFail("task")
  /\ Goto(w, "run", "fail")
  /\ UNCHANGED <<work, res, task, todo, raised, path_count, mainVars>>

Handling(w) == pc[w] = "handle" /\ todo[w] # <<>>

(* Faulty: the handled status stays. *)
Handled_Not(w) == UNCHANGED todo

Handled(w) == todo' = [todo EXCEPT ![w] = Tail(@)]

HandleStop(w) ==
  /\ Handling(w)
  /\ Head(todo[w]) = Stop
  /\ Handled(w)
  /\ UNCHANGED <<work, res, pc, task, raised, path_count, mainVars>>

HandleYield(w) ==
  /\ Handling(w)
  /\ Head(todo[w]) \in Tasks
  /\ Work!Write(Head(todo[w]))
  /\ Handled(w)
  /\ UNCHANGED <<res, pc, task, raised, path_count, mainVars>>

(* The callback counts the path, then pushes a failure it is to report. *)
HandleNow(w) ==
  /\ Handling(w)
  /\ Head(todo[w]) \in Results
  /\ path_count' = path_count + 1
  /\ IF Reports(Head(todo[w]))
     THEN Goto(w, "handle", "push") /\ UNCHANGED todo
     ELSE Handled(w) /\ UNCHANGED pc
  /\ UNCHANGED <<work, res, task, raised, mainVars>>

PushResult(w) ==
  /\ Goto(w, "push", "handle")
  /\ Res!Write(Head(todo[w]))
  /\ Handled(w)
  /\ UNCHANGED <<work, task, raised, path_count, mainVars>>

EndTask(w) ==
  /\ todo[w] = <<>>
  /\ Goto(w, "handle", "pop")
  /\ Work!EndPledge
  /\ UNCHANGED <<res, task, todo, raised, path_count, mainVars>>

(* Faulty: the exception leaves the queue as it is. *)
FailQueue_Quiet(w) ==
  /\ Goto(w, "fail", "close")
  /\ raised' = raised \cup {w}
  /\ UNCHANGED <<work, res, task, todo, path_count, mainVars>>

(* An exception in the loop fails the work queue and is raised again; the   *)
(* pledge of the task stays open.                                           *)
FailQueue(w) ==
  /\ Goto(w, "fail", "close")
  /\ Work!Fail
  /\ raised' = raised \cup {w}
  /\ UNCHANGED <<res, task, todo, path_count, mainVars>>

(* Fun.protect's finally: callback_close. *)
Close(w) ==
  /\ Goto(w, "close", "ended")
  /\ Res!EndPledge
  /\ UNCHANGED <<work, task, todo, raised, path_count, mainVars>>

WorkerStep(w) ==
  /\ UNCHANGED input
  /\ \/ WlsInit(w) \/ WlsInitRaises(w)
     \/ PopTask(w) \/ PopNothing(w) \/ PopWaits(w)
     \/ RunTask(w) \/ RunRaises(w)
     \/ HandleStop(w) \/ HandleYield(w) \/ HandleNow(w) \/ PushResult(w)
     \/ EndTask(w) \/ FailQueue(w) \/ Close(w)

-----------------------------------------------------------------------------
(* The main domain: Make.run, then handle_result from its read on. *)

(* Faulty: the pledge is left to the worker, so none is made here. *)
CallbackInit_NoPledge ==
  /\ main = "pledge"
  /\ main' = "spawn"
  /\ UNCHANGED <<work, res, workerVars, path_count, spawned, joined,
                 collected, printed, completed, verdict>>

(* callback_init () makes a pledge on the result stack before the spawn. *)
CallbackInit ==
  /\ main = "pledge"
  /\ main' = "spawn"
  /\ Res!MakePledge
  /\ UNCHANGED <<work, workerVars, path_count, spawned, joined, collected,
                 printed, completed, verdict>>

DomainSpawn ==
  /\ main = "spawn"
  /\ spawned' = spawned + 1
  /\ pc' = [pc EXCEPT ![spawned + 1] = "init"]
  /\ main' = IF spawned + 1 = input.workers THEN "read" ELSE "pledge"
  /\ UNCHANGED <<work, res, task, todo, raised, path_count, joined,
                 collected, printed, completed, verdict>>

(* The results are printed as they are read, and the first one ends the     *)
(* run, unless they are all to be printed; sort_results reads them all      *)
(* before the first is printed.                                             *)
ReadResult ==
  /\ main = "read"
  /\ \E r \in Results :
       /\ Res!GetSome(MainThread, FALSE, r)
       /\ collected' = Append(collected, r)
       /\ printed' = IF Deterministic THEN printed ELSE Append(printed, r)
  /\ IF StopAtFirst
     THEN main' = "done" /\ verdict' = "Found_bug" /\ completed' = path_count
     ELSE UNCHANGED <<main, verdict, completed>>
  /\ UNCHANGED <<work, workerVars, path_count, spawned, joined>>

(* print_bug or write_testcase fails: the error ends the run, no worker is  *)
(* joined.                                                                  *)
ReadUnprintable ==
  /\ MayFail("print")
  /\ ~Deterministic
  /\ main = "read"
  /\ \E r \in Results : /\ Res!GetSome(MainThread, FALSE, r)
                        /\ collected' = Append(collected, r)
  /\ main' = "done"
  /\ verdict' = "Exception"
  /\ UNCHANGED <<work, workerVars, path_count, spawned, joined, printed,
                 completed>>

ReadNothing ==
  /\ main = "read"
  /\ Res!GetNone(MainThread)
  /\ main' = "join"
  /\ UNCHANGED <<work, workerVars, path_count, spawned, joined, collected,
                 printed, completed, verdict>>

ReadWaits ==
  /\ main = "read"
  /\ Res!GetWait(MainThread)
  /\ UNCHANGED <<work, workerVars, path_count, mainVars>>

ReadSpurious ==
  /\ Res!SpuriousWakeup(MainThread)
  /\ UNCHANGED <<work, workerVars, path_count, mainVars>>

(* Faulty: the exception of a joined domain is ignored. *)
Join_Swallows ==
  /\ main = "join"
  /\ joined < input.workers
  /\ pc[joined + 1] = "ended"
  /\ joined' = joined + 1
  /\ UNCHANGED <<work, res, workerVars, path_count, main, spawned, collected,
                 printed, completed, verdict>>

(* The finalizer joins the domains in order; joining one that ended with an *)
(* exception raises it in the main domain.                                  *)
Join ==
  /\ main = "join"
  /\ joined < input.workers
  /\ pc[joined + 1] = "ended"
  /\ IF joined + 1 \in raised
     THEN main' = "done" /\ verdict' = "Exception" /\ UNCHANGED joined
     ELSE joined' = joined + 1 /\ UNCHANGED <<main, verdict>>
  /\ UNCHANGED <<work, res, workerVars, path_count, spawned, collected,
                 printed, completed>>

(* Faulty: the failures stay as they came. *)
Sort_Not ==
  /\ Deterministic
  /\ main = "join"
  /\ joined = input.workers
  /\ main' = "print"
  /\ UNCHANGED <<work, res, workerVars, path_count, spawned, joined, collected,
                 printed, completed, verdict>>

(* Under --deterministic-result-order: the results are sorted, then printed *)
(* one by one.                                                              *)
Sort ==
  /\ Deterministic
  /\ main = "join"
  /\ joined = input.workers
  /\ main' = "print"
  /\ collected' = SortResults(collected)
  /\ UNCHANGED <<work, res, workerVars, path_count, spawned, joined, printed,
                 completed, verdict>>

Unprinted == main = "print" /\ Len(printed) < Len(collected)

PrintSorted ==
  /\ Unprinted
  /\ printed' = Append(printed, collected[Len(printed) + 1])
  /\ UNCHANGED <<work, res, workerVars, path_count, main, spawned, joined,
                 collected, completed, verdict>>

PrintFails ==
  /\ MayFail("print")
  /\ Unprinted
  /\ main' = "done"
  /\ verdict' = "Exception"
  /\ UNCHANGED <<work, res, workerVars, path_count, spawned, joined,
                 collected, printed, completed>>

Conclude ==
  /\ \/ main = "join" /\ ~Deterministic
     \/ main = "print" /\ ~Unprinted
  /\ joined = input.workers
  /\ main' = "done"
  /\ completed' = path_count
  /\ verdict' = IF printed = <<>> THEN "All_OK" ELSE "Found_bug"
  /\ UNCHANGED <<work, res, workerVars, path_count, spawned, joined,
                 collected, printed>>

MainStep ==
  /\ UNCHANGED input
  /\ \/ CallbackInit \/ DomainSpawn
     \/ ReadResult \/ ReadUnprintable \/ ReadNothing \/ ReadWaits
     \/ Join \/ Sort \/ PrintSorted \/ PrintFails \/ Conclude

(* After its verdict the process exits, whatever its workers are doing. *)
Exited == main = "done" /\ UNCHANGED vars

Next ==
  \/ \E w \in Workers : WorkerStep(w)
  \/ MainStep
  \/ UNCHANGED input /\ (ReadSpurious \/ \E w \in Workers : Spurious(w))
  \/ Exited

(* Every domain keeps running: the operating system schedules them all and  *)
(* a critical section is short, so each step a domain can take is taken.    *)
Fairness == WF_vars(MainStep) /\ \A w \in Workers : WF_vars(WorkerStep(w))

Spec == Init /\ [][Next]_vars /\ Fairness

-----------------------------------------------------------------------------
(* Properties. *)

TypeOK ==
  /\ input \in Inputs
  /\ work \in Work!SyncType
  /\ res \in Res!SyncType
  /\ pc \in [Workers -> {"unborn", "init", "pop", "run", "handle", "push",
                         "fail", "close", "ended"}]
  /\ task \in [Workers -> Tasks \cup {Stop}]
  /\ todo \in [Workers -> Seq(Tasks \cup Results \cup {Stop})]
  /\ raised \in SUBSET Workers
  /\ path_count \in Nat
  /\ main \in {"pledge", "spawn", "read", "join", "print", "done"}
  /\ spawned \in 0 .. MaxWorkers
  /\ joined \in 0 .. MaxWorkers
  /\ collected \in Seq(Results)
  /\ printed \in Seq(Results)
  /\ completed \in Nat
  /\ verdict \in {"running", "All_OK", "Found_bug", "Exception"}

Failures == Below[input.root] \cap Reportable

(* Every failure of the program is, at every moment, in exactly one place:  *)
(* below a queued task, below what a worker holds, on the result stack, or  *)
(* read; so none is lost and none is reported twice, whichever domains push *)
(* and pop (symbolic_choice.ml:81-106), but for those below a task that     *)
(* raised: they stay with the domain that died.                             *)
Holds(w) ==
  IF pc[w] \in {"run", "fail"} \/ w \in raised THEN <<task[w]>> ELSE todo[w]

Above(r, s) == {i \in 1 .. Len(s) : r \in Below[s[i]]}

Sightings(r) ==
  {<<"queued", i>> : i \in Above(r, work.buf)}
    \cup {<<"delivered", i>> : i \in Above(r, res.buf)}
    \cup {<<"read", i>> : i \in Above(r, collected)}
    \cup UNION {{<<"held", w, i>> : i \in Above(r, Holds(w))} : w \in Workers}

ExactlyOnce == \A r \in Failures : Cardinality(Sightings(r)) = 1

(* A worker that leaves the work loop for lack of work is right: unless     *)
(* some domain raised, no task is left and no other worker runs one that    *)
(* could make more (synchronizer.ml:26-28).                                 *)
WorkersQuitTogether ==
  raised = {} /\ (\E w \in Workers : pc[w] \in {"close", "ended"}) =>
    /\ work.buf = <<>>
    /\ \A w \in Workers : pc[w] \notin {"run", "handle", "push", "fail"}

(* An exception of a worker is never swallowed: when all results are        *)
(* wanted, a run in which a domain raised ends with that exception and      *)
(* neither with a report of success nor with a plain list of failures.      *)
ExceptionsSurface ==
  raised # {} /\ ~StopAtFirst => verdict \in {"running", "Exception"}

(* What is printed under --deterministic-result-order depends on the set of *)
(* failures and not on the order in which the workers delivered them: any   *)
(* other order of arrival would have been printed alike.                    *)
OrderOfArrivalIrrelevant ==
  Deterministic /\ verdict = "Found_bug" =>
    \A arrival \in SetToSeqs(ToSet(collected)) : SortResults(arrival) = printed

(* Every worker ends, unless the process exits first: nobody waits for a    *)
(* domain that died, or for work that it took with it.                      *)
WorkersEnd == <>(\A w \in 1 .. input.workers : pc[w] = "ended")

(* The exploration reports what PathExploration promises, a verdict in the  *)
(* end included, whatever fails.                                            *)
Abstract ==
  INSTANCE PathExploration
    WITH failures <- Failures,
         stopAtFirst <- StopAtFirst,
         mayRaise <- input.faults # {},
         reported <- ToSet(printed)

PromiseKept == Abstract!Spec

(* The verdict is right when it is stated: "All OK" only of a program       *)
(* without reportable failures, a bug only with a failure printed, and with *)
(* all of them when all were asked for (cmd_sym.ml:240-252).                *)
VerdictSound == Abstract!VerdictSound

-----------------------------------------------------------------------------
(* The inductive invariant of the domains: who may still make work, and     *)
(* whom the main domain has spawned and joined.                             *)
DomainsType ==
  /\ input \in Inputs
  /\ work \in Work!SyncType
  /\ pc \in [Workers -> {"unborn", "init", "pop", "run", "handle", "push",
                         "fail", "close", "ended"}]
  /\ raised \in SUBSET Workers
  /\ main \in {"pledge", "spawn", "read", "join", "print", "done"}
  /\ spawned \in Nat /\ joined \in Nat
  /\ verdict \in {"running", "All_OK", "Found_bug", "Exception"}

Busy == {w \in Workers : pc[w] \in {"run", "handle", "push", "fail"}}

(* As long as nobody raised, the pledges are those of the busy workers, and *)
(* nobody leaves before the last of them is done.                           *)
WorkAccounted ==
  raised = {} =>
    /\ ~work.closed
    /\ work.pledges = Cardinality(Busy)
    /\ (\E w \in Workers : pc[w] \in {"close", "ended"}) =>
         work.buf = <<>> /\ Busy = {}

DomainsAccounted ==
  /\ spawned <= input.workers
  /\ joined <= input.workers
  /\ main \in {"pledge", "spawn"} => spawned < input.workers
  /\ main = "print" => joined = input.workers
  /\ \A w \in Workers : w > spawned => pc[w] = "unborn"
  /\ \A w \in Workers : w <= joined => pc[w] = "ended" /\ w \notin raised
  /\ \A w \in raised : pc[w] \in {"close", "ended"}
  /\ verdict \in {"All_OK", "Found_bug"} /\ ~StopAtFirst =>
       main = "done" /\ joined = input.workers

DomainsInv == DomainsType /\ WorkAccounted /\ DomainsAccounted

(* The inductive invariant of the failures, on top of that of the domains:  *)
(* where each of them is on its way to the report.                          *)
FailuresType ==
  /\ res \in Res!SyncType
  /\ task \in [Workers -> Tasks \cup {Stop}]
  /\ todo \in [Workers -> Seq(Statuses)]
  /\ path_count \in Nat /\ completed \in Nat
  /\ collected \in Seq(Results) /\ printed \in Seq(Results)

(* What a worker has in hand follows from where it is. *)
HandsAccounted ==
  \A w \in Workers :
    /\ pc[w] \notin {"handle", "push"} => todo[w] = <<>>
    /\ pc[w] = "push" => todo[w] # <<>> /\ Head(todo[w]) \in Reportable
    /\ pc[w] \in {"run", "fail"} => task[w] # Stop
    /\ pc[w] \in {"unborn", "init"} => task[w] = Stop
    /\ pc[w] = "fail" \/ w \in raised => input.faults # {}

(* Nothing but the program is explored, nothing but failures delivered. *)
OfTheProgram ==
  /\ ToSet(work.buf) \subseteq Below[input.root]
  /\ \A w \in Workers :
       /\ pc[w] = "run" => task[w] \in Below[input.root]
       /\ ToSet(todo[w]) \subseteq Below[input.root]
  /\ ToSet(res.buf) \subseteq Failures
  /\ ToSet(collected) \subseteq Failures

(* A failure is seen in one place, where it is below one element only: what *)
(* ExactlyOnce says, without counting.                                      *)
Seen(r, s) == \E i \in 1 .. Len(s) : r \in Below[s[i]]
Once(r, s) == \A i, j \in 1 .. Len(s) : r \in Below[s[i]] /\ r \in Below[s[j]] => i = j

SeenHeld(r) == \E w \in Workers : Seen(r, Holds(w))

Located(r) ==
  /\ Once(r, work.buf) /\ Once(r, res.buf) /\ Once(r, collected)
  /\ \A w \in Workers : Once(r, Holds(w))
  /\ \A v, w \in Workers : Seen(r, Holds(v)) /\ Seen(r, Holds(w)) => v = w
  /\ Seen(r, work.buf) \/ Seen(r, res.buf) \/ Seen(r, collected) \/ SeenHeld(r)
  /\ Seen(r, work.buf) => ~Seen(r, res.buf) /\ ~Seen(r, collected) /\ ~SeenHeld(r)
  /\ Seen(r, res.buf) => ~Seen(r, collected) /\ ~SeenHeld(r)
  /\ Seen(r, collected) => ~SeenHeld(r)

(* The pledges of the result stack are those of the living workers and of   *)
(* the one about to be spawned; the main domain stops reading when nothing  *)
(* is on the stack and nobody is left to push.                              *)
Living == {w \in Workers : pc[w] \notin {"unborn", "ended"}}

DeliveryAccounted ==
  /\ ~res.closed
  /\ res.pledges = Cardinality(Living) + (IF main = "spawn" THEN 1 ELSE 0)
  /\ main \in {"join", "print"} => res.buf = <<>> /\ Living = {}

(* What is printed, by how far the main domain is. *)
ReportAccounted ==
  /\ main = "done" <=> verdict # "running"
  /\ main # "done" /\ ~Deterministic => printed = collected
  /\ main \in {"pledge", "spawn", "read", "join"} /\ Deterministic => printed = <<>>
  /\ main = "print" =>
       /\ Deterministic
       /\ Len(printed) <= Len(collected)
       /\ \A i \in 1 .. Len(printed) : printed[i] = collected[i]

FailuresInv ==
  /\ FailuresType
  /\ HandsAccounted
  /\ OfTheProgram
  /\ \A r \in Failures : Located(r)
  /\ DeliveryAccounted
  /\ ReportAccounted
  /\ VerdictSound

(* When no two results have breadcrumbs of one rank: what is about to be    *)
(* printed under --deterministic-result-order stands in the order of ranks. *)
DistinctCrumbs == \A r, q \in Results : Crumbs[r] = Crumbs[q] => r = q

OrderAccounted ==
  Deterministic =>
    /\ main = "print" => collected = SortResults(collected)
    /\ verdict = "Found_bug" => printed = collected /\ collected = SortResults(collected)
=============================================================================
