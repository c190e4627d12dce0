------------------------- MODULE Exploration_proofs -------------------------
(***************************************************************************)
(* The exploration, for any program, any number of workers, any options    *)
(* and any faults.                                                         *)
(*                                                                         *)
(* How it ends: a worker that found no task found no pledge either, and    *)
(* pledges are what the busy workers hold (WorkAccounted): so all quit     *)
(* together, unless one raised.  A verdict is stated when all workers were *)
(* joined, and joining one that raised gives another verdict               *)
(* (DomainsAccounted).                                                     *)
(*                                                                         *)
(* What it reports: each failure is in one place on its way from the task  *)
(* it is below to the report (Located), because the branches of a task     *)
(* share no end and each step moves it from one place to one other.  When  *)
(* the main domain concludes, all places but the last are empty            *)
(* (DeliveryAccounted, WorkAccounted).  So the verdict is right, each step *)
(* is one of PathExploration, and what is sorted is all that is sorted.    *)
(***************************************************************************)
EXTENDS Exploration, FiniteSetTheorems, TLAPS

(* The parts of the work queue. *)
LEMMA QueueFields ==
  ASSUME work \in Work!SyncType
  PROVE  /\ work.buf \in Seq(Tasks) /\ work.pledges \in Int /\ work.closed \in BOOLEAN
         /\ work.waiting \subseteq Workers /\ work.woken \subseteq Workers
BY DEF Work!SyncType

(* What each operation does to the tasks and the pledges of the queue. *)
LEMMA QueueGetSome ==
  ASSUME work \in Work!SyncType, NEW w \in Workers, NEW t \in Tasks,
         Work!GetSome(w, TRUE, t)
  PROVE  /\ work' \in Work!SyncType /\ work.buf # <<>>
         /\ work'.pledges = work.pledges + 1 /\ work'.closed = work.closed
<1>1. PICK i \in Work!Getter(work.buf) :
        work' = [work EXCEPT !.buf = Work!Without(work.buf, i),
                             !.pledges = @ + 1, !.woken = @ \ {w}]
  BY Zenon DEF Work!GetSome
<1>2. i \in 1 .. Len(work.buf) /\ work.buf \in Seq(Tasks) /\ Len(work.buf) \in Nat
  BY QueueFields DEF Work!Getter
<1>3. Work!Without(work.buf, i) \in [1 .. Len(work.buf) - 1 -> Tasks]
  <2>1. \A j \in 1 .. Len(work.buf) - 1 :
          (IF j < i THEN work.buf[j] ELSE work.buf[j + 1]) \in Tasks
    BY <1>2
  <2> QED BY <2>1 DEF Work!Without
<1>4. Work!Without(work.buf, i) \in Seq(Tasks)
  <2>1. Len(work.buf) - 1 \in Nat
    BY <1>2
  <2> QED BY <1>3, <2>1
<1>5. work.pledges + 1 \in Int
  BY QueueFields
<1>6. work.woken \ {w} \in SUBSET Workers
  BY QueueFields
<1>7. work.buf # <<>>
  BY <1>2
<1> HIDE DEF Work!Without
<1> QED BY <1>1, <1>4, <1>5, <1>6, <1>7 DEF Work!SyncType

LEMMA QueueGetNone ==
  ASSUME work \in Work!SyncType, NEW w \in Workers, Work!GetNone(w)
  PROVE  /\ work' \in Work!SyncType /\ work.buf = <<>> /\ work'.buf = <<>>
         /\ work.pledges = 0 \/ work.closed
         /\ work'.pledges = work.pledges /\ work'.closed = work.closed
BY DEF Work!GetNone, Work!Finished, Work!SyncType

LEMMA QueueWaits ==
  ASSUME work \in Work!SyncType, NEW w \in Workers,
         Work!GetWait(w) \/ Work!SpuriousWakeup(w)
  PROVE  /\ work' \in Work!SyncType /\ work'.buf = work.buf
         /\ work'.pledges = work.pledges /\ work'.closed = work.closed
BY DEF Work!GetWait, Work!SpuriousWakeup, Work!SyncType

LEMMA QueueWrite ==
  ASSUME work \in Work!SyncType, NEW t \in Tasks, Work!Write(t)
  PROVE  /\ work' \in Work!SyncType
         /\ work'.pledges = work.pledges /\ work'.closed = work.closed
<1>1. PICK signalled \in SUBSET work.waiting :
        work' = [work EXCEPT !.buf = Append(@, t), !.waiting = @ \ signalled,
                             !.woken = @ \cup signalled]
  BY Zenon DEF Work!Write
<1>2. /\ Append(work.buf, t) \in Seq(Tasks)
      /\ work.waiting \ signalled \in SUBSET Workers
      /\ work.woken \cup signalled \in SUBSET Workers
  BY QueueFields
<1> QED BY <1>1, <1>2 DEF Work!SyncType

LEMMA QueueEndPledge ==
  ASSUME work \in Work!SyncType, Work!EndPledge
  PROVE  /\ work' \in Work!SyncType /\ work'.buf = work.buf
         /\ work'.pledges = work.pledges - 1 /\ work'.closed = work.closed
<1>1. \/ work' = [work EXCEPT !.pledges = @ - 1]
      \/ work' = [work EXCEPT !.pledges = @ - 1, !.waiting = {},
                              !.woken = @ \cup work.waiting]
  BY DEF Work!EndPledge, Work!Broadcast, Work!SyncType
<1>2. work.pledges - 1 \in Int /\ work.woken \cup work.waiting \in SUBSET Workers
  BY QueueFields
<1> QED BY <1>1, <1>2 DEF Work!SyncType

LEMMA QueueFail ==
  ASSUME work \in Work!SyncType, Work!Fail
  PROVE  work' \in Work!SyncType
BY DEF Work!Fail, Work!Broadcast, Work!SyncType

(* Where a domain is. *)
Places == {"unborn", "init", "pop", "run", "handle", "push", "fail", "close", "ended"}

(* A worker that moves is among those spawned and not joined yet. *)
LEMMA WorkerMoves ==
  ASSUME DomainsInv, NEW w \in Workers, NEW from \in Places \ {"unborn", "ended"},
         NEW to \in Places \ {"unborn"}, Goto(w, from, to),
         UNCHANGED <<input, mainVars>>,
         from = "close" => to = "ended",
         \/ raised' = raised
         \/ raised' = raised \cup {w} /\ to = "close"
  PROVE  /\ DomainsAccounted'
         /\ pc' \in [Workers -> Places] /\ pc'[w] = to
         /\ \A v \in Workers : v # w => pc'[v] = pc[v]
<1>1. /\ pc \in [Workers -> Places] /\ pc[w] = from /\ pc' = [pc EXCEPT ![w] = to]
      /\ main' = main /\ spawned' = spawned /\ joined' = joined /\ verdict' = verdict
      /\ input' = input
  BY DEF DomainsInv, DomainsType, Goto, Places, mainVars
<1>2. /\ pc' \in [Workers -> Places] /\ pc'[w] = to
      /\ \A v \in Workers : v # w => pc'[v] = pc[v]
  BY <1>1
<1>3. StopAtFirst' = StopAtFirst
  BY <1>1 DEF StopAtFirst, Deterministic
<1>4. ~(w > spawned) /\ ~(w <= joined)
  BY <1>1 DEF DomainsInv, DomainsAccounted
<1>5. w \in raised => to = "ended"
  BY <1>1 DEF DomainsInv, DomainsAccounted
<1>6. \A v \in Workers : v > spawned' => pc'[v] = "unborn"
  BY <1>1, <1>2, <1>4 DEF DomainsInv, DomainsAccounted
<1>7. \A v \in Workers : v <= joined' => pc'[v] = "ended" /\ v \notin raised'
  BY <1>1, <1>2, <1>4 DEF DomainsInv, DomainsAccounted
<1>8. \A v \in raised' : pc'[v] \in {"close", "ended"}
  <2>1. \A v \in raised : v \in Workers
    BY DEF DomainsInv, DomainsType
  <2> QED BY <1>2, <1>5, <2>1 DEF DomainsInv, DomainsAccounted
<1> QED BY <1>1, <1>2, <1>3, <1>6, <1>7, <1>8 DEF DomainsInv, DomainsAccounted

(* The pledges, when one worker moves. *)
LEMMA BusyChanges ==
  ASSUME pc \in [Workers -> Places], NEW w \in Workers, NEW to \in Places,
         pc' = [pc EXCEPT ![w] = to]
  PROVE  LET working == {"run", "handle", "push", "fail"}
         IN  /\ Cardinality(Busy) \in Nat /\ (Cardinality(Busy) = 0 <=> Busy = {})
             /\ (pc[w] \in working <=> to \in working) => Busy' = Busy
             /\ pc[w] \notin working /\ to \in working =>
                  Cardinality(Busy') = Cardinality(Busy) + 1
             /\ pc[w] \in working /\ to \notin working =>
                  Cardinality(Busy') = Cardinality(Busy) - 1
<1> DEFINE working == {"run", "handle", "push", "fail"}
<1>1. IsFiniteSet(Workers)
  <2>1. 1 \in Int /\ MaxWorkers \in Int
    BY ProgramAssumption
  <2> QED BY <2>1, FS_Interval DEF Workers
<1>2. IsFiniteSet(Busy)
  BY <1>1, FS_Subset DEF Busy
<1>3. \A v \in Workers : pc'[v] = IF v = w THEN to ELSE pc[v]
  OBVIOUS
<1>4. (pc[w] \in working <=> to \in working) => Busy' = Busy
  BY <1>3 DEF Busy
<1>5. pc[w] \notin working /\ to \in working => Busy' = Busy \cup {w} /\ w \notin Busy
  BY <1>3 DEF Busy
<1>6. pc[w] \in working /\ to \notin working => Busy' = Busy \ {w} /\ w \in Busy
  BY <1>3 DEF Busy
<1>7. Cardinality(Busy) \in Nat /\ (Cardinality(Busy) = 0 <=> Busy = {})
  BY <1>2, FS_CardinalityType, FS_EmptySet
<1>8. w \notin Busy => Cardinality(Busy \cup {w}) = Cardinality(Busy) + 1
  BY <1>2, FS_AddElement
<1>9. w \in Busy => Cardinality(Busy \ {w}) = Cardinality(Busy) - 1
  BY <1>2, FS_RemoveElement
<1> QED BY <1>4, <1>5, <1>6, <1>7, <1>8, <1>9

(* A step that moves no domain and leaves the queue's tasks and pledges. *)
LEMMA NobodyMoves ==
  ASSUME DomainsInv, UNCHANGED <<input, pc, raised, mainVars>>,
         work' \in Work!SyncType, work'.buf = work.buf,
         work'.pledges = work.pledges, work'.closed = work.closed
  PROVE  DomainsInv'
<1>1. /\ input' = input /\ pc' = pc /\ raised' = raised /\ main' = main
      /\ spawned' = spawned /\ joined' = joined /\ verdict' = verdict
  BY DEF mainVars
<1>2. DomainsType'
  BY <1>1 DEF DomainsInv, DomainsType
<1>3. Busy' = Busy
  BY <1>1 DEF Busy
<1>4. WorkAccounted'
  BY <1>1, <1>3 DEF DomainsInv, WorkAccounted
<1>5. StopAtFirst' = StopAtFirst
  BY <1>1 DEF StopAtFirst, Deterministic
<1>6. DomainsAccounted'
  BY <1>1, <1>5 DEF DomainsInv, DomainsAccounted
<1> QED BY <1>2, <1>4, <1>6 DEF DomainsInv

(* A step of a worker between two places of which both or neither are busy; *)
(* it leaves only if nothing is left, or raises.                            *)
LEMMA AsBusyAsBefore ==
  ASSUME DomainsInv, NEW w \in Workers, NEW from \in Places \ {"unborn", "ended"},
         NEW to \in Places \ {"unborn"}, Goto(w, from, to),
         UNCHANGED <<input, work, raised, mainVars>>,
         from = "close" <=> to \in {"close", "ended"},
         to # "close",
         from \in {"run", "handle", "push", "fail"}
           <=> to \in {"run", "handle", "push", "fail"}
  PROVE  DomainsInv'
<1>1. /\ DomainsAccounted'
      /\ pc' \in [Workers -> Places] /\ pc'[w] = to
      /\ \A v \in Workers : v # w => pc'[v] = pc[v]
  BY WorkerMoves
<1>2. pc \in [Workers -> Places] /\ pc[w] = from /\ pc' = [pc EXCEPT ![w] = to]
  BY DEF DomainsInv, DomainsType, Goto, Places
<1>3. Busy' = Busy
  BY <1>2, BusyChanges
<1>4. (\E v \in Workers : pc'[v] \in {"close", "ended"})
        => \E v \in Workers : pc[v] \in {"close", "ended"}
  BY <1>1, <1>2
<1>5. WorkAccounted'
  BY <1>3, <1>4 DEF DomainsInv, WorkAccounted
<1>6. DomainsType'
  BY <1>1 DEF DomainsInv, DomainsType, mainVars, Places
<1> QED BY <1>1, <1>5, <1>6 DEF DomainsInv

(* A worker that raises. *)
LEMMA Raising ==
  ASSUME DomainsInv, NEW w \in Workers, NEW from \in {"init", "fail"},
         Goto(w, from, "close"), work' \in Work!SyncType,
         raised' = raised \cup {w}, UNCHANGED <<input, mainVars>>
  PROVE  DomainsInv'
<1>1. DomainsAccounted' /\ pc' \in [Workers -> Places]
  BY WorkerMoves DEF Places
<1>2. WorkAccounted'
  BY DEF WorkAccounted
<1>3. DomainsType'
  BY <1>1 DEF DomainsInv, DomainsType, mainVars, Places
<1> QED BY <1>1, <1>2, <1>3 DEF DomainsInv

-----------------------------------------------------------------------------
(* A worker that takes a task takes a pledge; one that leaves saw that there*)
(* is neither.                                                              *)
LEMMA PopKeeps ==
  ASSUME DomainsInv, NEW w \in Workers, UNCHANGED input, PopTask(w) \/ PopNothing(w)
  PROVE  DomainsInv'
<1>1. pc \in [Workers -> Places] /\ work \in Work!SyncType
  BY DEF DomainsInv, DomainsType, Places
<1>2. CASE PopTask(w)
  <2>1. Goto(w, "pop", "run") /\ UNCHANGED <<input, raised, mainVars>>
    BY <1>2 DEF PopTask
  <2>2. /\ work' \in Work!SyncType /\ work.buf # <<>>
        /\ work'.pledges = work.pledges + 1 /\ work'.closed = work.closed
    BY <1>1, <1>2, QueueGetSome DEF PopTask
  <2>3. /\ DomainsAccounted'
        /\ pc' \in [Workers -> Places] /\ pc'[w] = "run"
        /\ \A v \in Workers : v # w => pc'[v] = pc[v]
    BY <2>1, WorkerMoves DEF Places
  <2>4. pc[w] = "pop" /\ pc' = [pc EXCEPT ![w] = "run"]
    BY <2>1 DEF Goto
  <2>5. Cardinality(Busy') = Cardinality(Busy) + 1
    BY <1>1, <2>4, BusyChanges DEF Places
  <2>6. WorkAccounted'
    BY <2>1, <2>2, <2>3, <2>5 DEF DomainsInv, WorkAccounted
  <2>7. DomainsType'
    BY <2>1, <2>2, <2>3 DEF DomainsInv, DomainsType, mainVars, Places
  <2> QED BY <2>3, <2>6, <2>7 DEF DomainsInv
<1>3. CASE PopNothing(w)
  <2>1. Goto(w, "pop", "close") /\ UNCHANGED <<input, raised, mainVars>>
    BY <1>3 DEF PopNothing
  <2>2. /\ work' \in Work!SyncType /\ work'.buf = <<>>
        /\ work.pledges = 0 \/ work.closed
        /\ work'.pledges = work.pledges /\ work'.closed = work.closed
    BY <1>1, <1>3, QueueGetNone DEF PopNothing
  <2>3. /\ DomainsAccounted'
        /\ pc' \in [Workers -> Places] /\ pc'[w] = "close"
    BY <2>1, WorkerMoves DEF Places
  <2>4. pc[w] = "pop" /\ pc' = [pc EXCEPT ![w] = "close"]
    BY <2>1 DEF Goto
  <2>5. Busy' = Busy /\ (Cardinality(Busy) = 0 <=> Busy = {})
    BY <1>1, <2>4, BusyChanges DEF Places
  <2>6. WorkAccounted'
    BY <2>1, <2>2, <2>5 DEF DomainsInv, WorkAccounted
  <2>7. DomainsType'
    BY <2>1, <2>2, <2>3 DEF DomainsInv, DomainsType, mainVars, Places
  <2> QED BY <2>3, <2>6, <2>7 DEF DomainsInv
<1> QED BY <1>2, <1>3

(* The worker that ends its task gives its pledge back. *)
LEMMA EndTaskKeeps ==
  ASSUME DomainsInv, NEW w \in Workers, UNCHANGED input, EndTask(w)
  PROVE  DomainsInv'
<1>1. pc \in [Workers -> Places] /\ work \in Work!SyncType
  BY DEF DomainsInv, DomainsType, Places
<1>2. Goto(w, "handle", "pop") /\ UNCHANGED <<input, raised, mainVars>>
  BY DEF EndTask
<1>3. /\ work' \in Work!SyncType /\ work'.buf = work.buf
      /\ work'.pledges = work.pledges - 1 /\ work'.closed = work.closed
  BY <1>1, QueueEndPledge DEF EndTask
<1>4. /\ DomainsAccounted'
      /\ pc' \in [Workers -> Places] /\ pc'[w] = "pop"
      /\ \A v \in Workers : v # w => pc'[v] = pc[v]
  BY <1>2, WorkerMoves DEF Places
<1>5. pc[w] = "handle" /\ pc' = [pc EXCEPT ![w] = "pop"]
  BY <1>2 DEF Goto
<1>6. Cardinality(Busy') = Cardinality(Busy) - 1
  BY <1>1, <1>5, BusyChanges DEF Places
<1>7. w \in Busy
  BY <1>5 DEF Busy
<1>8. WorkAccounted'
  BY <1>2, <1>3, <1>4, <1>6, <1>7 DEF DomainsInv, WorkAccounted
<1>9. DomainsType'
  BY <1>2, <1>3, <1>4 DEF DomainsInv, DomainsType, mainVars, Places
<1> QED BY <1>4, <1>8, <1>9 DEF DomainsInv

(* A worker that hands a task back holds a pledge, so nobody has left. *)
LEMMA YieldKeeps ==
  ASSUME DomainsInv, NEW w \in Workers, UNCHANGED input, HandleYield(w)
  PROVE  DomainsInv'
<1>1. /\ pc[w] = "handle" /\ Head(todo[w]) \in Tasks /\ Work!Write(Head(todo[w]))
      /\ pc' = pc /\ raised' = raised /\ input' = input /\ main' = main
      /\ spawned' = spawned /\ joined' = joined /\ verdict' = verdict
  BY DEF HandleYield, Handling, mainVars
<1>2. /\ work' \in Work!SyncType
      /\ work'.pledges = work.pledges /\ work'.closed = work.closed
  BY <1>1, QueueWrite DEF DomainsInv, DomainsType
<1>3. DomainsType'
  BY <1>1, <1>2 DEF DomainsInv, DomainsType
<1>4. Busy' = Busy /\ w \in Busy
  BY <1>1 DEF Busy
<1>5. WorkAccounted'
  BY <1>1, <1>2, <1>4 DEF DomainsInv, WorkAccounted
<1>6. StopAtFirst' = StopAtFirst
  BY <1>1 DEF StopAtFirst, Deterministic
<1>7. DomainsAccounted'
  BY <1>1, <1>6 DEF DomainsInv, DomainsAccounted
<1> QED BY <1>3, <1>5, <1>7 DEF DomainsInv

(* So every step of a worker keeps the accounts,                            *)
LEMMA WorkerKeeps ==
  ASSUME DomainsInv, NEW w \in Workers, WorkerStep(w)
  PROVE  DomainsInv'
<1>1. UNCHANGED input
  BY DEF WorkerStep
<1>2. work \in Work!SyncType
  BY DEF DomainsInv, DomainsType
<1>3. CASE WlsInit(w)
  BY <1>1, <1>3, AsBusyAsBefore DEF WlsInit, Places
<1>4. CASE WlsInitRaises(w)
  BY <1>1, <1>2, <1>4, Raising DEF WlsInitRaises
<1>5. CASE PopTask(w) \/ PopNothing(w)
  BY <1>1, <1>5, PopKeeps
<1>6. CASE PopWaits(w)
  BY <1>1, <1>2, <1>6, QueueWaits, NobodyMoves DEF PopWaits, workerVars
<1>7. CASE RunTask(w)
  BY <1>1, <1>7, AsBusyAsBefore DEF RunTask, Places
<1>8. CASE RunRaises(w)
  BY <1>1, <1>8, AsBusyAsBefore DEF RunRaises, Places
<1>9. CASE HandleStop(w)
  BY <1>1, <1>2, <1>9, NobodyMoves DEF HandleStop
<1>10. CASE HandleYield(w)
  BY <1>1, <1>10, YieldKeeps
<1>11. CASE HandleNow(w)
  <2>1. UNCHANGED <<work, raised, mainVars>>
    BY <1>11 DEF HandleNow
  <2>2. CASE pc' = pc
    BY <1>1, <1>2, <2>1, <2>2, NobodyMoves
  <2>3. CASE Goto(w, "handle", "push")
    BY <1>1, <2>1, <2>3, AsBusyAsBefore DEF Places
  <2> QED BY <1>11, <2>2, <2>3 DEF HandleNow
<1>12. CASE PushResult(w)
  BY <1>1, <1>12, AsBusyAsBefore DEF PushResult, Places
<1>13. CASE EndTask(w)
  BY <1>1, <1>13, EndTaskKeeps
<1>14. CASE FailQueue(w)
  BY <1>1, <1>2, <1>14, QueueFail, Raising DEF FailQueue
<1>15. CASE Close(w)
  BY <1>1, <1>15, AsBusyAsBefore DEF Close, Places
<1> QED BY <1>3, <1>4, <1>5, <1>6, <1>7, <1>8, <1>9, <1>10, <1>11, <1>12, <1>13,
           <1>14, <1>15 DEF WorkerStep

-----------------------------------------------------------------------------
(* A step of the main domain that neither spawns nor joins; it concludes    *)
(* only after all were joined.                                              *)
LEMMA MainGoesOn ==
  ASSUME DomainsInv, UNCHANGED <<input, work, pc, raised, spawned, joined>>,
         verdict' \in {"running", "All_OK", "Found_bug", "Exception"},
         \/ main' = main
         \/ main = "pledge" /\ main' = "spawn"
         \/ main' \in {"join", "done"}
         \/ main' = "print" /\ joined = input.workers,
         \/ verdict' = verdict /\ (main = "done" => main' = "done")
         \/ verdict' = "Exception"
         \/ StopAtFirst
         \/ main' = "done" /\ joined = input.workers
  PROVE  DomainsInv'
<1>1. Busy' = Busy
  BY DEF Busy
<1>2. WorkAccounted'
  BY <1>1 DEF DomainsInv, WorkAccounted
<1>3. StopAtFirst' = StopAtFirst
  BY DEF StopAtFirst, Deterministic
<1>4. DomainsType'
  BY DEF DomainsInv, DomainsType
<1>5. /\ main' \in {"pledge", "spawn"} => spawned' < input'.workers
      /\ main' = "print" => joined' = input'.workers
  BY DEF DomainsInv, DomainsAccounted
<1>6. verdict' \in {"All_OK", "Found_bug"} /\ ~StopAtFirst' =>
        main' = "done" /\ joined' = input'.workers
  BY <1>3 DEF DomainsInv, DomainsAccounted
<1>7. DomainsAccounted'
  BY <1>5, <1>6 DEF DomainsInv, DomainsAccounted
<1> QED BY <1>2, <1>4, <1>7 DEF DomainsInv

(* A domain that is spawned was not born before.                            *)
LEMMA SpawnKeeps ==
  ASSUME DomainsInv, UNCHANGED input, DomainSpawn
  PROVE  DomainsInv'
<1> DEFINE w == spawned + 1
<1>1. /\ main = "spawn" /\ spawned' = w /\ pc' = [pc EXCEPT ![w] = "init"]
      /\ main' = IF w = input.workers THEN "read" ELSE "pledge"
      /\ work' = work /\ raised' = raised /\ joined' = joined /\ verdict' = verdict
      /\ input' = input
  BY DEF DomainSpawn
<1>2. /\ pc \in [Workers -> Places] /\ spawned \in Nat /\ joined \in Nat
      /\ spawned < input.workers /\ raised \subseteq Workers
  BY <1>1 DEF DomainsInv, DomainsType, DomainsAccounted, Places
<1>3. input.workers \in Workers /\ MaxWorkers \in Nat
  <2>1. input \in Inputs
    BY DEF DomainsInv, DomainsType
  <2> QED BY <2>1, OptionsAssumption, ProgramAssumption
<1>4. w \in Workers /\ w \in Nat /\ w <= input.workers /\ input.workers \in Nat
  BY <1>2, <1>3 DEF Workers
<1>5. pc[w] = "unborn"
  BY <1>2, <1>4 DEF DomainsInv, DomainsAccounted
<1>6. /\ pc' \in [Workers -> Places] /\ pc'[w] = "init"
      /\ \A v \in Workers : v # w => pc'[v] = pc[v]
  BY <1>1, <1>2, <1>4 DEF Places
<1>7. Busy' = Busy
  BY <1>1, <1>2, <1>4, <1>5, BusyChanges DEF Places
<1>8. WorkAccounted'
  <2>1. (\E v \in Workers : pc'[v] \in {"close", "ended"})
          => \E v \in Workers : pc[v] \in {"close", "ended"}
    BY <1>6
  <2> QED BY <1>1, <1>7, <2>1 DEF DomainsInv, WorkAccounted
<1>9. StopAtFirst' = StopAtFirst
  BY <1>1 DEF StopAtFirst, Deterministic
<1> HIDE DEF w
<1>10. DomainsType'
  BY <1>1, <1>2, <1>4, <1>6 DEF DomainsInv, DomainsType, Places
<1>11. \A v \in Workers : v > spawned' => pc'[v] = "unborn"
  <2>1. \A v \in Workers : v \in Nat
    BY <1>3 DEF Workers
  <2>2. \A v \in Workers : v > w => v > spawned /\ v # w
    BY <1>2, <2>1 DEF w
  <2> QED BY <1>1, <1>6, <2>2 DEF DomainsInv, DomainsAccounted
<1>12. \A v \in Workers : v <= joined' => pc'[v] = "ended" /\ v \notin raised'
  BY <1>1, <1>5, <1>6 DEF DomainsInv, DomainsAccounted
<1>13. \A v \in raised' : pc'[v] \in {"close", "ended"}
  BY <1>1, <1>2, <1>5, <1>6 DEF DomainsInv, DomainsAccounted
<1>14. main' \in {"pledge", "spawn"} => spawned' < input'.workers
  BY <1>1, <1>4
<1>15. main' # "print" /\ main # "done"
  BY <1>1
<1>16. DomainsAccounted'
  BY <1>1, <1>4, <1>9, <1>11, <1>12, <1>13, <1>14, <1>15
     DEF DomainsInv, DomainsAccounted
<1> QED BY <1>8, <1>10, <1>16 DEF DomainsInv

(* Joining goes on only with domains that ended without an exception.       *)
LEMMA JoinKeeps ==
  ASSUME DomainsInv, UNCHANGED input, Join
  PROVE  DomainsInv'
<1> DEFINE w == joined + 1
<1>1. /\ main = "join" /\ joined < input.workers /\ pc[w] = "ended"
      /\ UNCHANGED <<input, work, pc, raised, spawned>>
  BY DEF Join, workerVars
<1>2. CASE w \in raised
  <2>1. main' = "done" /\ verdict' = "Exception" /\ joined' = joined
    BY <1>2 DEF Join
  <2> QED BY <1>1, <2>1, MainGoesOn
<1>3. CASE w \notin raised
  <2>1. joined' = w /\ main' = main /\ verdict' = verdict
    BY <1>3 DEF Join
  <2>2. Busy' = Busy
    BY <1>1 DEF Busy
  <2>3. WorkAccounted'
    BY <1>1, <2>2 DEF DomainsInv, WorkAccounted
  <2>4. DomainsType' /\ joined \in Nat
    BY <1>1, <2>1 DEF DomainsInv, DomainsType
  <2>5. StopAtFirst' = StopAtFirst
    BY <1>1 DEF StopAtFirst, Deterministic
  <2>6. input.workers \in Nat /\ \A v \in Workers : v \in Nat
    <3>1. input \in Inputs
      BY DEF DomainsInv, DomainsType
    <3> QED BY <3>1, OptionsAssumption, ProgramAssumption DEF Workers
  <2>7. \A v \in Workers : v <= joined' => pc'[v] = "ended" /\ v \notin raised'
    <3>1. \A v \in Workers : v <= w => v <= joined \/ v = w
      BY <2>4, <2>6
    <3> QED BY <1>1, <1>3, <2>1, <3>1 DEF DomainsInv, DomainsAccounted
  <2>8. joined' <= input'.workers
    BY <1>1, <2>1, <2>4, <2>6
  <2>9. DomainsAccounted'
    BY <1>1, <2>1, <2>5, <2>7, <2>8 DEF DomainsInv, DomainsAccounted
  <2> QED BY <2>3, <2>4, <2>9 DEF DomainsInv
<1> QED BY <1>2, <1>3

(* and so does every step of the main domain.                               *)
LEMMA MainKeeps ==
  ASSUME DomainsInv, MainStep
  PROVE  DomainsInv'
<1>1. UNCHANGED input /\ verdict \in {"running", "All_OK", "Found_bug", "Exception"}
  BY DEF MainStep, DomainsInv, DomainsType
<1>2. CASE CallbackInit
  BY <1>1, <1>2, MainGoesOn DEF CallbackInit, workerVars
<1>3. CASE DomainSpawn
  BY <1>1, <1>3, SpawnKeeps
<1>4. CASE ReadResult
  BY <1>1, <1>4, MainGoesOn DEF ReadResult, workerVars
<1>5. CASE ReadUnprintable
  BY <1>1, <1>5, MainGoesOn DEF ReadUnprintable, workerVars
<1>6. CASE ReadNothing
  BY <1>1, <1>6, MainGoesOn DEF ReadNothing, workerVars
<1>7. CASE ReadWaits
  BY <1>1, <1>7, MainGoesOn DEF ReadWaits, workerVars, mainVars
<1>8. CASE Join
  BY <1>1, <1>8, JoinKeeps
<1>9. CASE Sort
  BY <1>1, <1>9, MainGoesOn DEF Sort, workerVars
<1>10. CASE PrintSorted
  BY <1>1, <1>10, MainGoesOn DEF PrintSorted, workerVars
<1>11. CASE PrintFails
  BY <1>1, <1>11, MainGoesOn DEF PrintFails, workerVars
<1>12. CASE Conclude
  BY <1>1, <1>12, MainGoesOn DEF Conclude, workerVars
<1> QED BY <1>2, <1>3, <1>4, <1>5, <1>6, <1>7, <1>8, <1>9, <1>10, <1>11, <1>12
        DEF MainStep

(* In every state the pledges on the work queue are those of the busy       *)
(* workers, and the main domain knows whom it spawned and joined.           *)
THEOREM DomainsInvariance == Spec => []DomainsInv
<1>1. Init => DomainsInv
  <2> SUFFICES ASSUME Init PROVE DomainsInv
    OBVIOUS
  <2>1. input \in Inputs /\ input.root \in Tasks /\ input.workers \in Workers
    BY OptionsAssumption DEF Init
  <2>2. input.workers \in Nat /\ input.workers > 0
    BY <2>1, ProgramAssumption DEF Workers
  <2>3. /\ work \in Work!SyncType /\ work.pledges = 0 /\ work.closed = FALSE
    <3>1. <<input.root>> \in Seq(Tasks)
      BY <2>1
    <3>2. Work!Empty \in Work!SyncType
      BY DEF Work!Empty, Work!SyncType
    <3>3. work = [Work!Empty EXCEPT !.buf = <<input.root>>]
      BY Zenon DEF Init
    <3>4. work \in Work!SyncType /\ work.pledges = Work!Empty.pledges
          /\ work.closed = Work!Empty.closed
      BY <3>1, <3>2, <3>3 DEF Work!SyncType
    <3> QED BY <3>4 DEF Work!Empty
  <2>4. DomainsType
    BY <2>1, <2>3 DEF Init, DomainsType
  <2>5. Busy = {} /\ Cardinality({}) = 0
    BY FS_EmptySet DEF Init, Busy
  <2>6. WorkAccounted
    BY <2>3, <2>5 DEF Init, WorkAccounted
  <2>7. \A w \in Workers : ~(w <= joined)
    BY ProgramAssumption DEF Init, Workers
  <2>8. DomainsAccounted
    BY <2>2, <2>7 DEF Init, DomainsAccounted
  <2> QED BY <2>4, <2>6, <2>8 DEF DomainsInv
<1>2. DomainsInv /\ [Next]_vars => DomainsInv'
  <2> SUFFICES ASSUME DomainsInv, [Next]_vars PROVE DomainsInv'
    OBVIOUS
  <2>1. work \in Work!SyncType
    BY DEF DomainsInv, DomainsType
  <2>2. CASE \E w \in Workers : WorkerStep(w)
    BY <2>2, WorkerKeeps
  <2>3. CASE MainStep
    BY <2>3, MainKeeps
  <2>4. CASE UNCHANGED input /\ ReadSpurious
    BY <2>1, <2>4, NobodyMoves DEF ReadSpurious, workerVars
  <2>5. CASE UNCHANGED input /\ \E w \in Workers : Spurious(w)
    BY <2>1, <2>5, QueueWaits, NobodyMoves DEF Spurious, workerVars
  <2>6. CASE UNCHANGED vars
    BY <2>1, <2>6, NobodyMoves DEF vars, workerVars
  <2> QED BY <2>2, <2>3, <2>4, <2>5, <2>6 DEF Next, Exited
<1> QED BY <1>1, <1>2, PTL DEF Spec

(* A worker leaves the loop for lack of work only when there is none and no *)
(* worker runs a task that could make some.                                 *)
THEOREM WorkersQuitRightly == Spec => []WorkersQuitTogether
<1>1. DomainsInv => WorkersQuitTogether
  BY DEF DomainsInv, WorkAccounted, WorkersQuitTogether, Busy
<1> QED BY <1>1, DomainsInvariance, PTL

(* A run in which a worker raised is not concluded with a verdict about the *)
(* program, when all failures are wanted.                                   *)
THEOREM NoExceptionIsLost == Spec => []ExceptionsSurface
<1>1. DomainsInv => ExceptionsSurface
  <2> SUFFICES ASSUME DomainsInv, NEW w \in raised, ~StopAtFirst,
                      verdict \in {"All_OK", "Found_bug"}
               PROVE  FALSE
    BY DEF ExceptionsSurface, DomainsInv, DomainsType
  <2>1. /\ w \in Workers /\ joined = input.workers /\ spawned <= input.workers
        /\ pc[w] \in {"close", "ended"} /\ spawned \in Nat /\ joined \in Nat
    BY DEF DomainsInv, DomainsType, DomainsAccounted
  <2>2. w \in Nat
    BY <2>1, ProgramAssumption DEF Workers
  <2>3. ~(w <= joined) /\ ~(w > spawned)
    BY <2>1 DEF DomainsInv, DomainsAccounted
  <2> QED BY <2>1, <2>2, <2>3
<1> QED BY <1>1, DomainsInvariance, PTL

-----------------------------------------------------------------------------
(* What is below a task, and where a failure is seen.                       *)

(* The statuses of a task. *)
LEMMA StatusOfTask ==
  ASSUME NEW t \in Tasks
  PROVE  /\ Status[t] \in Seq(Statuses) /\ Len(Status[t]) \in Nat
         /\ ToSet(Status[t]) = {Status[t][i] : i \in 1 .. Len(Status[t])}
         /\ ToSet(Status[t]) \subseteq Statuses /\ t \in Statuses
<1>1. Status[t] \in Seq(Statuses)
  BY ProgramAssumption DEF Statuses
<1>2. DOMAIN Status[t] = 1 .. Len(Status[t]) /\ Len(Status[t]) \in Nat
      /\ \A i \in 1 .. Len(Status[t]) : Status[t][i] \in Statuses
  BY <1>1
<1> QED BY <1>1, <1>2 DEF ToSet, Statuses

(* Below a status there is the status itself, and what is below is closed.  *)
LEMMA BelowIsClosed ==
  ASSUME NEW x \in Statuses
  PROVE  x \in Below[x] /\ Below[x] \subseteq Statuses /\ Closed(Below[x])
<1>1. Below[x] =
        {y \in Statuses : \A S \in SUBSET Statuses : x \in S /\ Closed(S) => y \in S}
  BY DEF Below
<1>2. ASSUME NEW t \in Below[x] \cap Tasks, NEW y \in ToSet(Status[t])
      PROVE  y \in Below[x]
  <2>1. y \in Statuses
    BY <1>2, StatusOfTask
  <2>2. ASSUME NEW S \in SUBSET Statuses, x \in S, Closed(S)
        PROVE  y \in S
    <3>1. t \in S
      BY <1>1, <2>2
    <3> QED BY <1>2, <2>2, <3>1 DEF Closed
  <2> QED BY <1>1, <2>1, <2>2
<1> QED BY <1>1, <1>2 DEF Closed

LEMMA BelowIsLeast ==
  ASSUME NEW x \in Statuses, NEW S \in SUBSET Statuses, x \in S, Closed(S)
  PROVE  Below[x] \subseteq S
BY DEF Below

(* Below an end of a path there is nothing else; *)
LEMMA BelowEnd ==
  ASSUME NEW x \in Results \cup {Stop}
  PROVE  Below[x] = {x}
<1>1. x \in Statuses /\ {x} \cap Tasks = {}
  BY ProgramAssumption DEF Statuses
<1>2. Closed({x})
  BY <1>1 DEF Closed
<1> QED BY <1>1, <1>2, BelowIsLeast, BelowIsClosed

(* below a task, what is below its statuses. *)
LEMMA BelowTask ==
  ASSUME NEW t \in Tasks, NEW r \in Results
  PROVE  r \in Below[t] <=> \E i \in 1 .. Len(Status[t]) : r \in Below[Status[t][i]]
<1> DEFINE children == ToSet(Status[t])
           S == {t} \cup UNION {Below[y] : y \in children}
<1>1. children \subseteq Statuses /\ t \in Statuses
      /\ children = {Status[t][i] : i \in 1 .. Len(Status[t])}
  BY StatusOfTask
<1>2. \A y \in children : y \in Below[y] /\ Below[y] \subseteq Statuses /\ Closed(Below[y])
  BY <1>1, BelowIsClosed
<1>3. S \in SUBSET Statuses
  BY <1>1, <1>2
<1>4. Closed(S)
  <2> SUFFICES ASSUME NEW u \in S \cap Tasks PROVE ToSet(Status[u]) \subseteq S
    BY DEF Closed
  <2>1. CASE u = t
    BY <1>2, <2>1
  <2>2. CASE \E y \in children : u \in Below[y]
    BY <1>2, <2>2 DEF Closed
  <2> QED BY <2>1, <2>2
<1>5. r \in Below[t] => \E y \in children : r \in Below[y]
  <2>1. r # t
    BY ProgramAssumption
  <2>2. Below[t] \subseteq S
    BY <1>1, <1>3, <1>4, BelowIsLeast
  <2> QED BY <2>1, <2>2
<1>6. ASSUME NEW y \in children, r \in Below[y]
      PROVE  r \in Below[t]
  <2>1. Closed(Below[t]) /\ t \in Below[t] /\ Below[t] \subseteq Statuses
    BY <1>1, BelowIsClosed
  <2>2. y \in Below[t]
    BY <2>1 DEF Closed
  <2>3. Below[y] \subseteq Below[t]
    BY <1>1, <2>1, <2>2, BelowIsLeast
  <2> QED BY <1>6, <2>3
<1> QED BY <1>1, <1>5, <1>6

(* What is seen in a sequence, and whether once, when the sequence changes. *)
LEMMA SeenNone ==
  ASSUME NEW r
  PROVE  ~Seen(r, <<>>) /\ Once(r, <<>>)
BY DEF Seen, Once

LEMMA SeenOne ==
  ASSUME NEW r, NEW x
  PROVE  (Seen(r, <<x>>) <=> r \in Below[x]) /\ Once(r, <<x>>)
<1>1. Len(<<x>>) = 1 /\ <<x>>[1] = x /\ 1 .. 1 = {1}
  OBVIOUS
<1>2. (Seen(r, <<x>>) <=> \E i \in {1} : r \in Below[<<x>>[i]])
      /\ Once(r, <<x>>)
  BY <1>1 DEF Seen, Once
<1> QED BY <1>1, <1>2

LEMMA SeenAppend ==
  ASSUME NEW r, NEW s \in Seq(Statuses), NEW x \in Statuses
  PROVE  /\ Seen(r, Append(s, x)) <=> Seen(r, s) \/ r \in Below[x]
         /\ Once(r, s) /\ ~(Seen(r, s) /\ r \in Below[x]) => Once(r, Append(s, x))
<1>1. /\ Len(Append(s, x)) = Len(s) + 1 /\ Len(s) \in Nat
      /\ \A i \in 1 .. Len(s) : Append(s, x)[i] = s[i]
      /\ Append(s, x)[Len(s) + 1] = x
  OBVIOUS
<1>2. \A i \in 1 .. Len(s) + 1 : i \in 1 .. Len(s) \/ i = Len(s) + 1
  BY <1>1
<1>3. 1 .. Len(s) \subseteq 1 .. Len(s) + 1 /\ Len(s) + 1 \in 1 .. Len(s) + 1
  BY <1>1
<1> QED BY <1>1, <1>2, <1>3 DEF Seen, Once

LEMMA SeenTail ==
  ASSUME NEW r, NEW s \in Seq(Statuses), s # <<>>
  PROVE  /\ Seen(r, s) <=> r \in Below[Head(s)] \/ Seen(r, Tail(s))
         /\ Once(r, s) => /\ Once(r, Tail(s))
                          /\ ~(r \in Below[Head(s)] /\ Seen(r, Tail(s)))
<1>1. /\ Len(Tail(s)) = Len(s) - 1 /\ Len(s) \in Nat /\ Len(s) >= 1 /\ Head(s) = s[1]
      /\ \A i \in 1 .. Len(s) - 1 : Tail(s)[i] = s[i + 1]
  OBVIOUS
<1>2. \A i \in 1 .. Len(s) : i = 1 \/ (i - 1 \in 1 .. Len(s) - 1 /\ (i - 1) + 1 = i)
  BY <1>1
<1>3. 1 \in 1 .. Len(s) /\ \A i \in 1 .. Len(s) - 1 : i + 1 \in 1 .. Len(s) /\ i + 1 # 1
  BY <1>1
<1>4. \A i, j \in 1 .. Len(s) - 1 : i + 1 = j + 1 => i = j
  BY <1>1
<1>5. Seen(r, s) => r \in Below[Head(s)] \/ Seen(r, Tail(s))
  BY <1>1, <1>2 DEF Seen
<1>6. Seen(r, Tail(s)) => \E i \in 1 .. Len(s) : i # 1 /\ r \in Below[s[i]]
  BY <1>1, <1>3 DEF Seen
<1>7. Once(r, s) => Once(r, Tail(s))
  BY <1>1, <1>3, <1>4 DEF Once
<1> QED BY <1>1, <1>3, <1>5, <1>6, <1>7 DEF Seen, Once

(* s without its k-th element *)
Rest(s, k) == [j \in 1 .. Len(s) - 1 |-> IF j < k THEN s[j] ELSE s[j + 1]]

LEMMA SeenWithout ==
  ASSUME NEW r, NEW s \in Seq(Statuses), NEW k \in 1 .. Len(s)
  PROVE  /\ Seen(r, s) <=> r \in Below[s[k]] \/ Seen(r, Rest(s, k))
         /\ Once(r, s) => /\ Once(r, Rest(s, k))
                          /\ ~(r \in Below[s[k]] /\ Seen(r, Rest(s, k)))
<1> DEFINE rest == [j \in 1 .. Len(s) - 1 |-> IF j < k THEN s[j] ELSE s[j + 1]]
           from(j) == IF j < k THEN j ELSE j + 1
           to(i) == IF i < k THEN i ELSE i - 1
<1>1. Len(s) \in Nat /\ k \in Nat /\ k <= Len(s) /\ k >= 1
  OBVIOUS
<1>2. Len(rest) = Len(s) - 1
  <2>1. Len(s) - 1 \in Nat
    BY <1>1
  <2> QED BY <2>1
<1>3. \A j \in 1 .. Len(s) - 1 :
        from(j) \in 1 .. Len(s) /\ from(j) # k /\ rest[j] = s[from(j)]
  BY <1>1
<1>4. \A i, j \in 1 .. Len(s) - 1 : from(i) = from(j) => i = j
  BY <1>1
<1>5. \A i \in 1 .. Len(s) : i # k => to(i) \in 1 .. Len(s) - 1 /\ from(to(i)) = i
  BY <1>1
<1> HIDE DEF rest, from, to
<1>6. Seen(r, s) => r \in Below[s[k]] \/ Seen(r, rest)
  <2> SUFFICES ASSUME NEW i \in 1 .. Len(s), r \in Below[s[i]], i # k
               PROVE  \E j \in 1 .. Len(rest) : r \in Below[rest[j]]
    BY DEF Seen
  <2>1. to(i) \in 1 .. Len(rest) /\ rest[to(i)] = s[i]
    BY <1>2, <1>3, <1>5
  <2> QED BY <2>1
<1>7. Seen(r, rest) => \E i \in 1 .. Len(s) : i # k /\ r \in Below[s[i]]
  BY <1>2, <1>3 DEF Seen
<1>8. Once(r, s) => Once(r, rest)
  <2> SUFFICES ASSUME Once(r, s), NEW i \in 1 .. Len(rest), NEW j \in 1 .. Len(rest),
                      r \in Below[rest[i]], r \in Below[rest[j]]
               PROVE  i = j
    BY DEF Once
  <2>1. from(i) = from(j)
    <3>1. r \in Below[s[from(i)]] /\ r \in Below[s[from(j)]]
      BY <1>2, <1>3
    <3> QED BY <1>2, <1>3, <3>1 DEF Once
  <2> QED BY <1>2, <1>4, <2>1
<1>9. /\ Seen(r, s) <=> r \in Below[s[k]] \/ Seen(r, rest)
      /\ Once(r, s) => /\ Once(r, rest)
                       /\ ~(r \in Below[s[k]] /\ Seen(r, rest))
  BY <1>6, <1>7, <1>8 DEF Seen, Once
<1> QED BY <1>9 DEF rest, Rest

(* The branches of a task share no result, so it passes on what is below it *)
(* once.                                                                    *)
LEMMA SeenBranches ==
  ASSUME NEW r \in Results, NEW t \in Tasks
  PROVE  (Seen(r, Status[t]) <=> r \in Below[t]) /\ Once(r, Status[t])
<1>1. Once(r, Status[t])
  BY PathsAssumption, ProgramAssumption DEF Once
<1> QED BY <1>1, BelowTask DEF Seen

-----------------------------------------------------------------------------
(* A failure that is located is in exactly one place; what moving it does.  *)

(* What is located is sighted once. *)
LEMMA AboveOne ==
  ASSUME NEW r, NEW s, Once(r, s)
  PROVE  /\ ~Seen(r, s) => Above(r, s) = {}
         /\ Seen(r, s) => \E i : Above(r, s) = {i}
<1>1. ~Seen(r, s) => Above(r, s) = {}
  BY DEF Seen, Above
<1>2. ASSUME NEW i \in 1 .. Len(s), r \in Below[s[i]]
      PROVE  Above(r, s) = {i}
  BY <1>2 DEF Once, Above
<1> QED BY <1>1, <1>2 DEF Seen

LEMMA LocatedOnce ==
  ASSUME NEW r, Located(r)
  PROVE  Cardinality(Sightings(r)) = 1
<1> DEFINE Q == {<<"queued", i>> : i \in Above(r, work.buf)}
           D == {<<"delivered", i>> : i \in Above(r, res.buf)}
           C == {<<"read", i>> : i \in Above(r, collected)}
           H(w) == {<<"held", w, i>> : i \in Above(r, Holds(w))}
           U == UNION {H(w) : w \in Workers}
<1>1. Sightings(r) = Q \cup D \cup C \cup U
  BY DEF Sightings
<1>2. /\ Once(r, work.buf) /\ Once(r, res.buf) /\ Once(r, collected)
      /\ \A w \in Workers : Once(r, Holds(w))
  BY DEF Located
<1>3. /\ ~Seen(r, work.buf) => Q = {}
      /\ Seen(r, work.buf) => \E p : Q = {p}
  <2>1. \A i : Above(r, work.buf) = {i} => Q = {<<"queued", i>>}
    OBVIOUS
  <2>2. ~Seen(r, work.buf) => Q = {}
    BY <1>2, AboveOne
  <2>3. Seen(r, work.buf) => \E i : Above(r, work.buf) = {i}
    BY <1>2, AboveOne
  <2> HIDE DEF Q
  <2> QED BY <2>1, <2>2, <2>3
<1>4. /\ ~Seen(r, res.buf) => D = {}
      /\ Seen(r, res.buf) => \E p : D = {p}
  <2>1. \A i : Above(r, res.buf) = {i} => D = {<<"delivered", i>>}
    OBVIOUS
  <2>2. ~Seen(r, res.buf) => D = {}
    BY <1>2, AboveOne
  <2>3. Seen(r, res.buf) => \E i : Above(r, res.buf) = {i}
    BY <1>2, AboveOne
  <2> HIDE DEF D
  <2> QED BY <2>1, <2>2, <2>3
<1>5. /\ ~Seen(r, collected) => C = {}
      /\ Seen(r, collected) => \E p : C = {p}
  <2>1. \A i : Above(r, collected) = {i} => C = {<<"read", i>>}
    OBVIOUS
  <2>2. ~Seen(r, collected) => C = {}
    BY <1>2, AboveOne
  <2>3. Seen(r, collected) => \E i : Above(r, collected) = {i}
    BY <1>2, AboveOne
  <2> HIDE DEF C
  <2> QED BY <2>1, <2>2, <2>3
<1>6. \A w \in Workers : /\ ~Seen(r, Holds(w)) => H(w) = {}
                         /\ Seen(r, Holds(w)) => \E p : H(w) = {p}
  <2> SUFFICES ASSUME NEW w \in Workers
               PROVE  /\ ~Seen(r, Holds(w)) => H(w) = {}
                      /\ Seen(r, Holds(w)) => \E p : H(w) = {p}
    OBVIOUS
  <2>1. \A i : Above(r, Holds(w)) = {i} => H(w) = {<<"held", w, i>>}
    OBVIOUS
  <2>2. ~Seen(r, Holds(w)) => H(w) = {}
    BY <1>2, AboveOne
  <2>3. Seen(r, Holds(w)) => \E i : Above(r, Holds(w)) = {i}
    BY <1>2, AboveOne
  <2> HIDE DEF H
  <2> QED BY <2>1, <2>2, <2>3
<1> HIDE DEF Q, D, C, H
<1>7. ~SeenHeld(r) => U = {}
  BY <1>6 DEF SeenHeld
<1>8. SeenHeld(r) => \E p : U = {p}
  <2> SUFFICES ASSUME NEW w \in Workers, Seen(r, Holds(w)) PROVE \E p : U = {p}
    BY DEF SeenHeld
  <2>1. PICK p : H(w) = {p}
    BY <1>6
  <2>2. \A v \in Workers : v # w => H(v) = {}
    BY <1>6 DEF Located
  <2>3. U = {p}
    BY <2>1, <2>2
  <2> QED BY <2>3
<1> HIDE DEF U
<1>9. \E p : Sightings(r) = {p}
  BY <1>1, <1>3, <1>4, <1>5, <1>7, <1>8 DEF Located
<1> QED BY <1>9, FS_Singleton

(* A failure that moves between the four kinds of places is located again. *)
LEMMA Moves ==
  ASSUME NEW r, Located(r), NEW w \in Workers,
         \A v \in Workers : v # w => Holds(v)' = Holds(v),
         Once(r, work.buf'), Once(r, res.buf'), Once(r, collected'), Once(r, Holds(w)'),
         \/ /\ Seen(r, work.buf') <=> Seen(r, work.buf)
            /\ Seen(r, res.buf') <=> Seen(r, res.buf)
            /\ Seen(r, collected') <=> Seen(r, collected)
            /\ Seen(r, Holds(w)') <=> Seen(r, Holds(w))
         \/ /\ Seen(r, work.buf)
            /\ ~Seen(r, work.buf') /\ ~Seen(r, res.buf') /\ ~Seen(r, collected')
            /\ Seen(r, Holds(w)')
         \/ /\ Seen(r, Holds(w))
            /\ \/ /\ Seen(r, work.buf') /\ ~Seen(r, res.buf')
               \/ /\ ~Seen(r, work.buf') /\ Seen(r, res.buf')
            /\ ~Seen(r, collected') /\ ~Seen(r, Holds(w)')
  PROVE  Located(r)'
<1>1. \A v \in Workers : v # w => (Seen(r, Holds(v)') <=> Seen(r, Holds(v)))
                                  /\ Once(r, Holds(v)')
  BY DEF Located
<1>2. SeenHeld(r)' <=> \E v \in Workers : Seen(r, Holds(v)')
  BY DEF SeenHeld, Seen
<1>3. SeenHeld(r) <=> \E v \in Workers : Seen(r, Holds(v))
  BY DEF SeenHeld
<1>4. /\ \A v \in Workers : Once(r, Holds(v)')
      /\ \A u, v \in Workers : Seen(r, Holds(u)') /\ Seen(r, Holds(v)') => u = v
  BY <1>1, <1>3 DEF Located
<1>5. /\ Seen(r, work.buf') \/ Seen(r, res.buf') \/ Seen(r, collected') \/ SeenHeld(r)'
      /\ Seen(r, work.buf') => ~Seen(r, res.buf') /\ ~Seen(r, collected') /\ ~SeenHeld(r)'
      /\ Seen(r, res.buf') => ~Seen(r, collected') /\ ~SeenHeld(r)'
      /\ Seen(r, collected') => ~SeenHeld(r)'
  BY <1>1, <1>2, <1>3 DEF Located
<1> QED BY <1>4, <1>5 DEF Located, Seen, Once

-----------------------------------------------------------------------------
(* What the operations of the queue and of the stack do to their contents.  *)

LEMMA QueueTakes ==
  ASSUME work \in Work!SyncType, NEW w \in Workers, NEW t \in Tasks,
         Work!GetSome(w, TRUE, t)
  PROVE  \E i \in 1 .. Len(work.buf) :
           /\ t = work.buf[i]
           /\ work'.buf = Rest(work.buf, i)
<1>1. PICK i \in Work!Getter(work.buf) :
        /\ t = work.buf[i]
        /\ work' = [work EXCEPT !.buf = Work!Without(work.buf, i),
                                !.pledges = @ + 1, !.woken = @ \ {w}]
  BY Zenon DEF Work!GetSome
<1>2. i \in 1 .. Len(work.buf)
  BY DEF Work!Getter
<1>3. work'.buf = Work!Without(work.buf, i)
  BY <1>1 DEF Work!SyncType
<1> QED BY <1>1, <1>2, <1>3 DEF Work!Without, Rest

LEMMA QueueAppends ==
  ASSUME work \in Work!SyncType, NEW t \in Tasks, Work!Write(t)
  PROVE  work'.buf = Append(work.buf, t)
<1>1. PICK signalled \in SUBSET work.waiting :
        work' = [work EXCEPT !.buf = Append(@, t), !.waiting = @ \ signalled,
                             !.woken = @ \cup signalled]
  BY Zenon DEF Work!Write
<1> QED BY <1>1 DEF Work!SyncType

LEMMA QueueFailKeeps ==
  ASSUME work \in Work!SyncType, Work!Fail
  PROVE  work'.buf = work.buf
BY DEF Work!Fail, Work!Broadcast, Work!SyncType

(* The parts of the result stack, and what each operation does to them.     *)
LEMMA StackFields ==
  ASSUME res \in Res!SyncType
  PROVE  /\ res.buf \in Seq(Results) /\ res.pledges \in Int /\ res.closed \in BOOLEAN
         /\ res.waiting \subseteq {MainThread} /\ res.woken \subseteq {MainThread}
BY DEF Res!SyncType

LEMMA StackGetSome ==
  ASSUME res \in Res!SyncType, NEW r \in Results, Res!GetSome(MainThread, FALSE, r)
  PROVE  /\ res' \in Res!SyncType
         /\ res'.pledges = res.pledges /\ res'.closed = res.closed
         /\ \E i \in 1 .. Len(res.buf) :
              /\ r = res.buf[i]
              /\ res'.buf = Rest(res.buf, i)
<1>1. PICK i \in Res!Getter(res.buf) :
        /\ r = res.buf[i]
        /\ res' = [res EXCEPT !.buf = Res!Without(res.buf, i),
                              !.pledges = IF FALSE THEN @ + 1 ELSE @,
                              !.woken = @ \ {MainThread}]
  BY Zenon DEF Res!GetSome
<1>2. i \in 1 .. Len(res.buf) /\ res.buf \in Seq(Results) /\ Len(res.buf) \in Nat
  BY StackFields DEF Res!Getter
<1>3. Res!Without(res.buf, i) = Rest(res.buf, i)
  BY DEF Res!Without, Rest
<1>4. Res!Without(res.buf, i) \in [1 .. Len(res.buf) - 1 -> Results]
  <2>1. \A j \in 1 .. Len(res.buf) - 1 :
          (IF j < i THEN res.buf[j] ELSE res.buf[j + 1]) \in Results
    BY <1>2
  <2> QED BY <2>1 DEF Res!Without
<1>5. Res!Without(res.buf, i) \in Seq(Results)
  <2>1. Len(res.buf) - 1 \in Nat
    BY <1>2
  <2> QED BY <1>4, <2>1
<1>6. res.woken \ {MainThread} \in SUBSET {MainThread}
  BY StackFields
<1>7. /\ res' \in Res!SyncType /\ res'.buf = Res!Without(res.buf, i)
      /\ res'.pledges = res.pledges /\ res'.closed = res.closed
  BY <1>1, <1>5, <1>6 DEF Res!SyncType
<1> QED BY <1>1, <1>2, <1>3, <1>7

LEMMA StackGetNone ==
  ASSUME res \in Res!SyncType, Res!GetNone(MainThread)
  PROVE  /\ res' \in Res!SyncType /\ res'.buf = res.buf /\ res.buf = <<>>
         /\ res.pledges = 0 \/ res.closed
         /\ res'.pledges = res.pledges /\ res'.closed = res.closed
BY DEF Res!GetNone, Res!Finished, Res!SyncType

LEMMA StackWaits ==
  ASSUME res \in Res!SyncType,
         Res!GetWait(MainThread) \/ Res!SpuriousWakeup(MainThread)
  PROVE  /\ res' \in Res!SyncType /\ res'.buf = res.buf
         /\ res'.pledges = res.pledges /\ res'.closed = res.closed
BY DEF Res!GetWait, Res!SpuriousWakeup, Res!SyncType

LEMMA StackWrite ==
  ASSUME res \in Res!SyncType, NEW r \in Results, Res!Write(r)
  PROVE  /\ res' \in Res!SyncType /\ res'.buf = Append(res.buf, r)
         /\ res'.pledges = res.pledges /\ res'.closed = res.closed
<1>1. PICK signalled \in SUBSET res.waiting :
        res' = [res EXCEPT !.buf = Append(@, r), !.waiting = @ \ signalled,
                           !.woken = @ \cup signalled]
  BY Zenon DEF Res!Write
<1>2. /\ Append(res.buf, r) \in Seq(Results)
      /\ res.waiting \ signalled \in SUBSET {MainThread}
      /\ res.woken \cup signalled \in SUBSET {MainThread}
  BY StackFields
<1> QED BY <1>1, <1>2 DEF Res!SyncType

LEMMA StackMakePledge ==
  ASSUME res \in Res!SyncType, Res!MakePledge
  PROVE  /\ res' \in Res!SyncType /\ res'.buf = res.buf
         /\ res'.pledges = res.pledges + 1 /\ res'.closed = res.closed
BY DEF Res!MakePledge, Res!SyncType

LEMMA StackEndPledge ==
  ASSUME res \in Res!SyncType, Res!EndPledge
  PROVE  /\ res' \in Res!SyncType /\ res'.buf = res.buf
         /\ res'.pledges = res.pledges - 1 /\ res'.closed = res.closed
<1>1. \/ res' = [res EXCEPT !.pledges = @ - 1]
      \/ res' = [res EXCEPT !.pledges = @ - 1, !.waiting = {},
                            !.woken = @ \cup res.waiting]
  BY DEF Res!EndPledge, Res!Broadcast, Res!SyncType
<1>2. res.pledges - 1 \in Int /\ res.woken \cup res.waiting \in SUBSET {MainThread}
  BY StackFields
<1> QED BY <1>1, <1>2 DEF Res!SyncType

-----------------------------------------------------------------------------
(* sort_results.  Each result gets a position of its own. *)
Precedes(s, i, j) ==
  \/ Crumbs[s[i]] < Crumbs[s[j]]
  \/ Crumbs[s[i]] = Crumbs[s[j]] /\ i < j

PositionOf(s, i) == 1 + Cardinality({j \in 1 .. Len(s) : Precedes(s, j, i)})

LEMMA SortUnfolds ==
  ASSUME NEW s
  PROVE  SortResults(s) =
           [k \in 1 .. Len(s) |-> s[CHOOSE i \in 1 .. Len(s) : PositionOf(s, i) = k]]
BY DEF SortResults, PositionOf, Precedes

LEMMA PositionsDiffer ==
  ASSUME NEW s \in Seq(Results)
  PROVE  /\ \A i \in 1 .. Len(s) : PositionOf(s, i) \in 1 .. Len(s)
         /\ \A i, j \in 1 .. Len(s) : PositionOf(s, i) = PositionOf(s, j) => i = j
         /\ \A k \in 1 .. Len(s) : \E i \in 1 .. Len(s) : PositionOf(s, i) = k
<1> DEFINE n == Len(s)
           first(i) == {j \in 1 .. n : Precedes(s, j, i)}
<1>1. n \in Nat /\ \A i \in 1 .. n : i \in Nat /\ Crumbs[s[i]] \in Nat
  BY ProgramAssumption
<1>2. IsFiniteSet(1 .. n) /\ Cardinality(1 .. n) = n
  <2>1. 1 \in Int /\ n \in Int
    BY <1>1
  <2> HIDE DEF n
  <2> QED BY <1>1, <2>1, FS_Interval
<1>3. \A i \in 1 .. n : IsFiniteSet(first(i)) /\ Cardinality(first(i)) \in Nat
                        /\ PositionOf(s, i) = 1 + Cardinality(first(i))
  <2> SUFFICES ASSUME NEW i \in 1 .. n
               PROVE  IsFiniteSet(first(i)) /\ Cardinality(first(i)) \in Nat
                      /\ PositionOf(s, i) = 1 + Cardinality(first(i))
    OBVIOUS
  <2>1. first(i) \in SUBSET (1 .. n)
    OBVIOUS
  <2> HIDE DEF n
  <2>2. IsFiniteSet(first(i))
    BY <1>2, <2>1, FS_Subset
  <2>3. PositionOf(s, i) = 1 + Cardinality(first(i))
    BY DEF PositionOf, n
  <2> QED BY <2>2, <2>3, FS_CardinalityType
<1>4. \A i \in 1 .. n : Cardinality(first(i)) < n
  <2> SUFFICES ASSUME NEW i \in 1 .. n PROVE Cardinality(first(i)) < n
    OBVIOUS
  <2>1. i \notin first(i)
    BY <1>1 DEF Precedes
  <2>2. first(i) \in SUBSET (1 .. n)
    OBVIOUS
  <2> HIDE DEF first
  <2>3. Cardinality(first(i)) <= n /\ Cardinality(first(i)) # n
    BY <1>2, <2>1, <2>2, FS_Subset
  <2> QED BY <1>1, <1>3, <2>3
<1>5. \A i, j \in 1 .. n : Precedes(s, i, j) => PositionOf(s, i) < PositionOf(s, j)
  <2> SUFFICES ASSUME NEW i \in 1 .. n, NEW j \in 1 .. n, Precedes(s, i, j)
               PROVE  PositionOf(s, i) < PositionOf(s, j)
    OBVIOUS
  <2>1. \A k \in 1 .. n : Precedes(s, k, i) => Precedes(s, k, j)
    BY <1>1 DEF Precedes
  <2>2. first(i) \in SUBSET first(j)
    BY <2>1
  <2>3. i \in first(j) /\ i \notin first(i)
    BY <1>1 DEF Precedes
  <2> HIDE DEF first
  <2>4. Cardinality(first(i)) <= Cardinality(first(j))
        /\ Cardinality(first(i)) # Cardinality(first(j))
    BY <1>3, <2>2, <2>3, FS_Subset
  <2> QED BY <1>3, <2>4
<1>6. \A i, j \in 1 .. n : i # j => Precedes(s, i, j) \/ Precedes(s, j, i)
  BY <1>1 DEF Precedes
<1> HIDE DEF first
<1>7. \A i \in 1 .. n : PositionOf(s, i) \in 1 .. n
  BY <1>1, <1>3, <1>4
<1>8. \A i, j \in 1 .. n : PositionOf(s, i) = PositionOf(s, j) => i = j
  BY <1>5, <1>6, <1>7
<1> DEFINE f == [i \in 1 .. n |-> PositionOf(s, i)]
<1>9. \A k \in 1 .. n : \E i \in 1 .. n : PositionOf(s, i) = k
  <2>1. f \in Injection(1 .. n, 1 .. n)
    BY <1>7, <1>8 DEF Injection, IsInjective
  <2>2. f \in Surjection(1 .. n, 1 .. n)
    BY <1>2, <2>1, FS_Injection
  <2> QED BY <2>2 DEF Surjection
<1> QED BY <1>7, <1>8, <1>9

-----------------------------------------------------------------------------
(* Sorting permutes, and orders by breadcrumbs.                             *)

(* Sorting only permutes, *)
LEMMA SortPermutes ==
  ASSUME NEW s \in Seq(Results)
  PROVE  /\ SortResults(s) \in Seq(Results) /\ Len(SortResults(s)) = Len(s)
         /\ \E f \in [1 .. Len(s) -> 1 .. Len(s)] :
              /\ \A k \in 1 .. Len(s) : SortResults(s)[k] = s[f[k]]
                                        /\ PositionOf(s, f[k]) = k
              /\ \A i, j \in 1 .. Len(s) : f[i] = f[j] => i = j
              /\ \A i \in 1 .. Len(s) : \E k \in 1 .. Len(s) : f[k] = i
<1> DEFINE n == Len(s)
           at(k) == CHOOSE i \in 1 .. n : PositionOf(s, i) = k
           f == [k \in 1 .. n |-> at(k)]
<1>1. SortResults(s) = [k \in 1 .. n |-> s[at(k)]]
  BY SortUnfolds
<1>2. /\ \A i \in 1 .. n : PositionOf(s, i) \in 1 .. n
      /\ \A i, j \in 1 .. n : PositionOf(s, i) = PositionOf(s, j) => i = j
      /\ \A k \in 1 .. n : \E i \in 1 .. n : PositionOf(s, i) = k
  BY PositionsDiffer
<1>3. \A k \in 1 .. n : at(k) \in 1 .. n /\ PositionOf(s, at(k)) = k
  BY <1>2
<1> HIDE DEF at
<1>4. n \in Nat /\ \A i \in 1 .. n : s[i] \in Results
  OBVIOUS
<1> HIDE DEF n
<1>5. SortResults(s) \in [1 .. n -> Results]
  BY <1>1, <1>3, <1>4
<1>6. SortResults(s) \in Seq(Results) /\ Len(SortResults(s)) = n
  BY <1>4, <1>5
<1>7. f \in [1 .. n -> 1 .. n] /\ \A k \in 1 .. n : f[k] = at(k)
  BY <1>3
<1> HIDE DEF f
<1>8. \A k \in 1 .. n : SortResults(s)[k] = s[f[k]] /\ PositionOf(s, f[k]) = k
  BY <1>1, <1>3, <1>7
<1>9. \A i, j \in 1 .. n : f[i] = f[j] => i = j
  BY <1>8
<1>10. \A i \in 1 .. n : \E k \in 1 .. n : f[k] = i
  <2> SUFFICES ASSUME NEW i \in 1 .. n PROVE f[PositionOf(s, i)] = i
    BY <1>2
  <2>1. PositionOf(s, i) \in 1 .. n
    BY <1>2
  <2> QED BY <1>2, <1>7, <1>8, <2>1
<1> QED BY <1>6, <1>7, <1>8, <1>9, <1>10 DEF n

(* so the same failures are seen, and as often. *)
LEMMA SortSeen ==
  ASSUME NEW s \in Seq(Results)
  PROVE  /\ ToSet(SortResults(s)) = ToSet(s)
         /\ \A r : /\ Seen(r, SortResults(s)) <=> Seen(r, s)
                   /\ Once(r, s) => Once(r, SortResults(s))
<1> DEFINE n == Len(s)
           t == SortResults(s)
<1>1. PICK f \in [1 .. n -> 1 .. n] :
        /\ \A k \in 1 .. n : t[k] = s[f[k]] /\ PositionOf(s, f[k]) = k
        /\ \A i, j \in 1 .. n : f[i] = f[j] => i = j
        /\ \A i \in 1 .. n : \E k \in 1 .. n : f[k] = i
  BY SortPermutes
<1>2. /\ Len(t) = n /\ t \in Seq(Results)
      /\ DOMAIN s = 1 .. n
  BY SortPermutes
<1>3. DOMAIN t = 1 .. n
  BY <1>2
<1>4. \A k \in 1 .. n : f[k] \in 1 .. n
  OBVIOUS
<1> HIDE DEF n, t
<1>5. ToSet(t) = ToSet(s)
  BY <1>1, <1>2, <1>3, <1>4 DEF ToSet
<1>6. ASSUME NEW r
      PROVE  /\ Seen(r, t) <=> Seen(r, s)
             /\ Once(r, s) => Once(r, t)
  <2>1. Seen(r, t) <=> Seen(r, s)
    <3>1. ASSUME NEW i \in 1 .. n, r \in Below[s[i]]
          PROVE  \E k \in 1 .. n : r \in Below[t[k]]
      <4>1. PICK k \in 1 .. n : f[k] = i
        BY <1>1
      <4>2. t[k] = s[i]
        BY <1>1, <4>1
      <4> QED BY <3>1, <4>2
    <3>2. ASSUME NEW k \in 1 .. n, r \in Below[t[k]]
          PROVE  \E i \in 1 .. n : r \in Below[s[i]]
      <4>1. f[k] \in 1 .. n /\ t[k] = s[f[k]]
        BY <1>1, <1>4
      <4> QED BY <3>2, <4>1
    <3> QED BY <1>2, <3>1, <3>2 DEF Seen, n
  <2>2. ASSUME Once(r, s) PROVE Once(r, t)
    <3> SUFFICES ASSUME NEW i \in 1 .. n, NEW j \in 1 .. n,
                        r \in Below[t[i]], r \in Below[t[j]]
                 PROVE  i = j
      BY <1>2 DEF Once
    <3>1. f[i] = f[j]
      <4>1. f[i] \in 1 .. n /\ f[j] \in 1 .. n /\ t[i] = s[f[i]] /\ t[j] = s[f[j]]
        BY <1>1, <1>4
      <4>2. r \in Below[s[f[i]]] /\ r \in Below[s[f[j]]]
        BY <4>1
      <4> QED BY <2>2, <4>1, <4>2 DEF Once, n
    <3> QED BY <1>1, <3>1
  <2> QED BY <2>1, <2>2
<1> QED BY <1>5, <1>6 DEF t

(* What is printed of a set of results with breadcrumbs of different ranks  *)
(* does not depend on the order in which they came.                         *)
Different(s) == \A i, j \in 1 .. Len(s) : s[i] = s[j] => i = j

LEMMA SortIsCanonical ==
  ASSUME DistinctCrumbs, NEW s \in Seq(Results), NEW q \in Seq(Results),
         Different(s), Different(q), ToSet(s) = ToSet(q)
  PROVE  SortResults(s) = SortResults(q)
<1> DEFINE n == Len(s)
           m == Len(q)
           S == ToSet(s)
           Lower(x) == {y \in S : Crumbs[y] < Crumbs[x]}
<1>1. /\ n \in Nat /\ m \in Nat /\ DOMAIN s = 1 .. n /\ DOMAIN q = 1 .. m
      /\ \A i \in 1 .. n : s[i] \in Results
      /\ \A i \in 1 .. m : q[i] \in Results
  OBVIOUS
<1>2. /\ S = {s[i] : i \in 1 .. n} /\ S = {q[i] : i \in 1 .. m}
  BY <1>1 DEF ToSet
<1> HIDE DEF n, m, S
<1>3. ASSUME NEW u \in Seq(Results), Different(u), S = {u[i] : i \in 1 .. Len(u)}
      PROVE  /\ Cardinality(S) = Len(u)
             /\ \A i \in 1 .. Len(u) : PositionOf(u, i) = 1 + Cardinality(Lower(u[i]))
  <2> DEFINE l == Len(u)
             f == [i \in 1 .. l |-> u[i]]
  <2>1. l \in Nat /\ \A i \in 1 .. l : u[i] \in Results /\ Crumbs[u[i]] \in Nat
    BY ProgramAssumption
  <2>2. S = {u[i] : i \in 1 .. l} /\ \A i, j \in 1 .. l : u[i] = u[j] => i = j
    BY <1>3 DEF Different
  <2> HIDE DEF l
  <2>3. IsFiniteSet(1 .. l) /\ Cardinality(1 .. l) = l
    <3>1. 1 \in Int /\ l \in Int
      BY <2>1
    <3> QED BY <2>1, <3>1, FS_Interval
  <2>4. Cardinality(S) = l
    <3>1. f \in Injection(1 .. l, S) /\ f \in Surjection(1 .. l, S)
      BY <2>2 DEF Injection, IsInjective, Surjection
    <3>2. ExistsBijection(1 .. l, S)
      BY <3>1 DEF ExistsBijection, Bijection
    <3> QED BY <2>3, <3>2, FS_Bijection
  <2>5. ASSUME NEW i \in 1 .. l
        PROVE  PositionOf(u, i) = 1 + Cardinality(Lower(u[i]))
    <3> DEFINE A == {j \in 1 .. l : Precedes(u, j, i)}
               g == [j \in A |-> u[j]]
    <3>1. \A j \in 1 .. l : Precedes(u, j, i) <=> Crumbs[u[j]] < Crumbs[u[i]]
      <4> SUFFICES ASSUME NEW j \in 1 .. l
                   PROVE  ~(Crumbs[u[j]] = Crumbs[u[i]] /\ j < i)
        BY DEF Precedes
      <4>1. Crumbs[u[j]] = Crumbs[u[i]] => j = i
        BY <2>1, <2>2 DEF DistinctCrumbs
      <4> QED BY <2>1, <4>1
    <3>2. Lower(u[i]) = {u[j] : j \in A}
      BY <2>2, <3>1
    <3>3. A \in SUBSET (1 .. l)
      OBVIOUS
    <3> HIDE DEF A, Lower
    <3>4. IsFiniteSet(A)
      BY <2>3, <3>3, FS_Subset
    <3>5. g \in Injection(A, Lower(u[i])) /\ g \in Surjection(A, Lower(u[i]))
      BY <2>2, <3>2, <3>3 DEF Injection, IsInjective, Surjection
    <3>6. ExistsBijection(A, Lower(u[i]))
      BY <3>5 DEF ExistsBijection, Bijection
    <3>7. Cardinality(Lower(u[i])) = Cardinality(A)
      BY <3>4, <3>6, FS_Bijection
    <3>8. PositionOf(u, i) = 1 + Cardinality(A)
      BY DEF PositionOf, A, l
    <3> QED BY <3>7, <3>8
  <2> QED BY <2>4, <2>5 DEF l
<1>4. /\ Cardinality(S) = n
      /\ \A i \in 1 .. n : PositionOf(s, i) = 1 + Cardinality(Lower(s[i]))
  BY <1>2, <1>3 DEF n
<1>5. /\ Cardinality(S) = m
      /\ \A i \in 1 .. m : PositionOf(q, i) = 1 + Cardinality(Lower(q[i]))
  BY <1>2, <1>3 DEF m
<1>6. PICK f \in [1 .. n -> 1 .. n] :
        \A k \in 1 .. n : SortResults(s)[k] = s[f[k]] /\ PositionOf(s, f[k]) = k
  BY SortPermutes DEF n
<1>7. PICK g \in [1 .. m -> 1 .. m] :
        \A k \in 1 .. m : SortResults(q)[k] = q[g[k]] /\ PositionOf(q, g[k]) = k
  BY SortPermutes DEF m
<1>8. \A i \in 1 .. n, j \in 1 .. m :
        PositionOf(s, i) = PositionOf(q, j) => s[i] = q[j]
  <2> SUFFICES ASSUME NEW i \in 1 .. n, NEW j \in 1 .. m,
                      PositionOf(s, i) = PositionOf(q, j)
               PROVE  s[i] = q[j]
    OBVIOUS
  <2>1. PICK k \in 1 .. n : q[j] = s[k]
    BY <1>2
  <2>2. PositionOf(s, k) = PositionOf(q, j)
    BY <1>4, <1>5, <2>1
  <2>3. k = i
    BY <2>2, PositionsDiffer DEF n
  <2> QED BY <2>1, <2>3
<1>9. n = m
  BY <1>4, <1>5
<1>10. \A k \in 1 .. n : SortResults(s)[k] = SortResults(q)[k]
  BY <1>6, <1>7, <1>8, <1>9
<1>11. /\ SortResults(s) \in Seq(Results) /\ Len(SortResults(s)) = n
       /\ SortResults(q) \in Seq(Results) /\ Len(SortResults(q)) = n
  BY <1>9, SortPermutes DEF n, m
<1> QED BY <1>10, <1>11

-----------------------------------------------------------------------------
(* Types and what the workers have in hand.                                 *)

LEMMA WorkerTypes ==
  ASSUME DomainsInv, FailuresType, NEW w \in Workers
  PROVE  /\ work \in Work!SyncType /\ res \in Res!SyncType
         /\ work.buf \in Seq(Tasks) /\ work.buf \in Seq(Statuses)
         /\ res.buf \in Seq(Results) /\ res.buf \in Seq(Statuses)
         /\ pc \in [Workers -> Places] /\ task \in [Workers -> Tasks \cup {Stop}]
         /\ todo \in [Workers -> Seq(Statuses)] /\ todo[w] \in Seq(Statuses)
         /\ collected \in Seq(Statuses) /\ raised \subseteq Workers
<1>1. work \in Work!SyncType /\ res \in Res!SyncType
  BY DEF DomainsInv, DomainsType, FailuresType
<1>2. work.buf \in Seq(Tasks) /\ res.buf \in Seq(Results)
  BY <1>1, QueueFields, StackFields
<1>3. Tasks \subseteq Statuses /\ Results \subseteq Statuses
  BY DEF Statuses
<1>4. work.buf \in Seq(Statuses) /\ res.buf \in Seq(Statuses) /\ collected \in Seq(Statuses)
  BY <1>2, <1>3 DEF FailuresType
<1> QED BY <1>1, <1>2, <1>4 DEF FailuresType, DomainsInv, DomainsType, Places

(* What a worker handles. *)
LEMMA HandlesStatus ==
  ASSUME DomainsInv, FailuresType, NEW w \in Workers, todo[w] # <<>>
  PROVE  Head(todo[w]) \in Statuses /\ Tail(todo[w]) \in Seq(Statuses)
BY WorkerTypes

LEMMA WorkerKeepsType ==
  ASSUME DomainsInv, FailuresType, HandsAccounted, NEW w \in Workers, WorkerStep(w)
  PROVE  FailuresType'
<1>1. /\ task \in [Workers -> Tasks \cup {Stop}] /\ todo \in [Workers -> Seq(Statuses)]
      /\ res \in Res!SyncType /\ path_count \in Nat
      /\ UNCHANGED mainVars
  <2>1. UNCHANGED mainVars
    BY DEF WorkerStep, WlsInit, WlsInitRaises, PopTask, PopNothing, PopWaits, RunTask,
           RunRaises, HandleStop, HandleYield, HandleNow, PushResult, EndTask, FailQueue,
           Close
  <2> QED BY <2>1 DEF FailuresType
<1>2. /\ completed' \in Nat /\ collected' \in Seq(Results) /\ printed' \in Seq(Results)
  BY <1>1 DEF FailuresType, mainVars
<1>3. CASE UNCHANGED <<res, task, todo, path_count>>
  BY <1>1, <1>2, <1>3 DEF FailuresType
<1>4. CASE PopTask(w)
  <2>1. PICK t \in Tasks : task' = [task EXCEPT ![w] = t]
    BY <1>4 DEF PopTask
  <2> QED BY <1>1, <1>2, <1>4, <2>1 DEF FailuresType, PopTask
<1>5. CASE RunTask(w)
  <2>1. task[w] \in Tasks
    BY <1>1, <1>5 DEF RunTask, Goto, HandsAccounted
  <2>2. Status[task[w]] \in Seq(Statuses)
    BY <2>1, StatusOfTask
  <2> QED BY <1>1, <1>2, <1>5, <2>2 DEF FailuresType, RunTask
<1>6. CASE Handling(w) /\ Handled(w) /\ UNCHANGED <<res, task>> /\ path_count' \in Nat
  <2>1. Tail(todo[w]) \in Seq(Statuses)
    BY <1>6, HandlesStatus DEF Handling
  <2> QED BY <1>1, <1>2, <1>6, <2>1 DEF FailuresType, Handled
<1>7. CASE HandleNow(w)
  <2>1. path_count' \in Nat /\ UNCHANGED <<res, task>> /\ Handling(w)
    BY <1>1, <1>7 DEF HandleNow
  <2>2. CASE UNCHANGED todo
    BY <1>1, <1>2, <2>1, <2>2 DEF FailuresType
  <2>3. CASE Handled(w)
    BY <1>6, <2>1, <2>3
  <2> QED BY <1>7, <2>2, <2>3 DEF HandleNow
<1>8. CASE PushResult(w)
  <2>1. todo[w] # <<>> /\ Head(todo[w]) \in Results
    BY <1>8 DEF PushResult, Goto, HandsAccounted, Reportable
  <2>2. res' \in Res!SyncType
    BY <1>1, <1>8, <2>1, StackWrite DEF PushResult
  <2>3. Tail(todo[w]) \in Seq(Statuses)
    BY <2>1, HandlesStatus
  <2> QED BY <1>1, <1>2, <1>8, <2>2, <2>3 DEF FailuresType, PushResult, Handled
<1>9. CASE Close(w)
  <2>1. res' \in Res!SyncType
    BY <1>1, <1>9, StackEndPledge DEF Close
  <2> QED BY <1>1, <1>2, <1>9, <2>1 DEF FailuresType, Close
<1>10. CASE WlsInit(w) \/ WlsInitRaises(w) \/ PopNothing(w) \/ PopWaits(w)
            \/ RunRaises(w) \/ EndTask(w) \/ FailQueue(w)
  BY <1>3, <1>10 DEF WlsInit, WlsInitRaises, PopNothing, PopWaits, RunRaises, EndTask,
                     FailQueue, workerVars
<1>11. CASE HandleStop(w) \/ HandleYield(w)
  BY <1>1, <1>6, <1>11 DEF HandleStop, HandleYield
<1> QED BY <1>4, <1>5, <1>7, <1>8, <1>9, <1>10, <1>11 DEF WorkerStep

LEMMA MainKeepsType ==
  ASSUME DomainsInv, FailuresType, ReportAccounted, MainStep
  PROVE  FailuresType'
<1>1. /\ res \in Res!SyncType /\ path_count \in Nat /\ completed \in Nat
      /\ collected \in Seq(Results) /\ printed \in Seq(Results)
      /\ UNCHANGED <<task, todo, path_count>>
  <2>1. UNCHANGED <<task, todo, path_count>>
    BY DEF MainStep, CallbackInit, DomainSpawn, ReadResult, ReadUnprintable, ReadNothing,
           ReadWaits, Join, Sort, PrintSorted, PrintFails, Conclude, workerVars
  <2> QED BY <2>1 DEF FailuresType
<1>2. CASE CallbackInit
  BY <1>1, <1>2, StackMakePledge DEF CallbackInit, FailuresType
<1>3. CASE DomainSpawn \/ Join \/ PrintFails
  BY <1>1, <1>3 DEF DomainSpawn, Join, PrintFails, FailuresType
<1>4. CASE ReadResult
  <2>1. PICK r \in Results :
          /\ Res!GetSome(MainThread, FALSE, r)
          /\ collected' = Append(collected, r)
          /\ printed' = IF Deterministic THEN printed ELSE Append(printed, r)
    BY <1>4 DEF ReadResult
  <2>2. res' \in Res!SyncType
    BY <1>1, <2>1, StackGetSome
  <2>3. completed' \in Nat
    BY <1>1, <1>4 DEF ReadResult
  <2> QED BY <1>1, <2>1, <2>2, <2>3 DEF FailuresType
<1>5. CASE ReadUnprintable
  <2>1. PICK r \in Results :
          Res!GetSome(MainThread, FALSE, r) /\ collected' = Append(collected, r)
    BY <1>5 DEF ReadUnprintable
  <2>2. res' \in Res!SyncType
    BY <1>1, <2>1, StackGetSome
  <2> QED BY <1>1, <1>5, <2>1, <2>2 DEF FailuresType, ReadUnprintable
<1>6. CASE ReadNothing
  BY <1>1, <1>6, StackGetNone DEF ReadNothing, FailuresType
<1>7. CASE ReadWaits
  BY <1>1, <1>7, StackWaits DEF ReadWaits, FailuresType, mainVars
<1>8. CASE Sort
  BY <1>1, <1>8, SortPermutes DEF Sort, FailuresType
<1>9. CASE PrintSorted
  <2>1. Len(printed) + 1 \in 1 .. Len(collected)
    BY <1>1, <1>9 DEF PrintSorted, Unprinted
  <2>2. collected[Len(printed) + 1] \in Results
    BY <1>1, <2>1
  <2> QED BY <1>1, <1>9, <2>2 DEF PrintSorted, FailuresType
<1>10. CASE Conclude
  BY <1>1, <1>10 DEF Conclude, FailuresType
<1> QED BY <1>2, <1>3, <1>4, <1>5, <1>6, <1>7, <1>8, <1>9, <1>10 DEF MainStep

-----------------------------------------------------------------------------
(* What a worker has in hand. *)
LEMMA WorkerKeepsHands ==
  ASSUME DomainsInv, FailuresType, HandsAccounted, NEW w \in Workers, WorkerStep(w)
  PROVE  HandsAccounted'
<1> DEFINE Hands(v) ==
      /\ pc[v] \notin {"handle", "push"} => todo[v] = <<>>
      /\ pc[v] = "push" => todo[v] # <<>> /\ Head(todo[v]) \in Reportable
      /\ pc[v] \in {"run", "fail"} => task[v] # Stop
      /\ pc[v] \in {"unborn", "init"} => task[v] = Stop
      /\ pc[v] = "fail" \/ v \in raised => input.faults # {}
<1>1. /\ pc \in [Workers -> Places] /\ task \in [Workers -> Tasks \cup {Stop}]
      /\ todo \in [Workers -> Seq(Statuses)] /\ raised \subseteq Workers
      /\ input' = input
  BY WorkerTypes DEF WorkerStep
<1>2. \A v \in Workers : Hands(v)
  BY DEF HandsAccounted
<1>3. \A v \in Workers : v # w =>
        /\ pc'[v] = pc[v] /\ task'[v] = task[v] /\ todo'[v] = todo[v]
        /\ v \in raised' <=> v \in raised
  BY <1>1 DEF WorkerStep, WlsInit, WlsInitRaises, PopTask, PopNothing, PopWaits, RunTask,
              RunRaises, HandleStop, HandleYield, HandleNow, PushResult, EndTask,
              FailQueue, Close, Goto, Handled, workerVars
<1>4. Reportable' = Reportable
  BY <1>1 DEF Reportable
<1>5. \A v \in Workers : v # w => Hands(v)'
  BY <1>1, <1>2, <1>3, <1>4
<1>6. Hands(w)'
  <2>1. CASE WlsInit(w) \/ PopNothing(w) \/ EndTask(w) \/ Close(w)
    BY <1>1, <1>2, <2>1 DEF WlsInit, PopNothing, EndTask, Close, Goto
  <2>2. CASE WlsInitRaises(w) \/ RunRaises(w) \/ FailQueue(w)
    <3>1. input.faults # {}
      BY <1>2, <2>2 DEF WlsInitRaises, RunRaises, FailQueue, MayFail, Goto
    <3> QED BY <1>1, <1>2, <2>2, <3>1 DEF WlsInitRaises, RunRaises, FailQueue, Goto
  <2>3. CASE PopTask(w)
    <3>1. PICK t \in Tasks : task' = [task EXCEPT ![w] = t]
      BY <2>3 DEF PopTask
    <3>2. t # Stop
      BY ProgramAssumption
    <3> QED BY <1>1, <1>2, <2>3, <3>1, <3>2 DEF PopTask, Goto
  <2>4. CASE PopWaits(w)
    BY <1>1, <1>2, <2>4 DEF PopWaits, workerVars
  <2>5. CASE RunTask(w)
    BY <1>1, <1>2, <2>5 DEF RunTask, Goto
  <2>6. CASE HandleStop(w) \/ HandleYield(w)
    BY <1>1, <1>2, <2>6 DEF HandleStop, HandleYield, Handling, Handled
  <2>7. CASE HandleNow(w)
    <3>1. CASE Reports(Head(todo[w]))
      BY <1>1, <1>2, <1>4, <2>7, <3>1 DEF HandleNow, Handling, Goto, Reports
    <3>2. CASE ~Reports(Head(todo[w]))
      BY <1>1, <1>2, <2>7, <3>2 DEF HandleNow, Handling, Handled
    <3> QED BY <3>1, <3>2
  <2>8. CASE PushResult(w)
    BY <1>1, <1>2, <2>8 DEF PushResult, Goto, Handled
  <2> QED BY <2>1, <2>2, <2>3, <2>4, <2>5, <2>6, <2>7, <2>8 DEF WorkerStep
<1> QED BY <1>5, <1>6 DEF HandsAccounted

LEMMA MainKeepsHands ==
  ASSUME DomainsInv, FailuresType, HandsAccounted, MainStep
  PROVE  HandsAccounted'
<1>1. UNCHANGED <<input, task, todo, raised>>
  BY DEF MainStep, CallbackInit, DomainSpawn, ReadResult, ReadUnprintable, ReadNothing,
         ReadWaits, Join, Sort, PrintSorted, PrintFails, Conclude, workerVars
<1>2. Reportable' = Reportable
  BY <1>1 DEF Reportable
<1>3. CASE pc' = pc
  BY <1>1, <1>2, <1>3 DEF HandsAccounted
<1>4. CASE DomainSpawn
  <2>1. pc' = [pc EXCEPT ![spawned + 1] = "init"] /\ pc \in [Workers -> Places]
    BY <1>4 DEF DomainSpawn, DomainsInv, DomainsType, Places
  <2>2. \A v \in Workers : v = spawned + 1 => pc[v] = "unborn"
    <3>1. spawned \in Nat
      BY DEF DomainsInv, DomainsType
    <3> QED BY <3>1 DEF DomainsInv, DomainsAccounted
  <2>3. \A v \in Workers : \/ pc'[v] = pc[v]
                           \/ pc[v] = "unborn" /\ pc'[v] = "init"
    BY <2>1, <2>2
  <2> QED BY <1>1, <1>2, <2>3 DEF HandsAccounted
<1> QED BY <1>3, <1>4 DEF MainStep, CallbackInit, ReadResult, ReadUnprintable,
           ReadNothing, ReadWaits, Join, Sort, PrintSorted, PrintFails, Conclude,
           workerVars

-----------------------------------------------------------------------------
(* Nothing but the program is explored.                                     *)

(* The elements of a sequence, when it changes. *)
LEMMA ElementsOf ==
  ASSUME NEW X, NEW s \in Seq(X)
  PROVE  /\ ToSet(s) = {s[i] : i \in 1 .. Len(s)} /\ ToSet(s) \subseteq X
         /\ \A x \in X : ToSet(Append(s, x)) = ToSet(s) \cup {x}
         /\ s # <<>> => Head(s) \in ToSet(s) /\ ToSet(Tail(s)) \subseteq ToSet(s)
<1>1. DOMAIN s = 1 .. Len(s) /\ Len(s) \in Nat /\ \A i \in 1 .. Len(s) : s[i] \in X
  OBVIOUS
<1>2. ToSet(s) = {s[i] : i \in 1 .. Len(s)}
  BY <1>1 DEF ToSet
<1>3. ASSUME NEW x \in X
      PROVE  ToSet(Append(s, x)) = ToSet(s) \cup {x}
  <2> DEFINE t == Append(s, x)
  <2>1. /\ DOMAIN t = 1 .. Len(s) + 1
        /\ \A i \in 1 .. Len(s) : t[i] = s[i]
        /\ t[Len(s) + 1] = x
    OBVIOUS
  <2>2. 1 .. Len(s) + 1 = (1 .. Len(s)) \cup {Len(s) + 1}
    BY <1>1
  <2> HIDE DEF t
  <2>3. ToSet(t) = {t[i] : i \in (1 .. Len(s)) \cup {Len(s) + 1}}
    BY <2>1, <2>2 DEF ToSet
  <2>4. ToSet(t) = ToSet(s) \cup {x}
    BY <1>2, <2>1, <2>3
  <2> QED BY <2>4 DEF t
<1>4. ASSUME s # <<>>
      PROVE  Head(s) \in ToSet(s) /\ ToSet(Tail(s)) \subseteq ToSet(s)
  <2>1. /\ DOMAIN Tail(s) = 1 .. Len(s) - 1 /\ Head(s) = s[1] /\ 1 \in 1 .. Len(s)
        /\ \A i \in 1 .. Len(s) - 1 : Tail(s)[i] = s[i + 1] /\ i + 1 \in 1 .. Len(s)
    BY <1>4
  <2> QED BY <1>2, <2>1 DEF ToSet
<1> QED BY <1>1, <1>2, <1>3, <1>4

LEMMA ElementsWithout ==
  ASSUME NEW X, NEW s \in Seq(X), NEW k \in 1 .. Len(s)
  PROVE  ToSet(Rest(s, k)) \subseteq ToSet(s)
<1> DEFINE t == [j \in 1 .. Len(s) - 1 |-> IF j < k THEN s[j] ELSE s[j + 1]]
<1>1. \A j \in 1 .. Len(s) - 1 : j \in 1 .. Len(s) /\ j + 1 \in 1 .. Len(s)
  OBVIOUS
<1>2. \A j \in DOMAIN t : \E i \in 1 .. Len(s) : t[j] = s[i]
  BY <1>1
<1>3. ToSet(s) = {s[i] : i \in 1 .. Len(s)}
  BY ElementsOf
<1> HIDE DEF t
<1>4. ToSet(t) \subseteq ToSet(s)
  BY <1>2, <1>3 DEF ToSet
<1> QED BY <1>4 DEF t, Rest

(* Nothing but the program is explored. *)
LEMMA WorkerKeepsProgram ==
  ASSUME DomainsInv, FailuresType, HandsAccounted, OfTheProgram,
         NEW w \in Workers, WorkerStep(w)
  PROVE  OfTheProgram'
<1> DEFINE B == Below[input.root]
<1>1. /\ work \in Work!SyncType /\ res \in Res!SyncType
      /\ work.buf \in Seq(Tasks) /\ res.buf \in Seq(Results)
      /\ pc \in [Workers -> Places] /\ task \in [Workers -> Tasks \cup {Stop}]
      /\ todo \in [Workers -> Seq(Statuses)]
  BY WorkerTypes
<1>2. input' = input /\ Failures' = Failures /\ UNCHANGED collected
  <2>1. input' = input /\ UNCHANGED mainVars
    BY DEF WorkerStep, WlsInit, WlsInitRaises, PopTask, PopNothing, PopWaits, RunTask,
           RunRaises, HandleStop, HandleYield, HandleNow, PushResult, EndTask, FailQueue,
           Close
  <2> QED BY <2>1 DEF Failures, Reportable, mainVars
<1>3. input.root \in Statuses /\ Closed(B)
  <2>1. input.root \in Tasks
    BY OptionsAssumption DEF DomainsInv, DomainsType
  <2> QED BY <2>1, BelowIsClosed DEF Statuses
<1>4. \A v \in Workers : v # w =>
        /\ pc'[v] = pc[v] /\ task'[v] = task[v] /\ todo'[v] = todo[v]
  BY <1>1 DEF WorkerStep, WlsInit, WlsInitRaises, PopTask, PopNothing, PopWaits, RunTask,
              RunRaises, HandleStop, HandleYield, HandleNow, PushResult, EndTask,
              FailQueue, Close, Goto, Handled, workerVars
<1>5. /\ ToSet(work.buf) \subseteq B /\ ToSet(res.buf) \subseteq Failures
      /\ pc[w] = "run" => task[w] \in B
      /\ ToSet(todo[w]) \subseteq B
  BY DEF OfTheProgram
<1> HIDE DEF B
<1>6. SUFFICES /\ ToSet(work.buf') \subseteq B /\ ToSet(res.buf') \subseteq Failures
               /\ pc'[w] = "run" => task'[w] \in B
               /\ ToSet(todo'[w]) \subseteq B
  BY <1>2, <1>4 DEF OfTheProgram, B
<1>7. CASE PopTask(w)
  <2>1. PICK t \in Tasks : Work!GetSome(w, TRUE, t) /\ task' = [task EXCEPT ![w] = t]
    BY <1>7 DEF PopTask
  <2>2. PICK i \in 1 .. Len(work.buf) :
          /\ t = work.buf[i]
          /\ work'.buf = Rest(work.buf, i)
    BY <1>1, <2>1, QueueTakes
  <2>3. t \in B
    BY <1>1, <1>5, <2>2, ElementsOf
  <2>4. ToSet(work.buf') \subseteq ToSet(work.buf)
    BY <1>1, <2>2, ElementsWithout
  <2> QED BY <1>1, <1>5, <1>7, <2>1, <2>3, <2>4 DEF PopTask
<1>8. CASE RunTask(w)
  <2>1. task[w] \in Tasks /\ pc[w] = "run" /\ todo'[w] = Status[task[w]]
        /\ pc'[w] = "handle"
    BY <1>1, <1>8 DEF RunTask, Goto, HandsAccounted
  <2>2. ToSet(Status[task[w]]) \subseteq B
    BY <1>3, <1>5, <2>1 DEF Closed
  <2> QED BY <1>5, <1>8, <2>1, <2>2 DEF RunTask
<1>9. CASE Handling(w) /\ Handled(w) /\ UNCHANGED pc /\ UNCHANGED <<work, res>>
  <2>1. todo'[w] = Tail(todo[w]) /\ pc'[w] # "run"
    BY <1>1, <1>9 DEF Handling, Handled
  <2>2. ToSet(Tail(todo[w])) \subseteq ToSet(todo[w])
    BY <1>1, <1>9, ElementsOf DEF Handling
  <2> QED BY <1>5, <1>9, <2>1, <2>2
<1>10. CASE HandleYield(w)
  <2>1. /\ pc'[w] # "run" /\ todo[w] # <<>> /\ todo'[w] = Tail(todo[w])
        /\ Head(todo[w]) \in Tasks /\ res' = res
    BY <1>1, <1>10 DEF HandleYield, Handling, Handled
  <2>2. work.buf' = Append(work.buf, Head(todo[w]))
    BY <1>1, <1>10, <2>1, QueueAppends DEF HandleYield
  <2>3. Head(todo[w]) \in B /\ ToSet(Tail(todo[w])) \subseteq B
    BY <1>1, <1>5, <2>1, ElementsOf
  <2>4. ToSet(work.buf') = ToSet(work.buf) \cup {Head(todo[w])}
    BY <1>1, <2>1, <2>2, ElementsOf
  <2> QED BY <1>5, <2>1, <2>3, <2>4
<1>11. CASE PushResult(w)
  <2>1. /\ pc'[w] = "handle" /\ todo[w] # <<>> /\ todo'[w] = Tail(todo[w])
        /\ Head(todo[w]) \in Reportable /\ work' = work
    BY <1>1, <1>11 DEF PushResult, Goto, Handled, HandsAccounted
  <2>2. Head(todo[w]) \in Results
    BY <2>1 DEF Reportable
  <2>3. res.buf' = Append(res.buf, Head(todo[w]))
    BY <1>1, <1>11, <2>2, StackWrite DEF PushResult
  <2>4. Head(todo[w]) \in B /\ ToSet(Tail(todo[w])) \subseteq B
    BY <1>1, <1>5, <2>1, ElementsOf
  <2>5. ToSet(res.buf') = ToSet(res.buf) \cup {Head(todo[w])}
    BY <1>1, <2>2, <2>3, ElementsOf
  <2>6. Head(todo[w]) \in Failures
    BY <2>1, <2>4 DEF Failures, B
  <2> QED BY <1>5, <2>1, <2>4, <2>5, <2>6
<1>12. CASE HandleNow(w)
  <2>1. CASE Reports(Head(todo[w]))
    BY <1>1, <1>5, <1>12, <2>1 DEF HandleNow, Goto
  <2>2. CASE ~Reports(Head(todo[w]))
    BY <1>9, <1>12, <2>2 DEF HandleNow
  <2> QED BY <2>1, <2>2
<1>13. CASE WlsInit(w) \/ WlsInitRaises(w) \/ RunRaises(w)
  BY <1>1, <1>5, <1>13 DEF WlsInit, WlsInitRaises, RunRaises, Goto
<1>14. CASE PopNothing(w)
  <2>1. work.buf' = work.buf
    BY <1>1, <1>14, QueueGetNone DEF PopNothing
  <2> QED BY <1>1, <1>5, <1>14, <2>1 DEF PopNothing, Goto
<1>15. CASE PopWaits(w)
  <2>1. work.buf' = work.buf
    BY <1>1, <1>15, QueueWaits DEF PopWaits
  <2> QED BY <1>1, <1>5, <1>15, <2>1 DEF PopWaits, workerVars
<1>16. CASE HandleStop(w)
  BY <1>9, <1>16 DEF HandleStop
<1>17. CASE EndTask(w)
  <2>1. work.buf' = work.buf
    BY <1>1, <1>17, QueueEndPledge DEF EndTask
  <2> QED BY <1>1, <1>5, <1>17, <2>1 DEF EndTask, Goto
<1>18. CASE FailQueue(w)
  <2>1. work.buf' = work.buf
    BY <1>1, <1>18, QueueFailKeeps DEF FailQueue
  <2> QED BY <1>1, <1>5, <1>18, <2>1 DEF FailQueue, Goto
<1>19. CASE Close(w)
  <2>1. res.buf' = res.buf
    BY <1>1, <1>19, StackEndPledge DEF Close
  <2> QED BY <1>1, <1>5, <1>19, <2>1 DEF Close, Goto
<1> QED BY <1>7, <1>8, <1>10, <1>11, <1>12, <1>13, <1>14, <1>15, <1>16, <1>17, <1>18,
           <1>19 DEF WorkerStep

(* What a step of the main domain does to the failures: it reads one, sorts *)
(* those it has read, or leaves them where they are.                        *)
LEMMA MainMoves ==
  ASSUME DomainsInv, FailuresType, MainStep
  PROVE  /\ UNCHANGED <<input, work, task, todo, raised>>
         /\ \/ res.buf' = res.buf /\ collected' = collected
            \/ /\ main = "read"
               /\ \E r \in Results : \E i \in 1 .. Len(res.buf) :
                    /\ r = res.buf[i] /\ collected' = Append(collected, r)
                    /\ res.buf' = Rest(res.buf, i)
                    /\ ReadResult \/ ReadUnprintable
            \/ res.buf' = res.buf /\ collected' = SortResults(collected)
<1>1. res \in Res!SyncType
  BY DEF FailuresType
<1>2. UNCHANGED <<input, work, task, todo, raised>>
  BY DEF MainStep, CallbackInit, DomainSpawn, ReadResult, ReadUnprintable, ReadNothing,
         ReadWaits, Join, Sort, PrintSorted, PrintFails, Conclude, workerVars
<1>3. CASE ReadResult \/ ReadUnprintable
  <2>1. main = "read"
    BY <1>3 DEF ReadResult, ReadUnprintable
  <2>2. PICK r \in Results : Res!GetSome(MainThread, FALSE, r)
                             /\ collected' = Append(collected, r)
    BY <1>3 DEF ReadResult, ReadUnprintable
  <2> QED BY <1>1, <1>2, <1>3, <2>1, <2>2, StackGetSome
<1>4. CASE CallbackInit
  BY <1>1, <1>2, <1>4, StackMakePledge DEF CallbackInit
<1>5. CASE ReadNothing
  BY <1>1, <1>2, <1>5, StackGetNone DEF ReadNothing
<1>6. CASE ReadWaits
  BY <1>1, <1>2, <1>6, StackWaits DEF ReadWaits, mainVars
<1>7. CASE DomainSpawn \/ Join \/ PrintSorted \/ PrintFails \/ Conclude
  BY <1>2, <1>7 DEF DomainSpawn, Join, PrintSorted, PrintFails, Conclude
<1>8. CASE Sort
  BY <1>2, <1>8 DEF Sort
<1> QED BY <1>3, <1>4, <1>5, <1>6, <1>7, <1>8 DEF MainStep

(* A domain is spawned into "init", the others stay where they are. *)
LEMMA MainSpawns ==
  ASSUME DomainsInv, MainStep
  PROVE  \A v \in Workers : \/ pc'[v] = pc[v]
                            \/ pc[v] = "unborn" /\ pc'[v] = "init" /\ DomainSpawn
<1>1. CASE DomainSpawn
  <2>1. pc' = [pc EXCEPT ![spawned + 1] = "init"] /\ pc \in [Workers -> Places]
    BY <1>1 DEF DomainSpawn, DomainsInv, DomainsType, Places
  <2>2. \A v \in Workers : v = spawned + 1 => pc[v] = "unborn"
    <3>1. spawned \in Nat
      BY DEF DomainsInv, DomainsType
    <3> QED BY <3>1 DEF DomainsInv, DomainsAccounted
  <2> QED BY <1>1, <2>1, <2>2
<1>2. CASE ~DomainSpawn
  <2>1. pc' = pc
    BY <1>2 DEF MainStep, CallbackInit, ReadResult, ReadUnprintable, ReadNothing,
                ReadWaits, Join, Sort, PrintSorted, PrintFails, Conclude, workerVars
  <2> QED BY <2>1
<1> QED BY <1>1, <1>2

LEMMA MainKeepsProgram ==
  ASSUME DomainsInv, FailuresType, OfTheProgram, MainStep
  PROVE  OfTheProgram'
<1>1. UNCHANGED <<input, work, task, todo, raised>>
  BY MainMoves
<1>2. Failures' = Failures
  BY <1>1 DEF Failures, Reportable
<1>3. res.buf \in Seq(Results) /\ collected \in Seq(Results)
  BY StackFields DEF FailuresType
<1>4. ToSet(res.buf') \subseteq Failures /\ ToSet(collected') \subseteq Failures
  <2>1. CASE res.buf' = res.buf /\ collected' = collected
    BY <2>1 DEF OfTheProgram
  <2>2. ASSUME NEW r \in Results, NEW i \in 1 .. Len(res.buf),
               r = res.buf[i], collected' = Append(collected, r),
               res.buf' = Rest(res.buf, i)
        PROVE  ToSet(res.buf') \subseteq Failures /\ ToSet(collected') \subseteq Failures
    <3>1. ToSet(res.buf') \subseteq ToSet(res.buf)
      BY <1>3, <2>2, ElementsWithout
    <3>2. ToSet(collected') = ToSet(collected) \cup {r}
      BY <1>3, <2>2, ElementsOf
    <3>3. r \in ToSet(res.buf)
      BY <1>3, <2>2, ElementsOf
    <3> QED BY <3>1, <3>2, <3>3 DEF OfTheProgram
  <2>3. CASE res.buf' = res.buf /\ collected' = SortResults(collected)
    BY <1>3, <2>3, SortSeen DEF OfTheProgram
  <2> QED BY <2>1, <2>2, <2>3, MainMoves
<1>5. \A v \in Workers : pc'[v] = "run" => pc[v] = "run"
  BY MainSpawns
<1> QED BY <1>1, <1>2, <1>4, <1>5 DEF OfTheProgram

-----------------------------------------------------------------------------
(* Each step keeps a failure located.                                       *)

(* A worker that handles a status holds it and no task. *)
LEMMA HoldsByPlace ==
  ASSUME DomainsInv, NEW w \in Workers
  PROVE  /\ pc[w] \in {"run", "fail"} => Holds(w) = <<task[w]>> /\ w \notin raised
         /\ pc[w] \in {"init", "pop", "handle", "push"} =>
              Holds(w) = todo[w] /\ w \notin raised
BY DEF Holds, DomainsInv, DomainsAccounted

(* Nothing of a failure is below a status that is dropped.                  *)
LEMMA NotBelowOthers ==
  ASSUME NEW r \in Results, NEW x \in Results \cup {Stop}, r # x
  PROVE  r \notin Below[x]
BY BelowEnd

LEMMA OthersHold ==
  ASSUME DomainsInv, FailuresType, NEW w \in Workers, WorkerStep(w)
  PROVE  \A v \in Workers : v # w => Holds(v)' = Holds(v)
<1>1. /\ pc \in [Workers -> Places] /\ task \in [Workers -> Tasks \cup {Stop}]
      /\ todo \in [Workers -> Seq(Statuses)]
  BY WorkerTypes
<1>2. \A v \in Workers : v # w =>
        /\ pc'[v] = pc[v] /\ task'[v] = task[v] /\ todo'[v] = todo[v]
        /\ v \in raised' <=> v \in raised
  BY <1>1 DEF WorkerStep, WlsInit, WlsInitRaises, PopTask, PopNothing, PopWaits, RunTask,
              RunRaises, HandleStop, HandleYield, HandleNow, PushResult, EndTask,
              FailQueue, Close, Goto, Handled, workerVars
<1> QED BY <1>2 DEF Holds

(* A failure that stays where it is. *)
LEMMA Stays ==
  ASSUME DomainsInv, FailuresType, NEW w \in Workers, WorkerStep(w), NEW r, Located(r),
         work.buf' = work.buf, res.buf' = res.buf,
         Seen(r, Holds(w)') <=> Seen(r, Holds(w)),
         Once(r, Holds(w)')
  PROVE  Located(r)'
<1>1. collected' = collected
  BY DEF WorkerStep, WlsInit, WlsInitRaises, PopTask, PopNothing, PopWaits, RunTask,
         RunRaises, HandleStop, HandleYield, HandleNow, PushResult, EndTask, FailQueue,
         Close, mainVars
<1>2. \A v \in Workers : v # w => Holds(v)' = Holds(v)
  BY OthersHold
<1>3. Once(r, work.buf') /\ Once(r, res.buf') /\ Once(r, collected')
  BY <1>1 DEF Located
<1>4. /\ Seen(r, work.buf') <=> Seen(r, work.buf)
      /\ Seen(r, res.buf') <=> Seen(r, res.buf)
      /\ Seen(r, collected') <=> Seen(r, collected)
  BY <1>1
<1> QED BY <1>2, <1>3, <1>4, Moves

(* Every step of a worker keeps a failure in one place: *)
LEMMA PopKeepsLocated ==
  ASSUME DomainsInv, FailuresType, HandsAccounted, NEW w \in Workers, WorkerStep(w),
         NEW r \in Failures, Located(r), PopTask(w)
  PROVE  Located(r)'
<1>1. /\ work \in Work!SyncType /\ work.buf \in Seq(Tasks) /\ work.buf \in Seq(Statuses)
      /\ pc \in [Workers -> Places] /\ task \in [Workers -> Tasks \cup {Stop}]
  BY WorkerTypes
<1>2. PICK t \in Tasks : Work!GetSome(w, TRUE, t) /\ task' = [task EXCEPT ![w] = t]
  BY DEF PopTask
<1>3. PICK i \in 1 .. Len(work.buf) : t = work.buf[i] /\ work.buf' = Rest(work.buf, i)
  BY <1>1, <1>2, QueueTakes
<1>4. /\ pc[w] = "pop" /\ pc' = [pc EXCEPT ![w] = "run"] /\ todo[w] = <<>>
      /\ UNCHANGED <<res, collected>>
  BY DEF PopTask, Goto, HandsAccounted, mainVars
<1>5. Holds(w) = <<>> /\ Holds(w)' = <<t>>
  BY <1>1, <1>2, <1>4, HoldsByPlace DEF Holds
<1>6. /\ ~Seen(r, Holds(w))
      /\ Seen(r, Holds(w)') <=> r \in Below[t]
      /\ Once(r, Holds(w)')
  BY <1>5, SeenNone, SeenOne
<1>7. /\ Seen(r, work.buf) <=> r \in Below[t] \/ Seen(r, work.buf')
      /\ Once(r, work.buf')
      /\ ~(r \in Below[t] /\ Seen(r, work.buf'))
  BY <1>1, <1>3, SeenWithout DEF Located
<1>8. \A v \in Workers : v # w => Holds(v)' = Holds(v)
  BY OthersHold
<1>9. /\ Once(r, res.buf') /\ Once(r, collected')
      /\ Seen(r, res.buf') <=> Seen(r, res.buf)
      /\ Seen(r, collected') <=> Seen(r, collected)
  BY <1>4 DEF Located
<1>10. Seen(r, work.buf) => ~Seen(r, res.buf) /\ ~Seen(r, collected)
  BY DEF Located
<1> QED BY <1>6, <1>7, <1>8, <1>9, <1>10, Moves

LEMMA RunKeepsLocated ==
  ASSUME DomainsInv, FailuresType, HandsAccounted, NEW w \in Workers, WorkerStep(w),
         NEW r \in Failures, Located(r),
         RunTask(w) \/ RunRaises(w) \/ FailQueue(w) \/ WlsInitRaises(w)
  PROVE  Located(r)'
<1>1. /\ pc \in [Workers -> Places] /\ task \in [Workers -> Tasks \cup {Stop}]
      /\ todo \in [Workers -> Seq(Statuses)] /\ raised \subseteq Workers
      /\ r \in Results /\ work \in Work!SyncType
  BY WorkerTypes DEF Failures, Reportable
<1>2. CASE RunTask(w)
  <2>1. /\ pc[w] = "run" /\ task[w] \in Tasks /\ Holds(w) = <<task[w]>> /\ w \notin raised
        /\ pc'[w] = "handle" /\ todo'[w] = Status[task[w]] /\ raised' = raised
    BY <1>1, <1>2, HoldsByPlace DEF RunTask, Goto, HandsAccounted
  <2>2. Holds(w)' = Status[task[w]]
    BY <2>1 DEF Holds
  <2>3. /\ Seen(r, Holds(w)') <=> Seen(r, Holds(w))
        /\ Once(r, Holds(w)')
    BY <1>1, <2>1, <2>2, SeenOne, SeenBranches
  <2>4. work.buf' = work.buf /\ res.buf' = res.buf
    BY <1>2 DEF RunTask
  <2> QED BY <2>3, <2>4, Stays
<1>3. CASE RunRaises(w)
  <2>1. Holds(w) = <<task[w]>> /\ Holds(w)' = <<task[w]>>
    BY <1>1, <1>3, HoldsByPlace DEF RunRaises, Goto, Holds
  <2>2. work.buf' = work.buf /\ res.buf' = res.buf
    BY <1>3 DEF RunRaises
  <2> QED BY <2>1, <2>2, SeenOne, Stays
<1>4. CASE FailQueue(w)
  <2>1. Holds(w) = <<task[w]>> /\ Holds(w)' = <<task[w]>>
    BY <1>1, <1>4, HoldsByPlace DEF FailQueue, Goto, Holds
  <2>2. work.buf' = work.buf /\ res.buf' = res.buf
    BY <1>1, <1>4, QueueFailKeeps DEF FailQueue
  <2> QED BY <2>1, <2>2, SeenOne, Stays
<1>5. CASE WlsInitRaises(w)
  <2>1. pc[w] = "init" /\ todo[w] = <<>> /\ task[w] = Stop /\ task' = task
    BY <1>5 DEF WlsInitRaises, Goto, HandsAccounted
  <2>2. Holds(w) = <<>> /\ Holds(w)' = <<Stop>>
    BY <1>1, <1>5, <2>1, HoldsByPlace DEF WlsInitRaises, Holds
  <2>3. r \notin Below[Stop]
    BY <1>1, NotBelowOthers, ProgramAssumption
  <2>4. /\ Seen(r, Holds(w)') <=> Seen(r, Holds(w))
        /\ Once(r, Holds(w)')
    BY <2>2, <2>3, SeenOne, SeenNone
  <2>5. work.buf' = work.buf /\ res.buf' = res.buf
    BY <1>5 DEF WlsInitRaises
  <2> QED BY <2>4, <2>5, Stays
<1> QED BY <1>2, <1>3, <1>4, <1>5

LEMMA HandleKeepsLocated ==
  ASSUME DomainsInv, FailuresType, HandsAccounted, NEW w \in Workers, WorkerStep(w),
         NEW r \in Failures, Located(r),
         HandleStop(w) \/ HandleYield(w) \/ HandleNow(w) \/ PushResult(w)
  PROVE  Located(r)'
<1>1. /\ pc \in [Workers -> Places] /\ todo \in [Workers -> Seq(Statuses)]
      /\ r \in Results /\ r \in Reportable /\ todo[w] \in Seq(Statuses)
      /\ work \in Work!SyncType /\ res \in Res!SyncType
      /\ work.buf \in Seq(Statuses) /\ res.buf \in Seq(Statuses)
  BY WorkerTypes DEF Failures, Reportable
<1>2. /\ todo[w] # <<>> /\ pc[w] \in {"handle", "push"} /\ raised' = raised
      /\ collected' = collected
  BY DEF HandleStop, HandleYield, HandleNow, PushResult, Handling, Goto, HandsAccounted,
         mainVars
<1>3. Holds(w) = todo[w] /\ w \notin raised
  BY <1>2, HoldsByPlace
<1> DEFINE x == Head(todo[w])
<1>4. /\ Seen(r, Holds(w)) <=> r \in Below[x] \/ Seen(r, Tail(todo[w]))
      /\ Once(r, Tail(todo[w]))
      /\ ~(r \in Below[x] /\ Seen(r, Tail(todo[w])))
  BY <1>1, <1>2, <1>3, SeenTail DEF Located
<1>5. Handled(w) /\ pc'[w] \in {"handle", "push"} => Holds(w)' = Tail(todo[w])
  BY <1>1, <1>2, <1>3 DEF Handled, Holds
<1>6. x \in Statuses
  BY <1>2, HandlesStatus
<1>7. ASSUME Handled(w), pc' = pc, UNCHANGED <<work, res>>, x \in Results \cup {Stop}, x # r
      PROVE  Located(r)'
  <2>1. r \notin Below[x]
    BY <1>1, <1>7, NotBelowOthers
  <2>2. Holds(w)' = Tail(todo[w])
    BY <1>2, <1>5, <1>7
  <2>3. /\ Seen(r, Holds(w)') <=> Seen(r, Holds(w))
        /\ Once(r, Holds(w)')
    BY <1>4, <2>1, <2>2
  <2> QED BY <1>7, <2>3, Stays
<1>8. CASE HandleStop(w)
  <2>1. x = Stop /\ Stop # r
    BY <1>1, <1>8, ProgramAssumption DEF HandleStop
  <2> QED BY <1>7, <1>8, <2>1 DEF HandleStop
<1>9. CASE HandleNow(w)
  <2>1. CASE Reports(x)
    <3>1. pc'[w] = "push" /\ todo' = todo /\ UNCHANGED <<work, res>>
      BY <1>1, <1>9, <2>1 DEF HandleNow, Goto
    <3>2. Holds(w)' = Holds(w)
      BY <1>2, <1>3, <3>1 DEF Holds
    <3>3. Once(r, Holds(w)')
      BY <3>2 DEF Located
    <3> QED BY <3>1, <3>2, <3>3, Stays
  <2>2. CASE ~Reports(x)
    <3>1. x # r /\ x \in Results
      BY <1>1, <1>9, <2>2 DEF Reports, HandleNow
    <3> QED BY <1>7, <1>9, <2>2, <3>1 DEF HandleNow
  <2> QED BY <2>1, <2>2
<1>10. \A v \in Workers : v # w => Holds(v)' = Holds(v)
  BY OthersHold
<1>11. CASE HandleYield(w)
  <2>1. x \in Tasks /\ pc' = pc /\ res' = res /\ Handled(w)
    BY <1>11 DEF HandleYield
  <2>2. work.buf' = Append(work.buf, x)
    BY <1>1, <1>11, <2>1, QueueAppends DEF HandleYield
  <2>3. Holds(w)' = Tail(todo[w])
    BY <1>2, <1>5, <2>1
  <2>4. Seen(r, Holds(w)) => ~Seen(r, work.buf) /\ ~Seen(r, res.buf) /\ ~Seen(r, collected)
    BY DEF Located, SeenHeld
  <2>5. /\ Seen(r, work.buf') <=> Seen(r, work.buf) \/ r \in Below[x]
        /\ Once(r, work.buf')
    BY <1>1, <1>4, <1>6, <2>2, <2>4, SeenAppend DEF Located
  <2>6. /\ Once(r, res.buf') /\ Once(r, collected')
        /\ Seen(r, res.buf') <=> Seen(r, res.buf)
        /\ Seen(r, collected') <=> Seen(r, collected)
    BY <1>2, <2>1 DEF Located
  <2>7. /\ Once(r, Holds(w)')
        /\ Seen(r, Holds(w)) <=> r \in Below[x] \/ Seen(r, Holds(w)')
        /\ ~(r \in Below[x] /\ Seen(r, Holds(w)'))
    BY <1>4, <2>3
  <2> HIDE DEF x
  <2> QED BY <1>10, <2>4, <2>5, <2>6, <2>7, Moves
<1>12. CASE PushResult(w)
  <2>1. pc'[w] = "handle" /\ work' = work /\ Handled(w) /\ x \in Results
    BY <1>1, <1>12 DEF PushResult, Goto, HandsAccounted, Reportable
  <2>2. res.buf' = Append(res.buf, x)
    BY <1>1, <1>12, <2>1, StackWrite DEF PushResult
  <2>3. Holds(w)' = Tail(todo[w])
    BY <1>2, <1>5, <2>1
  <2>4. Seen(r, Holds(w)) => ~Seen(r, work.buf) /\ ~Seen(r, res.buf) /\ ~Seen(r, collected)
    BY DEF Located, SeenHeld
  <2>5. /\ Seen(r, res.buf') <=> Seen(r, res.buf) \/ r \in Below[x]
        /\ Once(r, res.buf')
    BY <1>1, <1>4, <1>6, <2>2, <2>4, SeenAppend DEF Located
  <2>6. /\ Once(r, work.buf') /\ Once(r, collected')
        /\ Seen(r, work.buf') <=> Seen(r, work.buf)
        /\ Seen(r, collected') <=> Seen(r, collected)
    BY <1>2, <2>1 DEF Located
  <2>7. /\ Once(r, Holds(w)')
        /\ Seen(r, Holds(w)) <=> r \in Below[x] \/ Seen(r, Holds(w)')
        /\ ~(r \in Below[x] /\ Seen(r, Holds(w)'))
    BY <1>4, <2>3
  <2> HIDE DEF x
  <2> QED BY <1>10, <2>4, <2>5, <2>6, <2>7, Moves
<1> QED BY <1>8, <1>9, <1>11, <1>12

LEMMA WorkerKeepsLocated ==
  ASSUME DomainsInv, FailuresType, HandsAccounted, NEW w \in Workers, WorkerStep(w),
         NEW r \in Failures, Located(r)
  PROVE  Located(r)'
<1>1. /\ pc \in [Workers -> Places] /\ work \in Work!SyncType /\ res \in Res!SyncType
  BY WorkerTypes
<1>2. ASSUME Holds(w)' = Holds(w), work.buf' = work.buf, res.buf' = res.buf
      PROVE  Located(r)'
  <2>1. Once(r, Holds(w)')
    BY <1>2 DEF Located
  <2> QED BY <1>2, <2>1, Stays
<1>3. CASE WlsInit(w)
  BY <1>1, <1>2, <1>3 DEF WlsInit, Goto, Holds
<1>4. CASE PopNothing(w)
  <2>1. work.buf' = work.buf
    BY <1>1, <1>4, QueueGetNone DEF PopNothing
  <2> QED BY <1>1, <1>2, <1>4, <2>1 DEF PopNothing, Goto, Holds
<1>5. CASE PopWaits(w)
  <2>1. work.buf' = work.buf
    BY <1>1, <1>5, QueueWaits DEF PopWaits
  <2> QED BY <1>2, <1>5, <2>1 DEF PopWaits, Holds, workerVars
<1>6. CASE EndTask(w)
  <2>1. work.buf' = work.buf
    BY <1>1, <1>6, QueueEndPledge DEF EndTask
  <2> QED BY <1>1, <1>2, <1>6, <2>1 DEF EndTask, Goto, Holds
<1>7. CASE Close(w)
  <2>1. res.buf' = res.buf
    BY <1>1, <1>7, StackEndPledge DEF Close
  <2> QED BY <1>1, <1>2, <1>7, <2>1 DEF Close, Goto, Holds
<1> QED BY <1>3, <1>4, <1>5, <1>6, <1>7, PopKeepsLocated, RunKeepsLocated,
           HandleKeepsLocated DEF WorkerStep

(* and so does every step of the main domain. *)
LEMMA MainKeepsLocated ==
  ASSUME DomainsInv, FailuresType, OfTheProgram, MainStep, NEW r \in Failures, Located(r)
  PROVE  Located(r)'
<1>1. /\ res.buf \in Seq(Statuses) /\ res.buf \in Seq(Results)
      /\ collected \in Seq(Statuses)
      /\ collected \in Seq(Results) /\ Results \subseteq Statuses
  <2>1. Results \subseteq Statuses
    BY DEF Statuses
  <2> QED BY <2>1, StackFields DEF FailuresType
<1>2. work' = work /\ \A v \in Workers : Holds(v)' = Holds(v)
  BY MainMoves, MainSpawns DEF Holds
<1>3. /\ SeenHeld(r)' <=> SeenHeld(r)
      /\ \A v \in Workers : Once(r, Holds(v)') /\ (Seen(r, Holds(v)') <=> Seen(r, Holds(v)))
  BY <1>2 DEF Located, SeenHeld, Seen
<1>4. ASSUME Once(r, res.buf'), Once(r, collected'),
             \/ /\ Seen(r, res.buf') <=> Seen(r, res.buf)
                /\ Seen(r, collected') <=> Seen(r, collected)
             \/ Seen(r, res.buf) /\ ~Seen(r, res.buf') /\ Seen(r, collected')
      PROVE  Located(r)'
  <2>1. Once(r, work.buf') /\ (Seen(r, work.buf') <=> Seen(r, work.buf))
    BY <1>2 DEF Located
  <2>2. \A v \in Workers : Once(r, Holds(v)')
    BY <1>3
  <2>3. \A u, v \in Workers : Seen(r, Holds(u)') /\ Seen(r, Holds(v)') => u = v
    BY <1>3 DEF Located
  <2>4. /\ Seen(r, work.buf') \/ Seen(r, res.buf') \/ Seen(r, collected') \/ SeenHeld(r)'
        /\ Seen(r, work.buf') => ~Seen(r, res.buf') /\ ~Seen(r, collected') /\ ~SeenHeld(r)'
        /\ Seen(r, res.buf') => ~Seen(r, collected') /\ ~SeenHeld(r)'
        /\ Seen(r, collected') => ~SeenHeld(r)'
    BY <1>3, <1>4, <2>1 DEF Located
  <2> QED BY <1>4, <2>1, <2>2, <2>3, <2>4 DEF Located, Seen, Once
<1>5. CASE res.buf' = res.buf /\ collected' = collected
  BY <1>4, <1>5 DEF Located
<1>6. ASSUME NEW q \in Results, NEW i \in 1 .. Len(res.buf),
             q = res.buf[i], collected' = Append(collected, q),
             res.buf' = Rest(res.buf, i)
      PROVE  Located(r)'
  <2>1. /\ Seen(r, res.buf) <=> r \in Below[q] \/ Seen(r, res.buf')
        /\ Once(r, res.buf')
        /\ ~(r \in Below[q] /\ Seen(r, res.buf'))
    BY <1>1, <1>6, SeenWithout DEF Located
  <2>2. Seen(r, res.buf) => ~Seen(r, collected)
    BY DEF Located
  <2>3. /\ Seen(r, collected') <=> Seen(r, collected) \/ r \in Below[q]
        /\ Once(r, collected')
    BY <1>1, <1>6, <2>1, <2>2, SeenAppend DEF Located
  <2> QED BY <1>4, <2>1, <2>2, <2>3
<1>7. CASE res.buf' = res.buf /\ collected' = SortResults(collected)
  <2>1. (Seen(r, collected') <=> Seen(r, collected)) /\ Once(r, collected')
    BY <1>1, <1>7, SortSeen DEF Located
  <2> QED BY <1>4, <1>7, <2>1 DEF Located
<1> QED BY <1>5, <1>6, <1>7, MainMoves

-----------------------------------------------------------------------------
(* The pledges on the result stack, and the report.                         *)

(* The domains that hold a pledge on the result stack, when one moves. *)
LEMMA LivingChanges ==
  ASSUME pc \in [Workers -> Places], NEW w \in Workers, NEW to \in Places,
         pc' = [pc EXCEPT ![w] = to]
  PROVE  LET gone == {"unborn", "ended"}
         IN  /\ Cardinality(Living) \in Nat /\ (Cardinality(Living) = 0 <=> Living = {})
             /\ (pc[w] \in gone <=> to \in gone) => Living' = Living
             /\ pc[w] \in gone /\ to \notin gone =>
                  Cardinality(Living') = Cardinality(Living) + 1
             /\ pc[w] \notin gone /\ to \in gone =>
                  Cardinality(Living') = Cardinality(Living) - 1
<1> DEFINE gone == {"unborn", "ended"}
<1>1. IsFiniteSet(Workers)
  <2>1. 1 \in Int /\ MaxWorkers \in Int
    BY ProgramAssumption
  <2> QED BY <2>1, FS_Interval DEF Workers
<1>2. IsFiniteSet(Living)
  BY <1>1, FS_Subset DEF Living
<1>3. \A v \in Workers : pc'[v] = IF v = w THEN to ELSE pc[v]
  OBVIOUS
<1>4. (pc[w] \in gone <=> to \in gone) => Living' = Living
  BY <1>3 DEF Living
<1>5. pc[w] \in gone /\ to \notin gone => Living' = Living \cup {w} /\ w \notin Living
  BY <1>3 DEF Living
<1>6. pc[w] \notin gone /\ to \in gone => Living' = Living \ {w} /\ w \in Living
  BY <1>3 DEF Living
<1>7. Cardinality(Living) \in Nat /\ (Cardinality(Living) = 0 <=> Living = {})
  BY <1>2, FS_CardinalityType, FS_EmptySet
<1>8. pc[w] \in gone /\ to \notin gone => Cardinality(Living') = Cardinality(Living) + 1
  BY <1>2, <1>5, FS_AddElement
<1>9. pc[w] \notin gone /\ to \in gone => Cardinality(Living') = Cardinality(Living) - 1
  BY <1>2, <1>6, FS_RemoveElement
<1> QED BY <1>4, <1>7, <1>8, <1>9

(* A worker gives its pledge back with its last step. *)
LEMMA WorkerKeepsDelivery ==
  ASSUME DomainsInv, FailuresType, HandsAccounted, DeliveryAccounted,
         NEW w \in Workers, WorkerStep(w)
  PROVE  DeliveryAccounted'
<1>1. /\ pc \in [Workers -> Places] /\ res \in Res!SyncType
      /\ main' = main
  <2>1. UNCHANGED mainVars
    BY DEF WorkerStep, WlsInit, WlsInitRaises, PopTask, PopNothing, PopWaits, RunTask,
           RunRaises, HandleStop, HandleYield, HandleNow, PushResult, EndTask, FailQueue,
           Close
  <2> QED BY <2>1, WorkerTypes DEF mainVars
<1>2. pc[w] \notin {"unborn", "ended"}
  BY DEF WorkerStep, WlsInit, WlsInitRaises, PopTask, PopNothing, PopWaits, RunTask,
         RunRaises, HandleStop, HandleYield, HandleNow, PushResult, EndTask, FailQueue,
         Close, Goto, Handling
<1>3. w \in Living /\ main \notin {"join", "print"}
  BY <1>2 DEF Living, DeliveryAccounted
<1>4. CASE Close(w)
  <2>1. /\ pc' = [pc EXCEPT ![w] = "ended"]
        /\ res'.pledges = res.pledges - 1 /\ res'.closed = res.closed
    BY <1>1, <1>4, StackEndPledge DEF Close, Goto
  <2>2. /\ Cardinality(Living') = Cardinality(Living) - 1
        /\ Cardinality(Living) \in Nat
    BY <1>1, <1>2, <2>1, LivingChanges DEF Places
  <2> QED BY <1>1, <1>3, <2>1, <2>2 DEF DeliveryAccounted
<1>5. CASE ~Close(w)
  <2>1. res'.pledges = res.pledges /\ res'.closed = res.closed
    <3>1. CASE PushResult(w)
      <4>1. Head(todo[w]) \in Results
        BY <3>1 DEF PushResult, Goto, HandsAccounted, Reportable
      <4> QED BY <1>1, <3>1, <4>1, StackWrite DEF PushResult
    <3>2. CASE ~PushResult(w)
      <4>1. res' = res
        BY <1>5, <3>2 DEF WorkerStep, WlsInit, WlsInitRaises, PopTask, PopNothing,
               PopWaits, RunTask, RunRaises, HandleStop, HandleYield, HandleNow, EndTask,
               FailQueue
      <4> QED BY <4>1
    <3> QED BY <3>1, <3>2
  <2>2. \/ pc' = pc
        \/ \E to \in Places \ {"unborn", "ended"} : pc' = [pc EXCEPT ![w] = to]
    BY <1>5 DEF WorkerStep, WlsInit, WlsInitRaises, PopTask, PopNothing, PopWaits, RunTask,
           RunRaises, HandleStop, HandleYield, HandleNow, PushResult, EndTask, FailQueue,
           Goto, Places, workerVars
  <2>3. Living' = Living
    <3>1. CASE pc' = pc
      BY <3>1 DEF Living
    <3>2. ASSUME NEW to \in Places \ {"unborn", "ended"}, pc' = [pc EXCEPT ![w] = to]
          PROVE  Living' = Living
      BY <1>1, <1>2, <3>2, LivingChanges
    <3> QED BY <2>2, <3>1, <3>2
  <2> QED BY <1>1, <1>3, <2>1, <2>3 DEF DeliveryAccounted
<1> QED BY <1>4, <1>5

LEMMA MainKeepsDelivery ==
  ASSUME DomainsInv, FailuresType, DeliveryAccounted, MainStep
  PROVE  DeliveryAccounted'
<1>1. pc \in [Workers -> Places] /\ res \in Res!SyncType /\ Cardinality(Living) \in Nat
  <2>1. 1 \in Workers
    BY ProgramAssumption DEF Workers
  <2>2. pc \in [Workers -> Places] /\ res \in Res!SyncType
    BY DEF DomainsInv, DomainsType, FailuresType, Places
  <2>3. IsFiniteSet(Living)
    <3>1. 1 \in Int /\ MaxWorkers \in Int
      BY ProgramAssumption
    <3>2. IsFiniteSet(Workers)
      BY <3>1, FS_Interval DEF Workers
    <3> QED BY <3>2, FS_Subset DEF Living
  <2> QED BY <2>2, <2>3, FS_CardinalityType
<1>2. ASSUME pc' = pc, res'.pledges = res.pledges, res'.closed = res.closed,
             main # "spawn", main' # "spawn",
             main' \in {"join", "print"} =>
               \/ main \in {"join", "print"} /\ res'.buf = res.buf
               \/ res'.buf = <<>> /\ Living = {}
      PROVE  DeliveryAccounted'
  <2>1. Living' = Living
    BY <1>2 DEF Living
  <2> QED BY <1>2, <2>1 DEF DeliveryAccounted
<1>3. CASE CallbackInit
  <2>1. /\ res'.pledges = res.pledges + 1 /\ res'.closed = res.closed
        /\ pc' = pc /\ main = "pledge" /\ main' = "spawn"
    BY <1>1, <1>3, StackMakePledge DEF CallbackInit, workerVars
  <2>2. Living' = Living
    BY <2>1 DEF Living
  <2> QED BY <1>1, <2>1, <2>2 DEF DeliveryAccounted
<1>4. CASE DomainSpawn
  <2>1. /\ pc' = [pc EXCEPT ![spawned + 1] = "init"] /\ res' = res
        /\ main = "spawn" /\ main' \in {"read", "pledge"}
    BY <1>4 DEF DomainSpawn
  <2>2. spawned + 1 \in Workers /\ pc[spawned + 1] = "unborn"
    <3>1. spawned \in Nat /\ spawned < input.workers /\ input.workers \in Workers
      <4>1. input \in Inputs
        BY DEF DomainsInv, DomainsType
      <4> QED BY <2>1, <4>1, OptionsAssumption DEF DomainsInv, DomainsType, DomainsAccounted
    <3>2. spawned + 1 \in Workers
      BY <3>1, ProgramAssumption DEF Workers
    <3> QED BY <3>1, <3>2 DEF DomainsInv, DomainsAccounted
  <2>3. Cardinality(Living') = Cardinality(Living) + 1
    BY <1>1, <2>1, <2>2, LivingChanges DEF Places
  <2> QED BY <1>1, <2>1, <2>3 DEF DeliveryAccounted
<1>5. CASE ReadResult \/ ReadUnprintable
  <2>1. PICK r \in Results : Res!GetSome(MainThread, FALSE, r)
    BY <1>5 DEF ReadResult, ReadUnprintable
  <2>2. res'.pledges = res.pledges /\ res'.closed = res.closed
    BY <1>1, <2>1, StackGetSome
  <2>3. pc' = pc /\ main = "read" /\ main' \in {"read", "done"}
    BY <1>5 DEF ReadResult, ReadUnprintable, workerVars
  <2> QED BY <1>2, <2>2, <2>3
<1>6. CASE ReadNothing
  <2>1. /\ res'.buf = <<>>
        /\ res.pledges = 0 \/ res.closed
        /\ res'.pledges = res.pledges /\ res'.closed = res.closed
    BY <1>1, <1>6, StackGetNone DEF ReadNothing
  <2>2. pc' = pc /\ main = "read" /\ main' = "join"
    BY <1>6 DEF ReadNothing, workerVars
  <2>3. Cardinality(Living) = 0
    BY <2>1, <2>2, <1>1 DEF DeliveryAccounted
  <2>4. Living = {}
    <3>1. 1 \in Workers
      BY ProgramAssumption DEF Workers
    <3>2. pc' = [pc EXCEPT ![1] = pc[1]] /\ pc[1] \in Places
      BY <1>1, <2>2, <3>1
    <3> QED BY <1>1, <2>3, <3>1, <3>2, LivingChanges
  <2> QED BY <1>2, <2>1, <2>2, <2>4
<1>7. CASE ReadWaits
  BY <1>1, <1>2, <1>7, StackWaits DEF ReadWaits, workerVars, mainVars
<1>8. CASE Join \/ Sort \/ PrintSorted \/ PrintFails \/ Conclude
  <2>1. /\ UNCHANGED <<pc, res>> /\ main \in {"join", "print"}
        /\ main' \in {"join", "print", "done"}
    BY <1>8 DEF Join, Sort, PrintSorted, PrintFails, Conclude, Unprinted, workerVars
  <2> QED BY <1>2, <2>1
<1> QED BY <1>3, <1>4, <1>5, <1>6, <1>7, <1>8 DEF MainStep

-----------------------------------------------------------------------------
(* When the main domain concludes, no failure is anywhere but among those   *)
(* it has read: the workers have ended, nobody raised, and the queue and    *)
(* the stack are empty.                                                     *)
LEMMA AllCollected ==
  ASSUME DomainsInv, FailuresInv, main \in {"join", "print"}, joined = input.workers
  PROVE  /\ ToSet(collected) = Failures
         /\ raised = {}
<1>1. /\ input \in Inputs /\ input.workers \in Workers /\ input.workers \in Nat
      /\ \A w \in Workers : w \in Nat
  BY OptionsAssumption, ProgramAssumption DEF DomainsInv, DomainsType, Workers
<1>2. raised = {}
  <2> SUFFICES ASSUME NEW w \in raised PROVE FALSE
    OBVIOUS
  <2>1. w \in Workers /\ pc[w] \in {"close", "ended"} /\ ~(w <= joined)
    BY DEF DomainsInv, DomainsType, DomainsAccounted
  <2>2. ~(w > spawned) /\ spawned <= input.workers /\ spawned \in Nat
    BY <2>1 DEF DomainsInv, DomainsType, DomainsAccounted
  <2> QED BY <1>1, <2>1, <2>2
<1>3. Living = {} /\ res.buf = <<>>
  BY DEF FailuresInv, DeliveryAccounted
<1>4. \A w \in Workers : Holds(w) = <<>>
  <2> SUFFICES ASSUME NEW w \in Workers PROVE Holds(w) = <<>>
    OBVIOUS
  <2>1. pc[w] \in {"unborn", "ended"}
    BY <1>3 DEF Living
  <2>2. todo[w] = <<>>
    BY <2>1 DEF FailuresInv, HandsAccounted
  <2> QED BY <1>2, <2>1, <2>2 DEF Holds
<1>5. work.buf = <<>>
  <2>1. 1 \in Workers /\ 1 <= joined
    BY <1>1, ProgramAssumption DEF Workers
  <2>2. pc[1] = "ended"
    BY <2>1 DEF DomainsInv, DomainsAccounted
  <2> QED BY <1>2, <2>1, <2>2 DEF DomainsInv, WorkAccounted
<1>6. collected \in Seq(Results)
  BY DEF FailuresInv, FailuresType
<1>7. Failures \subseteq ToSet(collected)
  <2> SUFFICES ASSUME NEW r \in Failures PROVE r \in ToSet(collected)
    OBVIOUS
  <2>1. Located(r)
    BY DEF FailuresInv
  <2>2. Seen(r, collected)
    BY <1>3, <1>4, <1>5, <2>1, SeenNone DEF Located, SeenHeld
  <2>3. PICK i \in 1 .. Len(collected) : r \in Below[collected[i]]
    BY <2>2 DEF Seen
  <2>4. r = collected[i]
    BY <1>6, <2>3, BelowEnd
  <2> QED BY <1>6, <2>4, ElementsOf
<1>8. ToSet(collected) \subseteq Failures
  BY DEF FailuresInv, OfTheProgram
<1> QED BY <1>2, <1>7, <1>8

(* Among the failures read none is there twice. *)
LEMMA CollectedDiffer ==
  ASSUME FailuresInv
  PROVE  Different(collected)
<1> SUFFICES ASSUME NEW i \in 1 .. Len(collected), NEW j \in 1 .. Len(collected),
                    collected[i] = collected[j]
             PROVE  i = j
  BY DEF Different
<1>1. collected \in Seq(Results)
  BY DEF FailuresInv, FailuresType
<1>2. collected[i] \in Failures /\ collected[i] \in Results
  BY <1>1, ElementsOf DEF FailuresInv, OfTheProgram
<1>3. Once(collected[i], collected)
  BY <1>2 DEF FailuresInv, Located
<1>4. collected[i] \in Below[collected[i]] /\ collected[i] \in Below[collected[j]]
  BY <1>2, BelowEnd
<1> QED BY <1>3, <1>4 DEF Once

(* When everything has been printed, that is what was read. *)
LEMMA AllPrinted ==
  ASSUME FailuresInv,
         \/ main = "join" /\ ~Deterministic
         \/ main = "print" /\ ~Unprinted
  PROVE  printed = collected
<1>1. printed \in Seq(Results) /\ collected \in Seq(Results)
  BY DEF FailuresInv, FailuresType
<1>2. CASE main = "join"
  BY <1>2 DEF FailuresInv, ReportAccounted
<1>3. CASE main = "print"
  <2>1. Len(printed) <= Len(collected) /\ ~(Len(printed) < Len(collected))
        /\ \A i \in 1 .. Len(printed) : printed[i] = collected[i]
    BY <1>3 DEF FailuresInv, ReportAccounted, Unprinted
  <2>2. Len(printed) = Len(collected)
    BY <1>1, <2>1
  <2> QED BY <1>1, <2>1, <2>2
<1> QED BY <1>2, <1>3

LEMMA MainKeepsReport ==
  ASSUME DomainsInv, FailuresInv, MainStep
  PROVE  ReportAccounted' /\ VerdictSound'
<1>1. /\ input' = input /\ Failures' = Failures /\ Deterministic' = Deterministic
      /\ StopAtFirst' = StopAtFirst
  BY DEF MainStep, Failures, Reportable, Deterministic, StopAtFirst
<1>2. /\ ReportAccounted
      /\ printed \in Seq(Results) /\ collected \in Seq(Results)
  BY DEF FailuresInv, FailuresType
<1>3. main # "done" /\ verdict = "running"
  <2>1. main # "done"
    BY DEF MainStep, CallbackInit, DomainSpawn, ReadResult, ReadUnprintable, ReadNothing,
           ReadWaits, Join, Sort, PrintSorted, PrintFails, Conclude, Unprinted
  <2> QED BY <1>2, <2>1 DEF ReportAccounted
<1>4. ASSUME verdict' \in {"running", "Exception"}
      PROVE  VerdictSound'
  BY <1>4 DEF VerdictSound, Abstract!VerdictSound
<1>5. ASSUME main' = "done", verdict' = "Exception"
      PROVE  ReportAccounted' /\ VerdictSound'
  BY <1>4, <1>5 DEF ReportAccounted
<1>6. CASE CallbackInit \/ DomainSpawn \/ ReadWaits
  <2>1. /\ UNCHANGED <<verdict, printed, collected>>
        /\ main \in {"pledge", "spawn", "read", "join"}
        /\ main' \in {"pledge", "spawn", "read", "join"}
    BY <1>6 DEF CallbackInit, DomainSpawn, ReadWaits, mainVars
  <2> QED BY <1>1, <1>2, <1>3, <1>4, <2>1 DEF ReportAccounted
<1>7. CASE ReadNothing
  <2>1. /\ UNCHANGED <<verdict, printed, collected>>
        /\ main = "read" /\ main' = "join"
    BY <1>7 DEF ReadNothing
  <2> QED BY <1>1, <1>2, <1>3, <1>4, <2>1 DEF ReportAccounted
<1>8. CASE ReadResult
  <2>1. PICK r \in Results :
          /\ collected' = Append(collected, r)
          /\ printed' = IF Deterministic THEN printed ELSE Append(printed, r)
    BY <1>8 DEF ReadResult
  <2>2. main = "read"
    BY <1>8 DEF ReadResult
  <2>3. /\ Deterministic => printed' = <<>>
        /\ ~Deterministic => printed' = collected' /\ printed' # <<>>
    BY <1>2, <1>3, <2>1, <2>2 DEF ReportAccounted
  <2>4. CASE StopAtFirst
    <3>1. main' = "done" /\ verdict' = "Found_bug" /\ ~Deterministic
      BY <1>8, <2>4 DEF ReadResult, StopAtFirst
    <3>2. ToSet(printed') # {}
      <4>1. printed' = Append(printed, r)
        BY <2>1, <3>1
      <4> QED BY <1>2, <4>1, ElementsOf
    <3> QED BY <1>1, <2>3, <2>4, <3>1, <3>2
            DEF ReportAccounted, VerdictSound, Abstract!VerdictSound
  <2>5. CASE ~StopAtFirst
    <3>1. main' = "read" /\ verdict' = "running"
      BY <1>3, <1>8, <2>2, <2>5 DEF ReadResult
    <3> QED BY <1>1, <1>4, <2>3, <3>1 DEF ReportAccounted
  <2> QED BY <2>4, <2>5
<1>9. CASE ReadUnprintable \/ PrintFails
  BY <1>5, <1>9 DEF ReadUnprintable, PrintFails
<1>10. CASE Join
  <2>1. CASE joined + 1 \in raised
    BY <1>5, <1>10, <2>1 DEF Join
  <2>2. CASE joined + 1 \notin raised
    <3>1. UNCHANGED <<main, verdict, printed, collected>> /\ main = "join"
      BY <1>10, <2>2 DEF Join
    <3> QED BY <1>1, <1>2, <1>3, <1>4, <3>1 DEF ReportAccounted
  <2> QED BY <2>1, <2>2
<1>11. CASE Sort
  <2>1. /\ UNCHANGED <<verdict, printed>> /\ Deterministic
        /\ main = "join" /\ main' = "print"
    BY <1>11 DEF Sort
  <2>2. printed' = <<>>
    BY <1>2, <2>1 DEF ReportAccounted
  <2>3. collected' = SortResults(collected) /\ SortResults(collected) \in Seq(Results)
    BY <1>2, <1>11, SortPermutes DEF Sort
  <2>4. Len(printed') <= Len(collected')
    BY <2>2, <2>3
  <2> QED BY <1>1, <1>3, <1>4, <2>1, <2>2, <2>4 DEF ReportAccounted
<1>12. CASE PrintSorted
  <2> DEFINE k == Len(printed) + 1
  <2>1. /\ UNCHANGED <<verdict, main, collected>> /\ main = "print"
        /\ Len(printed) < Len(collected)
        /\ printed' = Append(printed, collected[k])
    BY <1>12 DEF PrintSorted, Unprinted
  <2>2. k \in 1 .. Len(collected) /\ collected[k] \in Results
    BY <1>2, <2>1
  <2>3. Deterministic /\ \A i \in 1 .. Len(printed) : printed[i] = collected[i]
    BY <1>2, <2>1 DEF ReportAccounted
  <2>4. /\ Len(printed') = k
        /\ \A i \in 1 .. Len(printed') : printed'[i] = collected'[i]
    <3>1. /\ Len(printed') = k /\ printed'[k] = collected[k]
          /\ \A i \in 1 .. Len(printed) : printed'[i] = printed[i]
      BY <1>2, <2>1, <2>2
    <3>2. \A i \in 1 .. k : i \in 1 .. Len(printed) \/ i = k
      BY <1>2
    <3> HIDE DEF k
    <3> QED BY <2>1, <2>3, <3>1, <3>2
  <2> HIDE DEF k
  <2>5. Len(printed') <= Len(collected')
    BY <1>2, <2>1, <2>2, <2>4
  <2> QED BY <1>1, <1>3, <1>4, <2>1, <2>3, <2>4, <2>5 DEF ReportAccounted
<1>13. CASE Conclude
  <2>1. /\ UNCHANGED <<printed, collected>> /\ joined = input.workers
        /\ main \in {"join", "print"} /\ main' = "done"
        /\ verdict' = IF printed = <<>> THEN "All_OK" ELSE "Found_bug"
        /\ \/ main = "join" /\ ~Deterministic
           \/ main = "print" /\ ~Unprinted
    BY <1>13 DEF Conclude
  <2>2. ToSet(collected) = Failures
    BY <2>1, AllCollected
  <2>3. printed = collected
    BY <2>1, AllPrinted
  <2>4. (printed = <<>>) <=> (Failures = {})
    <3>1. printed = <<>> => ToSet(printed) = {}
      BY DEF ToSet
    <3>2. printed # <<>> => ToSet(printed) # {}
      BY <1>2, ElementsOf
    <3> QED BY <2>2, <2>3, <3>1, <3>2
  <2>5. VerdictSound'
    BY <1>1, <2>1, <2>2, <2>3, <2>4 DEF VerdictSound, Abstract!VerdictSound
  <2>6. ReportAccounted'
    BY <2>1 DEF ReportAccounted
  <2> QED BY <2>5, <2>6
<1> QED BY <1>6, <1>7, <1>8, <1>9, <1>10, <1>11, <1>12, <1>13 DEF MainStep

-----------------------------------------------------------------------------
(* The invariant of the failures and what follows from it.                  *)

(* Spurious wakeups and the step after the end change none of this.         *)
LEMMA NothingMoves ==
  ASSUME DomainsInv, FailuresInv,
         UNCHANGED <<input, workerVars, path_count, mainVars>>,
         work'.buf = work.buf, res' \in Res!SyncType, res'.buf = res.buf,
         res'.pledges = res.pledges, res'.closed = res.closed
  PROVE  FailuresInv' /\ (OrderAccounted => OrderAccounted')
<1>1. /\ input' = input /\ pc' = pc /\ task' = task /\ todo' = todo /\ raised' = raised
      /\ path_count' = path_count /\ main' = main /\ collected' = collected
      /\ printed' = printed /\ completed' = completed /\ verdict' = verdict
  BY DEF workerVars, mainVars
<1>2. Failures' = Failures /\ Reportable' = Reportable /\ Deterministic' = Deterministic
      /\ StopAtFirst' = StopAtFirst /\ Living' = Living
  BY <1>1 DEF Failures, Reportable, Deterministic, StopAtFirst, Living
<1>3. FailuresType'
  BY <1>1 DEF FailuresInv, FailuresType
<1>4. HandsAccounted'
  BY <1>1, <1>2 DEF FailuresInv, HandsAccounted
<1>5. OfTheProgram'
  BY <1>1, <1>2 DEF FailuresInv, OfTheProgram
<1>6. \A v \in Workers : Holds(v)' = Holds(v)
  BY <1>1 DEF Holds
<1>7. ASSUME NEW r \in Failures, Located(r)
      PROVE  Located(r)'
  BY <1>1, <1>6, <1>7 DEF Located, Seen, Once, SeenHeld
<1>8. DeliveryAccounted'
  BY <1>1, <1>2 DEF FailuresInv, DeliveryAccounted
<1>9. ReportAccounted'
  BY <1>1, <1>2 DEF FailuresInv, ReportAccounted
<1>10. VerdictSound'
  BY <1>1, <1>2 DEF FailuresInv, VerdictSound, Abstract!VerdictSound
<1>11. OrderAccounted => OrderAccounted'
  BY <1>1, <1>2 DEF OrderAccounted
<1>12. \A r \in Failures' : Located(r)'
  BY <1>2, <1>7 DEF FailuresInv
<1> QED BY <1>3, <1>4, <1>5, <1>8, <1>9, <1>10, <1>11, <1>12 DEF FailuresInv

LEMMA WorkerKeepsFailures ==
  ASSUME DomainsInv, FailuresInv, NEW w \in Workers, WorkerStep(w)
  PROVE  FailuresInv' /\ (OrderAccounted => OrderAccounted')
<1>1. input' = input /\ UNCHANGED mainVars
  BY DEF WorkerStep, WlsInit, WlsInitRaises, PopTask, PopNothing, PopWaits, RunTask,
         RunRaises, HandleStop, HandleYield, HandleNow, PushResult, EndTask, FailQueue,
         Close
<1>2. Failures' = Failures /\ Deterministic' = Deterministic /\ StopAtFirst' = StopAtFirst
  BY <1>1 DEF Failures, Reportable, Deterministic, StopAtFirst
<1>3. FailuresType' /\ HandsAccounted' /\ OfTheProgram' /\ DeliveryAccounted'
  BY WorkerKeepsType, WorkerKeepsHands, WorkerKeepsProgram, WorkerKeepsDelivery
     DEF FailuresInv
<1>4. \A r \in Failures' : Located(r)'
  BY <1>2, WorkerKeepsLocated DEF FailuresInv
<1>5. ReportAccounted'
  BY <1>1, <1>2 DEF FailuresInv, ReportAccounted, mainVars
<1>6. VerdictSound'
  BY <1>1, <1>2 DEF FailuresInv, VerdictSound, Abstract!VerdictSound, mainVars
<1>7. OrderAccounted => OrderAccounted'
  BY <1>1, <1>2 DEF OrderAccounted, mainVars
<1> QED BY <1>3, <1>4, <1>5, <1>6, <1>7 DEF FailuresInv

LEMMA MainKeepsFailures ==
  ASSUME DomainsInv, FailuresInv, MainStep
  PROVE  FailuresInv'
<1>1. FailuresType' /\ HandsAccounted' /\ OfTheProgram' /\ DeliveryAccounted'
  BY MainKeepsType, MainKeepsHands, MainKeepsProgram, MainKeepsDelivery DEF FailuresInv
<1>2. Failures' = Failures
  BY DEF MainStep, Failures, Reportable
<1>3. \A r \in Failures' : Located(r)'
  BY <1>2, MainKeepsLocated DEF FailuresInv
<1> QED BY <1>1, <1>3, MainKeepsReport DEF FailuresInv

LEMMA StepKeepsFailures ==
  ASSUME DomainsInv, FailuresInv, [Next]_vars
  PROVE  FailuresInv'
<1>1. work \in Work!SyncType /\ res \in Res!SyncType
  BY DEF DomainsInv, DomainsType, FailuresInv, FailuresType
<1>2. CASE UNCHANGED input /\ ReadSpurious
  BY <1>1, <1>2, StackWaits, NothingMoves DEF ReadSpurious
<1>3. CASE UNCHANGED input /\ \E w \in Workers : Spurious(w)
  BY <1>1, <1>3, QueueWaits, NothingMoves DEF Spurious
<1>4. CASE UNCHANGED vars
  BY <1>1, <1>4, NothingMoves DEF vars
<1> QED BY <1>2, <1>3, <1>4, WorkerKeepsFailures, MainKeepsFailures DEF Next, Exited

(* At first every failure is below the root, which is queued. *)
LEMMA FailuresInit ==
  ASSUME Init
  PROVE  FailuresInv
<1>1. input.root \in Tasks /\ input.root \in Statuses /\ Tasks \subseteq Statuses
  BY OptionsAssumption DEF Init, Statuses
<1>2. work.buf = <<input.root>> /\ res = Res!Empty
  <2>1. work = [Work!Empty EXCEPT !.buf = <<input.root>>]
    BY Zenon DEF Init
  <2> QED BY <2>1 DEF Work!Empty, Init
<1>3. res \in Res!SyncType /\ res.buf = <<>> /\ res.pledges = 0 /\ ~res.closed
  BY <1>2 DEF Res!Empty, Res!SyncType
<1>4. FailuresType
  BY <1>3 DEF Init, FailuresType
<1>5. HandsAccounted
  BY DEF Init, HandsAccounted
<1>6. \A w \in Workers : Holds(w) = <<>>
  BY DEF Init, Holds
<1>7. ToSet(<<>>) = {}
  BY DEF ToSet
<1>8. OfTheProgram
  <2>1. input.root \in Below[input.root]
    BY <1>1, BelowIsClosed
  <2>2. ToSet(work.buf) = {input.root}
    <3>1. DOMAIN work.buf = {1} /\ work.buf[1] = input.root
      BY <1>2
    <3> QED BY <3>1 DEF ToSet
  <2> QED BY <1>3, <1>7, <2>1, <2>2 DEF Init, OfTheProgram
<1>9. ASSUME NEW r \in Failures
      PROVE  Located(r)
  <2>1. Seen(r, work.buf) /\ Once(r, work.buf)
    BY <1>2, SeenOne DEF Failures
  <2>2. /\ ~Seen(r, res.buf) /\ Once(r, res.buf)
        /\ ~Seen(r, collected) /\ Once(r, collected)
    BY <1>3, SeenNone DEF Init
  <2>3. \A w \in Workers : ~Seen(r, Holds(w)) /\ Once(r, Holds(w))
    BY <1>6, SeenNone
  <2> QED BY <2>1, <2>2, <2>3 DEF Located, SeenHeld
<1>10. DeliveryAccounted
  <2>1. Living = {}
    BY DEF Init, Living
  <2> QED BY <1>3, <2>1, FS_EmptySet DEF Init, DeliveryAccounted
<1>11. ReportAccounted /\ VerdictSound
  BY DEF Init, ReportAccounted, VerdictSound, Abstract!VerdictSound
<1> QED BY <1>4, <1>5, <1>8, <1>9, <1>10, <1>11 DEF FailuresInv

(* In every state each failure of the program is in one place on its way    *)
(* from the task it is below to the report, and a verdict is right.         *)
THEOREM FailuresInvariance == Spec => [](DomainsInv /\ FailuresInv)
<1>1. Init => FailuresInv
  BY FailuresInit
<1>2. DomainsInv /\ FailuresInv /\ [Next]_vars => FailuresInv'
  BY StepKeepsFailures
<1> QED BY <1>1, <1>2, DomainsInvariance, PTL DEF Spec

(* Every variable keeps its type. *)
THEOREM ExplorationIsTyped == Spec => []TypeOK
<1>1. DomainsInv /\ FailuresInv => TypeOK
  <2> SUFFICES ASSUME DomainsInv, FailuresInv PROVE TypeOK
    OBVIOUS
  <2>1. input \in Inputs /\ spawned \in Nat /\ joined \in Nat
        /\ spawned <= input.workers /\ joined <= input.workers
    BY DEF DomainsInv, DomainsType, DomainsAccounted
  <2>2. input.workers \in 1 .. MaxWorkers /\ MaxWorkers \in Nat
    BY <2>1, OptionsAssumption, ProgramAssumption DEF Workers
  <2>3. spawned \in 0 .. MaxWorkers /\ joined \in 0 .. MaxWorkers
    BY <2>1, <2>2
  <2> QED BY <2>3 DEF TypeOK, DomainsInv, DomainsType, FailuresInv, FailuresType, Statuses
<1> QED BY <1>1, FailuresInvariance, PTL

(* No failure is lost and none is reported twice, whichever domains push    *)
(* and pop, in whatever order.                                              *)
THEOREM NoFailureIsLost == Spec => []ExactlyOnce
<1>1. FailuresInv => ExactlyOnce
  BY LocatedOnce DEF FailuresInv, ExactlyOnce
<1> QED BY <1>1, FailuresInvariance, PTL

(* The verdict of `owi sym' is right, for any program, any number of        *)
(* workers, any options and whatever fails.                                 *)
THEOREM VerdictsAreSound == Spec => []VerdictSound
<1>1. FailuresInv => VerdictSound
  BY DEF FailuresInv
<1> QED BY <1>1, FailuresInvariance, PTL

-----------------------------------------------------------------------------
(* The deterministic order.                                                 *)

(* Any other order of arrival is a sequence of the same different results.  *)
LEMMA Arrivals ==
  ASSUME NEW s \in Seq(Results), Different(s), NEW a \in SetToSeqs(ToSet(s))
  PROVE  a \in Seq(Results) /\ Different(a) /\ ToSet(a) = ToSet(s)
<1> DEFINE n == Len(s)
           S == ToSet(s)
           c == Cardinality(S)
           f == [i \in 1 .. n |-> s[i]]
<1>1. n \in Nat /\ DOMAIN s = 1 .. n /\ \A i \in 1 .. n : s[i] \in Results
  OBVIOUS
<1>2. S = {s[i] : i \in 1 .. n} /\ \A i, j \in 1 .. n : s[i] = s[j] => i = j
  BY <1>1 DEF ToSet, Different
<1>3. a \in [1 .. c -> S] /\ \A i, j \in 1 .. c : i # j => a[i] # a[j]
  BY DEF SetToSeqs
<1>4. S \subseteq Results
  BY <1>1, <1>2
<1> HIDE DEF n, S
<1>5. IsFiniteSet(S) /\ c \in Nat
  <2>1. 1 \in Int /\ n \in Int
    BY <1>1
  <2>2. IsFiniteSet(1 .. n)
    BY <2>1, FS_Interval
  <2>3. f \in Surjection(1 .. n, S)
    BY <1>2 DEF Surjection
  <2>4. IsFiniteSet(S)
    BY <2>2, <2>3, FS_Surjection
  <2> QED BY <2>4, FS_CardinalityType
<1> HIDE DEF c
<1>6. a \in Seq(Results) /\ Len(a) = c /\ DOMAIN a = 1 .. c
  BY <1>3, <1>4, <1>5
<1>7. IsFiniteSet(1 .. c) /\ Cardinality(1 .. c) = c
  <2>1. 1 \in Int /\ c \in Int
    BY <1>5
  <2> QED BY <1>5, <2>1, FS_Interval
<1>8. a \in Injection(1 .. c, S)
  BY <1>3 DEF Injection, IsInjective
<1>9. a \in Surjection(1 .. c, S)
  <2>1. Cardinality(1 .. c) = Cardinality(S)
    BY <1>7 DEF c
  <2> QED BY <1>5, <1>8, <2>1, FS_Injection
<1>10. ToSet(a) = S
  BY <1>3, <1>6, <1>9 DEF ToSet, Surjection
<1>11. Different(a)
  BY <1>3, <1>6 DEF Different
<1> QED BY <1>6, <1>10, <1>11 DEF S

(* Once sorted, the failures are in the one order there is. *)
LEMMA SortIsStable ==
  ASSUME DistinctCrumbs, NEW s \in Seq(Results), Different(s)
  PROVE  SortResults(SortResults(s)) = SortResults(s)
<1> DEFINE t == SortResults(s)
<1>1. t \in Seq(Results) /\ ToSet(t) = ToSet(s)
  BY SortPermutes, SortSeen
<1>2. Different(t)
  <2>1. PICK f \in [1 .. Len(s) -> 1 .. Len(s)] :
          /\ \A k \in 1 .. Len(s) : SortResults(s)[k] = s[f[k]]
                                    /\ PositionOf(s, f[k]) = k
          /\ \A i, j \in 1 .. Len(s) : f[i] = f[j] => i = j
          /\ \A i \in 1 .. Len(s) : \E k \in 1 .. Len(s) : f[k] = i
    BY SortPermutes
  <2>2. Len(t) = Len(s)
    BY SortPermutes
  <2> SUFFICES ASSUME NEW i \in 1 .. Len(s), NEW j \in 1 .. Len(s), t[i] = t[j]
               PROVE  i = j
    BY <2>2 DEF Different
  <2>3. s[f[i]] = s[f[j]] /\ f[i] \in 1 .. Len(s) /\ f[j] \in 1 .. Len(s)
    BY <2>1
  <2>4. f[i] = f[j]
    BY <2>3 DEF Different
  <2> QED BY <2>1, <2>4
<1> HIDE DEF t
<1>3. SortResults(t) = SortResults(s)
  BY <1>1, <1>2, SortIsCanonical
<1> QED BY <1>3 DEF t

(* A step of the main domain leaves what it will print in order.            *)
LEMMA MainKeepsOrder ==
  ASSUME DistinctCrumbs, DomainsInv, FailuresInv, OrderAccounted, MainStep
  PROVE  OrderAccounted'
<1>1. input' = input /\ Deterministic' = Deterministic
      /\ (Deterministic => ~StopAtFirst)
  BY DEF MainStep, Deterministic, StopAtFirst
<1> SUFFICES ASSUME Deterministic
             PROVE  /\ main' = "print" => collected' = SortResults(collected')
                    /\ verdict' = "Found_bug" =>
                         printed' = collected' /\ collected' = SortResults(collected')
  BY <1>1 DEF OrderAccounted
<1>2. /\ main # "done" /\ verdict = "running"
      /\ main = "print" => collected = SortResults(collected)
  <2>1. main # "done"
    BY DEF MainStep, CallbackInit, DomainSpawn, ReadResult, ReadUnprintable, ReadNothing,
           ReadWaits, Join, Sort, PrintSorted, PrintFails, Conclude, Unprinted
  <2> QED BY <2>1 DEF FailuresInv, ReportAccounted, OrderAccounted
<1>3. CASE Sort
  <2>1. collected' = SortResults(collected) /\ verdict' = "running"
    BY <1>2, <1>3 DEF Sort
  <2>2. collected \in Seq(Results) /\ Different(collected)
    BY CollectedDiffer DEF FailuresInv, FailuresType
  <2>3. SortResults(SortResults(collected)) = SortResults(collected)
    BY <2>2, SortIsStable
  <2> QED BY <2>1, <2>3
<1>4. CASE Conclude
  <2>1. collected' = collected /\ printed' = printed /\ main = "print" /\ main' = "done"
        /\ ~Unprinted
    BY <1>4 DEF Conclude
  <2>2. printed = collected
    BY <2>1, AllPrinted
  <2> QED BY <1>2, <2>1, <2>2
<1>5. CASE PrintSorted
  BY <1>2, <1>5 DEF PrintSorted
<1>6. CASE CallbackInit \/ DomainSpawn \/ ReadResult \/ ReadUnprintable
           \/ ReadNothing \/ ReadWaits \/ Join \/ PrintFails
  <2>1. main' # "print" /\ verdict' # "Found_bug"
    BY <1>1, <1>2, <1>6 DEF CallbackInit, DomainSpawn, ReadResult, ReadUnprintable,
       ReadNothing, ReadWaits, Join, PrintFails, Unprinted, mainVars
  <2> QED BY <2>1
<1> QED BY <1>3, <1>4, <1>5, <1>6 DEF MainStep

LEMMA StepKeepsOrder ==
  ASSUME DistinctCrumbs, DomainsInv, FailuresInv, OrderAccounted, [Next]_vars
  PROVE  OrderAccounted'
<1>1. work \in Work!SyncType /\ res \in Res!SyncType
  BY DEF DomainsInv, DomainsType, FailuresInv, FailuresType
<1>2. CASE UNCHANGED input /\ ReadSpurious
  BY <1>1, <1>2, StackWaits, NothingMoves DEF ReadSpurious
<1>3. CASE UNCHANGED input /\ \E w \in Workers : Spurious(w)
  BY <1>1, <1>3, QueueWaits, NothingMoves DEF Spurious
<1>4. CASE UNCHANGED vars
  BY <1>1, <1>4, NothingMoves DEF vars
<1> QED BY <1>2, <1>3, <1>4, WorkerKeepsFailures, MainKeepsOrder DEF Next, Exited

(* When breadcrumbs tell the failures apart, what                           *)
(* --deterministic-result-order prints is the same whatever the order in    *)
(* which the workers delivered.                                             *)
THEOREM OrderDoesNotMatter ==
  ASSUME DistinctCrumbs
  PROVE  Spec => []OrderOfArrivalIrrelevant
<1>1. Init => OrderAccounted
  BY DEF Init, OrderAccounted
<1>2. DomainsInv /\ FailuresInv /\ OrderAccounted /\ [Next]_vars => OrderAccounted'
  BY StepKeepsOrder
<1>3. FailuresInv /\ OrderAccounted => OrderOfArrivalIrrelevant
  <2> SUFFICES ASSUME FailuresInv, OrderAccounted, Deterministic, verdict = "Found_bug",
                      NEW a \in SetToSeqs(ToSet(collected))
               PROVE  SortResults(a) = printed
    BY DEF OrderOfArrivalIrrelevant
  <2>1. collected \in Seq(Results) /\ Different(collected)
    BY CollectedDiffer DEF FailuresInv, FailuresType
  <2>2. a \in Seq(Results) /\ Different(a) /\ ToSet(a) = ToSet(collected)
    BY <2>1, Arrivals
  <2>3. SortResults(a) = SortResults(collected)
    BY <2>1, <2>2, SortIsCanonical
  <2> QED BY <2>3 DEF OrderAccounted
<1> QED BY <1>1, <1>2, <1>3, FailuresInvariance, PTL DEF Spec

-----------------------------------------------------------------------------
(* The exploration implements PathExploration.                              *)

(* A failure on the result stack has not been read, so reading it makes a   *)
(* new one.                                                                 *)
LEMMA TakenIsNew ==
  ASSUME FailuresInv, NEW r \in Results, Res!GetSome(MainThread, FALSE, r)
  PROVE  r \in Failures /\ r \notin ToSet(collected)
<1>1. res \in Res!SyncType /\ collected \in Seq(Results) /\ res.buf \in Seq(Results)
  BY StackFields DEF FailuresInv, FailuresType
<1>2. PICK i \in 1 .. Len(res.buf) : r = res.buf[i]
  BY <1>1, StackGetSome
<1>3. r \in Failures /\ r \in Below[r]
  BY <1>1, <1>2, ElementsOf, BelowEnd DEF FailuresInv, OfTheProgram
<1>4. ~Seen(r, collected)
  BY <1>2, <1>3 DEF FailuresInv, Located, Seen
<1>5. r \notin ToSet(collected)
  <2> SUFFICES ASSUME NEW j \in 1 .. Len(collected), r = collected[j]
               PROVE  FALSE
    BY <1>1, ElementsOf
  <2> QED BY <1>3, <1>4 DEF Seen
<1> QED BY <1>3, <1>5

(* Neither has the next to be printed been printed. *)
LEMMA NextIsNew ==
  ASSUME FailuresInv, Unprinted
  PROVE  LET r == collected[Len(printed) + 1]
         IN  r \in Failures /\ r \in Results /\ r \notin ToSet(printed)
<1> DEFINE k == Len(printed) + 1
<1>1. printed \in Seq(Results) /\ collected \in Seq(Results)
  BY DEF FailuresInv, FailuresType
<1>2. k \in 1 .. Len(collected) /\ \A i \in 1 .. Len(printed) :
        printed[i] = collected[i] /\ i \in 1 .. Len(collected) /\ i # k
  BY <1>1 DEF Unprinted, FailuresInv, ReportAccounted
<1> HIDE DEF k
<1>3. collected[k] \in Failures /\ collected[k] \in Results
  BY <1>1, <1>2, ElementsOf DEF FailuresInv, OfTheProgram
<1>4. collected[k] \notin ToSet(printed)
  <2> SUFFICES ASSUME NEW i \in 1 .. Len(printed), collected[k] = printed[i]
               PROVE  FALSE
    BY <1>1, ElementsOf
  <2>1. collected[k] = collected[i]
    BY <1>2
  <2> QED BY <1>2, <2>1, CollectedDiffer DEF Different
<1> QED BY <1>3, <1>4 DEF k

(* The steps in which something is printed or concluded are those of        *)
(* PathExploration; in all others nothing happens there.                    *)
LEMMA MainRefines ==
  ASSUME DomainsInv, FailuresInv, MainStep
  PROVE  [Abstract!Next]_(Abstract!vars)
<1>1. /\ input' = input /\ Failures' = Failures /\ StopAtFirst' = StopAtFirst
      /\ Deterministic' = Deterministic
      /\ (Deterministic => ~StopAtFirst)
  BY DEF MainStep, Failures, Reportable, Deterministic, StopAtFirst
<1>2. printed \in Seq(Results) /\ collected \in Seq(Results)
  BY DEF FailuresInv, FailuresType
<1>3. main # "done" /\ verdict = "running"
  <2>1. main # "done"
    BY DEF MainStep, CallbackInit, DomainSpawn, ReadResult, ReadUnprintable, ReadNothing,
           ReadWaits, Join, Sort, PrintSorted, PrintFails, Conclude, Unprinted
  <2> QED BY <2>1 DEF FailuresInv, ReportAccounted
<1>4. ASSUME printed' = printed, verdict' = verdict
      PROVE  UNCHANGED Abstract!vars
  BY <1>1, <1>4 DEF Abstract!vars
<1>5. ASSUME NEW r \in Failures \ ToSet(printed), r \in Results,
             printed' = Append(printed, r),
             verdict' = IF StopAtFirst THEN "Found_bug" ELSE "running"
      PROVE  Abstract!Next
  <2>1. ToSet(printed') = ToSet(printed) \cup {r}
    BY <1>2, <1>5, ElementsOf
  <2>2. Abstract!Report
    BY <1>5, <2>1 DEF Abstract!Report
  <2> QED BY <1>1, <1>3, <2>2 DEF Abstract!Next
<1>6. ASSUME input.faults # {}, verdict' = "Exception", printed' = printed
      PROVE  Abstract!Next
  BY <1>1, <1>3, <1>6 DEF Abstract!Next, Abstract!Raise
<1>7. CASE CallbackInit \/ DomainSpawn \/ ReadNothing \/ ReadWaits \/ Sort
  BY <1>4, <1>7 DEF CallbackInit, DomainSpawn, ReadNothing, ReadWaits, Sort, mainVars
<1>8. CASE ReadResult
  <2>1. PICK r \in Results :
          /\ Res!GetSome(MainThread, FALSE, r)
          /\ printed' = IF Deterministic THEN printed ELSE Append(printed, r)
    BY <1>8 DEF ReadResult
  <2>2. verdict' = IF StopAtFirst THEN "Found_bug" ELSE "running"
    BY <1>3, <1>8 DEF ReadResult
  <2>3. r \in Failures /\ r \notin ToSet(collected) /\ main = "read"
    BY <1>8, <2>1, TakenIsNew DEF ReadResult
  <2>4. ~Deterministic => printed = collected
    BY <1>3, <2>3 DEF FailuresInv, ReportAccounted
  <2> QED BY <1>1, <1>3, <1>4, <1>5, <2>1, <2>2, <2>3, <2>4
<1>9. CASE PrintSorted
  <2> DEFINE r == collected[Len(printed) + 1]
  <2>1. Unprinted /\ printed' = Append(printed, r) /\ verdict' = verdict
    BY <1>9 DEF PrintSorted
  <2>2. r \in Failures /\ r \in Results /\ r \notin ToSet(printed)
    BY <2>1, NextIsNew
  <2>3. ~StopAtFirst
    BY <1>1, <2>1 DEF Unprinted, FailuresInv, ReportAccounted
  <2> HIDE DEF r
  <2> QED BY <1>3, <1>5, <2>1, <2>2, <2>3
<1>10. CASE ReadUnprintable \/ PrintFails
  BY <1>6, <1>10 DEF ReadUnprintable, PrintFails, MayFail
<1>11. CASE Join
  <2>1. CASE joined + 1 \in raised
    <3>1. joined + 1 \in Workers
      BY <2>1 DEF DomainsInv, DomainsType
    <3>2. input.faults # {}
      BY <2>1, <3>1 DEF FailuresInv, HandsAccounted
    <3> QED BY <1>6, <1>11, <2>1, <3>2 DEF Join
  <2>2. CASE joined + 1 \notin raised
    BY <1>4, <1>11, <2>2 DEF Join
  <2> QED BY <2>1, <2>2
<1>12. CASE Conclude
  <2>1. /\ UNCHANGED <<printed, collected>> /\ joined = input.workers
        /\ main \in {"join", "print"}
        /\ verdict' = IF printed = <<>> THEN "All_OK" ELSE "Found_bug"
        /\ \/ main = "join" /\ ~Deterministic
           \/ main = "print" /\ ~Unprinted
    BY <1>12 DEF Conclude
  <2>2. ToSet(collected) = Failures /\ printed = collected
    BY <2>1, AllCollected, AllPrinted
  <2>3. (printed = <<>>) <=> (ToSet(printed) = {})
    <3>1. printed = <<>> => ToSet(printed) = {}
      BY DEF ToSet
    <3> QED BY <1>2, <3>1, ElementsOf
  <2>4. Abstract!Conclude
    BY <2>1, <2>2, <2>3 DEF Abstract!Conclude
  <2> QED BY <1>1, <1>3, <2>4 DEF Abstract!Next
<1> QED BY <1>7, <1>8, <1>9, <1>10, <1>11, <1>12 DEF MainStep

(* The parallel exploration does nothing but what PathExploration allows:   *)
(* it reports failures of the program, no failure twice, concludes when all *)
(* are reported and gives up only when something failed.  That it ends is   *)
(* left to the model checker.                                               *)
THEOREM ExplorationImplementsPromise == Spec => Abstract!Safety
<1>1. Init => Abstract!Init
  <2>1. ToSet(<<>>) = {}
    BY DEF ToSet
  <2> QED BY <2>1 DEF Init, Abstract!Init
<1>2. DomainsInv /\ FailuresInv /\ [Next]_vars => [Abstract!Next]_(Abstract!vars)
  <2> SUFFICES ASSUME DomainsInv, FailuresInv, [Next]_vars
               PROVE  [Abstract!Next]_(Abstract!vars)
    OBVIOUS
  <2>1. ASSUME UNCHANGED <<input, printed, verdict>>
        PROVE  UNCHANGED Abstract!vars
    BY <2>1 DEF Abstract!vars, Failures, Reportable, StopAtFirst, Deterministic
  <2>2. ASSUME NEW w \in Workers, WorkerStep(w)
        PROVE  UNCHANGED Abstract!vars
    BY <2>1, <2>2 DEF WorkerStep, WlsInit, WlsInitRaises, PopTask, PopNothing, PopWaits,
       RunTask, RunRaises, HandleStop, HandleYield, HandleNow, PushResult, EndTask,
       FailQueue, Close, mainVars
  <2>3. CASE UNCHANGED input /\ (ReadSpurious \/ \E w \in Workers : Spurious(w))
    BY <2>1, <2>3 DEF ReadSpurious, Spurious, mainVars
  <2>4. CASE UNCHANGED vars
    BY <2>1, <2>4 DEF vars, mainVars
  <2> QED BY <2>2, <2>3, <2>4, MainRefines DEF Next, Exited
<1> QED BY <1>1, <1>2, FailuresInvariance, PTL DEF Spec, Abstract!Safety
=============================================================================
