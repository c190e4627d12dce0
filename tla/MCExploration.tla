---------------------------- MODULE MCExploration ----------------------------
(***************************************************************************)
(* Exploration on small programs.  Tasks and results are model values; the *)
(* programs are chosen so that tasks fork, give up, return, trap and fail  *)
(* an assertion, at the root and below it.                                 *)
(***************************************************************************)
EXTENDS Exploration, TLC

CONSTANTS t0, t1, t2, t3, ok, trap, assert1, assert2

MCTasks == {t0, t1, t2, t3}
MCResults == {ok, trap, assert1, assert2}

(* t0 forks into t1, an immediate trap and t2; t1 ends well or yields t3;   *)
(* t2 and t3 fail an assertion, t3 after giving up a path.                  *)
MCStatus ==
  t0 :> <<t1, trap, t2>> @@ t1 :> <<ok, t3>> @@ t2 :> <<assert1>>
    @@ t3 :> <<Stop, assert2>>

MCOutcome ==
  ok :> "EVal" @@ trap :> "ETrap" @@ assert1 :> "EAssert"
    @@ assert2 :> "EAssert"

(* Three different paths. *)
MCCrumbs == ok :> 0 @@ trap :> 2 @@ assert1 :> 3 @@ assert2 :> 1

(* Two assertions in a row on one path: assertion adds no breadcrumb. *)
TiedCrumbs == ok :> 0 @@ trap :> 2 @@ assert1 :> 1 @@ assert2 :> 1

Run(root, workers, fail_mode, no_stop, sorted, faults) ==
  [root |-> root, workers |-> workers, fail_mode |-> fail_mode,
   no_stop_at_failure |-> no_stop, deterministic_result_order |-> sorted,
   faults |-> faults]

AllFailures == Run(t0, 2, "Both", TRUE, FALSE, {})
Sorted == Run(t0, 2, "Both", FALSE, TRUE, {})

(* Every option, three workers, programs without a failure to report, and   *)
(* everything that may fail.                                                *)
MCInputs ==
  { AllFailures,
    Sorted,
    Run(t0, 3, "Assertion_only", FALSE, FALSE, {}),
    Run(t1, 3, "Trap_only", TRUE, FALSE, {}),
    Run(t0, 2, "Trap_only", TRUE, FALSE, Faults),
    Run(t0, 2, "Both", TRUE, FALSE, {"task"}),
    Run(t1, 2, "Both", FALSE, TRUE, Faults) }

AllFailuresOnly == {AllFailures}
SortedOnly == {Sorted}
=============================================================================
