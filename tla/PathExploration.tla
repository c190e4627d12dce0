--------------------------- MODULE PathExploration ---------------------------
(***************************************************************************)
(* What `owi sym' promises: it reports failures of the program, each at    *)
(* most once, and ends with a verdict.  "Found_bug" means that it reported *)
(* a failure (every one, when it does not stop at the first); "All_OK"     *)
(* that the program has none; "Exception" that a worker raised or that a   *)
(* failure could not be printed, in which case nothing is concluded.       *)
(***************************************************************************)
EXTENDS Naturals

VARIABLES
  failures,        \* the failures of the explored program
  stopAtFirst,     \* is one failure enough?
  mayRaise,        \* may a worker or the printing fail?
  reported,        \* the failures reported so far
  verdict

vars == <<failures, stopAtFirst, mayRaise, reported, verdict>>

Init == reported = {} /\ verdict = "running"

Report ==
  /\ \E failure \in failures \ reported : reported' = reported \cup {failure}
  /\ verdict' = IF stopAtFirst THEN "Found_bug" ELSE "running"

Conclude ==
  /\ reported = failures
  /\ verdict' = IF reported = {} THEN "All_OK" ELSE "Found_bug"
  /\ UNCHANGED reported

Raise ==
  /\ mayRaise
  /\ verdict' = "Exception"
  /\ UNCHANGED reported

Next ==
  /\ verdict = "running"
  /\ Report \/ Conclude \/ Raise
  /\ UNCHANGED <<failures, stopAtFirst, mayRaise>>

(* What a run may do, and that it ends. *)
Safety == Init /\ [][Next]_vars
Spec == Safety /\ WF_vars(Next)

-----------------------------------------------------------------------------
(* What a verdict says of the program. *)
VerdictSound ==
  /\ verdict = "All_OK" => failures = {}
  /\ verdict = "Found_bug" => reported # {}
  /\ verdict = "Found_bug" /\ ~stopAtFirst => reported = failures
=============================================================================
