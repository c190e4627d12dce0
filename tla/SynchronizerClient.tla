------------------------- MODULE SynchronizerClient -------------------------
(***************************************************************************)
(* A most general client of one synchronised container.  Any thread may    *)
(* call any operation at any time; the client respects only what every     *)
(* caller in the repository respects:                                      *)
(*   - a thread ends the pledge opened by it or for it and no other        *)
(*     (work_while ends the one its `get' opened, callback_close the one   *)
(*     callback_init opened before the worker was spawned);                *)
(*   - before the first `get' anyone may push or pledge (add_init_task and *)
(*     callback_init run before the reads); afterwards only a holder of a  *)
(*     pledge does.                                                        *)
(* A holder that calls `fail' may never end its pledge: that is what an    *)
(* exception raised inside work_while leaves behind.                       *)
(***************************************************************************)
EXTENDS Synchronizer

VARIABLES
  call,      \* per thread: "idle", or the kind of its pending `get'
  holders,   \* the threads that have a pledge to end
  started,   \* has some thread begun to pop?
  sawNone,   \* did a `get' return None on a container not yet failed?
  pushed,    \* history: the elements pushed, in order
  taken      \* history: the elements returned, in order

vars == <<sync, call, holders, started, sawNone, pushed, taken>>

Calls == {"idle", "plain", "pledge"}

SeqRange(s) == {s[i] : i \in 1 .. Len(s)}

TypeOK ==
  /\ sync \in SyncType
  /\ call \in [Threads -> Calls]
  /\ holders \in SUBSET Threads
  /\ started \in BOOLEAN
  /\ sawNone \in BOOLEAN
  /\ pushed \in Seq(Values)
  /\ taken \in Seq(Values)

Init ==
  /\ sync = Empty
  /\ call = [t \in Threads |-> "idle"]
  /\ holders = {}
  /\ started = FALSE
  /\ sawNone = FALSE
  /\ pushed = <<>>
  /\ taken = <<>>

MayFeed(t) == call[t] = "idle" /\ (started => t \in holders)

Call(t) ==
  /\ call[t] = "idle"
  /\ \E kind \in Calls \ {"idle"} :
       /\ kind = "pledge" => t \notin holders
       /\ call' = [call EXCEPT ![t] = kind]
  /\ started' = TRUE
  /\ UNCHANGED <<sync, holders, sawNone, pushed, taken>>

ReturnSome(t) ==
  /\ call[t] # "idle"
  /\ \E v \in Values : /\ GetSome(t, call[t] = "pledge", v)
                       /\ taken' = Append(taken, v)
  /\ call' = [call EXCEPT ![t] = "idle"]
  /\ holders' = IF call[t] = "pledge" THEN holders \cup {t} ELSE holders
  /\ UNCHANGED <<started, sawNone, pushed>>

ReturnNone(t) ==
  /\ call[t] # "idle"
  /\ GetNone(t)
  /\ call' = [call EXCEPT ![t] = "idle"]
  /\ sawNone' = (sawNone \/ ~sync.closed)
  /\ UNCHANGED <<holders, started, pushed, taken>>

Block(t) ==
  /\ call[t] # "idle"
  /\ GetWait(t)
  /\ UNCHANGED <<call, holders, started, sawNone, pushed, taken>>

Spurious(t) ==
  /\ SpuriousWakeup(t)
  /\ UNCHANGED <<call, holders, started, sawNone, pushed, taken>>

(* Each element is pushed once, so that the histories tell them apart. *)
Push(t) ==
  /\ MayFeed(t)
  /\ \E v \in Values \ SeqRange(pushed) : /\ Write(v)
                                          /\ pushed' = Append(pushed, v)
  /\ UNCHANGED <<call, holders, started, sawNone, taken>>

Pledge(t, u) ==
  /\ MayFeed(t)
  /\ call[u] = "idle"
  /\ u \notin holders
  /\ MakePledge
  /\ holders' = holders \cup {u}
  /\ UNCHANGED <<call, started, sawNone, pushed, taken>>

End(t) ==
  /\ call[t] = "idle"
  /\ t \in holders
  /\ EndPledge
  /\ holders' = holders \ {t}
  /\ UNCHANGED <<call, started, sawNone, pushed, taken>>

Crash(t) ==
  /\ call[t] = "idle"
  /\ Fail
  /\ UNCHANGED <<call, holders, started, sawNone, pushed, taken>>

Next ==
  \E t \in Threads :
    \/ Call(t) \/ ReturnSome(t) \/ ReturnNone(t) \/ Block(t) \/ Spurious(t)
    \/ Push(t) \/ End(t) \/ Crash(t)
    \/ \E u \in Threads : Pledge(t, u)

Spec == Init /\ [][Next]_vars

-----------------------------------------------------------------------------
(* Blocked threads and the threads between wake-up and retry are the ones   *)
(* inside `get' (synchronizer.ml:29-31).                                    *)
OnlyCallersWait ==
  /\ sync.waiting \cap sync.woken = {}
  /\ \A t \in sync.waiting \cup sync.woken : call[t] # "idle"

(* No wake-up is lost: `push' signals a single thread, yet whenever a       *)
(* thread still sleeps there are at least as many threads on their way as   *)
(* elements to take, however many other threads steal elements in between.  *)
NoLostWakeup ==
  sync.waiting # {} => Len(sync.buf) <= Cardinality(sync.woken)

(* Nobody sleeps in vain: a thread sleeps only while a pledge is open on a  *)
(* container that has not failed, so someone is left to wake it.            *)
SleepersHavePledge ==
  sync.waiting # {} => sync.pledges > 0 /\ ~sync.closed

(* The counter never drifts from the pledges that are really open, so it    *)
(* reaches 0, the code's end-of-work test, exactly when the last one ends.  *)
PledgesAccounted == sync.pledges = Cardinality(holders)

(* None is final: once some `get' has returned None on a container that had *)
(* not failed, the container stays empty and nobody can feed it again, so   *)
(* a thread that stops on None misses nothing.                              *)
NoneIsFinal ==
  sawNone => sync.buf = <<>> /\ holders = {}

(* Every element pushed is in the container or was returned, never both and *)
(* never twice.                                                             *)
ExactlyOnce ==
  /\ SeqRange(pushed) = SeqRange(taken) \cup SeqRange(sync.buf)
  /\ Len(pushed) = Len(taken) + Len(sync.buf)
  /\ \A i, j \in 1 .. Len(taken) : taken[i] = taken[j] => i = j

(* What makes it inductive: what the container holds differs, and was not   *)
(* returned.                                                                *)
NotYetTaken ==
  /\ \A i, j \in 1 .. Len(sync.buf) : sync.buf[i] = sync.buf[j] => i = j
  /\ SeqRange(taken) \cap SeqRange(sync.buf) = {}

(* A pending pledging `get' opens no second pledge of its thread, and None  *)
(* is only ever seen after the popping began.                               *)
CallsInOrder ==
  /\ \A t \in Threads : /\ call[t] = "pledge" => t \notin holders
                        /\ call[t] # "idle" => started
  /\ sawNone => started

(* The invariant that makes the safety properties above inductive.          *)
Inv ==
  /\ TypeOK
  /\ OnlyCallersWait
  /\ NoLostWakeup
  /\ SleepersHavePledge
  /\ PledgesAccounted
  /\ NoneIsFinal
  /\ CallsInOrder

=============================================================================
