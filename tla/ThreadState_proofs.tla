------------------------- MODULE ThreadState_proofs -------------------------
(***************************************************************************)
(* A path whose own instructions are sound sees its effects and no others, *)
(* and its instructions use current handles: for any program, any objects  *)
(* and any number of paths.                                                *)
(*                                                                         *)
(* An instruction changes one store: the one its handle is of, which is no *)
(* other path's (MineOnly).  A choice adds clones, which are nobody's yet. *)
(* So a step is right if the paths it leaves behind are (OnePath and       *)
(* TwoPaths): every other path is as good as before (StaysGood).           *)
(***************************************************************************)
EXTENDS ThreadState, TLAPS

Ids == 1 .. Len(stores)

(* The fields of a path. *)
LEMMA PathFields ==
  ASSUME TypeOK, NEW i \in 1 .. Len(paths)
  PROVE  /\ paths[i] \in Paths
         /\ paths[i].store \in Nat /\ paths[i].handle \in Nat
         /\ paths[i].rest \in Seq(StageNames) /\ paths[i].instr \in DOMAIN Stages \cup {"none"}
         /\ paths[i].operands \in {"concrete", "address", "size"}
         /\ paths[i].cells \subseteq Cells /\ paths[i].ops \in Nat
         /\ paths[i].strayed \in BOOLEAN /\ paths[i].want \in [Kinds -> Live]
<1>1. paths[i] \in Paths
  BY DEF TypeOK
<1> QED BY <1>1 DEF Paths

(* What instructions are made of. *)
LEMMA StageFacts ==
  ASSUME NEW instr \in DOMAIN Stages
  PROVE  /\ Stages[instr] \in Seq(StageNames) /\ Stages[instr] # <<>>
         /\ LiftLast(Stages[instr])
         /\ instr = "store" => Stages[instr] = <<"check", "reread", "lift">>
<1>1. instr \in {"store", "memory_grow", "memory_fill", "memory_copy",
                 "memory_init", "table_set", "table_grow", "table_fill",
                 "table_copy", "table_init", "global_set"}
  BY DEF Stages
<1>2. CASE instr = "store"
  <2>1. Stages[instr] = <<"check", "reread", "lift">>
    BY <1>2 DEF Stages
  <2> QED BY <1>2, <2>1 DEF StageNames, LiftLast
<1>3. CASE instr = "memory_grow"
  <2>1. Stages[instr] = <<"check", "grow">>
    BY <1>3 DEF Stages
  <2> QED BY <1>3, <2>1 DEF StageNames, LiftLast
<1>4. CASE instr = "memory_fill"
  <2>1. Stages[instr] = <<"check", "select", "lift">>
    BY <1>4 DEF Stages
  <2> QED BY <1>4, <2>1 DEF StageNames, LiftLast
<1>5. CASE instr = "memory_init"
  <2>1. Stages[instr] = <<"check", "write">>
    BY <1>5 DEF Stages
  <2> QED BY <1>5, <2>1 DEF StageNames, LiftLast
<1>6. CASE instr = "table_set"
  <2>1. Stages[instr] = <<"select", "write">>
    BY <1>6 DEF Stages
  <2> QED BY <1>6, <2>1 DEF StageNames, LiftLast
<1>7. CASE instr = "table_grow"
  <2>1. Stages[instr] = <<"check", "select", "grow">>
    BY <1>7 DEF Stages
  <2> QED BY <1>7, <2>1 DEF StageNames, LiftLast
<1>8. CASE instr = "table_fill"
  <2>1. Stages[instr] = <<"check", "select", "write">>
    BY <1>8 DEF Stages
  <2> QED BY <1>8, <2>1 DEF StageNames, LiftLast
<1>9. CASE instr = "global_set"
  <2>1. Stages[instr] = <<"write">>
    BY <1>9 DEF Stages
  <2> QED BY <1>9, <2>1 DEF StageNames, LiftLast
<1>10. CASE instr = "memory_copy"
  <2>1. Stages[instr] = <<"check", "lift">>
    BY <1>10 DEF Stages
  <2> QED BY <1>10, <2>1 DEF StageNames, LiftLast
<1>11. CASE instr = "table_copy"
  <2>1. Stages[instr] = <<"check", "check", "select", "write">>
    BY <1>11 DEF Stages
  <2> QED BY <1>11, <2>1 DEF StageNames, LiftLast
<1>12. CASE instr = "table_init"
  <2>1. Stages[instr] = <<"check", "select", "write">>
    BY <1>12 DEF Stages
  <2> QED BY <1>12, <2>1 DEF StageNames, LiftLast
<1> QED BY <1>1, <1>2, <1>3, <1>4, <1>5, <1>6, <1>7, <1>8, <1>9, <1>10, <1>11, <1>12

LEMMA KindIsKind == \A instr : Kind(instr) \in Kinds
BY DEF Kind, Kinds

(* A stage done is taken off. *)
LEMMA RestOfStages ==
  ASSUME NEW r \in Seq(StageNames), r # <<>>, LiftLast(r)
  PROVE  /\ Tail(r) \in Seq(StageNames) /\ LiftLast(Tail(r))
         /\ Head(r) = "lift" => Tail(r) = <<>>
<1> DEFINE t == Tail(r)
           m == Len(r)
<1>1. t \in Seq(StageNames)
  OBVIOUS
<1>2. Len(t) = m - 1 /\ m \in Nat \ {0}
  OBVIOUS
<1>3. \A n \in 1 .. m : r[n] = "lift" => n = m
  BY DEF LiftLast
<1>4. \A k \in 1 .. Len(t) : t[k] = r[k + 1]
  OBVIOUS
<1>5. Head(r) = r[1]
  OBVIOUS
<1> HIDE DEF t, m
<1>6. t = <<>> \/ Len(t) # 0
  BY <1>1
<1>7. ASSUME NEW k \in 1 .. Len(t), t[k] = "lift" PROVE k = Len(t)
  <2>1. r[k + 1] = "lift"
    BY <1>4, <1>7
  <2>2. k + 1 \in 1 .. m /\ k \in Nat
    BY <1>2
  <2>3. k + 1 = m
    BY <1>3, <2>1, <2>2
  <2> QED BY <1>2, <2>2, <2>3
<1>8. ASSUME Head(r) = "lift" PROVE t = <<>>
  BY <1>2, <1>3, <1>5, <1>6, <1>8
<1> QED BY <1>1, <1>7, <1>8 DEF LiftLast, t

(* An object that was converted stays one that was. *)
LEMMA ObjectFacts ==
  /\ Original \in Live /\ Absent \notin Live
  /\ \A o \in Live : Grown(o) \in Live /\ Converted(o) = o /\ o # Absent
  /\ \A o \in Live, i \in Nat : \A c : Put(o, i, c) \in Live
  /\ \A o \in Live \cup {Absent} : Converted(o) \in Live
BY DEF Original, Absent, Live, Grown, Put, Converted

-----------------------------------------------------------------------------
(* The stores of a step: at most the one named s changes, what was          *)
(* converted stays so, and some may be added.                               *)
Extends(s) ==
  /\ stores' \in Seq(Stores) /\ Len(stores) <= Len(stores')
  /\ \A t \in Ids : t # s => stores'[t] = stores[t]
  /\ \A t \in Ids, k \in Kinds : stores[t][k] # Absent => stores'[t][k] # Absent

(* The stores only path i may change, and those that are new. *)
Mine(i, s) ==
  \/ s = paths[i].store
  \/ ~Idle(i) /\ s = paths[i].handle
  \/ s \in Nat \ Ids

(* No other path has a store that is path i's. *)
LEMMA MineOnly ==
  ASSUME ThreadInv, NEW i \in 1 .. Len(paths), NEW j \in 1 .. Len(paths), i # j,
         NEW s, Mine(i, s)
  PROVE  paths[j].store # s
BY DEF ThreadInv, Apart, Mine, Good, Ids

(* A path whose store a step does not change is as good as before. *)
LEMMA StaysGood ==
  ASSUME TypeOK, NEW p \in Paths, Good(stores, p), NEW s, Extends(s), p.store # s
  PROVE  Good(stores', p)
<1>1. p.store \in Ids /\ p.handle \in Ids /\ Len(stores) \in Nat /\ Len(stores') \in Nat
  BY DEF Good, Ids, TypeOK, Extends
<1>2. p.store \in 1 .. Len(stores') /\ p.handle \in 1 .. Len(stores')
  BY <1>1 DEF Extends, Ids
<1>3. stores'[p.store] = stores[p.store]
  BY <1>1 DEF Extends
<1>4. ASSUME p.rest # <<>> PROVE UnderWay(stores', p)
  <2>1. UnderWay(stores, p)
    BY <1>4 DEF Good
  <2>2. stores'[p.handle][Kind(p.instr)] # Absent
    BY <1>1, <2>1, KindIsKind DEF UnderWay, Extends
  <2> QED BY <1>3, <2>1, <2>2 DEF UnderWay
<1> QED BY <1>2, <1>3, <1>4 DEF Good

(* A step that leaves one path behind: it uses what is its own. *)
LEMMA OnePath ==
  ASSUME ThreadInv, NEW i \in 1 .. Len(paths), NEW p \in Paths, Became(i, p),
         NEW s, Extends(s), Mine(i, s), Good(stores', p),
         p.store = paths[i].store \/ p.store \in Nat \ Ids,
         p.rest # <<>> => Mine(i, p.handle)
  PROVE  ThreadInv'
<1>0. Mine(i, p.store)
  BY DEF Mine
<1>1. TypeOK /\ paths \in Seq(Paths)
  BY DEF ThreadInv, TypeOK
<1>2. /\ paths' \in Seq(Paths) /\ Len(paths') = Len(paths)
      /\ paths'[i] = p /\ \A j \in 1 .. Len(paths) : j # i => paths'[j] = paths[j]
  BY <1>1 DEF Became
<1>3. TypeOK'
  BY <1>2 DEF TypeOK, Extends
<1>4. Apart'
  <2> SUFFICES ASSUME NEW u \in 1 .. Len(paths), NEW v \in 1 .. Len(paths), u # v
               PROVE  /\ paths'[u].store # paths'[v].store
                      /\ paths'[u].rest # <<>> => paths'[u].handle # paths'[v].store
    BY <1>2 DEF Apart, Idle
  <2>1. CASE u = i
    BY <1>0, <1>2, <2>1, MineOnly
  <2>2. CASE v = i
    <3>1. paths[u].store # p.store
      BY <1>0, <2>2, MineOnly
    <3>2. ASSUME ~Idle(u) PROVE paths[u].handle # p.store
      <4>1. paths[u].handle # paths[i].store /\ paths[u].handle \in Ids
        BY <2>2, <3>2 DEF ThreadInv, Apart, Good, Ids
      <4>2. CASE p.store = paths[i].store
        BY <4>1, <4>2
      <4>3. CASE p.store \in Nat \ Ids
        BY <4>1, <4>3
      <4> QED BY <4>2, <4>3
    <3> QED BY <1>2, <2>2, <3>1, <3>2 DEF Idle
  <2>3. CASE u # i /\ v # i
    BY <1>2, <2>3 DEF ThreadInv, Apart, Idle
  <2> QED BY <2>1, <2>2, <2>3
<1>5. \A j \in 1 .. Len(paths') : Good(stores', paths'[j])
  <2> SUFFICES ASSUME NEW j \in 1 .. Len(paths), j # i PROVE Good(stores', paths[j])
    BY <1>2
  <2> QED BY <1>1, MineOnly, StaysGood DEF ThreadInv, TypeOK
<1> QED BY <1>3, <1>4, <1>5 DEF ThreadInv

(* A step that leaves two behind, the second one last. *)
LEMMA TwoPaths ==
  ASSUME ThreadInv, NEW i \in 1 .. Len(paths), NEW p \in Paths, NEW q \in Paths,
         paths' = Append([paths EXCEPT ![i] = p], q),
         NEW s, Extends(s), Mine(i, s), Good(stores', p), Good(stores', q),
         p.store = paths[i].store \/ p.store \in Nat \ Ids,
         q.store = paths[i].store \/ q.store \in Nat \ Ids,
         p.store # q.store,
         p.rest # <<>> => Mine(i, p.handle) /\ p.handle # q.store,
         q.rest # <<>> => Mine(i, q.handle) /\ q.handle # p.store
  PROVE  ThreadInv'
<1> DEFINE n == Len(paths)
<1>0. Mine(i, p.store) /\ Mine(i, q.store)
  BY DEF Mine
<1>1. TypeOK /\ paths \in Seq(Paths) /\ n \in Nat
  BY DEF ThreadInv, TypeOK
<1>2. /\ paths' \in Seq(Paths) /\ Len(paths') = n + 1
      /\ paths'[i] = p /\ paths'[n + 1] = q
      /\ \A j \in 1 .. n : j # i => paths'[j] = paths[j]
  BY <1>1
<1>3. TypeOK'
  BY <1>2 DEF TypeOK, Extends
<1>4. \A u \in 1 .. n + 1 : u \in 1 .. n \/ u = n + 1
  BY <1>1
<1>5. ASSUME NEW u \in 1 .. n, u # i
      PROVE  /\ paths'[u] = paths[u]
             /\ paths[u].store # p.store /\ paths[u].store # q.store
             /\ paths[u].rest # <<>> => paths[u].handle # p.store /\ paths[u].handle # q.store
             /\ p.rest # <<>> => p.handle # paths[u].store
             /\ q.rest # <<>> => q.handle # paths[u].store
  <2>1. paths'[u] = paths[u]
    BY <1>2, <1>5
  <2>2. paths[u].store # p.store /\ paths[u].store # q.store
    BY <1>0, <1>5, MineOnly
  <2>3. p.rest # <<>> => p.handle # paths[u].store
    BY <1>5, MineOnly
  <2>4. q.rest # <<>> => q.handle # paths[u].store
    BY <1>5, MineOnly
  <2>5. ASSUME paths[u].rest # <<>>
        PROVE  paths[u].handle # p.store /\ paths[u].handle # q.store
    <3>1. paths[u].handle # paths[i].store /\ paths[u].handle \in Ids
      BY <1>5, <2>5 DEF ThreadInv, Apart, Idle, Good, Ids
    <3>2. paths[u].handle # p.store
      BY <3>1
    <3>3. paths[u].handle # q.store
      BY <3>1
    <3> QED BY <3>2, <3>3
  <2> QED BY <2>1, <2>2, <2>3, <2>4, <2>5
<1>6. Apart'
  <2> SUFFICES ASSUME NEW u \in 1 .. n + 1, NEW v \in 1 .. n + 1, u # v
               PROVE  /\ paths'[u].store # paths'[v].store
                      /\ paths'[u].rest # <<>> => paths'[u].handle # paths'[v].store
    BY <1>2 DEF Apart, Idle
  <2>1. CASE u = n + 1
    <3>1. v \in 1 .. n
      BY <1>4, <2>1
    <3>2. CASE v = i
      BY <1>2, <2>1, <3>2
    <3>3. CASE v # i
      BY <1>2, <1>5, <2>1, <3>1, <3>3
    <3> QED BY <3>2, <3>3
  <2>2. CASE v = n + 1
    <3>1. u \in 1 .. n
      BY <1>4, <2>2
    <3>2. CASE u = i
      BY <1>2, <2>2, <3>2
    <3>3. CASE u # i
      BY <1>2, <1>5, <2>2, <3>1, <3>3
    <3> QED BY <3>2, <3>3
  <2>3. CASE u # n + 1 /\ v # n + 1
    <3>1. u \in 1 .. n /\ v \in 1 .. n
      BY <1>4, <2>3
    <3>2. CASE u = i
      BY <1>2, <1>5, <3>1, <3>2
    <3>3. CASE v = i
      BY <1>2, <1>5, <3>1, <3>3
    <3>4. CASE u # i /\ v # i
      BY <1>2, <3>1, <3>4 DEF ThreadInv, Apart, Idle
    <3> QED BY <3>2, <3>3, <3>4
  <2> QED BY <2>1, <2>2, <2>3
<1>7. \A j \in 1 .. Len(paths') : Good(stores', paths'[j])
  <2> SUFFICES ASSUME NEW j \in 1 .. n, j # i PROVE Good(stores', paths[j])
    BY <1>2, <1>4
  <2>1. Good(stores, paths[j]) /\ paths[j] \in Paths /\ paths[j].store # s
    BY <1>1, MineOnly DEF ThreadInv
  <2> QED BY <1>1, <2>1, StaysGood
<1> QED BY <1>3, <1>6, <1>7 DEF ThreadInv

-----------------------------------------------------------------------------
(* The stores in which object k of store h became o. *)
Changing(h, k, o) == [stores EXCEPT ![h][k] = o]

LEMMA Changed ==
  ASSUME TypeOK, NEW h \in Ids, NEW k \in Kinds, NEW o \in Live
  PROVE  LET w == Changing(h, k, o)
         IN  /\ w \in Seq(Stores) /\ Len(w) = Len(stores)
             /\ w[h][k] = o /\ \A x \in Kinds : x # k => w[h][x] = stores[h][x]
             /\ \A t \in Ids : t # h => w[t] = stores[t]
             /\ \A t \in Ids, x \in Kinds : stores[t][x] # Absent => w[t][x] # Absent
<1> DEFINE w == Changing(h, k, o)
<1>1. stores \in Seq(Stores) /\ stores[h] \in Stores
  BY DEF TypeOK, Ids
<1>2. w = [stores EXCEPT ![h] = [stores[h] EXCEPT ![k] = o]]
  BY DEF Changing
<1> DEFINE a == [stores[h] EXCEPT ![k] = o]
<1>3. a \in Stores /\ a[k] = o /\ \A x \in Kinds : x # k => a[x] = stores[h][x]
  BY <1>1 DEF Stores
<1>4. w = [stores EXCEPT ![h] = a]
  BY <1>2
<1> HIDE DEF a, w
<1>5. /\ w \in Seq(Stores) /\ Len(w) = Len(stores) /\ w[h] = a
      /\ \A t \in Ids : t # h => w[t] = stores[t]
  BY <1>1, <1>3, <1>4 DEF Ids
<1>6. o # Absent
  BY ObjectFacts
<1> QED BY <1>3, <1>5, <1>6 DEF w

(* A step that only changes object k of store h, *)
LEMMA ChangeExtends ==
  ASSUME TypeOK, NEW h \in Ids, NEW k \in Kinds, NEW o \in Live,
         stores' = Changing(h, k, o)
  PROVE  /\ Extends(h) /\ Len(stores') = Len(stores)
         /\ stores'[h][k] = o /\ \A x \in Kinds : x # k => stores'[h][x] = stores[h][x]
<1>1. /\ stores' \in Seq(Stores) /\ Len(stores') = Len(stores)
      /\ stores'[h][k] = o /\ \A x \in Kinds : x # k => stores'[h][x] = stores[h][x]
      /\ \A t \in Ids : t # h => stores'[t] = stores[t]
      /\ \A t \in Ids, x \in Kinds : stores[t][x] # Absent => stores'[t][x] # Absent
  BY Changed
<1>2. Len(stores) \in Nat
  BY DEF TypeOK
<1>3. Len(stores) <= Len(stores')
  BY <1>1, <1>2
<1>4. Extends(h)
  BY <1>1, <1>3 DEF Extends
<1> QED BY <1>1, <1>4

(* one that only adds a clone, *)
LEMMA CloneExtends ==
  ASSUME TypeOK, NEW t \in Ids, stores' = Append(stores, stores[t])
  PROVE  /\ \A s : Extends(s)
         /\ Len(stores') = Len(stores) + 1 /\ stores'[Len(stores) + 1] = stores[t]
         /\ Len(stores) + 1 \in Nat \ Ids
<1>1. stores \in Seq(Stores) /\ stores[t] \in Stores /\ Len(stores) \in Nat
  BY DEF TypeOK, Ids
<1>2. /\ stores' \in Seq(Stores) /\ Len(stores') = Len(stores) + 1
      /\ \A u \in Ids : stores'[u] = stores[u]
      /\ \A u \in Ids, k \in Kinds : stores[u][k] # Absent => stores'[u][k] # Absent
  BY <1>1 DEF Ids
<1>3. stores'[Len(stores) + 1] = stores[t] /\ Len(stores) + 1 \in Nat \ Ids
  BY <1>1 DEF Ids
<1>4. Len(stores) <= Len(stores')
  BY <1>1, <1>2
<1>5. \A s : Extends(s)
  BY <1>2, <1>4 DEF Extends
<1> QED BY <1>2, <1>3, <1>5

(* and one that adds two. *)
LEMMA ClonesExtend ==
  ASSUME TypeOK, NEW t \in Ids, stores' = stores \o <<stores[t], stores[t]>>
  PROVE  /\ \A s : Extends(s)
         /\ Len(stores') = Len(stores) + 2
         /\ stores'[Len(stores) + 1] = stores[t] /\ stores'[Len(stores) + 2] = stores[t]
         /\ Len(stores) + 1 \in Nat \ Ids /\ Len(stores) + 2 \in Nat \ Ids
<1>1. stores \in Seq(Stores) /\ stores[t] \in Stores /\ Len(stores) \in Nat
  BY DEF TypeOK, Ids
<1>2. <<stores[t], stores[t]>> \in Seq(Stores)
  BY <1>1
<1>3. /\ stores' \in Seq(Stores) /\ Len(stores') = Len(stores) + 2
      /\ \A u \in Ids : stores'[u] = stores[u]
      /\ \A u \in Ids, k \in Kinds : stores[u][k] # Absent => stores'[u][k] # Absent
  BY <1>1, <1>2 DEF Ids
<1>4. stores'[Len(stores) + 1] = stores[t] /\ stores'[Len(stores) + 2] = stores[t]
      /\ Len(stores) + 1 \in Nat \ Ids /\ Len(stores) + 2 \in Nat \ Ids
  BY <1>1, <1>2 DEF Ids
<1>5. Len(stores) <= Len(stores')
  BY <1>1, <1>3
<1>6. \A s : Extends(s)
  BY <1>3, <1>5 DEF Extends
<1> QED BY <1>3, <1>4, <1>6

-----------------------------------------------------------------------------
(* Path r follows path p in the middle of an instruction: it has done a     *)
(* stage or goes on with the same one, from the same handle.                *)
LEMMA NextStage ==
  ASSUME TypeOK, NEW p \in Paths, p.rest # <<>>, Good(stores, p),
         NEW s, Extends(s), NEW r \in Paths,
         r.rest = p.rest \/ r.rest = Tail(p.rest),
         r.instr = p.instr, r.operands = p.operands, r.strayed = p.strayed,
         r.handle = p.handle, r.store \in 1 .. Len(stores'),
         stores'[r.store][Kind(p.instr)] # Absent,
         r.operands = "concrete" => r.store = p.store,
         \/ <<p.instr, p.operands>> # <<"store", "size">>
         \/ r.rest \in {<<"reread", "lift">>, <<>>}
  PROVE  r.rest # <<>> => UnderWay(stores', r)
<1>1. UnderWay(stores, p) /\ p.handle \in Ids
  BY DEF Good, Ids
<1>2. LiftLast(r.rest)
  <2>1. LiftLast(p.rest) /\ p.rest \in Seq(StageNames)
    BY <1>1 DEF UnderWay, Paths
  <2> QED BY <2>1, RestOfStages
<1>3. stores'[p.handle][Kind(p.instr)] # Absent
  BY <1>1, KindIsKind DEF UnderWay, Extends
<1> QED BY <1>1, <1>2, <1>3 DEF UnderWay

(* What a path in the middle of an instruction is. *)
LEMMA InTheMiddle ==
  ASSUME ThreadInv, NEW i \in 1 .. Len(paths), paths[i].rest # <<>>
  PROVE  /\ TypeOK /\ Good(stores, paths[i]) /\ UnderWay(stores, paths[i])
         /\ Done(paths[i]) \in Paths
         /\ paths[i].store \in Ids /\ paths[i].handle \in Ids
         /\ Mine(i, paths[i].store) /\ Mine(i, paths[i].handle)
         /\ KindOf(i) \in Kinds
<1>1. TypeOK /\ Good(stores, paths[i]) /\ UnderWay(stores, paths[i])
  BY DEF ThreadInv, Good
<1>2. Done(paths[i]) \in Paths
  <2>1. paths[i] \in Paths /\ paths[i].rest \in Seq(StageNames)
    BY <1>1, PathFields
  <2>2. Tail(paths[i].rest) \in Seq(StageNames)
    BY <2>1
  <2> QED BY <2>1, <2>2 DEF Done, Paths
<1>3. Mine(i, paths[i].store) /\ Mine(i, paths[i].handle)
  BY DEF Mine, Idle
<1> QED BY <1>1, <1>2, <1>3, KindIsKind DEF Good, Ids, KindOf

-----------------------------------------------------------------------------
(* Both branches of a choice start with a clone of their own.               *)
LEMMA BranchKeeps ==
  ASSUME ThreadInv, NEW i \in 1 .. Len(paths), Branch(i)
  PROVE  ThreadInv'
<1> DEFINE x == paths[i]
           p == [x EXCEPT !.store = CloneId(x, 1)]
           q == [x EXCEPT !.store = CloneId(x, 2)]
<1>1. TypeOK /\ x \in Paths /\ Good(stores, x) /\ x.rest = <<>> /\ x.store \in Ids
  BY PathFields DEF ThreadInv, Branch, Idle, Good, Ids
<1>2. /\ stores' = stores \o <<stores[x.store], stores[x.store]>>
      /\ paths' = Append([paths EXCEPT ![i] = p], q)
  BY DEF Branch, Choose
<1>3. /\ \A s : Extends(s)
      /\ Len(stores') = Len(stores) + 2
      /\ stores'[Len(stores) + 1] = stores[x.store]
      /\ stores'[Len(stores) + 2] = stores[x.store]
      /\ Len(stores) + 1 \in Nat \ Ids /\ Len(stores) + 2 \in Nat \ Ids
  BY <1>1, <1>2, ClonesExtend
<1>4. /\ p \in Paths /\ p.store = Len(stores) + 1 /\ p.rest = <<>> /\ p.handle = x.handle
      /\ p.strayed = x.strayed /\ p.want = x.want
  BY <1>1, <1>3 DEF Paths, CloneId
<1>5. /\ q \in Paths /\ q.store = Len(stores) + 2 /\ q.rest = <<>> /\ q.handle = x.handle
      /\ q.strayed = x.strayed /\ q.want = x.want
  BY <1>1, <1>3 DEF Paths, CloneId
<1>6. Len(stores) \in Nat /\ x.handle \in 1 .. Len(stores)
  BY <1>1 DEF TypeOK, Good
<1> HIDE DEF p, q
<1>7. Good(stores', p) /\ Good(stores', q)
  BY <1>1, <1>3, <1>4, <1>5, <1>6 DEF Good
<1>8. p.store # q.store
  BY <1>4, <1>5, <1>6
<1>9. Mine(i, x.store)
  BY DEF Mine
<1> QED BY <1>2, <1>3, <1>4, <1>5, <1>7, <1>8, <1>9, TwoPaths

(* An instruction takes its handle from the store of its path, and converts *)
(* the object the first time.                                               *)
LEMMA FetchKeeps ==
  ASSUME ThreadInv, NEW i \in 1 .. Len(paths), Fetch(i)
  PROVE  ThreadInv'
<1> DEFINE x == paths[i]
<1>1. /\ TypeOK /\ x \in Paths /\ Good(stores, x) /\ x.store \in Ids
      /\ x.store \in 1 .. Len(stores)
  BY PathFields DEF ThreadInv, Good, Ids
<1>2. PICK instr \in Instrs :
        /\ stores' = [stores EXCEPT ![x.store][Kind(instr)] = Converted(@)]
        /\ \E operands \in {"concrete"} \cup
                            {y \in {"address", "size"} : <<instr, y>> \in Symbolic} :
             Became(i, [x EXCEPT !.instr = instr, !.rest = Stages[instr],
                                 !.handle = x.store, !.operands = operands,
                                 !.strayed = @ \/ ~Sound(instr, operands),
                                 !.cells = Cells, !.ops = @ + 1])
  BY DEF Fetch
<1>3. PICK operands \in {"concrete", "address", "size"} :
        Became(i, [x EXCEPT !.instr = instr, !.rest = Stages[instr],
                            !.handle = x.store, !.operands = operands,
                            !.strayed = @ \/ ~Sound(instr, operands),
                            !.cells = Cells, !.ops = @ + 1])
  BY <1>2
<1> DEFINE k == Kind(instr)
           o == Converted(stores[x.store][k])
           p == [x EXCEPT !.instr = instr, !.rest = Stages[instr],
                          !.handle = x.store, !.operands = operands,
                          !.strayed = @ \/ ~Sound(instr, operands),
                          !.cells = Cells, !.ops = @ + 1]
<1>4. instr \in DOMAIN Stages /\ instr # "none"
  BY InstrsAssumption DEF Stages
<1>5. k \in Kinds /\ o \in Live
  <2>1. stores[x.store][k] \in Live \cup {Absent}
    BY <1>1, KindIsKind DEF TypeOK, Stores
  <2> QED BY <2>1, KindIsKind, ObjectFacts
<1>6. stores' = Changing(x.store, k, o)
  BY <1>2 DEF Changing
<1>7. /\ Extends(x.store) /\ Len(stores') = Len(stores)
      /\ stores'[x.store][k] = o
      /\ \A y \in Kinds : y # k => stores'[x.store][y] = stores[x.store][y]
  BY <1>1, <1>5, <1>6, ChangeExtends
<1>8. /\ Stages[instr] \in Seq(StageNames) /\ LiftLast(Stages[instr])
      /\ instr = "store" => Stages[instr] = <<"check", "reread", "lift">>
  BY <1>4, StageFacts
<1>9. /\ p \in Paths /\ p.store = x.store /\ p.handle = x.store /\ p.rest = Stages[instr]
      /\ p.instr = instr /\ p.operands = operands /\ p.want = x.want
      /\ p.strayed = (x.strayed \/ ~Sound(instr, operands))
  <2> DEFINE strayed == x.strayed \/ ~Sound(instr, operands)
             ops == x.ops + 1
             called == DOMAIN Stages \cup {"none"}
  <2>1. strayed \in BOOLEAN /\ ops \in Nat /\ instr \in called /\ x.store \in Nat
    BY <1>1, <1>4, PathFields
  <2>2. p = [x EXCEPT !.instr = instr, !.rest = Stages[instr],
                      !.handle = x.store, !.operands = operands,
                      !.strayed = strayed, !.cells = Cells, !.ops = ops]
    OBVIOUS
  <2> HIDE DEF strayed, ops, p
  <2>3. x \in [store : Nat, rest : Seq(StageNames), instr : called,
                handle : Nat, operands : {"concrete", "address", "size"},
                cells : SUBSET Cells, ops : Nat, strayed : BOOLEAN, want : [Kinds -> Live]]
    BY <1>1 DEF Paths
  <2> HIDE DEF called
  <2>4. p \in [store : Nat, rest : Seq(StageNames), instr : called,
                handle : Nat, operands : {"concrete", "address", "size"},
                cells : SUBSET Cells, ops : Nat, strayed : BOOLEAN, want : [Kinds -> Live]]
    BY <1>8, <2>1, <2>2, <2>3
  <2>5. /\ p.store = x.store /\ p.handle = x.store /\ p.rest = Stages[instr]
        /\ p.instr = instr /\ p.operands = operands /\ p.want = x.want
        /\ p.strayed = strayed
    BY <2>2, <2>3
  <2> QED BY <2>4, <2>5 DEF Paths, strayed, called
<1> HIDE DEF p, o
<1>10. o # Absent /\ Converted(o) = o
  BY <1>5, ObjectFacts
<1>11. UnderWay(stores', p)
  BY <1>4, <1>7, <1>8, <1>9, <1>10 DEF UnderWay
<1>12. ASSUME ~p.strayed, NEW y \in Kinds PROVE Converted(stores'[p.store][y]) = p.want[y]
  <2>1. Converted(stores[x.store][y]) = x.want[y]
    BY <1>1, <1>9, <1>12 DEF Good
  <2> QED BY <1>7, <1>9, <1>10, <2>1 DEF o
<1>13. Good(stores', p)
  BY <1>1, <1>7, <1>9, <1>11, <1>12 DEF Good
<1>14. Became(i, p) /\ Mine(i, x.store)
  BY <1>3 DEF p, Mine
<1> QED BY <1>7, <1>9, <1>13, <1>14, OnePath

(* A check against what is symbolic moves the path to a clone; the handle is*)
(* still of the store it was.                                               *)
LEMMA CheckKeeps ==
  ASSUME ThreadInv, NEW i \in 1 .. Len(paths), Check(i)
  PROVE  ThreadInv'
<1> DEFINE x == paths[i]
           d == Done(x)
           p == [d EXCEPT !.store = CloneId(d, 1)]
<1>1. /\ TypeOK /\ Good(stores, x) /\ UnderWay(stores, x)
      /\ d \in Paths /\ x \in Paths
      /\ x.store \in Ids /\ x.handle \in Ids
      /\ Mine(i, x.store) /\ Mine(i, x.handle)
      /\ x.rest # <<>> /\ Head(x.rest) = "check"
  BY InTheMiddle, PathFields DEF Check, At
<1>2. /\ d.rest = Tail(x.rest) /\ d.instr = x.instr /\ d.operands = x.operands
      /\ d.strayed = x.strayed /\ d.handle = x.handle /\ d.store = x.store
      /\ d.want = x.want
  BY <1>1 DEF Done, Paths
<1>3. /\ p \in Paths /\ p.rest = d.rest /\ p.instr = d.instr /\ p.operands = d.operands
      /\ p.strayed = d.strayed /\ p.handle = d.handle /\ p.store = Len(stores) + 1
      /\ p.want = d.want
  <2>1. Len(stores) + 1 \in Nat
    BY <1>1 DEF TypeOK
  <2> QED BY <1>1, <2>1 DEF CloneId, Paths
<1>4. \/ <<x.instr, x.operands>> # <<"store", "size">>
      \/ Tail(x.rest) = <<"reread", "lift">>
  <2>1. CASE x.rest = <<"check", "reread", "lift">>
    BY <2>1
  <2>2. CASE x.rest = <<"lift">> \/ x.rest = <<"reread", "lift">>
    BY <1>1, <2>2
  <2> QED BY <1>1, <2>1, <2>2 DEF UnderWay
<1> HIDE DEF d, p
<1>5. CASE x.operands = "concrete"
  <2>1. Became(i, d) /\ stores' = stores
    BY <1>5 DEF Check, d
  <2>2. Extends(x.store)
    BY <1>1, <2>1 DEF Extends, TypeOK
  <2>3. d.rest # <<>> => UnderWay(stores', d)
    BY <1>1, <1>2, <1>5, <2>1, <2>2, NextStage DEF UnderWay, Ids
  <2>4. Good(stores', d)
    BY <1>1, <1>2, <2>1, <2>3 DEF Good
  <2> QED BY <1>1, <1>2, <2>1, <2>2, <2>4, OnePath
<1>6. CASE x.operands # "concrete"
  <2>1. Became(i, p) /\ stores' = Append(stores, stores[d.store])
    BY <1>6 DEF Check, ChooseOne, d, p
  <2>2. /\ Extends(x.store)
        /\ Len(stores') = Len(stores) + 1 /\ stores'[Len(stores) + 1] = stores[x.store]
        /\ Len(stores) + 1 \in Nat \ Ids
    BY <1>1, <1>2, <2>1, CloneExtends
  <2>3. Len(stores) \in Nat
    BY <1>1 DEF TypeOK
  <2>4. p.store \in 1 .. Len(stores') /\ p.handle \in 1 .. Len(stores')
    BY <1>1, <1>2, <1>3, <2>2, <2>3 DEF Ids
  <2>5. p.rest # <<>> => UnderWay(stores', p)
    BY <1>1, <1>2, <1>3, <1>4, <1>6, <2>2, <2>4, NextStage DEF UnderWay
  <2>6. Good(stores', p)
    BY <1>1, <1>2, <1>3, <2>2, <2>4, <2>5 DEF Good
  <2> QED BY <1>1, <1>2, <1>3, <2>1, <2>2, <2>6, OnePath
<1> QED BY <1>5, <1>6

(* A store gets its handle again.                                           *)
LEMMA RereadKeeps ==
  ASSUME ThreadInv, NEW i \in 1 .. Len(paths), Reread(i)
  PROVE  ThreadInv'
<1> DEFINE x == paths[i]
           p == [Done(x) EXCEPT !.handle = x.store]
<1>1. /\ TypeOK /\ Good(stores, x) /\ UnderWay(stores, x)
      /\ Done(x) \in Paths /\ x \in Paths
      /\ x.store \in Ids /\ x.handle \in Ids
      /\ Mine(i, x.store)
      /\ x.rest # <<>> /\ Head(x.rest) = "reread"
      /\ Became(i, p) /\ stores' = stores
  BY InTheMiddle, PathFields DEF Reread, At
<1>2. /\ p \in Paths /\ p.rest = Tail(x.rest) /\ p.instr = x.instr
      /\ p.operands = x.operands /\ p.strayed = x.strayed
      /\ p.handle = x.store /\ p.store = x.store /\ p.want = x.want
  BY <1>1 DEF Done, Paths
<1>3. \/ <<x.instr, x.operands>> # <<"store", "size">>
      \/ Tail(x.rest) = <<"lift">>
  <2>1. CASE x.rest = <<"reread", "lift">>
    BY <2>1
  <2>2. CASE x.rest = <<"lift">> \/ x.rest = <<"check", "reread", "lift">>
    BY <1>1, <2>2
  <2> QED BY <1>1, <2>1, <2>2 DEF UnderWay
<1>4. LiftLast(Tail(x.rest))
  BY <1>1, PathFields, RestOfStages DEF UnderWay
<1> HIDE DEF p
<1>5. Extends(x.store)
  BY <1>1 DEF Extends, TypeOK
<1>6. UnderWay(stores', p)
  BY <1>1, <1>2, <1>3, <1>4 DEF UnderWay
<1>7. Good(stores', p)
  BY <1>1, <1>2, <1>6 DEF Good
<1> QED BY <1>1, <1>2, <1>5, <1>7, OnePath

(* A store checked against a symbolic size selects, writes and grows nothing. *)
LEMMA NotOnlySize ==
  ASSUME NEW st, NEW x, UnderWay(st, x), Head(x.rest) \in {"select", "write", "grow"}
  PROVE  <<x.instr, x.operands>> # <<"store", "size">>
<1>1. Head(<<"check", "reread", "lift">>) = "check" /\ Head(<<"reread", "lift">>) = "reread"
      /\ Head(<<"lift">>) = "lift"
  OBVIOUS
<1> QED BY <1>1 DEF UnderWay

(* A choice of an operand moves the branches to clones, and not their       *)
(* handles.                                                                 *)
LEMMA SelectKeeps ==
  ASSUME ThreadInv, NEW i \in 1 .. Len(paths), Select(i)
  PROVE  ThreadInv'
<1> DEFINE x == paths[i]
<1>1. /\ TypeOK /\ Good(stores, x) /\ UnderWay(stores, x)
      /\ Done(x) \in Paths /\ x \in Paths
      /\ x.store \in Ids /\ x.handle \in Ids
      /\ Mine(i, x.store) /\ Mine(i, x.handle)
      /\ x.rest # <<>> /\ Head(x.rest) = "select"
      /\ Len(stores) \in Nat
  BY InTheMiddle, PathFields DEF Select, At, TypeOK
<1>2. <<x.instr, x.operands>> # <<"store", "size">>
  BY <1>1, NotOnlySize
<1>3. PICK c \in x.cells :
        LET this == [Done(x) EXCEPT !.cells = {c}]
            others == [x EXCEPT !.cells = @ \ {c}]
        IN  IF x.operands # "address"
            THEN Became(i, this) /\ UNCHANGED stores
            ELSE IF others.cells = {} \/ Len(paths) = MaxPaths
                 THEN ChooseOne(i, this)
                 ELSE Choose(i, this, others)
  BY DEF Select
<1> DEFINE this == [Done(x) EXCEPT !.cells = {c}]
           others == [x EXCEPT !.cells = @ \ {c}]
           p == [this EXCEPT !.store = CloneId(this, 1)]
           q == [others EXCEPT !.store = CloneId(others, 2)]
<1>4. /\ this \in Paths /\ this.rest = Tail(x.rest) /\ this.instr = x.instr
      /\ this.operands = x.operands /\ this.strayed = x.strayed
      /\ this.handle = x.handle /\ this.store = x.store /\ this.want = x.want
  <2>1. {c} \in SUBSET Cells
    BY <1>1 DEF Paths
  <2> QED BY <1>1, <2>1 DEF Done, Paths
<1>5. /\ others \in Paths /\ others.rest = x.rest /\ others.instr = x.instr
      /\ others.operands = x.operands /\ others.strayed = x.strayed
      /\ others.handle = x.handle /\ others.store = x.store
  <2>1. x.cells \ {c} \in SUBSET Cells
    BY <1>1 DEF Paths
  <2> QED BY <1>1, <2>1 DEF Paths
<1> HIDE DEF this, others
<1>6. /\ p \in Paths /\ p.rest = Tail(x.rest) /\ p.instr = x.instr
      /\ p.operands = x.operands /\ p.strayed = x.strayed
      /\ p.handle = x.handle /\ p.store = Len(stores) + 1
  <2>1. Len(stores) + 1 \in Nat
    BY <1>1
  <2> QED BY <1>4, <2>1 DEF CloneId, Paths
<1>7. /\ q \in Paths /\ q.rest = x.rest /\ q.instr = x.instr
      /\ q.operands = x.operands /\ q.strayed = x.strayed
      /\ q.handle = x.handle /\ q.store = Len(stores) + 2
  <2>1. Len(stores) + 2 \in Nat
    BY <1>1
  <2> QED BY <1>5, <2>1 DEF CloneId, Paths
<1> HIDE DEF p, q
<1>8. CASE x.operands # "address"
  <2>1. Became(i, this) /\ stores' = stores
    BY <1>3, <1>8 DEF this
  <2>2. Extends(x.store)
    BY <1>1, <2>1 DEF Extends, TypeOK
  <2>3. this.rest # <<>> => UnderWay(stores', this)
    BY <1>1, <1>2, <1>4, <2>1, <2>2, NextStage DEF UnderWay, Ids
  <2>4. Good(stores', this)
    BY <1>1, <1>4, <2>1, <2>3 DEF Good
  <2> QED BY <1>1, <1>4, <2>1, <2>2, <2>4, OnePath
<1>9. x.operands = "address" => x.strayed
  BY <1>1 DEF UnderWay, Sound
<1>10. CASE x.operands = "address" /\ (others.cells = {} \/ Len(paths) = MaxPaths)
  <2>1. Became(i, p) /\ stores' = Append(stores, stores[x.store])
    BY <1>3, <1>4, <1>10 DEF ChooseOne, this, others, p
  <2>2. /\ Extends(x.store)
        /\ Len(stores') = Len(stores) + 1 /\ stores'[Len(stores) + 1] = stores[x.store]
        /\ Len(stores) + 1 \in Nat \ Ids
    BY <1>1, <2>1, CloneExtends
  <2>3. p.store \in 1 .. Len(stores') /\ p.handle \in 1 .. Len(stores')
    BY <1>1, <1>6, <2>2 DEF Ids
  <2>4. p.rest # <<>> => UnderWay(stores', p)
    BY <1>1, <1>2, <1>6, <1>10, <2>2, <2>3, NextStage DEF UnderWay
  <2>5. Good(stores', p)
    BY <1>6, <1>9, <1>10, <2>3, <2>4 DEF Good
  <2> QED BY <1>1, <1>6, <2>1, <2>2, <2>5, OnePath
<1>11. CASE x.operands = "address" /\ ~(others.cells = {} \/ Len(paths) = MaxPaths)
  <2>1. /\ stores' = stores \o <<stores[x.store], stores[x.store]>>
        /\ paths' = Append([paths EXCEPT ![i] = p], q)
    BY <1>3, <1>4, <1>5, <1>11 DEF Choose, this, others, p, q
  <2>2. /\ Extends(x.store)
        /\ Len(stores') = Len(stores) + 2
        /\ stores'[Len(stores) + 1] = stores[x.store]
        /\ stores'[Len(stores) + 2] = stores[x.store]
        /\ Len(stores) + 1 \in Nat \ Ids /\ Len(stores) + 2 \in Nat \ Ids
    BY <1>1, <2>1, ClonesExtend
  <2>3. /\ p.store \in 1 .. Len(stores') /\ p.handle \in 1 .. Len(stores')
        /\ q.store \in 1 .. Len(stores') /\ q.handle \in 1 .. Len(stores')
    BY <1>1, <1>6, <1>7, <2>2 DEF Ids
  <2>4. p.rest # <<>> => UnderWay(stores', p)
    BY <1>1, <1>2, <1>6, <1>11, <2>2, <2>3, NextStage DEF UnderWay
  <2>5. q.rest # <<>> => UnderWay(stores', q)
    <3>1. stores'[x.handle][Kind(x.instr)] # Absent
      BY <1>1, <2>2, KindIsKind DEF UnderWay, Extends
    <3>2. q.operands # "concrete"
      BY <1>7, <1>11
    <3> QED BY <1>1, <1>2, <1>7, <2>2, <3>1, <3>2 DEF UnderWay
  <2>6. Good(stores', p) /\ Good(stores', q)
    BY <1>6, <1>7, <1>9, <1>11, <2>3, <2>4, <2>5 DEF Good
  <2>7. p.store # q.store /\ x.handle # p.store /\ x.handle # q.store
    BY <1>1, <1>6, <1>7, <2>2
  <2> QED BY <1>1, <1>6, <1>7, <2>1, <2>2, <2>6, <2>7, TwoPaths
<1> QED BY <1>8, <1>10, <1>11

(* A path's effect, on its handle and in its reference. *)
LEMMA EffectKeeps ==
  ASSUME ThreadInv, NEW i \in 1 .. Len(paths), paths[i].rest # <<>>,
         Head(paths[i].rest) \in {"write", "grow", "lift"},
         NEW wrote \in Live, NEW wanted \in Live,
         stores[paths[i].handle][KindOf(i)] = paths[i].want[KindOf(i)] => wrote = wanted,
         stores' = Changing(paths[i].handle, KindOf(i), wrote),
         Became(i, Wants(Done(paths[i]), KindOf(i), wanted))
  PROVE  ThreadInv'
<1> DEFINE x == paths[i]
           k == KindOf(i)
           p == Wants(Done(x), k, wanted)
<1>1. /\ TypeOK /\ Good(stores, x) /\ UnderWay(stores, x)
      /\ Done(x) \in Paths /\ x \in Paths
      /\ x.store \in Ids /\ x.handle \in Ids
      /\ Mine(i, x.store) /\ Mine(i, x.handle) /\ k \in Kinds
  BY InTheMiddle, PathFields
<1>2. /\ p \in Paths /\ p.rest = Tail(x.rest) /\ p.instr = x.instr
      /\ p.operands = x.operands /\ p.strayed = x.strayed
      /\ p.handle = x.handle /\ p.store = x.store
      /\ p.want = [x.want EXCEPT ![k] = wanted]
  <2>1. x.want \in [Kinds -> Live]
    BY PathFields, <1>1
  <2>2. [x.want EXCEPT ![k] = wanted] \in [Kinds -> Live]
    BY <1>1, <2>1
  <2>3. Done(x).want = x.want
    BY <1>1 DEF Done, Paths
  <2> QED BY <1>1, <2>2, <2>3 DEF Done, Wants, Paths
<1>3. /\ Extends(x.handle) /\ Len(stores') = Len(stores)
      /\ stores'[x.handle][k] = wrote
      /\ \A y \in Kinds : y # k => stores'[x.handle][y] = stores[x.handle][y]
  BY <1>1, ChangeExtends
<1> HIDE DEF p
<1>4. \/ <<x.instr, x.operands>> # <<"store", "size">>
      \/ Tail(x.rest) = <<>>
  <2>1. CASE Head(x.rest) = "lift"
    BY <1>1, <2>1, PathFields, RestOfStages DEF UnderWay
  <2>2. CASE Head(x.rest) # "lift"
    BY <1>1, <2>2, NotOnlySize
  <2> QED BY <2>1, <2>2
<1>5. p.rest # <<>> => UnderWay(stores', p)
  <2>1. stores'[x.store][Kind(x.instr)] # Absent
    BY <1>1, <1>3, KindIsKind DEF UnderWay, Extends
  <2>2. x.store \in 1 .. Len(stores')
    BY <1>1, <1>3 DEF Ids
  <2> QED BY <1>1, <1>2, <1>3, <1>4, <2>1, <2>2, NextStage
<1>6. ASSUME ~x.strayed, NEW y \in Kinds PROVE Converted(stores'[x.store][y]) = p.want[y]
  <2>1. x.handle = x.store
    <3>1. CASE x.operands = "concrete"
      BY <1>1, <3>1 DEF UnderWay
    <3>2. CASE <<x.instr, x.operands>> = <<"store", "size">>
      <4>1. Head(x.rest) = "lift"
        BY <1>1, <3>2, NotOnlySize
      <4>2. x.rest # <<"reread", "lift">>
        BY <4>1
      <4> QED BY <1>1, <3>2, <4>2 DEF UnderWay
    <3> QED BY <1>1, <1>6, <3>1, <3>2 DEF UnderWay, Sound
  <2>2. \A z \in Kinds : Converted(stores[x.store][z]) = x.want[z]
    BY <1>1, <1>6 DEF Good
  <2>3. CASE y = k
    <3>1. stores[x.handle][k] \in Live
      BY <1>1 DEF UnderWay, KindOf, TypeOK, Stores, Ids
    <3>2. stores[x.handle][k] = x.want[k]
      BY <1>1, <2>1, <2>2, <3>1, ObjectFacts
    <3>3. Converted(wrote) = wanted
      BY <3>2, ObjectFacts
    <3>4. p.want[k] = wanted
      BY <1>1, <1>2, PathFields
    <3> QED BY <1>3, <2>1, <2>3, <3>3, <3>4
  <2>4. CASE y # k
    <3>1. p.want[y] = x.want[y]
      BY <1>1, <1>2, <2>4, PathFields
    <3> QED BY <1>3, <2>1, <2>2, <2>4, <3>1
  <2> QED BY <2>3, <2>4
<1>7. Good(stores', p)
  BY <1>1, <1>2, <1>3, <1>5, <1>6 DEF Good, Ids
<1>8. Became(i, p)
  BY DEF p
<1> QED BY <1>1, <1>2, <1>3, <1>7, <1>8, OnePath

(* Instructions that write,                                                 *)
LEMMA WriteKeeps ==
  ASSUME ThreadInv, NEW i \in 1 .. Len(paths), Write(i)
  PROVE  ThreadInv'
<1> DEFINE x == paths[i]
           k == KindOf(i)
<1>1. /\ TypeOK /\ UnderWay(stores, x) /\ x.handle \in Ids /\ k \in Kinds
      /\ x.rest # <<>> /\ Head(x.rest) = "write" /\ i \in Nat
  BY InTheMiddle DEF Write, At
<1>2. PICK c \in x.cells :
        /\ stores' = [stores EXCEPT ![x.handle][k] = Put(@, i, c)]
        /\ Became(i, Wants(Done(x), k, Put(x.want[k], i, c)))
  BY DEF Write
<1>3. stores[x.handle][k] \in Live /\ x.want[k] \in Live
  BY <1>1, PathFields DEF UnderWay, KindOf, TypeOK, Stores, Ids
<1>4. /\ Put(stores[x.handle][k], i, c) \in Live /\ Put(x.want[k], i, c) \in Live
      /\ stores' = Changing(x.handle, k, Put(stores[x.handle][k], i, c))
  BY <1>1, <1>2, <1>3, ObjectFacts DEF Changing
<1> QED BY <1>1, <1>2, <1>4, EffectKeeps

(* and those that grow.                                                     *)
LEMMA GrowKeeps ==
  ASSUME ThreadInv, NEW i \in 1 .. Len(paths), Grow(i)
  PROVE  ThreadInv'
<1> DEFINE x == paths[i]
           k == KindOf(i)
<1>1. /\ TypeOK /\ UnderWay(stores, x) /\ x.handle \in Ids /\ k \in Kinds
      /\ x.rest # <<>> /\ Head(x.rest) = "grow"
  BY InTheMiddle DEF Grow, At
<1>2. /\ stores' = [stores EXCEPT ![x.handle][k] = Grown(@)]
      /\ Became(i, Wants(Done(x), k, Grown(x.want[k])))
  BY DEF Grow
<1>3. stores[x.handle][k] \in Live /\ x.want[k] \in Live
  BY <1>1, PathFields DEF UnderWay, KindOf, TypeOK, Stores, Ids
<1>4. /\ Grown(stores[x.handle][k]) \in Live /\ Grown(x.want[k]) \in Live
      /\ stores' = Changing(x.handle, k, Grown(stores[x.handle][k]))
  BY <1>1, <1>2, <1>3, ObjectFacts DEF Changing
<1> QED BY <1>1, <1>2, <1>4, EffectKeeps

(* An access to a chosen address makes a clone of what it wrote: the path   *)
(* has strayed, so that only whose stores they are matters.                 *)
LEMMA LiftKeeps ==
  ASSUME ThreadInv, NEW i \in 1 .. Len(paths), LiftMem(i)
  PROVE  ThreadInv'
<1> DEFINE x == paths[i]
           k == KindOf(i)
<1>1. /\ TypeOK /\ Good(stores, x) /\ UnderWay(stores, x)
      /\ Done(x) \in Paths /\ x \in Paths
      /\ x.store \in Ids /\ x.handle \in Ids /\ k \in Kinds
      /\ Mine(i, x.store) /\ Mine(i, x.handle)
      /\ x.rest # <<>> /\ Head(x.rest) = "lift"
      /\ Len(stores) \in Nat /\ i \in Nat
  BY InTheMiddle, PathFields DEF LiftMem, At, TypeOK
<1>2. PICK c \in x.cells :
       LET written == [stores EXCEPT ![x.handle][k] = Put(@, i, c)]
           this == Wants(Done(x), k, Put(x.want[k], i, c))
           others == [x EXCEPT !.cells = @ \ {c}]
       IN  IF x.operands # "address"
           THEN stores' = written /\ Became(i, this)
           ELSE /\ stores' = Append(written, written[x.store])
                /\ LET after == [paths EXCEPT ![i] =
                                   [this EXCEPT !.store = CloneId(this, 1)]]
                   IN  paths' = IF others.cells = {} \/ Len(paths) = MaxPaths
                                THEN after ELSE Append(after, others)
  BY DEF LiftMem
<1> DEFINE wrote == Put(stores[x.handle][k], i, c)
           wanted == Put(x.want[k], i, c)
           w == Changing(x.handle, k, wrote)
           this == Wants(Done(x), k, wanted)
           p == [this EXCEPT !.store = CloneId(this, 1)]
           q == [x EXCEPT !.cells = @ \ {c}]
<1>3. stores[x.handle][k] \in Live /\ x.want[k] \in Live
  BY <1>1, PathFields DEF UnderWay, KindOf, TypeOK, Stores, Ids
<1>4. wrote \in Live /\ wanted \in Live
  BY <1>1, <1>3, ObjectFacts
<1>5. /\ w = [stores EXCEPT ![x.handle][k] = Put(@, i, c)]
      /\ w \in Seq(Stores) /\ Len(w) = Len(stores)
      /\ \A t \in Ids : t # x.handle => w[t] = stores[t]
      /\ \A t \in Ids, y \in Kinds : stores[t][y] # Absent => w[t][y] # Absent
  <2>1. w = [stores EXCEPT ![x.handle][k] = Put(@, i, c)]
    BY DEF Changing
  <2> HIDE DEF wrote
  <2>2. /\ w \in Seq(Stores) /\ Len(w) = Len(stores)
        /\ \A t \in Ids : t # x.handle => w[t] = stores[t]
        /\ \A t \in Ids, y \in Kinds : stores[t][y] # Absent => w[t][y] # Absent
    BY <1>1, <1>4, Changed
  <2> QED BY <2>1, <2>2
<1>6. CASE x.operands # "address"
  <2>1. stores' = w /\ Became(i, this)
    BY <1>2, <1>5, <1>6
  <2>2. stores[x.handle][k] = x.want[k] => wrote = wanted
    OBVIOUS
  <2> HIDE DEF wrote, wanted
  <2> QED BY <1>1, <1>4, <2>1, <2>2, EffectKeeps
<1>7. CASE x.operands = "address"
  <2>1. /\ stores' = Append(w, w[x.store])
        /\ \/ paths' = [paths EXCEPT ![i] = p]
           \/ paths' = Append([paths EXCEPT ![i] = p], q)
    BY <1>2, <1>5, <1>7
  <2>2. /\ p \in Paths /\ p.rest = <<>> /\ p.strayed = x.strayed
        /\ p.handle = x.handle /\ p.store = Len(stores) + 1
    <3>1. x.want \in [Kinds -> Live] /\ Len(stores) + 1 \in Nat
      BY PathFields, <1>1
    <3>2. [x.want EXCEPT ![k] = wanted] \in [Kinds -> Live]
      BY <1>1, <1>4, <3>1
    <3>3. Tail(x.rest) = <<>>
      BY <1>1, PathFields, RestOfStages DEF UnderWay
    <3>4. Done(x).want = x.want /\ Done(x).rest = <<>> /\ Done(x).strayed = x.strayed
          /\ Done(x).handle = x.handle
      BY <1>1, <3>3 DEF Done, Paths
    <3> HIDE DEF wanted
    <3>5. /\ this \in Paths /\ this.rest = <<>> /\ this.strayed = x.strayed
          /\ this.handle = x.handle
      BY <1>1, <3>2, <3>4 DEF Wants, Paths
    <3> HIDE DEF this
    <3> QED BY <3>1, <3>5 DEF CloneId, Paths
  <2>3. /\ q \in Paths /\ q.rest = x.rest /\ q.instr = x.instr
        /\ q.operands = x.operands /\ q.strayed = x.strayed
        /\ q.handle = x.handle /\ q.store = x.store
    <3>1. x.cells \ {c} \in SUBSET Cells
      BY <1>1 DEF Paths
    <3> QED BY <1>1, <3>1 DEF Paths
  <2> HIDE DEF p, q, w, wrote, wanted, this
  <2>4. w[x.store] \in Stores
    BY <1>1, <1>5 DEF Ids
  <2>5. /\ stores' \in Seq(Stores) /\ Len(stores') = Len(stores) + 1
        /\ \A t \in Ids : stores'[t] = w[t]
    BY <1>1, <1>5, <2>1, <2>4 DEF Ids
  <2>6. Extends(x.handle)
    <3>1. Len(stores) <= Len(stores')
      BY <1>1, <2>5
    <3> QED BY <1>5, <2>5, <3>1 DEF Extends
  <2>7. x.strayed
    BY <1>1, <1>7 DEF UnderWay, Sound
  <2>8. /\ p.store \in 1 .. Len(stores') /\ p.handle \in 1 .. Len(stores')
        /\ q.store \in 1 .. Len(stores') /\ q.handle \in 1 .. Len(stores')
    BY <1>1, <2>2, <2>3, <2>5 DEF Ids
  <2>9. UnderWay(stores', q)
    <3>1. /\ stores'[x.handle][Kind(x.instr)] # Absent
          /\ stores'[x.store][Kind(x.instr)] # Absent
      BY <1>1, <2>6, KindIsKind DEF UnderWay, Extends
    <3>2. q.operands = "address"
      BY <1>7, <2>3
    <3> QED BY <1>1, <2>3, <3>1, <3>2 DEF UnderWay
  <2>10. Good(stores', p) /\ Good(stores', q)
    BY <2>2, <2>3, <2>7, <2>8, <2>9 DEF Good
  <2>11. /\ p.store \in Nat \ Ids /\ p.store # x.store /\ x.handle # p.store
    BY <1>1, <2>2 DEF Ids
  <2>12. CASE paths' = [paths EXCEPT ![i] = p]
    BY <1>1, <2>2, <2>6, <2>10, <2>11, <2>12, OnePath DEF Became
  <2>13. CASE paths' = Append([paths EXCEPT ![i] = p], q)
    BY <1>1, <2>2, <2>3, <2>6, <2>10, <2>11, <2>13, TwoPaths
  <2> QED BY <2>1, <2>12, <2>13
<1> QED BY <1>6, <1>7

-----------------------------------------------------------------------------
(* Every state of the paths is as ThreadInv says: no path has, or is about  *)
(* to use, what is another one's, and what a sound path has is what it did. *)
THEOREM PathsInvariance == Spec => []ThreadInv
<1>1. Init => ThreadInv
  <2> SUFFICES ASSUME Init PROVE ThreadInv
    OBVIOUS
  <2> DEFINE st == [k \in Kinds |-> Absent]
             p == [store |-> 1, rest |-> <<>>, instr |-> "none", handle |-> 1,
                   operands |-> "concrete", cells |-> Cells, ops |-> 0,
                   strayed |-> FALSE, want |-> [k \in Kinds |-> Original]]
  <2>1. stores = <<st>> /\ paths = <<p>>
    BY DEF Init
  <2>2. st \in Stores /\ \A k \in Kinds : st[k] = Absent
    BY DEF Stores
  <2>3. p \in Paths
    <3>1. [k \in Kinds |-> Original] \in [Kinds -> Live] /\ <<>> \in Seq(StageNames)
      BY ObjectFacts
    <3> QED BY <3>1 DEF Paths
  <2>4. /\ p.store = 1 /\ p.handle = 1 /\ p.rest = <<>>
        /\ \A k \in Kinds : p.want[k] = Original
    OBVIOUS
  <2> HIDE DEF st, p
  <2>5. TypeOK
    BY <2>1, <2>2, <2>3 DEF TypeOK
  <2>6. Len(stores) = 1 /\ Len(paths) = 1 /\ stores[1] = st /\ paths[1] = p
    BY <2>1
  <2>7. Apart
    BY <2>6 DEF Apart
  <2>8. Good(stores, p)
    <3>1. \A k \in Kinds : Converted(stores[p.store][k]) = p.want[k]
      BY <2>2, <2>4, <2>6 DEF Converted
    <3> QED BY <2>4, <2>6, <3>1 DEF Good
  <2> QED BY <2>5, <2>6, <2>7, <2>8 DEF ThreadInv
<1>2. ThreadInv /\ [Next]_vars => ThreadInv'
  <2> SUFFICES ASSUME ThreadInv, [Next]_vars PROVE ThreadInv'
    OBVIOUS
  <2>1. ASSUME NEW i \in 1 .. Len(paths),
               \/ Branch(i) \/ Fetch(i) \/ Check(i) \/ Reread(i) \/ Select(i)
               \/ Write(i) \/ Grow(i) \/ LiftMem(i)
        PROVE  ThreadInv'
    BY <2>1, BranchKeeps, FetchKeeps, CheckKeeps, RereadKeeps, SelectKeeps,
       WriteKeeps, GrowKeeps, LiftKeeps
  <2>2. CASE UNCHANGED vars
    BY <2>2 DEF vars, ThreadInv, TypeOK, Apart, Idle, Good, UnderWay
  <2>3. CASE Finished
    BY <2>2, <2>3 DEF Finished
  <2> QED BY <2>1, <2>2, <2>3 DEF Next
<1> QED BY <1>1, <1>2, PTL DEF Spec

(* A path all of whose instructions were sound sees their effects and no    *)
(* others, whatever the other paths do and whichever of them strayed.       *)
THEOREM PathsSeeTheirOwn == Spec => []OwnEffects
<1>1. ThreadInv => OwnEffects
  BY DEF ThreadInv, Good, OwnEffects, Seen
<1> QED BY <1>1, PathsInvariance, PTL

(* A sound instruction changes its objects through the handle its path      *)
(* would get again.                                                         *)
THEOREM HandlesStayCurrent == Spec => []HandlesCurrent
<1>1. ThreadInv => HandlesCurrent
  <2> SUFFICES ASSUME ThreadInv, NEW i \in 1 .. Len(paths), paths[i].rest # <<>>,
                      Head(paths[i].rest) \in {"write", "grow", "lift"},
                      Sound(paths[i].instr, paths[i].operands)
               PROVE  paths[i].handle = paths[i].store
    BY DEF HandlesCurrent, At
  <2>1. UnderWay(stores, paths[i])
    BY InTheMiddle
  <2>2. Head(<<"reread", "lift">>) = "reread"
    OBVIOUS
  <2>3. paths[i].rest # <<"reread", "lift">>
    BY <2>2
  <2> QED BY <2>1, <2>3 DEF UnderWay, Sound
<1> QED BY <1>1, PathsInvariance, PTL
=============================================================================
