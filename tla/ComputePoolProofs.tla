-------------------------- MODULE ComputePoolProofs --------------------------
(***************************************************************************)
(* What TLC checks of ComputePool on a small instance, for every number of *)
(* threads, every graph, every number of chunks of its nodes and every     *)
(* answer of the abort callback.  (That the call returns stays with TLC:   *)
(* proved is that the threads never all wait for each other.)              *)
(***************************************************************************)
EXTENDS ComputePool, FiniteSetTheorems, TLAPS

-----------------------------------------------------------------------------
(***************************************************************************)
(* The inductive invariant.  A thread that spins at a barrier that has     *)
(* been released has, as far as the others can tell, passed it already.    *)
(* Counted so, all threads are always in the same half of the same node.   *)
(***************************************************************************)

InBarrier(t) == pc[t] \in {"enter", "arrive", "reset", "release", "spin"}

Released(t) == pc[t] = "spin" /\ seen[t] # n_barrier_passed

\* The node a thread works on, and whether it is in the half of the node
\* that computes the parts (of a mul_mat: the second).
EffNode(t) == IF Released(t) /\ goal[t] = "loop" THEN node[t] + 1 ELSE node[t]

EffWork(t) ==
  IF Released(t) THEN goal[t] = "chunk"
  ELSE pc[t] = "chunk" \/ (InBarrier(t) /\ goal[t] = "loop")

\* Whether a thread has still something to do in its node, and the part it
\* will look at next.
Busy(t) == ~ (InBarrier(t) /\ goal[t] = "loop" /\ ~ Released(t))

Cand(t) == IF pc[t] = "chunk" THEN cur[t] ELSE t

PlaceOK(t) ==
  /\ pc[t] = "kickoff" => t = 0 /\ n_graph = 0
  /\ pc[t] = "prepare" => node[t] \in Shared
  /\ pc[t] = "chunk" /\ node[t] \notin Shared => cur[t] = t
  /\ pc[t] \in {"prepare", "chunk"} \/ InBarrier(t) => node[t] <= Nodes
  /\ InBarrier(t) /\ node[t] \notin Shared => goal[t] = "loop"
  /\ pc[t] \in {"free", "join", "freed"} => abort \/ node[t] = Nodes + 1

PlacesOK == \A t \in Threads : PlaceOK(t)

\* The threads the count of the barrier stands for.
Arrived == {t \in Threads : \/ pc[t] = "spin" /\ seen[t] = n_barrier_passed
                            \/ pc[t] = "reset"}

OthersWait(t) ==
  \A u \in Threads \ {t} : pc[u] = "spin" /\ seen[u] = n_barrier_passed

BarrierOK ==
  /\ \A t \in Threads :
       /\ pc[t] = "arrive" => seen[t] = n_barrier_passed
       /\ pc[t] = "reset" => OthersWait(t)
       /\ pc[t] = "release" => OthersWait(t) /\ n_barrier = 0
  /\ (\A t \in Threads : pc[t] # "release") => n_barrier = Cardinality(Arrived)

Aligned ==
  \A t, u \in Threads :
    /\ EffNode(t) = EffNode(u)
    /\ EffNode(t) \in Shared => (EffWork(t) <=> EffWork(u))

\* The parts below the bound have been handed out.
Bound == IF EffNode(0) \in Shared /\ EffWork(0) THEN current_chunk ELSE N

\* Between the reset of the counter and the barrier nobody takes a chunk.
CounterReady ==
  InBarrier(0) /\ goal[0] = "chunk" /\ ~ Released(0) => current_chunk = N

Counted ==
  /\ Bound >= N
  /\ \A p \in PartsOf(EffNode(0)) :
       p < Bound => \/ <<EffNode(0), p>> \in done
                    \/ \E t \in Threads : Busy(t) /\ Cand(t) = p
  /\ \A p \in Nat : <<EffNode(0), p>> \in done => p < Bound
  /\ \A t \in Threads :
       IF Busy(t)
         THEN /\ Cand(t) < Bound
              /\ <<EffNode(0), Cand(t)>> \notin done
              /\ \A u \in Threads \ {t} : Busy(u) => Cand(u) # Cand(t)
         ELSE \A p \in PartsOf(EffNode(0)) : p < Bound
  /\ \A m \in 1 .. Nodes : \A p \in Nat : <<m, p>> \in done => m <= EffNode(0)
  /\ \A m \in 1 .. Nodes :
       m < EffNode(0) => \A p \in PartsOf(m) : <<m, p>> \in done

PoolIInv ==
  PoolTypeOK /\ PlacesOK /\ BarrierOK /\ Aligned /\ CounterReady /\ Counted

-----------------------------------------------------------------------------
(* Threads and parts *)

\* The threads are a finite set of N numbers.
LEMMA ThreadsFinite ==
  /\ IsFiniteSet(Threads) /\ Cardinality(Threads) = N
  /\ 0 \in Threads /\ Threads \subseteq Nat
  /\ Workers \subseteq Threads
<1>1. N \in Nat \ {0}
  BY PoolAssumption
<1>2. IsFiniteSet(Threads) /\ Cardinality(Threads) = N
  BY <1>1, FS_Interval, 0 \in Int, N - 1 \in Int DEF Threads
<1>3. 0 \in Threads /\ Threads \subseteq Nat /\ Workers \subseteq Threads
  BY <1>1 DEF Threads, Workers
<1>4. QED
  BY <1>2, <1>3

\* The parts of a node are numbers: of a node that hands out chunks those
\* below their count, of the others the numbers of the threads.
LEMMA PartsType ==
  ASSUME NEW n \in Nat
  PROVE  /\ PartsOf(n) \subseteq Nat
         /\ n \in Shared => /\ Chunks[n] \in Nat
                            /\ \A p \in Nat : p \in PartsOf(n) <=> p < Chunks[n]
         /\ n \notin Shared => PartsOf(n) = Threads
<1>1. CASE n \in Shared
  <2>1. Chunks[n] \in Nat
    BY <1>1, PoolAssumption
  <2>2. QED
    BY <1>1, <2>1 DEF PartsOf
<1>2. CASE n \notin Shared
  BY <1>2, ThreadsFinite DEF PartsOf
<1>3. QED
  BY <1>1, <1>2

\* A thread that comes to the barrier is one more than those it counts, and
\* when the count says it is the last one, all others wait.
LEMMA ArriveCounts ==
  ASSUME PoolTypeOK, BarrierOK, NEW t \in Threads, pc[t] = "arrive"
  PROVE  /\ \A u \in Threads : pc[u] \notin {"reset", "release"}
         /\ n_barrier = Cardinality(Arrived)
         /\ n_barrier \in 0 .. N - 1
         /\ n_barrier + 1 = Cardinality(Arrived \cup {t})
         /\ n_barrier = N - 1 => OthersWait(t)
<1>1. \A u \in Threads : pc[u] \notin {"reset", "release"}
  <2>1. SUFFICES ASSUME NEW u \in Threads, pc[u] \in {"reset", "release"}
                 PROVE  FALSE
    OBVIOUS
  <2>2. OthersWait(u) /\ t # u
    BY <2>1 DEF BarrierOK
  <2>3. QED
    BY <2>2 DEF OthersWait
<1>2. n_barrier = Cardinality(Arrived)
  BY <1>1 DEF BarrierOK
<1>3. t \notin Arrived /\ Arrived \subseteq Threads \ {t}
  BY DEF Arrived
<1>4. IsFiniteSet(Threads \ {t}) /\ Cardinality(Threads \ {t}) = N - 1
  BY ThreadsFinite, FS_RemoveElement
<1>5. /\ IsFiniteSet(Arrived) /\ Cardinality(Arrived) \in Nat
      /\ Cardinality(Arrived) <= N - 1
      /\ Cardinality(Arrived) = N - 1 => Arrived = Threads \ {t}
  BY <1>3, <1>4, FS_Subset, FS_CardinalityType
<1>6. n_barrier \in 0 .. N - 1
  BY <1>2, <1>5, PoolAssumption
<1>7. n_barrier + 1 = Cardinality(Arrived \cup {t})
  BY <1>2, <1>3, <1>5, FS_AddElement
<1>8. n_barrier = N - 1 => OthersWait(t)
  BY <1>1, <1>2, <1>5 DEF OthersWait, Arrived
<1>9. QED
  BY <1>1, <1>2, <1>6, <1>7, <1>8

-----------------------------------------------------------------------------
(* Types and places *)

\* The pool of a graph begins as the types say.
LEMMA TypeInit == PoolInit => PoolTypeOK
<1>1. Nodes + 1 \in Nat /\ 1 \in 1 .. Nodes + 1 /\ 0 \in 0 .. N
  BY PoolAssumption
<1>2. SUFFICES ASSUME PoolInit PROVE PoolTypeOK
  OBVIOUS
<1>3. /\ pc \in [Threads -> Places]
      /\ node \in [Threads -> 1 .. Nodes + 1]
      /\ cur \in [Threads -> Nat] /\ seen \in [Threads -> Nat]
      /\ goal \in [Threads -> {"chunk", "loop"}]
      /\ last \in [Threads -> {0, 1}]
  BY <1>1, <1>2 DEF PoolInit, Places
<1>4. QED
  BY <1>1, <1>2, <1>3 DEF PoolInit, PoolTypeOK

\* A thread that passes the barrier stays among the places and the nodes.
LEMMA PassType ==
  ASSUME PoolTypeOK, NEW t \in Threads, node[t] <= Nodes, PassBarrier(t)
  PROVE  /\ pc' \in [Threads -> Places]
         /\ node' \in [Threads -> 1 .. Nodes + 1]
         /\ cur' \in [Threads -> Nat]
<1>1. t \in Nat /\ node[t] \in 1 .. Nodes + 1 /\ Nodes \in Nat
  BY ThreadsFinite, PoolAssumption DEF PoolTypeOK
<1>2. node[t] + 1 \in 1 .. Nodes + 1
  BY <1>1
<1>3. goal[t] \in {"chunk", "loop"} /\ {"chunk", "loop"} \subseteq Places
  BY DEF PoolTypeOK, Places
<1>4. QED
  BY <1>1, <1>2, <1>3 DEF PassBarrier, Goto, PoolTypeOK

\* Every step keeps the types.
LEMMA TypeStep == PoolTypeOK /\ PlacesOK /\ BarrierOK /\ PoolNext => PoolTypeOK'
<1> SUFFICES ASSUME PoolTypeOK, PlacesOK, BarrierOK, PoolNext
             PROVE  PoolTypeOK'
  OBVIOUS
<1> USE PoolAssumption
<1>1. ASSUME Kickoff PROVE PoolTypeOK'
  <2>1. n_graph' = 1
    BY <1>1, ThreadsFinite DEF Kickoff, PlacesOK, PlaceOK
  <2>2. pc' \in [Threads -> Places]
    BY <1>1 DEF Kickoff, Broadcast, PoolTypeOK, Places
  <2>3. QED
    BY <1>1, <2>1, <2>2 DEF Kickoff, PoolTypeOK
<1>2. ASSUME Free PROVE PoolTypeOK'
  <2>1. pc' \in [Threads -> Places]
    BY <1>2 DEF Free, Broadcast, PoolTypeOK, Places
  <2>2. QED
    BY <1>2, <2>1 DEF Free, PoolTypeOK
<1>3. ASSUME Join PROVE PoolTypeOK'
  BY <1>3 DEF Join, Goto, PoolTypeOK, Places
<1>4. ASSUME NEW t \in Threads, Top(t) \/ WakeSpuriously(t) PROVE PoolTypeOK'
  BY <1>4 DEF Top, WakeSpuriously, Goto, PoolTypeOK, Places
<1>5. ASSUME NEW t \in Threads, Poll(t) \/ Lock(t) PROVE PoolTypeOK'
  BY <1>5 DEF Poll, Lock, CheckForWork, Goto, PoolTypeOK, Places
<1>6. ASSUME NEW t \in Threads, Loop(t) PROVE PoolTypeOK'
  BY <1>6, ThreadsFinite DEF Loop, Goto, PoolTypeOK, Places
<1>7. ASSUME NEW t \in Threads, Prepare(t) PROVE PoolTypeOK'
  BY <1>7 DEF Prepare, Goto, PoolTypeOK, Places
<1>8. ASSUME NEW t \in Threads, LeaveNode(t)
      PROVE  /\ pc' \in [Threads -> Places] /\ abort' \in BOOLEAN
             /\ goal' \in [Threads -> {"chunk", "loop"}]
  BY <1>8 DEF LeaveNode, Goto, PoolTypeOK, Places
<1>9. ASSUME NEW t \in Threads, Compute(t) PROVE PoolTypeOK'
  <2>1. node[t] \in 1 .. Nodes /\ cur[t] \in Nat
    BY <1>9 DEF Compute, PoolTypeOK, PlacesOK, PlaceOK
  <2>2. done' \subseteq (1 .. Nodes) \X Nat
    BY <1>9, <2>1 DEF Compute, PoolTypeOK
  <2>3. /\ cur' \in [Threads -> Nat] /\ current_chunk' \in Nat
        /\ pc' \in [Threads -> Places] /\ abort' \in BOOLEAN
        /\ goal' \in [Threads -> {"chunk", "loop"}]
    BY <1>8, <1>9 DEF Compute, PoolTypeOK
  <2>4. QED
    BY <1>9, <2>2, <2>3 DEF Compute, PoolTypeOK
<1>10. ASSUME NEW t \in Threads, NoMoreChunks(t) PROVE PoolTypeOK'
  BY <1>8, <1>10 DEF NoMoreChunks, PoolTypeOK
<1>11. ASSUME NEW t \in Threads, Enter(t) PROVE PoolTypeOK'
  <2>1. node[t] <= Nodes
    BY <1>11 DEF Enter, PlacesOK, PlaceOK, InBarrier
  <2>2. CASE N = 1
    BY <1>11, <2>1, <2>2, PassType DEF Enter, PoolTypeOK
  <2>3. CASE N # 1
    BY <1>11, <2>3 DEF Enter, Goto, PoolTypeOK, Places
  <2>4. QED
    BY <2>2, <2>3
<1>12. ASSUME NEW t \in Threads, Arrive(t) PROVE PoolTypeOK'
  <2>1. n_barrier \in 0 .. N - 1
    BY <1>12, ArriveCounts DEF Arrive
  <2>2. n_barrier' \in 0 .. N
    BY <1>12, <2>1 DEF Arrive
  <2>3. QED
    BY <1>12, <2>2 DEF Arrive, Goto, PoolTypeOK, Places
<1>13. ASSUME NEW t \in Threads, Reset(t) PROVE PoolTypeOK'
  BY <1>13 DEF Reset, Goto, PoolTypeOK, Places
<1>14. ASSUME NEW t \in Threads, Release(t) \/ Spin(t) PROVE PoolTypeOK'
  <2>1. node[t] <= Nodes
    BY <1>14 DEF Release, Spin, PlacesOK, PlaceOK, InBarrier
  <2>2. n_barrier_passed' \in Nat
    BY <1>14 DEF Release, Spin, PoolTypeOK
  <2>3. QED
    BY <1>14, <2>1, <2>2, PassType DEF Release, Spin, PoolTypeOK
<1>15. QED
  BY <1>1, <1>2, <1>3, <1>4, <1>5, <1>6, <1>7, <1>9, <1>10, <1>11, <1>12,
     <1>13, <1>14 DEF PoolNext, CallerStep, ThreadStep

\* A thread that passes the barrier goes to a place that is right for it.
LEMMA PassPlace ==
  ASSUME PoolTypeOK, NEW t \in Threads, PlaceOK(t), InBarrier(t), PassBarrier(t)
  PROVE  /\ PlaceOK(t)'
         /\ \A u \in Threads \ {t} : /\ pc'[u] = pc[u] /\ node'[u] = node[u]
                                     /\ cur'[u] = cur[u]
<1>1. goal[t] \in {"chunk", "loop"}
  BY DEF PoolTypeOK
<1>2. pc'[t] = goal[t] /\ cur'[t] \in {t, cur[t]}
  BY DEF PassBarrier, Goto, PoolTypeOK
<1>3. goal[t] = "chunk" => cur'[t] = t /\ node'[t] = node[t] /\ node[t] <= Nodes
  BY DEF PassBarrier, PoolTypeOK, PlaceOK
<1>4. PlaceOK(t)'
  BY <1>1, <1>2, <1>3 DEF PlaceOK, InBarrier
<1>5. QED
  BY <1>4 DEF PassBarrier, Goto, PoolTypeOK

\* A step of thread t keeps the others where they are.
LEMMA PlaceKept ==
  ASSUME PoolTypeOK, PlacesOK, NEW u \in Threads,
         pc'[u] = pc[u], node'[u] = node[u], cur'[u] = cur[u],
         goal'[u] = goal[u], abort => abort',
         n_graph' = n_graph
  PROVE  PlaceOK(u)'
BY DEF PlacesOK, PlaceOK, InBarrier

\* Every step keeps the places.
LEMMA PlacesStep == PoolTypeOK /\ PlacesOK /\ PoolNext => PlacesOK'
<1> SUFFICES ASSUME PoolTypeOK, PlacesOK, PoolNext, NEW u \in Threads
             PROVE  PlaceOK(u)'
  BY DEF PlacesOK
<1> USE PoolAssumption
<1>1. PlaceOK(u) /\ pc[u] \in Places
  BY DEF PlacesOK, PoolTypeOK
<1>2. ASSUME Kickoff \/ Free PROVE PlaceOK(u)'
  <2>1. pc[0] \in {"kickoff", "free"}
    BY <1>2 DEF Kickoff, Free
  <2>2. /\ u = 0 => pc'[u] \in {"loop", "join"} /\ (pc'[u] = "join" => pc[u] = "free")
        /\ u # 0 => pc'[u] = pc[u] \/ pc'[u] = "lock"
        /\ u # 0 => pc[u] # "kickoff"
    BY <1>1, <1>2 DEF Kickoff, Free, Broadcast, PlaceOK
  <2>3. UNCHANGED <<node, cur, goal, abort>>
    BY <1>2 DEF Kickoff, Free
  <2>4. QED
    BY <1>1, <2>2, <2>3 DEF PlaceOK, InBarrier
<1>3. ASSUME Join PROVE PlaceOK(u)'
  BY <1>1, <1>3, ThreadsFinite DEF Join, Goto, PlaceOK, InBarrier, PoolTypeOK
<1>4. ASSUME NEW t \in Threads,
             Top(t) \/ WakeSpuriously(t) \/ Poll(t) \/ Lock(t)
      PROVE  PlaceOK(u)'
  <2>1. UNCHANGED <<node, cur, goal, abort, n_graph>>
    BY <1>4 DEF Top, WakeSpuriously, Poll, Lock, CheckForWork
  <2>2. pc'[u] # pc[u] => pc'[u] \in {"exit", "poll", "lock", "loop", "top", "asleep"}
    BY <1>4 DEF Top, WakeSpuriously, Poll, Lock, CheckForWork, Goto, PoolTypeOK
  <2>3. QED
    BY <1>1, <2>1, <2>2 DEF PlaceOK, InBarrier
<1>5. ASSUME NEW t \in Threads, Loop(t) PROVE PlaceOK(u)'
  <2>1. CASE u # t
    <3>1. UNCHANGED <<node, goal, abort, n_graph>>
      BY <1>5 DEF Loop
    <3>2. pc'[u] = pc[u] /\ cur'[u] = cur[u]
      BY <1>5, <2>1 DEF Loop, Goto, PoolTypeOK
    <3>3. QED
      BY <3>1, <3>2, PlaceKept
  <2>2. CASE u = t
    <3>1. UNCHANGED <<node, goal, abort, n_graph>>
      BY <1>5 DEF Loop
    <3>2. CASE node[t] <= Nodes /\ ~ abort
      BY <1>5, <2>2, <3>1, <3>2 DEF Loop, Goto, PoolTypeOK, PlaceOK, InBarrier
    <3>3. CASE ~ (node[t] <= Nodes /\ ~ abort)
      <4>1. abort \/ node[t] = Nodes + 1
        BY <3>3 DEF PoolTypeOK
      <4>2. pc'[u] \in {"free", "top"}
        BY <1>5, <2>2, <3>3 DEF Loop, Goto, PoolTypeOK
      <4>3. QED
        BY <2>2, <3>1, <4>1, <4>2 DEF PlaceOK, InBarrier
    <3>4. QED
      BY <3>2, <3>3
  <2>3. QED
    BY <2>1, <2>2
<1>6. ASSUME NEW t \in Threads, Prepare(t) PROVE PlaceOK(u)'
  <2>1. CASE u # t
    <3>1. UNCHANGED <<node, cur, abort, n_graph>>
      BY <1>6 DEF Prepare
    <3>2. pc'[u] = pc[u] /\ goal'[u] = goal[u]
      BY <1>6, <2>1 DEF Prepare, Goto, PoolTypeOK
    <3>3. QED
      BY <3>1, <3>2, PlaceKept
  <2>2. CASE u = t
    BY <1>1, <1>6, <2>2 DEF Prepare, Goto, PoolTypeOK, PlaceOK, InBarrier
  <2>3. QED
    BY <2>1, <2>2
<1>7. ASSUME NEW t \in Threads, pc[t] = "chunk", LeaveNode(t),
             UNCHANGED <<node, cur, n_graph>>
      PROVE  PlaceOK(u)'
  <2>0. abort => abort'
    BY <1>7 DEF LeaveNode
  <2>1. CASE u # t
    <3>1. pc'[u] = pc[u] /\ goal'[u] = goal[u]
      BY <1>7, <2>1 DEF LeaveNode, Goto, PoolTypeOK
    <3>2. QED
      BY <1>7, <2>0, <3>1, PlaceKept
  <2>2. CASE u = t
    <3>1. pc'[u] = "enter" /\ goal'[u] = "loop" /\ node'[u] <= Nodes
      BY <1>1, <1>7, <2>2 DEF LeaveNode, Goto, PoolTypeOK, PlaceOK
    <3>2. QED
      BY <3>1 DEF PlaceOK, InBarrier
  <2>3. QED
    BY <2>1, <2>2
<1>8. ASSUME NEW t \in Threads, Compute(t) PROVE PlaceOK(u)'
  <2>1. CASE node[t] \in Shared /\ N < Chunks[node[t]]
    <3>1. UNCHANGED <<pc, node, goal, abort, n_graph>>
      BY <1>8, <2>1 DEF Compute
    <3>2. u # t => cur'[u] = cur[u]
      BY <1>8, <2>1 DEF Compute, PoolTypeOK
    <3>3. QED
      BY <1>1, <2>1, <3>1, <3>2 DEF PlaceOK, InBarrier
  <2>2. CASE ~ (node[t] \in Shared /\ N < Chunks[node[t]])
    BY <1>7, <1>8, <2>2 DEF Compute
  <2>3. QED
    BY <2>1, <2>2
<1>9. ASSUME NEW t \in Threads, NoMoreChunks(t) PROVE PlaceOK(u)'
  BY <1>7, <1>9 DEF NoMoreChunks
<1>10. ASSUME NEW t \in Threads, InBarrier(t), PassBarrier(t),
              UNCHANGED <<goal, abort, n_graph>>
       PROVE  PlaceOK(u)'
  <2>1. PlaceOK(t)
    BY DEF PlacesOK
  <2>2. CASE u # t
    BY <1>10, <2>1, <2>2, PassPlace, PlaceKept
  <2>3. CASE u = t
    BY <1>10, <2>1, <2>3, PassPlace
  <2>4. QED
    BY <2>2, <2>3
<1>11. ASSUME NEW t \in Threads, InBarrier(t),
              \E a \in {"arrive", "reset", "release", "spin"} : Goto(t, a),
              UNCHANGED <<node, cur, goal, abort, n_graph>>
       PROVE  PlaceOK(u)'
  <2>1. pc'[u] = pc[u] \/ (InBarrier(u) /\ pc'[u] \in {"arrive", "reset", "release", "spin"})
    BY <1>11 DEF Goto, PoolTypeOK
  <2>2. QED
    BY <1>1, <1>11, <2>1 DEF PlaceOK, InBarrier
<1>12. ASSUME NEW t \in Threads, Enter(t) PROVE PlaceOK(u)'
  <2>1. InBarrier(t) /\ UNCHANGED <<goal, abort, n_graph>>
    BY <1>12 DEF Enter, InBarrier
  <2>2. CASE N = 1
    BY <1>10, <1>12, <2>1, <2>2 DEF Enter
  <2>3. CASE N # 1
    BY <1>11, <1>12, <2>1, <2>3 DEF Enter
  <2>4. QED
    BY <2>2, <2>3
<1>13. ASSUME NEW t \in Threads, Arrive(t) \/ Reset(t) PROVE PlaceOK(u)'
  BY <1>11, <1>13 DEF Arrive, Reset, InBarrier
<1>14. ASSUME NEW t \in Threads, Release(t) \/ Spin(t) PROVE PlaceOK(u)'
  BY <1>10, <1>14 DEF Release, Spin, InBarrier
<1>15. QED
  BY <1>2, <1>3, <1>4, <1>5, <1>6, <1>8, <1>9, <1>12, <1>13, <1>14
  DEF PoolNext, CallerStep, ThreadStep

-----------------------------------------------------------------------------
(* The barrier *)

\* While a thread resets or releases the barrier, every other one waits.
LEMMA OneOpensBarrier ==
  ASSUME BarrierOK, NEW t \in Threads, NEW u \in Threads, u # t,
         pc[u] \in {"reset", "release"}
  PROVE  pc[t] = "spin" /\ seen[t] = n_barrier_passed
BY DEF BarrierOK, OthersWait

\* The barrier does not notice what threads do that have not yet come to it
\* or have passed it.
LEMMA BarrierKept ==
  ASSUME BarrierOK, UNCHANGED <<n_barrier, n_barrier_passed>>,
         \A u \in Threads :
           \/ pc'[u] = pc[u] /\ seen'[u] = seen[u]
           \/ /\ pc[u] \notin {"arrive", "reset", "release", "spin"}
              /\ pc'[u] \notin {"arrive", "reset", "release", "spin"}
  PROVE  BarrierOK'
<1>1. \A u \in Threads : OthersWait(u) => OthersWait(u)'
  BY DEF OthersWait
<1>2. Arrived' = Arrived
  BY DEF Arrived
<1>3. QED
  BY <1>1, <1>2 DEF BarrierOK

\* A thread that comes to the barrier.
LEMMA BarrierEnter ==
  ASSUME PoolTypeOK, BarrierOK, NEW t \in Threads, Enter(t)
  PROVE  BarrierOK'
<1>1. CASE N = 1
  <2>1. /\ pc[t] = "enter" /\ pc'[t] \in {"chunk", "loop"}
        /\ \A u \in Threads \ {t} : pc'[u] = pc[u]
        /\ UNCHANGED <<seen, n_barrier, n_barrier_passed>>
    BY <1>1 DEF Enter, PassBarrier, Goto, PoolTypeOK
  <2>2. QED
    BY <2>1, BarrierKept
<1>2. CASE N # 1
  <2>1. /\ pc[t] = "enter" /\ pc'[t] = "arrive" /\ seen'[t] = n_barrier_passed
        /\ \A u \in Threads \ {t} : pc'[u] = pc[u] /\ seen'[u] = seen[u]
        /\ UNCHANGED <<n_barrier, n_barrier_passed>>
    BY <1>2 DEF Enter, Goto, PoolTypeOK
  <2>2. \A u \in Threads : pc[u] \notin {"reset", "release"}
    BY <2>1, OneOpensBarrier
  <2>3. Arrived' = Arrived
    BY <2>1 DEF Arrived
  <2>4. QED
    BY <2>1, <2>2, <2>3 DEF BarrierOK
<1>3. QED
  BY <1>1, <1>2

\* A thread that is counted, and opens the barrier if it is the last.
LEMMA BarrierArrive ==
  ASSUME PoolTypeOK, BarrierOK, NEW t \in Threads, Arrive(t)
  PROVE  BarrierOK'
<1>1. /\ pc[t] = "arrive" /\ n_barrier' = n_barrier + 1
      /\ pc'[t] = IF n_barrier = N - 1 THEN "reset" ELSE "spin"
      /\ \A u \in Threads \ {t} : pc'[u] = pc[u]
      /\ UNCHANGED <<seen, n_barrier_passed>>
  BY DEF Arrive, Goto, PoolTypeOK
<1>2. seen[t] = n_barrier_passed
  BY <1>1 DEF BarrierOK
<1>3. \A u \in Threads : pc[u] \notin {"reset", "release"}
  BY <1>1, ArriveCounts
<1>4. Arrived' = Arrived \cup {t}
  BY <1>1, <1>2 DEF Arrived
<1>5. n_barrier' = Cardinality(Arrived')
  BY <1>1, <1>4, ArriveCounts
<1>6. n_barrier = N - 1 => OthersWait(t)'
  <2>1. n_barrier = N - 1 => OthersWait(t)
    BY <1>1, ArriveCounts
  <2>2. QED
    BY <1>1, <2>1 DEF OthersWait
<1>7. QED
  BY <1>1, <1>3, <1>5, <1>6 DEF BarrierOK

\* Every step keeps the barrier in order.
LEMMA BarrierStep == PoolTypeOK /\ BarrierOK /\ PoolNext => BarrierOK'
<1> SUFFICES ASSUME PoolTypeOK, BarrierOK, PoolNext
             PROVE  BarrierOK'
  OBVIOUS
<1>1. ASSUME Kickoff \/ Free \/ Join PROVE BarrierOK'
  <2>1. \A u \in Threads :
          \/ pc'[u] = pc[u]
          \/ /\ pc[u] \in {"asleep", "kickoff", "free", "join"}
             /\ pc'[u] \in {"lock", "loop", "join", "freed"}
    BY <1>1 DEF Kickoff, Free, Join, Broadcast, Goto, PoolTypeOK
  <2>2. UNCHANGED <<seen, n_barrier, n_barrier_passed>>
    BY <1>1 DEF Kickoff, Free, Join
  <2>3. QED
    BY <2>1, <2>2, BarrierKept
<1>2. ASSUME NEW t \in Threads,
             pc[t] \notin {"arrive", "reset", "release", "spin"},
             \E a \in Places \ {"arrive", "reset", "release", "spin"} :
               pc' = [pc EXCEPT ![t] = a],
             UNCHANGED <<seen, n_barrier, n_barrier_passed>>
      PROVE  BarrierOK'
  <2>1. \A u \in Threads \ {t} : pc'[u] = pc[u]
    BY <1>2 DEF PoolTypeOK
  <2>2. pc'[t] \notin {"arrive", "reset", "release", "spin"}
    BY <1>2 DEF PoolTypeOK
  <2>3. QED
    BY <1>2, <2>1, <2>2, BarrierKept
<1>3. ASSUME NEW t \in Threads,
             Top(t) \/ WakeSpuriously(t) \/ Poll(t) \/ Lock(t)
      PROVE  BarrierOK'
  BY <1>2, <1>3 DEF Top, WakeSpuriously, Poll, Lock, CheckForWork, Goto, Places
<1>4. ASSUME NEW t \in Threads, Loop(t) \/ Prepare(t) \/ NoMoreChunks(t)
      PROVE  BarrierOK'
  BY <1>2, <1>4 DEF Loop, Prepare, NoMoreChunks, LeaveNode, Goto, Places
<1>5. ASSUME NEW t \in Threads, Compute(t) PROVE BarrierOK'
  <2>1. pc[t] = "chunk" /\ UNCHANGED <<seen, n_barrier, n_barrier_passed>>
    BY <1>5 DEF Compute
  <2>2. CASE UNCHANGED pc
    BY <2>1, <2>2, BarrierKept
  <2>3. CASE pc' = [pc EXCEPT ![t] = "enter"]
    BY <1>2, <2>1, <2>3 DEF Places
  <2>4. QED
    BY <1>5, <2>2, <2>3 DEF Compute, LeaveNode, Goto
<1>6. ASSUME NEW t \in Threads, Reset(t) PROVE BarrierOK'
  <2>1. /\ pc[t] = "reset" /\ pc'[t] = "release" /\ n_barrier' = 0
        /\ \A u \in Threads \ {t} : pc'[u] = pc[u]
        /\ UNCHANGED <<seen, n_barrier_passed>>
    BY <1>6 DEF Reset, Goto, PoolTypeOK
  <2>2. OthersWait(t) /\ OthersWait(t)'
    BY <2>1 DEF BarrierOK, OthersWait
  <2>3. QED
    BY <2>1, <2>2 DEF BarrierOK, OthersWait
<1>7. ASSUME NEW t \in Threads, Release(t) PROVE BarrierOK'
  <2>1. /\ pc[t] = "release" /\ pc'[t] \in {"chunk", "loop"}
        /\ n_barrier_passed' = n_barrier_passed + 1
        /\ \A u \in Threads \ {t} : pc'[u] = pc[u]
        /\ UNCHANGED <<seen, n_barrier>>
    BY <1>7 DEF Release, PassBarrier, Goto, PoolTypeOK
  <2>2. OthersWait(t) /\ n_barrier = 0
    BY <2>1 DEF BarrierOK
  <2>3. \A u \in Threads : pc'[u] \in {"chunk", "loop", "spin"}
    BY <2>1, <2>2 DEF OthersWait
  <2>4. Arrived' = {}
    <3>1. n_barrier_passed # n_barrier_passed'
      BY <2>1 DEF PoolTypeOK
    <3>2. QED
      BY <2>1, <2>2, <2>3, <3>1 DEF Arrived, OthersWait
  <2>5. n_barrier' = Cardinality(Arrived')
    BY <2>1, <2>2, <2>4, FS_EmptySet
  <2>6. QED
    BY <2>3, <2>5 DEF BarrierOK
<1>8. ASSUME NEW t \in Threads, Spin(t) PROVE BarrierOK'
  <2>1. /\ pc[t] = "spin" /\ pc'[t] \in {"chunk", "loop"} /\ seen[t] # n_barrier_passed
        /\ \A u \in Threads \ {t} : pc'[u] = pc[u]
        /\ UNCHANGED <<seen, n_barrier, n_barrier_passed>>
    BY <1>8 DEF Spin, PassBarrier, Goto, PoolTypeOK
  <2>2. \A u \in Threads : pc[u] \notin {"reset", "release"}
    BY <2>1, OneOpensBarrier
  <2>3. Arrived' = Arrived
    BY <2>1 DEF Arrived
  <2>4. QED
    BY <2>1, <2>2, <2>3 DEF BarrierOK
<1>9. QED
  BY <1>1, <1>3, <1>4, <1>5, <1>6, <1>7, <1>8, BarrierEnter, BarrierArrive
  DEF PoolNext, CallerStep, ThreadStep

-----------------------------------------------------------------------------
(* The halves of the nodes and the parts *)

\* What the others can tell of thread u stays as it is.
QuietFor(u) ==
  /\ EffNode(u)' = EffNode(u)
  /\ EffNode(u) \in Shared => (EffWork(u)' <=> EffWork(u))
  /\ Busy(u)' <=> Busy(u)
  /\ Cand(u)' = Cand(u)

\* A thread that does nothing, and sees no barrier open.
LEMMA IdleIsQuiet ==
  ASSUME NEW u \in Threads,
         pc'[u] = pc[u], node'[u] = node[u], cur'[u] = cur[u],
         goal'[u] = goal[u], seen'[u] = seen[u],
         n_barrier_passed' = n_barrier_passed
  PROVE  QuietFor(u)
BY DEF QuietFor, EffNode, EffWork, Busy, Cand, Released, InBarrier

\* A thread that goes on outside the barrier, with its own part before it.
LEMMA OutsideIsQuiet ==
  ASSUME NEW u \in Threads, ~ InBarrier(u), ~ InBarrier(u)',
         pc[u] # "chunk", node'[u] = node[u],
         pc'[u] = "chunk" => node[u] \notin Shared /\ cur'[u] = u
  PROVE  QuietFor(u)
BY DEF QuietFor, EffNode, EffWork, Busy, Cand, Released, InBarrier

\* A thread on its way through the barrier before that has been released.
LEMMA InsideIsQuiet ==
  ASSUME NEW u \in Threads, InBarrier(u), InBarrier(u)',
         ~ Released(u), ~ Released(u)',
         node'[u] = node[u], goal'[u] = goal[u]
  PROVE  QuietFor(u)
BY DEF QuietFor, EffNode, EffWork, Busy, Cand, InBarrier

\* When all threads are quiet and neither the counter of a node whose chunks
\* are taken nor the computed parts change, the counting stays right.
LEMMA QuietKeeps ==
  ASSUME Aligned, Counted, \A u \in Threads : QuietFor(u), done' = done,
         EffNode(0) \in Shared /\ EffWork(0) => current_chunk' = current_chunk
  PROVE  Aligned' /\ Counted'
<1>1. Aligned'
  BY DEF Aligned, QuietFor
<1>2. EffNode(0)' = EffNode(0) /\ Bound' = Bound
  BY ThreadsFinite DEF QuietFor, Bound
<1>3. \A u \in Threads : (Busy(u)' <=> Busy(u)) /\ Cand(u)' = Cand(u)
  BY DEF QuietFor
<1>4. Counted'
  BY <1>2, <1>3 DEF Counted
<1>5. QED
  BY <1>1, <1>4

\* When the barrier opens, all threads go on together: to the chunks of
\* their node, or to the next node with all parts of this one computed.
LEMMA OpenKeeps ==
  ASSUME PoolTypeOK, PlacesOK, Aligned, CounterReady, Counted,
         \A u \in Threads :
           /\ InBarrier(u) /\ ~ Released(u)
           /\ EffNode(u)' = IF goal[u] = "loop" THEN node[u] + 1 ELSE node[u]
           /\ EffWork(u)' <=> goal[u] = "chunk"
           /\ Busy(u)' /\ Cand(u)' = u,
         UNCHANGED <<done, current_chunk>>
  PROVE  Aligned' /\ Counted'
<1> DEFINE n == node[0]
<1>1. /\ 0 \in Threads /\ Threads = 0 .. N - 1 /\ N \in Nat \ {0} /\ n \in 1 .. Nodes
      /\ Nodes \in Nat /\ Shared \subseteq Nat
  BY ThreadsFinite, PoolAssumption DEF PoolTypeOK, Threads, PlacesOK, PlaceOK
<1>2. \A u \in Threads : node[u] = n /\ EffNode(u) = n
  BY <1>1 DEF Aligned, EffNode
<1>3. \A u \in Threads : EffWork(u) <=> goal[u] = "loop"
  BY DEF EffWork, InBarrier
<1>4. \A u \in Threads : goal[u] = goal[0]
  <2>1. CASE n \in Shared
    <3>1. \A u \in Threads : goal[u] = "loop" <=> goal[0] = "loop"
      BY <1>1, <1>2, <1>3, <2>1 DEF Aligned
    <3>2. \A u \in Threads : goal[u] \in {"chunk", "loop"}
      BY DEF PoolTypeOK
    <3>3. QED
      BY <1>1, <3>1, <3>2
  <2>2. CASE n \notin Shared
    BY <1>1, <1>2, <2>2 DEF PlacesOK, PlaceOK
  <2>3. QED
    BY <2>1, <2>2
<1>5. goal[0] \in {"chunk", "loop"}
  BY <1>1 DEF PoolTypeOK
<1>6. Aligned'
  BY <1>1, <1>2, <1>4 DEF Aligned
<1>7. CASE goal[0] = "chunk"
  <2>1. n \in Shared /\ current_chunk = N
    BY <1>1, <1>7 DEF PlacesOK, PlaceOK, CounterReady
  <2>2. EffNode(0)' = n /\ Bound = N /\ Bound' = N
    BY <1>1, <1>2, <1>3, <1>7, <2>1 DEF Bound
  <2>3. \A u \in Threads : Busy(u) /\ Cand(u) = u
    BY <1>1, <1>4, <1>7 DEF Busy, Cand, InBarrier
  <2>4. Counted'
    BY <1>1, <1>2, <2>2, <2>3 DEF Counted
  <2>5. QED
    BY <1>6, <2>4
<1>8. CASE goal[0] = "loop"
  <2>1. EffNode(0)' = n + 1 /\ ~ EffWork(0)' /\ Bound' = N
    BY <1>1, <1>8 DEF Bound
  <2>2. \A u \in Threads : ~ Busy(u)
    BY <1>4, <1>8 DEF Busy
  <2>3. \A p \in PartsOf(n) : <<n, p>> \in done
    BY <1>1, <1>2, <2>2 DEF Counted
  <2>4. \A m \in 1 .. Nodes : \A p \in Nat : <<m, p>> \in done => m <= n
    BY <1>1, <1>2 DEF Counted
  <2>5. \A p \in Nat : <<n + 1, p>> \notin done
    <3>1. SUFFICES ASSUME NEW p \in Nat, <<n + 1, p>> \in done PROVE FALSE
      OBVIOUS
    <3>2. n + 1 \in 1 .. Nodes
      BY <3>1 DEF PoolTypeOK
    <3>3. QED
      BY <1>1, <2>4, <3>1, <3>2
  <2>6. \A p \in PartsOf(n + 1) : p < N => p \in Threads
    BY <1>1, PartsType
  <2>7. /\ \A m \in 1 .. Nodes : \A p \in Nat : <<m, p>> \in done => m <= n + 1
        /\ \A m \in 1 .. Nodes :
             m < n + 1 => \A p \in PartsOf(m) : <<m, p>> \in done
    BY <1>1, <1>2, <2>3, <2>4 DEF Counted
  <2>8. \A u \in Threads : Cand(u)' = u /\ Busy(u)' /\ u < N /\ u \in Nat
    BY <1>1
  <2>9. Counted'
    BY <1>1, <2>1, <2>5, <2>6, <2>7, <2>8 DEF Counted
  <2>10. QED
    BY <1>6, <2>9
<1>9. QED
  BY <1>5, <1>7, <1>8

\* What a thread that computes may rely on.
LEMMA Computing ==
  ASSUME PoolTypeOK, PlacesOK, Aligned, Counted, NEW t \in Threads, pc[t] = "chunk"
  PROVE  /\ node[t] \in 1 .. Nodes /\ cur[t] \in Nat
         /\ EffNode(0) = node[t]
         /\ \A u \in Threads : EffNode(u) = node[t]
         /\ node[t] \in Shared => \A u \in Threads : EffWork(u)
         /\ Bound = IF node[t] \in Shared THEN current_chunk ELSE N
         /\ Busy(t) /\ Cand(t) = cur[t]
         /\ cur[t] < Bound /\ <<node[t], cur[t]>> \notin done
<1>1. 0 \in Threads
  BY ThreadsFinite
<1>2. node[t] \in 1 .. Nodes /\ cur[t] \in Nat
  BY PoolAssumption DEF PoolTypeOK, PlacesOK, PlaceOK
<1>3. EffNode(t) = node[t] /\ EffWork(t)
  BY DEF EffNode, EffWork, Released
<1>4. \A u \in Threads : EffNode(u) = node[t]
  BY <1>3 DEF Aligned
<1>5. node[t] \in Shared => \A u \in Threads : EffWork(u)
  BY <1>3, <1>4 DEF Aligned
<1>6. Busy(t) /\ Cand(t) = cur[t]
  BY DEF Busy, Cand, InBarrier
<1>7. cur[t] < Bound /\ <<node[t], cur[t]>> \notin done
  BY <1>1, <1>4, <1>6 DEF Counted
<1>8. QED
  BY <1>1, <1>2, <1>4, <1>5, <1>6, <1>7 DEF Bound

\* A thread that has nothing more to do in its node, with its last part
\* computed or beyond the node's parts.
LEMMA LeaveKeeps ==
  ASSUME PoolTypeOK, PlacesOK, Aligned, Counted,
         NEW t \in Threads, pc[t] = "chunk", LeaveNode(t),
         UNCHANGED <<node, cur, seen, n_barrier_passed, current_chunk>>,
         \/ /\ done' = done \cup {<<node[t], cur[t]>>}
            /\ ~ (node[t] \in Shared /\ N < Chunks[node[t]])
         \/ done' = done /\ cur[t] \notin PartsOf(node[t])
  PROVE  Aligned' /\ Counted'
<1> DEFINE n == node[t]
<1>1. /\ n \in 1 .. Nodes /\ cur[t] \in Nat /\ N \in Nat \ {0}
      /\ EffNode(0) = n /\ \A u \in Threads : EffNode(u) = n
      /\ n \in Shared => \A u \in Threads : EffWork(u)
      /\ Bound = IF n \in Shared THEN current_chunk ELSE N
      /\ Busy(t) /\ Cand(t) = cur[t] /\ cur[t] < Bound
      /\ <<n, cur[t]>> \notin done
  BY Computing, PoolAssumption
<1>2. /\ 0 \in Threads /\ Threads = 0 .. N - 1 /\ Nodes \in Nat
      /\ current_chunk \in Nat /\ Bound \in Nat
  BY <1>1, ThreadsFinite, PoolAssumption DEF PoolTypeOK, Threads
<1>3. \A u \in Threads \ {t} : QuietFor(u)
  <2>1. \A u \in Threads \ {t} : pc'[u] = pc[u] /\ goal'[u] = goal[u]
    BY DEF LeaveNode, Goto, PoolTypeOK
  <2>2. QED
    BY <2>1, IdleIsQuiet
<1>4. pc'[t] = "enter" /\ goal'[t] = "loop"
  BY DEF LeaveNode, Goto, PoolTypeOK
<1>5. EffNode(t)' = n /\ EffWork(t)' /\ ~ Busy(t)'
  BY <1>4 DEF EffNode, EffWork, Busy, Released, InBarrier
<1>6. \A u \in Threads : EffNode(u)' = n /\ (n \in Shared => EffWork(u)')
  BY <1>1, <1>3, <1>5 DEF QuietFor
<1>7. Aligned'
  BY <1>6 DEF Aligned
<1>8. EffNode(0)' = n /\ Bound' = Bound
  BY <1>1, <1>2, <1>6 DEF Bound
<1>9. \A p \in PartsOf(n) : p < Bound
  <2>1. CASE n \notin Shared
    BY <1>1, <1>2, <2>1, PartsType
  <2>2. CASE n \in Shared
    <3>1. Chunks[n] \in Nat /\ \A p \in PartsOf(n) : p \in Nat /\ p < Chunks[n]
      BY <1>1, <2>2, PartsType
    <3>2. Chunks[n] <= Bound
      <4>1. CASE ~ (N < Chunks[n])
        BY <1>1, <1>2, <3>1, <4>1 DEF Counted
      <4>2. CASE cur[t] \notin PartsOf(n)
        <5>1. Chunks[n] <= cur[t]
          BY <1>1, <2>2, <3>1, <4>2, PartsType
        <5>2. QED
          BY <1>1, <1>2, <3>1, <5>1
      <4>3. QED
        BY <2>2, <4>1, <4>2
    <3>3. QED
      BY <1>2, <3>1, <3>2
  <2>3. QED
    BY <2>1, <2>2
<1>10. /\ \A q \in done' : q \in done \/ q = <<n, cur[t]>>
       /\ \A q \in done : q \in done'
  OBVIOUS
<1>11. cur[t] \in PartsOf(n) => <<n, cur[t]>> \in done'
  OBVIOUS
<1>12. \A u \in Threads \ {t} : (Busy(u)' <=> Busy(u)) /\ Cand(u)' = Cand(u)
  BY <1>3 DEF QuietFor
<1>13. \A p \in PartsOf(n) :
         p < Bound => <<n, p>> \in done' \/ \E u \in Threads : Busy(u)' /\ Cand(u)' = p
  <2>1. SUFFICES ASSUME NEW p \in PartsOf(n), p < Bound, <<n, p>> \notin done'
                 PROVE  \E u \in Threads : Busy(u)' /\ Cand(u)' = p
    OBVIOUS
  <2>2. p # cur[t] /\ <<n, p>> \notin done
    BY <1>10, <1>11, <2>1
  <2>3. PICK u \in Threads : Busy(u) /\ Cand(u) = p
    BY <1>1, <2>1, <2>2 DEF Counted
  <2>4. u # t
    BY <1>1, <2>2, <2>3
  <2>5. QED
    BY <1>12, <2>3, <2>4
<1>14. \A p \in Nat : <<n, p>> \in done' => p < Bound
  BY <1>1, <1>10 DEF Counted
<1>15. \A u \in Threads :
         IF Busy(u)'
           THEN /\ Cand(u)' < Bound /\ <<n, Cand(u)'>> \notin done'
                /\ \A v \in Threads \ {u} : Busy(v)' => Cand(v)' # Cand(u)'
           ELSE \A p \in PartsOf(n) : p < Bound
  <2>1. SUFFICES ASSUME NEW u \in Threads, Busy(u)'
                 PROVE  /\ Cand(u)' < Bound /\ <<n, Cand(u)'>> \notin done'
                        /\ \A v \in Threads \ {u} : Busy(v)' => Cand(v)' # Cand(u)'
    BY <1>9
  <2>2. u # t /\ Busy(u) /\ Cand(u)' = Cand(u)
    BY <1>5, <1>12, <2>1
  <2>3. /\ Cand(u) < Bound /\ <<n, Cand(u)>> \notin done /\ Cand(u) # cur[t]
        /\ \A v \in Threads \ {u} : Busy(v) => Cand(v) # Cand(u)
    BY <1>1, <2>2 DEF Counted
  <2>4. QED
    BY <1>5, <1>10, <1>12, <2>2, <2>3
<1>16. \A m \in 1 .. Nodes : \A p \in Nat : <<m, p>> \in done' => m <= n
  BY <1>1, <1>10 DEF Counted
<1>17. \A m \in 1 .. Nodes : m < n => \A p \in PartsOf(m) : <<m, p>> \in done'
  BY <1>1, <1>10 DEF Counted
<1>18. Counted'
  <2>1. Bound' >= N
    BY <1>1, <1>8 DEF Counted
  <2>2. QED
    BY <2>1, <1>8, <1>13, <1>14, <1>15, <1>16, <1>17 DEF Counted
<1>19. QED
  BY <1>7, <1>18

\* A thread that has computed a chunk and takes the next one.
LEMMA TakeKeeps ==
  ASSUME PoolTypeOK, PlacesOK, Aligned, Counted,
         NEW t \in Threads, pc[t] = "chunk", node[t] \in Shared,
         done' = done \cup {<<node[t], cur[t]>>},
         cur' = [cur EXCEPT ![t] = current_chunk],
         current_chunk' = current_chunk + 1,
         UNCHANGED <<pc, node, goal, seen, n_barrier_passed>>
  PROVE  Aligned' /\ Counted'
<1> DEFINE n == node[t]
<1>1. /\ n \in 1 .. Nodes /\ cur[t] \in Nat /\ N \in Nat \ {0}
      /\ EffNode(0) = n /\ \A u \in Threads : EffNode(u) = n
      /\ \A u \in Threads : EffWork(u)
      /\ Bound = current_chunk /\ current_chunk \in Nat
      /\ Busy(t) /\ Cand(t) = cur[t] /\ cur[t] < Bound
      /\ <<n, cur[t]>> \notin done
  BY Computing, PoolAssumption DEF PoolTypeOK
<1>2. 0 \in Threads /\ Nodes \in Nat
  BY ThreadsFinite, PoolAssumption
<1>3. \A u \in Threads : /\ EffNode(u)' = EffNode(u) /\ (EffWork(u)' <=> EffWork(u))
                         /\ (Busy(u)' <=> Busy(u))
                         /\ u # t => Cand(u)' = Cand(u)
  <2>1. \A u \in Threads \ {t} : cur'[u] = cur[u]
    BY DEF PoolTypeOK
  <2>2. QED
    BY <2>1 DEF EffNode, EffWork, Busy, Cand, Released, InBarrier
<1>4. Cand(t)' = current_chunk
  BY DEF Cand, PoolTypeOK
<1>5. Aligned'
  BY <1>3 DEF Aligned
<1>6. EffNode(0)' = n /\ Bound' = current_chunk + 1
  BY <1>1, <1>2, <1>3 DEF Bound
<1>7. \A p \in PartsOf(n) :
        p < current_chunk + 1 =>
          <<n, p>> \in done' \/ \E u \in Threads : Busy(u)' /\ Cand(u)' = p
  <2>1. SUFFICES ASSUME NEW p \in PartsOf(n), p < current_chunk + 1,
                        <<n, p>> \notin done'
                 PROVE  \E u \in Threads : Busy(u)' /\ Cand(u)' = p
    OBVIOUS
  <2>2. p # cur[t] /\ <<n, p>> \notin done
    BY <2>1
  <2>3. CASE p = current_chunk
    BY <1>1, <1>3, <1>4, <2>3
  <2>4. CASE p # current_chunk
    <3>1. p < current_chunk
      BY <1>1, <2>1, <2>4, PartsType
    <3>2. PICK u \in Threads : Busy(u) /\ Cand(u) = p
      BY <1>1, <2>2, <3>1 DEF Counted
    <3>3. u # t
      BY <1>1, <2>2, <3>2
    <3>4. QED
      BY <1>3, <3>2, <3>3
  <2>5. QED
    BY <2>3, <2>4
<1>8. \A p \in Nat : <<n, p>> \in done => p < current_chunk
  BY <1>1 DEF Counted
<1>9. \A p \in Nat : <<n, p>> \in done' => p < current_chunk + 1
  BY <1>1, <1>8
<1>10. \A u \in Threads \ {t} :
         Busy(u) => /\ Cand(u) < current_chunk /\ <<n, Cand(u)>> \notin done
                    /\ Cand(u) # cur[t]
                    /\ \A v \in Threads \ {u} : Busy(v) => Cand(v) # Cand(u)
  BY <1>1 DEF Counted
<1>11. \A u \in Threads : Cand(u) \in Nat
  BY ThreadsFinite DEF Cand, PoolTypeOK
<1>12. \A u \in Threads :
         IF Busy(u)'
           THEN /\ Cand(u)' < current_chunk + 1 /\ <<n, Cand(u)'>> \notin done'
                /\ \A v \in Threads \ {u} : Busy(v)' => Cand(v)' # Cand(u)'
           ELSE \A p \in PartsOf(n) : p < current_chunk + 1
  <2> SUFFICES ASSUME NEW u \in Threads
               PROVE  IF Busy(u)'
                        THEN /\ Cand(u)' < current_chunk + 1
                             /\ <<n, Cand(u)'>> \notin done'
                             /\ \A v \in Threads \ {u} : Busy(v)' => Cand(v)' # Cand(u)'
                        ELSE \A p \in PartsOf(n) : p < current_chunk + 1
    OBVIOUS
  <2>1. CASE u = t
    <3>1. Cand(u)' = current_chunk /\ Busy(u)'
      BY <1>1, <1>3, <1>4, <2>1
    <3>2. <<n, current_chunk>> \notin done'
      BY <1>1, <1>8
    <3>3. \A v \in Threads \ {u} : Busy(v)' => Cand(v)' # current_chunk
      <4>1. SUFFICES ASSUME NEW v \in Threads \ {t}, Busy(v)'
                     PROVE  Cand(v)' # current_chunk
        BY <2>1
      <4>2. Cand(v)' = Cand(v) /\ Cand(v) < current_chunk /\ Cand(v) \in Nat
        BY <1>3, <1>10, <1>11, <4>1
      <4>3. QED
        BY <1>1, <4>2
    <3>4. QED
      BY <1>1, <3>1, <3>2, <3>3
  <2>2. CASE u # t /\ Busy(u)
    <3>1. Cand(u)' = Cand(u) /\ Busy(u)'
      BY <1>3, <2>2
    <3>2. /\ Cand(u) < current_chunk /\ <<n, Cand(u)>> \notin done
          /\ Cand(u) # cur[t]
          /\ \A v \in Threads \ {u} : Busy(v) => Cand(v) # Cand(u)
      BY <1>10, <2>2
    <3>3. Cand(u) < current_chunk + 1
      BY <1>1, <1>11, <3>2
    <3>4. \A v \in Threads \ {u} : Busy(v)' => Cand(v)' # Cand(u)
      <4>1. SUFFICES ASSUME NEW v \in Threads \ {u}, Busy(v)'
                     PROVE  Cand(v)' # Cand(u)
        OBVIOUS
      <4>2. CASE v = t
        BY <1>1, <1>4, <1>11, <3>2, <4>2
      <4>3. CASE v # t
        BY <1>3, <3>2, <4>1, <4>3
      <4>4. QED
        BY <4>2, <4>3
    <3>5. QED
      BY <3>1, <3>2, <3>3, <3>4
  <2>3. CASE u # t /\ ~ Busy(u)
    <3>0. \A p \in PartsOf(n) : p < current_chunk
      BY <1>1, <2>3 DEF Counted
    <3>1. \A p \in PartsOf(n) : p \in Nat /\ p < current_chunk
      BY <1>1, <3>0, PartsType
    <3>2. ~ Busy(u)'
      BY <1>3, <2>3
    <3>3. QED
      BY <1>1, <3>1, <3>2
  <2>4. QED
    BY <2>1, <2>2, <2>3
<1>13. \A m \in 1 .. Nodes : \A p \in Nat : <<m, p>> \in done' => m <= n
  BY <1>1 DEF Counted
<1>14. \A m \in 1 .. Nodes : m < n => \A p \in PartsOf(m) : <<m, p>> \in done'
  BY <1>1 DEF Counted
<1>15. Counted'
  <2>1. Bound' >= N
    BY <1>1, <1>6 DEF Counted
  <2>2. QED
    BY <2>1, <1>6, <1>7, <1>9, <1>12, <1>13, <1>14 DEF Counted
<1>16. QED
  BY <1>5, <1>15

\* Every step keeps the threads in the same half of the same node, and the
\* parts counted.
LEMMA CountedStep ==
  PoolTypeOK /\ PlacesOK /\ BarrierOK /\ Aligned /\ CounterReady /\ Counted /\ PoolNext
    => Aligned' /\ Counted'
<1> SUFFICES ASSUME PoolTypeOK, PlacesOK, BarrierOK, Aligned, CounterReady, Counted,
                    PoolNext
             PROVE  Aligned' /\ Counted'
  OBVIOUS
<1>1. ASSUME Kickoff \/ Free \/ Join PROVE Aligned' /\ Counted'
  <2>1. UNCHANGED <<node, cur, goal, seen, n_barrier_passed, current_chunk, done>>
    BY <1>1 DEF Kickoff, Free, Join
  <2>2. \A u \in Threads :
          \/ pc'[u] = pc[u]
          \/ /\ pc[u] \in {"asleep", "kickoff", "free", "join"}
             /\ pc'[u] \in {"lock", "loop", "join", "freed"}
    BY <1>1 DEF Kickoff, Free, Join, Broadcast, Goto, PoolTypeOK
  <2>3. ASSUME NEW u \in Threads PROVE QuietFor(u)
    <3>1. CASE pc'[u] = pc[u]
      BY <2>1, <3>1, IdleIsQuiet
    <3>2. CASE pc'[u] # pc[u]
      BY <2>1, <2>2, <3>2, OutsideIsQuiet DEF InBarrier
    <3>3. QED
      BY <3>1, <3>2
  <2>4. QED
    BY <2>1, <2>3, QuietKeeps
<1>2. ASSUME NEW t \in Threads,
             Top(t) \/ WakeSpuriously(t) \/ Poll(t) \/ Lock(t)
      PROVE  Aligned' /\ Counted'
  <2>1. UNCHANGED <<node, cur, goal, seen, n_barrier_passed, current_chunk, done>>
    BY <1>2 DEF Top, WakeSpuriously, Poll, Lock, CheckForWork
  <2>2. /\ \A u \in Threads \ {t} : pc'[u] = pc[u]
        /\ pc[t] \in {"top", "asleep", "poll", "lock"}
        /\ pc'[t] \in {"exit", "poll", "lock", "loop", "top", "asleep"}
    BY <1>2 DEF Top, WakeSpuriously, Poll, Lock, CheckForWork, Goto, PoolTypeOK
  <2>3. ASSUME NEW u \in Threads PROVE QuietFor(u)
    <3>1. CASE u # t
      BY <2>1, <2>2, <3>1, IdleIsQuiet
    <3>2. CASE u = t
      BY <2>1, <2>2, <3>2, OutsideIsQuiet DEF InBarrier
    <3>3. QED
      BY <3>1, <3>2
  <2>4. QED
    BY <2>1, <2>3, QuietKeeps
<1>3. ASSUME NEW t \in Threads, Loop(t) PROVE Aligned' /\ Counted'
  <2>1. UNCHANGED <<node, goal, seen, n_barrier_passed, current_chunk, done>>
    BY <1>3 DEF Loop
  <2>2. /\ \A u \in Threads \ {t} : pc'[u] = pc[u] /\ cur'[u] = cur[u]
        /\ pc[t] = "loop" /\ pc'[t] \in {"prepare", "chunk", "free", "top"}
        /\ pc'[t] = "chunk" => node[t] \notin Shared /\ cur'[t] = t
    BY <1>3 DEF Loop, Goto, PoolTypeOK
  <2>3. ASSUME NEW u \in Threads PROVE QuietFor(u)
    <3>1. CASE u # t
      BY <2>1, <2>2, <3>1, IdleIsQuiet
    <3>2. CASE u = t
      BY <2>1, <2>2, <3>2, OutsideIsQuiet DEF InBarrier
    <3>3. QED
      BY <3>1, <3>2
  <2>4. QED
    BY <2>1, <2>3, QuietKeeps
<1>4. ASSUME NEW t \in Threads, Prepare(t) PROVE Aligned' /\ Counted'
  <2>1. UNCHANGED <<node, cur, seen, n_barrier_passed, done>>
    BY <1>4 DEF Prepare
  <2>2. /\ \A u \in Threads \ {t} : pc'[u] = pc[u] /\ goal'[u] = goal[u]
        /\ pc[t] = "prepare" /\ pc'[t] = "enter" /\ goal'[t] = "chunk"
    BY <1>4 DEF Prepare, Goto, PoolTypeOK
  <2>3. ASSUME NEW u \in Threads PROVE QuietFor(u)
    <3>1. CASE u # t
      BY <2>1, <2>2, <3>1, IdleIsQuiet
    <3>2. CASE u = t
      BY <2>1, <2>2, <3>2
      DEF QuietFor, EffNode, EffWork, Busy, Cand, Released, InBarrier
    <3>3. QED
      BY <3>1, <3>2
  <2>4. EffWork(0) => current_chunk' = current_chunk
    BY <1>4, <2>2 DEF Prepare, EffWork, Released, InBarrier
  <2>5. QED
    BY <2>1, <2>3, <2>4, QuietKeeps
<1>5. ASSUME NEW t \in Threads, Compute(t) PROVE Aligned' /\ Counted'
  <2>1. CASE node[t] \in Shared /\ N < Chunks[node[t]]
    BY <1>5, <2>1, TakeKeeps DEF Compute
  <2>2. CASE ~ (node[t] \in Shared /\ N < Chunks[node[t]])
    BY <1>5, <2>2, LeaveKeeps DEF Compute
  <2>3. QED
    BY <2>1, <2>2
<1>6. ASSUME NEW t \in Threads, NoMoreChunks(t) PROVE Aligned' /\ Counted'
  BY <1>6, LeaveKeeps DEF NoMoreChunks
<1>7. ASSUME NEW t \in Threads,
             \/ Enter(t) /\ N # 1
             \/ Arrive(t) \/ Reset(t)
      PROVE  Aligned' /\ Counted'
  <2>1. UNCHANGED <<node, cur, goal, n_barrier_passed, current_chunk, done>>
    BY <1>7 DEF Enter, Arrive, Reset
  <2>2. /\ \A u \in Threads \ {t} : pc'[u] = pc[u] /\ seen'[u] = seen[u]
        /\ pc[t] \in {"enter", "arrive", "reset"}
        /\ pc'[t] \in {"arrive", "reset", "release", "spin"}
        /\ pc'[t] = "spin" => pc[t] = "arrive" /\ seen'[t] = seen[t]
    BY <1>7 DEF Enter, Arrive, Reset, Goto, PoolTypeOK
  <2>3. ASSUME NEW u \in Threads PROVE QuietFor(u)
    <3>1. CASE u # t
      BY <2>1, <2>2, <3>1, IdleIsQuiet
    <3>2. CASE u = t
      <4>1. InBarrier(u) /\ InBarrier(u)' /\ ~ Released(u)
        BY <2>2, <3>2 DEF InBarrier, Released
      <4>2. ~ Released(u)'
        BY <2>1, <2>2, <3>2 DEF Released, BarrierOK
      <4>3. QED
        BY <2>1, <4>1, <4>2, InsideIsQuiet
    <3>3. QED
      BY <3>1, <3>2
  <2>4. QED
    BY <2>1, <2>3, QuietKeeps
<1>8. ASSUME NEW t \in Threads, Enter(t), N = 1 PROVE Aligned' /\ Counted'
  <2>1. pc[t] = "enter" /\ PassBarrier(t) /\ UNCHANGED <<done, current_chunk>>
    BY <1>8 DEF Enter
  <2>2. \A u \in Threads : u = t
    BY <1>8 DEF Threads
  <2>3. goal[t] \in {"chunk", "loop"} /\ pc'[t] = goal[t]
    BY <2>1 DEF PassBarrier, Goto, PoolTypeOK
  <2>4. /\ goal[t] = "chunk" => cur'[t] = t /\ node'[t] = node[t]
        /\ goal[t] = "loop" => node'[t] = node[t] + 1
    BY <2>1 DEF PassBarrier, PoolTypeOK
  <2>5. /\ InBarrier(t) /\ ~ Released(t)
        /\ EffNode(t)' = IF goal[t] = "loop" THEN node[t] + 1 ELSE node[t]
        /\ EffWork(t)' <=> goal[t] = "chunk"
        /\ Busy(t)' /\ Cand(t)' = t
    BY <2>1, <2>3, <2>4 DEF EffNode, EffWork, Busy, Cand, Released, InBarrier
  <2>6. QED
    BY <2>1, <2>2, <2>5, OpenKeeps
<1>9. ASSUME NEW t \in Threads, Release(t) PROVE Aligned' /\ Counted'
  <2>1. /\ pc[t] = "release" /\ PassBarrier(t)
        /\ UNCHANGED <<goal, seen, done, current_chunk>>
        /\ n_barrier_passed' # n_barrier_passed
    BY <1>9 DEF Release, PoolTypeOK
  <2>2. goal[t] \in {"chunk", "loop"} /\ pc'[t] = goal[t]
    BY <2>1 DEF PassBarrier, Goto, PoolTypeOK
  <2>3. /\ goal[t] = "chunk" => cur'[t] = t /\ node'[t] = node[t]
        /\ goal[t] = "loop" => node'[t] = node[t] + 1
    BY <2>1 DEF PassBarrier, PoolTypeOK
  <2>4. /\ InBarrier(t) /\ ~ Released(t)
        /\ EffNode(t)' = IF goal[t] = "loop" THEN node[t] + 1 ELSE node[t]
        /\ EffWork(t)' <=> goal[t] = "chunk"
        /\ Busy(t)' /\ Cand(t)' = t
    BY <2>1, <2>2, <2>3 DEF EffNode, EffWork, Busy, Cand, Released, InBarrier
  <2>5. ASSUME NEW u \in Threads \ {t}
        PROVE  /\ InBarrier(u) /\ ~ Released(u)
               /\ EffNode(u)' = IF goal[u] = "loop" THEN node[u] + 1 ELSE node[u]
               /\ EffWork(u)' <=> goal[u] = "chunk"
               /\ Busy(u)' /\ Cand(u)' = u
    <3>1. pc[u] = "spin" /\ seen[u] = n_barrier_passed
      BY <2>1 DEF BarrierOK, OthersWait
    <3>2. pc'[u] = pc[u] /\ node'[u] = node[u]
      BY <2>1 DEF PassBarrier, Goto, PoolTypeOK
    <3>3. ~ Released(u) /\ Released(u)'
      BY <2>1, <3>1, <3>2 DEF Released
    <3>4. QED
      BY <2>1, <3>1, <3>2, <3>3 DEF EffNode, EffWork, Busy, Cand, InBarrier
  <2>6. QED
    BY <2>1, <2>4, <2>5, OpenKeeps
<1>10. ASSUME NEW t \in Threads, Spin(t) PROVE Aligned' /\ Counted'
  <2>1. /\ pc[t] = "spin" /\ seen[t] # n_barrier_passed /\ PassBarrier(t)
        /\ UNCHANGED <<goal, seen, n_barrier_passed, done, current_chunk>>
    BY <1>10 DEF Spin
  <2>2. goal[t] \in {"chunk", "loop"} /\ pc'[t] = goal[t]
    BY <2>1 DEF PassBarrier, Goto, PoolTypeOK
  <2>3. /\ goal[t] = "chunk" => cur'[t] = t /\ node'[t] = node[t]
        /\ goal[t] = "loop" => node'[t] = node[t] + 1
        /\ \A u \in Threads \ {t} : /\ pc'[u] = pc[u] /\ node'[u] = node[u]
                                    /\ cur'[u] = cur[u]
    BY <2>1 DEF PassBarrier, Goto, PoolTypeOK
  <2>4. ASSUME NEW u \in Threads PROVE QuietFor(u)
    <3>1. CASE u # t
      BY <2>1, <2>3, <3>1, IdleIsQuiet
    <3>2. CASE u = t
      BY <2>1, <2>2, <2>3, <3>2
      DEF QuietFor, EffNode, EffWork, Busy, Cand, Released, InBarrier
    <3>3. QED
      BY <3>1, <3>2
  <2>5. QED
    BY <2>1, <2>4, QuietKeeps
<1>11. QED
  BY <1>1, <1>2, <1>3, <1>4, <1>5, <1>6, <1>7, <1>8, <1>9, <1>10
  DEF PoolNext, CallerStep, ThreadStep

\* Every step leaves the counter alone while thread 0 waits for the others
\* to have prepared the work buffer.
LEMMA CounterStep ==
  PoolTypeOK /\ PlacesOK /\ BarrierOK /\ Aligned /\ CounterReady /\ Counted /\ PoolNext
    => CounterReady'
<1> SUFFICES ASSUME PoolTypeOK, PlacesOK, BarrierOK, Aligned, CounterReady, Counted,
                    PoolNext,
                    InBarrier(0)', goal'[0] = "chunk", ~ Released(0)'
             PROVE  current_chunk' = N
  BY DEF CounterReady
<1>0. 0 \in Threads /\ 1 .. Nodes \subseteq Nat
  BY ThreadsFinite
<1>1. ASSUME CallerStep PROVE FALSE
  BY <1>0, <1>1 DEF CallerStep, Kickoff, Free, Join, Broadcast, Goto, InBarrier, PoolTypeOK
<1>2. ASSUME InBarrier(0), goal[0] = "chunk", ~ Released(0), NEW t \in Threads,
             pc[t] = "chunk"
      PROVE  node[t] \notin Shared
  <2>1. ~ EffWork(0)
    BY <1>2 DEF EffWork, InBarrier
  <2>2. QED
    BY <1>0, <1>2, <2>1, Computing
<1>3. ASSUME NEW t \in Threads, t # 0, ThreadStep(t) \/ WakeSpuriously(t)
      PROVE  current_chunk' = N
  <2>1. pc'[0] = pc[0] /\ goal'[0] = goal[0] /\ seen'[0] = seen[0]
    BY <1>0, <1>3
    DEF ThreadStep, WakeSpuriously, Top, Poll, Lock, CheckForWork, Loop, Prepare,
        Compute, NoMoreChunks, LeaveNode, Enter, Arrive, Reset, Release, Spin,
        PassBarrier, Goto, PoolTypeOK
  <2>2. CASE Release(t)
    <3>1. OthersWait(t)
      BY <2>2 DEF Release, BarrierOK
    <3>2. pc[0] = "spin" /\ seen[0] = n_barrier_passed
      BY <1>0, <1>3, <3>1 DEF OthersWait
    <3>3. n_barrier_passed' # n_barrier_passed
      BY <2>2 DEF Release, PoolTypeOK
    <3>4. QED
      BY <2>1, <3>2, <3>3 DEF Released
  <2>3. CASE ~ Release(t)
    <3>1. n_barrier_passed' = n_barrier_passed
      BY <1>3, <2>3
      DEF ThreadStep, WakeSpuriously, Top, Poll, Lock, CheckForWork, Loop, Prepare,
          Compute, NoMoreChunks, Enter, Arrive, Reset, Spin
    <3>2. InBarrier(0) /\ goal[0] = "chunk" /\ ~ Released(0)
      BY <2>1, <3>1 DEF InBarrier, Released
    <3>3. current_chunk' = current_chunk
      <4>1. CASE Compute(t)
        BY <1>2, <3>2, <4>1 DEF Compute
      <4>2. CASE ~ Compute(t)
        BY <1>3, <2>3, <4>2
        DEF ThreadStep, WakeSpuriously, Top, Poll, Lock, CheckForWork, Loop, Prepare,
            NoMoreChunks, Enter, Arrive, Reset, Spin
      <4>3. QED
        BY <4>1, <4>2
    <3>4. QED
      BY <3>2, <3>3 DEF CounterReady
  <2>4. QED
    BY <2>2, <2>3
<1>4. ASSUME ThreadStep(0) \/ WakeSpuriously(0) PROVE current_chunk' = N
  <2>1. ~ (Top(0) \/ WakeSpuriously(0) \/ Poll(0) \/ Lock(0) \/ Loop(0))
    BY <1>0 DEF Top, WakeSpuriously, Poll, Lock, CheckForWork, Loop, Goto, InBarrier, PoolTypeOK
  <2>2. ~ (Compute(0) \/ NoMoreChunks(0))
    BY <1>0 DEF Compute, NoMoreChunks, LeaveNode, InBarrier, PoolTypeOK
  <2>3. ~ PassBarrier(0)
    BY <1>0 DEF PassBarrier, Goto, InBarrier, PoolTypeOK
  <2>4. CASE Prepare(0)
    BY <2>4 DEF Prepare
  <2>5. CASE Enter(0) \/ Arrive(0) \/ Reset(0)
    <3>1. InBarrier(0) /\ ~ Released(0) /\ goal[0] = "chunk" /\ current_chunk' = current_chunk
      BY <2>3, <2>5 DEF Enter, Arrive, Reset, InBarrier, Released
    <3>2. QED
      BY <3>1 DEF CounterReady
  <2>6. QED
    BY <1>4, <2>1, <2>2, <2>3, <2>4, <2>5 DEF ThreadStep, Release, Spin
<1>5. QED
  BY <1>0, <1>1, <1>3, <1>4 DEF PoolNext

-----------------------------------------------------------------------------
(* The theorems *)

\* The invariant holds when the pool of a graph has been made.
LEMMA PoolIInvInit == PoolInit => PoolIInv
<1> SUFFICES ASSUME PoolInit PROVE PoolIInv
  OBVIOUS
<1>1. PoolTypeOK
  BY TypeInit
<1>2. /\ 0 \in Threads /\ Threads = 0 .. N - 1 /\ N \in Nat \ {0} /\ Nodes \in Nat
      /\ current_chunk = 0 /\ done = {} /\ n_barrier = 0 /\ n_graph = 0
      /\ \A t \in Threads : /\ pc[t] = IF t = 0 THEN "kickoff" ELSE "top"
                            /\ node[t] = 1
  BY ThreadsFinite, PoolAssumption DEF PoolInit, Threads
<1>3. PlacesOK
  BY <1>2 DEF PlacesOK, PlaceOK, InBarrier
<1>4. BarrierOK
  <2>1. Arrived = {}
    BY <1>2 DEF Arrived
  <2>2. n_barrier = Cardinality(Arrived)
    BY <1>2, <2>1, FS_EmptySet
  <2>3. QED
    BY <1>2, <2>2 DEF BarrierOK
<1>5. \A t \in Threads : EffNode(t) = 1 /\ ~ EffWork(t) /\ Busy(t) /\ Cand(t) = t
  BY <1>2 DEF EffNode, EffWork, Busy, Cand, Released, InBarrier
<1>6. Aligned
  BY <1>5 DEF Aligned
<1>7. CounterReady
  BY <1>2 DEF CounterReady, InBarrier
<1>8. Counted
  <2>1. Bound = N /\ EffNode(0) = 1
    BY <1>2, <1>5 DEF Bound
  <2>2. \A p \in PartsOf(1) : p < N => p \in Threads
    BY <1>2, PartsType
  <2>3. \A t \in Threads : t \in Nat /\ t < N
    BY <1>2
  <2>4. \A m \in 1 .. Nodes : ~ (m < 1)
    BY <1>2
  <2>5. QED
    BY <1>2, <1>5, <2>1, <2>2, <2>3, <2>4 DEF Counted
<1>9. QED
  BY <1>1, <1>3, <1>4, <1>6, <1>7, <1>8 DEF PoolIInv

\* Every step keeps the invariant.
LEMMA PoolIInvStep == PoolIInv /\ [PoolNext]_vars => PoolIInv'
<1>1. ASSUME PoolIInv, PoolNext PROVE PoolIInv'
  BY <1>1, TypeStep, PlacesStep, BarrierStep, CountedStep, CounterStep DEF PoolIInv
<1>2. ASSUME PoolIInv, UNCHANGED vars PROVE PoolIInv'
  <2>1. /\ UNCHANGED <<pc, node, cur, goal, seen, last>>
        /\ UNCHANGED <<n_graph, n_barrier, n_barrier_passed, current_chunk, stop,
                       abort, done>>
    BY <1>2 DEF vars, threadVars
  <2>2. PoolTypeOK' /\ PlacesOK' /\ BarrierOK' /\ CounterReady'
    BY <1>2, <2>1
    DEF PoolIInv, PoolTypeOK, PlacesOK, PlaceOK, BarrierOK, OthersWait, Arrived,
        CounterReady, InBarrier, Released
  <2>3. Aligned' /\ Counted'
    BY <1>2, <2>1, IdleIsQuiet, QuietKeeps DEF PoolIInv
  <2>4. QED
    BY <2>2, <2>3 DEF PoolIInv
<1>3. QED
  BY <1>1, <1>2

\* The pool's state always has its types: no more threads are counted at the
\* barrier than there are.
THEOREM PoolTypeCorrect == PoolSpec => []PoolTypeOK
<1>1. PoolIInv => PoolTypeOK
  BY DEF PoolIInv
<1>2. QED
  BY <1>1, PoolIInvInit, PoolIInvStep, PTL DEF PoolSpec

\* No thread fills the work buffer while another computes from it.
THEOREM PoolKeepsWorkBuffer == PoolSpec => []WorkBufferStable
<1>1. PoolIInv => WorkBufferStable
  <2>1. SUFFICES ASSUME PoolIInv, NEW t \in Threads, NEW u \in Threads,
                        pc[t] = "prepare", pc[u] = "chunk"
                 PROVE  FALSE
    BY DEF WorkBufferStable
  <2>2. node[t] \in Shared /\ EffNode(t) = node[t] /\ ~ EffWork(t) /\ EffWork(u)
    BY <2>1 DEF PoolIInv, PlacesOK, PlaceOK, EffNode, EffWork, Released, InBarrier
  <2>3. QED
    BY <2>1, <2>2 DEF PoolIInv, Aligned
<1>2. QED
  BY <1>1, PoolIInvInit, PoolIInvStep, PTL DEF PoolSpec

\* A graph that was not aborted is computed completely before its pool is
\* freed.
THEOREM PoolComputesAll == PoolSpec => []FreedMeansComputed
<1>1. PoolIInv => FreedMeansComputed
  <2>1. SUFFICES ASSUME PoolIInv, pc[0] \in {"free", "join", "freed"}, ~ abort,
                        NEW n \in 1 .. Nodes, NEW p \in PartsOf(n)
                 PROVE  <<n, p>> \in done
    BY DEF FreedMeansComputed
  <2>2. node[0] = Nodes + 1
    BY <2>1, ThreadsFinite DEF PoolIInv, PlacesOK, PlaceOK
  <2>3. EffNode(0) = node[0]
    BY <2>1 DEF EffNode, Released
  <2>4. n < EffNode(0)
    BY <2>2, <2>3, PoolAssumption
  <2>5. QED
    BY <2>1, <2>4 DEF PoolIInv, Counted
<1>2. QED
  BY <1>1, PoolIInvInit, PoolIInvStep, PTL DEF PoolSpec

\* Whatever the threads do, the parts of the graph are computed one by one in
\* the order of its nodes: the pool implements NodeByNode.
THEOREM PoolComputesInOrder == PoolSpec => ComputedInOrder
<1>1. PoolInit => Order!OrderInit
  BY DEF PoolInit, Order!OrderInit
<1>2. PoolIInv /\ [PoolNext]_vars => [Order!OrderNext]_done
  <2> SUFFICES ASSUME PoolIInv, [PoolNext]_vars PROVE [Order!OrderNext]_done
    OBVIOUS
  <2>1. ASSUME NEW t \in Threads, Compute(t) PROVE Order!OrderNext
    <3>1. /\ node[t] \in 1 .. Nodes /\ EffNode(0) = node[t]
          /\ <<node[t], cur[t]>> \notin done
      BY <2>1, Computing DEF PoolIInv, Compute
    <3>2. /\ cur[t] \in PartsOf(node[t])
          /\ done' = done \cup {<<node[t], cur[t]>>}
      BY <2>1 DEF Compute
    <3>3. \A m \in 1 .. node[t] - 1 : \A p \in PartsOf(m) : <<m, p>> \in done
      <4>1. \A m \in 1 .. node[t] - 1 : m \in 1 .. Nodes /\ m < node[t]
        BY <3>1, PoolAssumption
      <4>2. QED
        BY <3>1, <4>1 DEF PoolIInv, Counted
    <3>4. \A m \in 1 .. node[t] - 1 : m \in 1 .. Nodes
      BY <3>1, PoolAssumption
    <3>5. Order!Before(node[t])
      BY <3>3, <3>4 DEF Order!Before, Order!Complete
    <3>6. QED
      BY <3>1, <3>2, <3>5 DEF Order!OrderNext, Order!ComputePart
  <2>2. ASSUME \A t \in Threads : ~ Compute(t) PROVE UNCHANGED done
    BY <2>2
    DEF PoolNext, CallerStep, ThreadStep, vars, Kickoff, Free, Join, Top, Poll, Lock,
        CheckForWork, WakeSpuriously, Loop, Prepare, NoMoreChunks, Enter, Arrive,
        Reset, Release, Spin
  <2>3. QED
    BY <2>1, <2>2
<1>3. QED
  BY <1>1, <1>2, PoolIInvInit, PoolIInvStep, PTL
  DEF PoolSpec, ComputedInOrder, Order!OrderSpec

-----------------------------------------------------------------------------
(***************************************************************************)
(* Nobody is stuck.  A worker that rests has nothing to do: it has not     *)
(* been given the graph, or it has left the graph at its end or with the   *)
(* abort.  It sleeps only after it has seen that.  And of an aborted graph *)
(* no thread is still in a half of a node that another one has left.       *)
(***************************************************************************)

AtRest(t) == pc[t] \in {"top", "poll", "lock", "asleep", "exit"}

RolesOK ==
  /\ ~ AtRest(0)
  /\ \A t \in Workers : pc[t] \notin {"kickoff", "free", "join", "freed"}
  /\ n_graph = 0 <=> pc[0] = "kickoff"
  /\ stop <=> pc[0] \in {"join", "freed"}

Rested(t) ==
  /\ pc[t] = "exit" => stop
  /\ pc[t] = "asleep" => ~ stop /\ n_graph = last[t]
  /\ last[t] = 1 => n_graph = 1
  /\ AtRest(t) /\ last[t] = 1 => abort \/ node[t] = Nodes + 1

RestOK == \A t \in Threads : Rested(t)

PastFirstHalf(t) ==
  /\ pc[t] # "prepare"
  /\ pc[t] = "chunk" \/ (InBarrier(t) /\ ~ Released(t)) =>
       EffNode(t) \in Shared /\ EffWork(t)

AbortOK ==
  abort /\ AbortNodes \subseteq Shared => \A t \in Threads : PastFirstHalf(t)

LastOpens ==
  (\A t \in Threads : pc[t] \notin {"reset", "release"}) => n_barrier < N

AwakeIInv == RolesOK /\ RestOK /\ AbortOK /\ LastOpens

\* What a step of thread t leaves as it is.
LEMMA StepShape ==
  ASSUME PoolTypeOK, NEW t \in Threads, ThreadStep(t) \/ WakeSpuriously(t)
  PROVE  /\ UNCHANGED <<n_graph, stop>>
         /\ abort => abort'
         /\ \A u \in Threads \ {t} : /\ pc'[u] = pc[u] /\ node'[u] = node[u]
                                     /\ goal'[u] = goal[u] /\ seen'[u] = seen[u]
                                     /\ last'[u] = last[u]
<1>1. ASSUME Top(t) \/ WakeSpuriously(t) \/ Poll(t) \/ Lock(t) \/ Loop(t) \/ Prepare(t)
      PROVE  /\ UNCHANGED <<n_graph, stop, abort>>
             /\ \A u \in Threads \ {t} : /\ pc'[u] = pc[u] /\ node'[u] = node[u]
                                         /\ goal'[u] = goal[u] /\ seen'[u] = seen[u]
                                         /\ last'[u] = last[u]
  BY <1>1 DEF Top, WakeSpuriously, Poll, Lock, CheckForWork, Loop, Prepare, Goto, PoolTypeOK
<1>2. ASSUME Compute(t) \/ NoMoreChunks(t)
      PROVE  /\ UNCHANGED <<n_graph, stop, node, seen, last>>
             /\ abort => abort'
             /\ \A u \in Threads \ {t} : pc'[u] = pc[u] /\ goal'[u] = goal[u]
  BY <1>2 DEF Compute, NoMoreChunks, LeaveNode, Goto, PoolTypeOK
<1>3. ASSUME Enter(t) \/ Arrive(t) \/ Reset(t) \/ Release(t) \/ Spin(t)
      PROVE  /\ UNCHANGED <<n_graph, stop, abort, goal, last>>
             /\ \A u \in Threads \ {t} : /\ pc'[u] = pc[u] /\ node'[u] = node[u]
                                         /\ seen'[u] = seen[u]
  BY <1>3 DEF Enter, Arrive, Reset, Release, Spin, PassBarrier, Goto, PoolTypeOK
<1>4. QED
  BY <1>1, <1>2, <1>3 DEF ThreadStep

\* Where a thread goes.
LEMMA StepTo ==
  ASSUME PoolTypeOK, NEW t \in Threads, ThreadStep(t) \/ WakeSpuriously(t)
  PROVE  /\ AtRest(t) => pc'[t] \in {"top", "poll", "lock", "asleep", "exit", "loop"}
         /\ ~ AtRest(t) /\ pc[t] # "loop" =>
              /\ pc'[t] \in {"loop", "chunk"} \/ InBarrier(t)'
              /\ last'[t] = last[t]
         /\ pc[t] = "loop" =>
              /\ pc'[t] \in {"prepare", "chunk"} =>
                   /\ node[t] <= Nodes /\ ~ abort
                   /\ pc'[t] = "chunk" => node[t] \notin Shared
              /\ pc'[t] \notin {"prepare", "chunk"} =>
                   /\ pc'[t] = IF t = 0 THEN "free" ELSE "top"
                   /\ abort \/ node[t] = Nodes + 1
              /\ UNCHANGED <<node, goal, seen, last, abort>>
         /\ pc[t] \notin {"kickoff", "free", "join", "freed"}
<1>1. ASSUME Top(t) \/ WakeSpuriously(t) \/ Poll(t) \/ Lock(t)
      PROVE  AtRest(t) /\ pc'[t] \in {"top", "poll", "lock", "asleep", "exit", "loop"}
  BY <1>1 DEF Top, WakeSpuriously, Poll, Lock, CheckForWork, Goto, PoolTypeOK, AtRest
<1>2. ASSUME Loop(t)
      PROVE  /\ pc[t] = "loop"
             /\ pc'[t] \in {"prepare", "chunk"} =>
                  /\ node[t] <= Nodes /\ ~ abort
                  /\ pc'[t] = "chunk" => node[t] \notin Shared
             /\ pc'[t] \notin {"prepare", "chunk"} =>
                  /\ pc'[t] = IF t = 0 THEN "free" ELSE "top"
                  /\ abort \/ node[t] = Nodes + 1
             /\ UNCHANGED <<node, goal, seen, last, abort>>
  <2>1. pc[t] = "loop" /\ UNCHANGED <<node, goal, seen, last, abort>>
    BY <1>2 DEF Loop
  <2>2. CASE node[t] <= Nodes /\ ~ abort
    BY <1>2, <2>1, <2>2 DEF Loop, Goto, PoolTypeOK
  <2>3. CASE ~ (node[t] <= Nodes /\ ~ abort)
    <3>1. abort \/ node[t] = Nodes + 1
      BY <2>3, PoolAssumption DEF PoolTypeOK
    <3>2. pc'[t] = IF t = 0 THEN "free" ELSE "top"
      BY <1>2, <2>3 DEF Loop, Goto, PoolTypeOK
    <3>3. QED
      BY <2>1, <3>1, <3>2
  <2>4. QED
    BY <2>2, <2>3
<1>3. ASSUME \/ Prepare(t) \/ Compute(t) \/ NoMoreChunks(t)
             \/ Enter(t) \/ Arrive(t) \/ Reset(t) \/ Release(t) \/ Spin(t)
      PROVE  /\ pc[t] \in {"prepare", "chunk", "enter", "arrive", "reset", "release", "spin"}
             /\ pc'[t] \in {"loop", "chunk"} \/ InBarrier(t)'
             /\ last'[t] = last[t]
  <2>1. goal[t] \in {"chunk", "loop"}
    BY DEF PoolTypeOK
  <2>2. QED
    BY <1>3, <2>1
    DEF Prepare, Compute, NoMoreChunks, LeaveNode, Enter, Arrive, Reset, Release, Spin,
        PassBarrier, Goto, InBarrier, PoolTypeOK
<1>4. QED
  BY <1>1, <1>2, <1>3 DEF ThreadStep, AtRest

\* Every step keeps the caller and its workers apart, and the two flags of the
\* pool as the caller has set them.
LEMMA RolesStep == PoolTypeOK /\ PlacesOK /\ RolesOK /\ PoolNext => RolesOK'
<1> SUFFICES ASSUME PoolTypeOK, PlacesOK, RolesOK, PoolNext
             PROVE  RolesOK'
  OBVIOUS
<1>0. 0 \in Threads /\ Workers = Threads \ {0}
  BY ThreadsFinite, PoolAssumption DEF Threads, Workers
<1>1. ASSUME Kickoff PROVE RolesOK'
  <2>1. n_graph = 0 /\ n_graph' = 1 /\ pc[0] = "kickoff" /\ UNCHANGED stop
    BY <1>0, <1>1 DEF Kickoff, PlacesOK, PlaceOK
  <2>2. pc'[0] = "loop" /\ \A u \in Workers : pc'[u] \in {pc[u], "lock"}
    BY <1>0, <1>1 DEF Kickoff, Broadcast
  <2>3. QED
    BY <2>1, <2>2 DEF RolesOK, AtRest
<1>2. ASSUME Free PROVE RolesOK'
  <2>1. n_graph' = n_graph /\ pc[0] = "free" /\ stop' = TRUE
    BY <1>2 DEF Free
  <2>2. pc'[0] = "join" /\ \A u \in Workers : pc'[u] \in {pc[u], "lock"}
    BY <1>0, <1>2 DEF Free, Broadcast
  <2>3. QED
    BY <2>1, <2>2 DEF RolesOK, AtRest
<1>3. ASSUME Join PROVE RolesOK'
  <2>1. pc[0] = "join" /\ UNCHANGED <<n_graph, stop>>
    BY <1>3 DEF Join
  <2>2. pc'[0] = "freed" /\ \A u \in Workers : pc'[u] = pc[u]
    BY <1>0, <1>3 DEF Join, Goto, PoolTypeOK
  <2>3. QED
    BY <2>1, <2>2 DEF RolesOK, AtRest
<1>4. ASSUME NEW t \in Threads, ThreadStep(t) \/ WakeSpuriously(t) PROVE RolesOK'
  <2>1. /\ UNCHANGED <<n_graph, stop>> /\ \A u \in Threads \ {t} : pc'[u] = pc[u]
        /\ pc[t] \notin {"kickoff", "free", "join", "freed"}
    BY <1>4, StepShape, StepTo
  <2>2. /\ pc'[t] \notin {"kickoff", "join", "freed"}
        /\ pc'[t] = "free" => t = 0
        /\ t = 0 => ~ AtRest(t)'
    <3>1. t = 0 => ~ AtRest(t)
      BY DEF RolesOK
    <3>2. QED
      BY <1>4, <3>1, StepTo DEF AtRest, InBarrier
  <2>3. QED
    BY <1>0, <2>1, <2>2 DEF RolesOK, AtRest
<1>5. QED
  BY <1>1, <1>2, <1>3, <1>4 DEF PoolNext, CallerStep

\* Every step keeps the workers that rest without anything to do.
LEMMA RestStep == PoolTypeOK /\ RolesOK /\ RestOK /\ PoolNext => RestOK'
<1> SUFFICES ASSUME PoolTypeOK, RolesOK, RestOK, PoolNext,
                    NEW u \in Threads
             PROVE  Rested(u)'
  BY DEF RestOK
<1>r. \A t \in Threads : Rested(t)
  BY DEF RestOK
<1> USE <1>r
<1>0. 0 \in Threads /\ Workers = Threads \ {0}
  BY ThreadsFinite, PoolAssumption DEF Threads, Workers
<1>1. ASSUME Kickoff \/ Free PROVE Rested(u)'
  <2>1. /\ pc'[u] # "asleep"
        /\ pc'[u] = pc[u] \/ pc'[u] \in {"loop", "join"} \/ (AtRest(u) /\ pc'[u] = "lock")
    BY <1>0, <1>1 DEF Kickoff, Free, Broadcast, AtRest, PoolTypeOK
  <2>2. /\ UNCHANGED <<last, node, abort>>
        /\ stop => stop'
        /\ n_graph = 1 => n_graph' = 1
    <3>1. CASE Kickoff
      BY <3>1 DEF Kickoff, RolesOK
    <3>2. CASE Free
      BY <3>2 DEF Free
    <3>3. QED
      BY <1>1, <3>1, <3>2
  <2>3. QED
    BY <2>1, <2>2 DEF AtRest, Rested
<1>2. ASSUME Join PROVE Rested(u)'
  <2>1. UNCHANGED <<last, node, abort, stop, n_graph>>
    BY <1>2 DEF Join
  <2>2. pc'[u] = pc[u] \/ pc'[u] = "freed"
    BY <1>0, <1>2 DEF Join, Goto, PoolTypeOK
  <2>3. QED
    BY <2>1, <2>2 DEF AtRest, Rested
<1>3. ASSUME NEW t \in Threads, ThreadStep(t) \/ WakeSpuriously(t) PROVE Rested(u)'
  <2>1. CASE u # t
    BY <1>3, <2>1, StepShape DEF AtRest, Rested
  <2>2. CASE u = t /\ (Top(t) \/ WakeSpuriously(t))
    <3>1. /\ UNCHANGED <<last, node, abort, stop, n_graph>> /\ AtRest(u)
          /\ pc'[u] \in {"poll", "exit", "lock"} /\ (pc'[u] = "exit" => stop)
      BY <2>2 DEF Top, WakeSpuriously, Goto, AtRest, PoolTypeOK
    <3>2. QED
      BY <3>1 DEF AtRest, Rested
  <2>3. CASE u = t /\ (Poll(t) \/ Lock(t))
    <3>1. UNCHANGED <<node, abort, stop, n_graph>> /\ AtRest(u)
      BY <2>3 DEF Poll, Lock, CheckForWork, AtRest
    <3>2. CASE ~ stop /\ n_graph # last[t]
      <4>1. pc'[u] = "loop" /\ last'[u] = n_graph
        BY <2>3, <3>2 DEF Poll, Lock, CheckForWork, Goto, PoolTypeOK
      <4>2. QED
        BY <3>1, <4>1 DEF AtRest, Rested
    <3>3. CASE stop \/ n_graph = last[t]
      <4>1. /\ last' = last /\ pc'[u] \in {"top", "lock", "asleep"}
            /\ pc'[u] = "asleep" => ~ stop
        BY <2>3, <3>3 DEF Poll, Lock, CheckForWork, Goto, PoolTypeOK
      <4>2. QED
        BY <2>3, <3>1, <3>3, <4>1 DEF AtRest, Rested
    <3>4. QED
      BY <3>2, <3>3
  <2>4. CASE u = t /\ Loop(t)
    <3>1. UNCHANGED <<node, last, abort, stop, n_graph>> /\ pc[t] = "loop"
      BY <2>4 DEF Loop
    <3>2. CASE pc'[t] \in {"prepare", "chunk"}
      BY <2>4, <3>1, <3>2 DEF AtRest, Rested
    <3>3. CASE pc'[t] \notin {"prepare", "chunk"}
      <4>1. pc'[t] \in {"free", "top"} /\ (abort \/ node[t] = Nodes + 1)
        BY <1>3, <3>1, <3>3, StepTo
      <4>2. QED
        BY <2>4, <3>1, <4>1 DEF AtRest, Rested
    <3>4. QED
      BY <3>2, <3>3
  <2>5. CASE u = t /\ ~ AtRest(t) /\ pc[t] # "loop"
    <3>1. UNCHANGED <<stop, n_graph>> /\ last'[u] = last[u]
      BY <1>3, <2>5, StepShape, StepTo
    <3>2. ~ AtRest(u)' /\ pc'[u] \notin {"exit", "asleep"}
      BY <1>3, <2>5, StepTo DEF AtRest, InBarrier
    <3>3. QED
      BY <3>1, <3>2 DEF Rested
  <2>6. QED
    <3>1. ASSUME ~ (Top(t) \/ WakeSpuriously(t) \/ Poll(t) \/ Lock(t) \/ Loop(t))
          PROVE  ~ AtRest(t) /\ pc[t] # "loop"
      BY <1>3, <3>1
      DEF ThreadStep, Prepare, Compute, NoMoreChunks, Enter, Arrive, Reset, Release, Spin,
          AtRest
    <3>2. QED
      BY <2>1, <2>2, <2>3, <2>4, <2>5, <3>1
<1>4. QED
  BY <1>1, <1>2, <1>3 DEF PoolNext, CallerStep

\* Every step keeps the barrier waiting for a thread that can still come, or
\* for the one that opens it.
LEMMA LastOpensStep ==
  PoolTypeOK /\ BarrierOK /\ LastOpens /\ PoolNext => LastOpens'
<1> SUFFICES ASSUME PoolTypeOK, BarrierOK, LastOpens, PoolNext,
                    \A u \in Threads : pc'[u] \notin {"reset", "release"}
             PROVE  n_barrier' < N
  BY DEF LastOpens
<1>0. N \in Nat \ {0} /\ n_barrier \in 0 .. N
  BY PoolAssumption DEF PoolTypeOK
<1>1. ASSUME NEW t \in Threads, Arrive(t) PROVE n_barrier' < N
  <2>1. /\ pc[t] = "arrive" /\ n_barrier' = n_barrier + 1
        /\ pc'[t] = IF n_barrier = N - 1 THEN "reset" ELSE "spin"
    BY <1>1 DEF Arrive, Goto, PoolTypeOK
  <2>2. n_barrier \in 0 .. N - 1 /\ n_barrier # N - 1
    BY <2>1, ArriveCounts
  <2>3. QED
    BY <1>0, <2>1, <2>2
<1>2. ASSUME NEW t \in Threads, Reset(t) PROVE n_barrier' < N
  BY <1>0, <1>2 DEF Reset
<1>3. ASSUME NEW t \in Threads, Release(t) PROVE n_barrier' < N
  <2>1. pc[t] = "release" /\ n_barrier' = n_barrier
    BY <1>3 DEF Release
  <2>2. QED
    BY <1>0, <2>1 DEF BarrierOK
<1>4. ASSUME \A t \in Threads : ~ (Arrive(t) \/ Reset(t) \/ Release(t))
      PROVE  n_barrier' < N
  <2>1. n_barrier' = n_barrier
    BY <1>4
    DEF PoolNext, CallerStep, ThreadStep, Kickoff, Free, Join, Top, Poll, Lock,
        CheckForWork, WakeSpuriously, Loop, Prepare, Compute, NoMoreChunks, Enter, Spin
  <2>2. ASSUME NEW u \in Threads, pc[u] \in {"reset", "release"} PROVE FALSE
    <3>1. CASE CallerStep
      BY <2>2, <3>1 DEF CallerStep, Kickoff, Free, Join, Broadcast, Goto, PoolTypeOK
    <3>2. CASE \E t \in Threads : ThreadStep(t) \/ WakeSpuriously(t)
      <4>1. PICK t \in Threads : ThreadStep(t) \/ WakeSpuriously(t)
        BY <3>2
      <4>2. u # t
        BY <1>4, <2>2, <4>1
        DEF ThreadStep, WakeSpuriously, Top, Poll, Lock, Loop, Prepare, Compute,
            NoMoreChunks, Enter, Spin
      <4>3. QED
        BY <2>2, <4>1, <4>2, StepShape
    <3>3. QED
      BY <3>1, <3>2 DEF PoolNext
  <2>3. QED
    BY <2>1, <2>2 DEF LastOpens
<1>5. QED
  BY <1>1, <1>2, <1>3, <1>4

\* A thread that the step of another leaves where it is.
LEMMA PastKept ==
  ASSUME NEW u \in Threads, PastFirstHalf(u),
         pc'[u] = pc[u], node'[u] = node[u], goal'[u] = goal[u], seen'[u] = seen[u],
         n_barrier_passed' = n_barrier_passed
  PROVE  PastFirstHalf(u)'
BY DEF PastFirstHalf, EffNode, EffWork, Released, InBarrier

\* A thread that passes the barrier goes to the chunks of a node that has some,
\* or to the next node.
LEMMA PastBarrier ==
  ASSUME PoolTypeOK, PlacesOK, NEW t \in Threads, InBarrier(t), PassBarrier(t)
  PROVE  PastFirstHalf(t)'
<1>1. goal[t] \in {"chunk", "loop"} /\ pc'[t] = goal[t]
  BY DEF PassBarrier, Goto, PoolTypeOK
<1>2. goal[t] = "chunk" => node'[t] = node[t] /\ node[t] \in Shared
  BY DEF PassBarrier, PlacesOK, PlaceOK
<1>3. QED
  BY <1>1, <1>2 DEF PastFirstHalf, EffNode, EffWork, Released, InBarrier

\* When thread 0 aborts a graph all threads are in the half that computes.
LEMMA AbortSets ==
  ASSUME PoolTypeOK, PlacesOK, Aligned, pc[0] = "chunk", node[0] \in Shared,
         NEW u \in Threads
  PROVE  PastFirstHalf(u)
<1>1. 0 \in Threads /\ EffNode(0) = node[0] /\ EffWork(0)
  BY ThreadsFinite DEF EffNode, EffWork, Released
<1>2. EffNode(u) \in Shared /\ EffWork(u)
  BY <1>1 DEF Aligned
<1>3. QED
  BY <1>2 DEF PastFirstHalf, EffWork, Released, InBarrier

\* Every step keeps the threads of an aborted graph together.
LEMMA AbortStep ==
  PoolTypeOK /\ PlacesOK /\ BarrierOK /\ Aligned /\ AbortOK /\ PoolNext => AbortOK'
<1> SUFFICES ASSUME PoolTypeOK, PlacesOK, BarrierOK, Aligned, AbortOK, PoolNext,
                    abort', AbortNodes \subseteq Shared, NEW u \in Threads
             PROVE  PastFirstHalf(u)'
  BY DEF AbortOK
<1>0. 0 \in Threads
  BY ThreadsFinite
<1>1. ASSUME abort PROVE \A t \in Threads : PastFirstHalf(t)
  BY <1>1 DEF AbortOK
<1>2. ASSUME CallerStep PROVE PastFirstHalf(u)'
  <2>1. UNCHANGED <<node, goal, seen, n_barrier_passed, abort>>
    BY <1>2 DEF CallerStep, Kickoff, Free, Join
  <2>2. pc'[u] = pc[u] \/ pc'[u] \in {"loop", "join", "freed", "lock"}
    BY <1>0, <1>2 DEF CallerStep, Kickoff, Free, Join, Broadcast, Goto, PoolTypeOK
  <2>3. CASE pc'[u] = pc[u]
    BY <1>1, <2>1, <2>3, PastKept
  <2>4. CASE pc'[u] \in {"loop", "join", "freed", "lock"}
    BY <2>4 DEF PastFirstHalf, InBarrier
  <2>5. QED
    BY <2>2, <2>3, <2>4
<1>3. ASSUME NEW t \in Threads,
             Top(t) \/ WakeSpuriously(t) \/ Poll(t) \/ Lock(t) \/ Loop(t)
      PROVE  PastFirstHalf(u)'
  <2>1. UNCHANGED <<node, goal, seen, n_barrier_passed, abort>>
    BY <1>3 DEF Top, WakeSpuriously, Poll, Lock, CheckForWork, Loop
  <2>2. CASE u # t
    BY <1>1, <1>3, <2>1, <2>2, StepShape, PastKept DEF ThreadStep
  <2>3. CASE u = t
    <3>1. pc'[t] \in {"top", "poll", "lock", "asleep", "exit", "loop", "free"}
      <4>1. CASE Loop(t)
        <5>1. pc[t] = "loop" /\ abort
          BY <2>1, <4>1 DEF Loop
        <5>2. QED
          BY <4>1, <5>1, StepTo DEF ThreadStep
      <4>2. CASE ~ Loop(t)
        <5>1. AtRest(t)
          BY <1>3, <4>2 DEF Top, WakeSpuriously, Poll, Lock, AtRest
        <5>2. QED
          BY <1>3, <5>1, StepTo DEF ThreadStep
      <4>3. QED
        BY <4>1, <4>2
    <3>2. QED
      BY <2>3, <3>1 DEF PastFirstHalf, InBarrier
  <2>4. QED
    BY <2>2, <2>3
<1>4. ASSUME NEW t \in Threads, Prepare(t) PROVE PastFirstHalf(u)'
  BY <1>1, <1>4 DEF Prepare, PastFirstHalf
<1>5. ASSUME NEW t \in Threads, Compute(t) \/ NoMoreChunks(t) PROVE PastFirstHalf(u)'
  <2>1. pc[t] = "chunk" /\ UNCHANGED <<node, seen, n_barrier_passed>>
    BY <1>5 DEF Compute, NoMoreChunks
  <2>2. PastFirstHalf(u) /\ PastFirstHalf(t)
    <3>1. CASE abort
      BY <1>1, <3>1
    <3>2. CASE ~ abort
      <4>1. t = 0 /\ node[0] \in AbortNodes
        BY <1>5, <3>2 DEF Compute, NoMoreChunks, LeaveNode
      <4>2. QED
        BY <2>1, <4>1, AbortSets
    <3>3. QED
      BY <3>1, <3>2
  <2>3. CASE u # t
    BY <1>5, <2>1, <2>2, <2>3, StepShape, PastKept DEF ThreadStep
  <2>4. CASE u = t
    <3>1. CASE pc'[t] = pc[t] /\ goal'[t] = goal[t]
      BY <2>1, <2>2, <2>4, <3>1, PastKept
    <3>2. CASE pc'[t] = "enter" /\ goal'[t] = "loop"
      BY <2>1, <2>2, <2>4, <3>2
      DEF PastFirstHalf, EffNode, EffWork, Released, InBarrier
    <3>3. QED
      BY <1>5, <3>1, <3>2 DEF Compute, NoMoreChunks, LeaveNode, Goto, PoolTypeOK
  <2>5. QED
    BY <2>3, <2>4
<1>6. ASSUME NEW t \in Threads, (Enter(t) /\ N # 1) \/ Arrive(t) \/ Reset(t)
      PROVE  PastFirstHalf(u)'
  <2>1. UNCHANGED <<node, goal, n_barrier_passed, abort>>
    BY <1>6 DEF Enter, Arrive, Reset
  <2>2. /\ \A v \in Threads \ {t} : pc'[v] = pc[v] /\ seen'[v] = seen[v]
        /\ pc[t] \in {"enter", "arrive", "reset"}
        /\ pc'[t] \in {"arrive", "reset", "release", "spin"}
        /\ pc'[t] = "spin" => pc[t] = "arrive" /\ seen'[t] = seen[t]
    BY <1>6 DEF Enter, Arrive, Reset, Goto, PoolTypeOK
  <2>3. CASE u # t
    BY <1>1, <2>1, <2>2, <2>3, PastKept
  <2>4. CASE u = t
    <3>1. InBarrier(u) /\ InBarrier(u)' /\ ~ Released(u) /\ pc'[u] # "prepare"
      BY <2>2, <2>4 DEF InBarrier, Released
    <3>2. ~ Released(u)'
      BY <2>1, <2>2, <2>4 DEF Released, BarrierOK
    <3>3. EffNode(u) \in Shared /\ EffWork(u)
      BY <1>1, <2>1, <3>1 DEF PastFirstHalf
    <3>4. EffNode(u)' = EffNode(u) /\ (EffWork(u)' <=> EffWork(u))
      BY <2>1, <2>2, <2>4, <3>1, <3>2 DEF EffNode, EffWork, InBarrier
    <3>5. QED
      BY <3>1, <3>3, <3>4 DEF PastFirstHalf
  <2>5. QED
    BY <2>3, <2>4
<1>7. ASSUME NEW t \in Threads, Enter(t), N = 1 PROVE PastFirstHalf(u)'
  <2>1. InBarrier(t) /\ PassBarrier(t) /\ u = t
    BY <1>7 DEF Enter, InBarrier, Threads
  <2>2. QED
    BY <2>1, PastBarrier
<1>8. ASSUME NEW t \in Threads, Release(t) PROVE PastFirstHalf(u)'
  <2>1. /\ InBarrier(t) /\ PassBarrier(t) /\ OthersWait(t)
        /\ UNCHANGED seen /\ n_barrier_passed' # n_barrier_passed
    BY <1>8 DEF Release, InBarrier, BarrierOK, PoolTypeOK
  <2>2. CASE u = t
    BY <2>1, <2>2, PastBarrier
  <2>3. CASE u # t
    <3>1. pc[u] = "spin" /\ seen[u] = n_barrier_passed /\ pc'[u] = pc[u]
      BY <1>8, <2>1, <2>3, StepShape DEF OthersWait, ThreadStep
    <3>2. Released(u)'
      BY <2>1, <3>1 DEF Released
    <3>3. QED
      BY <3>1, <3>2 DEF PastFirstHalf
  <2>4. QED
    BY <2>2, <2>3
<1>9. ASSUME NEW t \in Threads, Spin(t) PROVE PastFirstHalf(u)'
  <2>1. InBarrier(t) /\ PassBarrier(t) /\ UNCHANGED <<n_barrier_passed, abort>>
    BY <1>9 DEF Spin, InBarrier
  <2>2. CASE u = t
    BY <2>1, <2>2, PastBarrier
  <2>3. CASE u # t
    BY <1>1, <1>9, <2>1, <2>3, StepShape, PastKept DEF ThreadStep
  <2>4. QED
    BY <2>2, <2>3
<1>10. QED
  BY <1>2, <1>3, <1>4, <1>5, <1>6, <1>7, <1>8, <1>9 DEF PoolNext, ThreadStep

\* The invariant holds when the pool has been made ...
LEMMA AwakeInit == PoolInit => AwakeIInv
<1> SUFFICES ASSUME PoolInit PROVE AwakeIInv
  OBVIOUS
<1>1. /\ 0 \in Threads /\ N \in Nat \ {0} /\ n_graph = 0 /\ n_barrier = 0
      /\ stop = FALSE /\ abort = FALSE
      /\ \A t \in Threads : pc[t] = IF t = 0 THEN "kickoff" ELSE "top"
      /\ \A t \in Threads : last[t] = 0
      /\ Workers \subseteq Threads /\ 0 \notin Workers
  BY ThreadsFinite, PoolAssumption DEF PoolInit, Workers
<1>2. RolesOK
  BY <1>1 DEF RolesOK, AtRest
<1>3. RestOK
  BY <1>1 DEF RestOK, Rested, AtRest
<1>4. AbortOK /\ LastOpens
  BY <1>1 DEF AbortOK, LastOpens
<1>5. QED
  BY <1>2, <1>3, <1>4 DEF AwakeIInv

\* ... and every step keeps it.
LEMMA AwakeStep == PoolIInv /\ AwakeIInv /\ [PoolNext]_vars => AwakeIInv'
<1>1. ASSUME PoolIInv, AwakeIInv, PoolNext PROVE AwakeIInv'
  BY <1>1, RolesStep, RestStep, AbortStep, LastOpensStep DEF PoolIInv, AwakeIInv
<1>2. ASSUME AwakeIInv, UNCHANGED vars PROVE AwakeIInv'
  <2>1. /\ UNCHANGED <<pc, node, cur, goal, seen, last>>
        /\ UNCHANGED <<n_graph, n_barrier, n_barrier_passed, current_chunk, stop,
                       abort, done>>
    BY <1>2 DEF vars, threadVars
  <2>2. \A t \in Threads : PastFirstHalf(t) => PastFirstHalf(t)'
    BY <2>1, PastKept
  <2>3. AbortOK'
    BY <1>2, <2>1, <2>2 DEF AwakeIInv, AbortOK
  <2>4. RolesOK' /\ RestOK' /\ LastOpens'
    BY <1>2, <2>1 DEF AwakeIInv, RolesOK, RestOK, Rested, AtRest, LastOpens
  <2>5. QED
    BY <2>3, <2>4 DEF AwakeIInv
<1>3. QED
  BY <1>1, <1>2

\* A thread waits at a closed barrier.
Waits(t) == pc[t] = "spin" /\ seen[t] = n_barrier_passed

\* A thread that waits at a barrier is in the same half as every other one, which
\* has therefore neither left the graph nor rests after it.
LEMMA NobodyLeaves ==
  ASSUME PoolIInv, AwakeIInv, abort => AbortNodes \subseteq Shared,
         NEW t \in Threads, Waits(t), NEW u \in Threads,
         ~ InBarrier(u), ~ EffWork(u)
  PROVE  ~ abort /\ node[u] <= Nodes
<1>1. InBarrier(t) /\ ~ Released(t) /\ EffNode(t) = node[t] /\ node[t] <= Nodes
  BY DEF Waits, Released, InBarrier, EffNode, PoolIInv, PlacesOK, PlaceOK
<1>2. EffNode(u) = node[u] /\ node[u] = node[t]
  BY <1>1 DEF PoolIInv, Aligned, EffNode, Released, InBarrier
<1>3. ~ (EffNode(t) \in Shared /\ EffWork(t))
  BY DEF PoolIInv, Aligned
<1>4. ~ abort
  BY <1>1, <1>3 DEF AwakeIInv, AbortOK, PastFirstHalf
<1>5. QED
  BY <1>1, <1>2, <1>4

\* Not all threads wait at the barrier.
LEMMA NotAllWait ==
  ASSUME PoolIInv, AwakeIInv
  PROVE  \E t \in Threads : ~ Waits(t)
<1> SUFFICES ASSUME \A t \in Threads : Waits(t) PROVE FALSE
  OBVIOUS
<1>1. Arrived = Threads
  BY DEF Arrived, Waits
<1>2. n_barrier = N /\ n_barrier < N
  BY <1>1, ThreadsFinite DEF Waits, PoolIInv, BarrierOK, AwakeIInv, LastOpens
<1>3. QED
  BY <1>2, PoolAssumption

\* Whatever the numbers of threads, nodes and chunks: until the pool of a graph
\* is freed some thread can go on.
THEOREM PoolNeverStuck == PoolSpec => []NobodyStuck
<1>1. PoolIInv /\ AwakeIInv => NobodyStuck
  <2> SUFFICES ASSUME PoolIInv, AwakeIInv, pc[0] # "freed",
                      abort => AbortNodes \subseteq Shared,
                      \A t \in Threads : ~ CanGoOn(t)
               PROVE  FALSE
    BY DEF NobodyStuck
  <2>0. /\ 0 \in Threads /\ Workers = Threads \ {0} /\ Nodes \in Nat
        /\ PoolTypeOK
    BY ThreadsFinite, PoolAssumption DEF Threads, Workers, PoolIInv
  <2>1. \A t \in Threads : Waits(t) \/ pc[t] \in {"asleep", "exit", "join", "freed"}
    BY DEF CanGoOn, Waits
  <2>2. Waits(0) \/ pc[0] = "join"
    BY <2>0, <2>1 DEF AwakeIInv, RolesOK, AtRest
  <2>3. CASE Waits(0)
    <3>1. PICK u \in Threads : ~ Waits(u)
      BY NotAllWait
    <3>2. ~ stop /\ n_graph = 1 /\ u # 0
      BY <2>0, <2>3, <3>1 DEF AwakeIInv, RolesOK, Waits, PoolTypeOK
    <3>3. pc[u] = "asleep" /\ last[u] = 1
      BY <2>0, <2>1, <3>1, <3>2 DEF AwakeIInv, RolesOK, RestOK, Rested
    <3>4. abort \/ node[u] = Nodes + 1
      BY <3>3 DEF AwakeIInv, RestOK, Rested, AtRest
    <3>5. ~ InBarrier(u) /\ ~ EffWork(u)
      BY <3>3 DEF InBarrier, EffWork, Released
    <3>6. QED
      BY <2>0, <2>3, <3>4, <3>5, NobodyLeaves
  <2>4. CASE pc[0] = "join"
    <3>1. PICK u \in Workers : pc[u] # "exit"
      BY <2>0, <2>4 DEF CanGoOn
    <3>2. stop
      BY <2>4 DEF AwakeIInv, RolesOK
    <3>3. Waits(u)
      BY <2>0, <2>1, <3>1, <3>2 DEF AwakeIInv, RolesOK, RestOK, Rested
    <3>4. abort \/ node[0] = Nodes + 1
      BY <2>0, <2>4 DEF PoolIInv, PlacesOK, PlaceOK
    <3>5. ~ InBarrier(0) /\ ~ EffWork(0)
      BY <2>4 DEF InBarrier, EffWork, Released
    <3>6. QED
      BY <2>0, <3>1, <3>3, <3>4, <3>5, NobodyLeaves
  <2>5. QED
    BY <2>2, <2>3, <2>4
<1>2. PoolInit => PoolIInv /\ AwakeIInv
  BY PoolIInvInit, AwakeInit
<1>3. PoolIInv /\ AwakeIInv /\ [PoolNext]_vars => (PoolIInv /\ AwakeIInv)'
  BY PoolIInvStep, AwakeStep
<1>4. QED
  BY <1>1, <1>2, <1>3, PTL DEF PoolSpec

=============================================================================
