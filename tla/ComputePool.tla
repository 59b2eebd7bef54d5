---------------------------- MODULE ComputePool -----------------------------
(***************************************************************************)
(* The threads that compute a graph for the speech engine                  *)
(* (cpp/whisper/ggml/src/ggml.c, built without OpenMP): the pool that      *)
(* ggml_graph_compute makes for one graph, its workers' hybrid of polling  *)
(* and sleeping, the barrier between the nodes, the chunks of a matrix     *)
(* multiplication handed out by a shared counter, the abort flag, and the  *)
(* freeing of the pool.                                                    *)
(*                                                                         *)
(* The app gives no pool to the engine, so every graph gets a pool of its  *)
(* own, never paused and with all its threads active.  What is done under  *)
(* the pool's mutex is one step: n_graph and stop, the only two of its     *)
(* variables others look at without the mutex, are each written once, and  *)
(* a thread that sees them early is as one that comes late to the mutex.   *)
(* Atomic operations take effect in one order (the relaxed ones are kept   *)
(* in place by the sequentially consistent ones around them).              *)
(***************************************************************************)
EXTENDS Integers

CONSTANTS
  N,          \* cplan.n_threads
  Nodes,      \* the graph has the nodes 1 .. Nodes
  Chunks,     \* of the nodes that hand out chunks (mul_mat): how many; the
              \* other nodes have one part for each thread
  AbortNodes  \* the nodes after which the abort callback may return true

Shared == DOMAIN Chunks

ASSUME PoolAssumption ==
  /\ N \in Nat \ {0}
  /\ Nodes \in Nat
  /\ Shared \subseteq 1 .. Nodes
  /\ Chunks \in [Shared -> Nat \ {0}]
  /\ AbortNodes \subseteq 1 .. Nodes

VARIABLES
  pc,       \* where each thread is; thread 0 is the one that was called
  node,     \* node_n of each thread
  cur,      \* current_chunk of each thread
  goal,     \* where each thread goes after the barrier: "chunk" or "loop"
  seen,     \* n_passed of each thread, read when it comes to the barrier
  last,     \* last_graph of each thread
  n_graph, n_barrier, n_barrier_passed, current_chunk, stop, abort,
  done      \* history: the parts <<node, chunk>> that have been computed

threadVars == <<pc, node, cur, goal, seen, last>>
vars == <<threadVars, n_graph, n_barrier, n_barrier_passed, current_chunk,
          stop, abort, done>>

-----------------------------------------------------------------------------

Threads == 0 .. N - 1
Workers == 1 .. N - 1

PartsOf(n) == IF n \in Shared THEN 0 .. Chunks[n] - 1 ELSE Threads

PoolInit ==
  /\ pc = [t \in Threads |-> IF t = 0 THEN "kickoff" ELSE "top"]
  /\ node = [t \in Threads |-> 1]
  /\ cur = [t \in Threads |-> 0]
  /\ goal = [t \in Threads |-> "loop"]
  /\ seen = [t \in Threads |-> 0]
  /\ last = [t \in Threads |-> 0]
  /\ n_graph = 0 /\ n_barrier = 0 /\ n_barrier_passed = 0 /\ current_chunk = 0
  /\ stop = FALSE /\ abort = FALSE
  /\ done = {}

\* Thread t goes on at a.
Goto(t, a) == pc' = [pc EXCEPT ![t] = a]

-----------------------------------------------------------------------------
(***************************************************************************)
(* The workers between graphs                                              *)
(***************************************************************************)

Top(t) ==
  /\ pc[t] = "top"
  /\ Goto(t, IF stop THEN "exit" ELSE "poll")
  /\ UNCHANGED <<node, cur, goal, seen, last, n_graph, n_barrier,
                 n_barrier_passed, current_chunk, stop, abort, done>>

(***************************************************************************)
(* ggml_graph_compute_thread_ready, and what its caller does then: a stop  *)
(* comes first and sends the thread to the top of its loop, a new graph    *)
(* into the graph, and with neither of them it goes on at idle.            *)
(***************************************************************************)
CheckForWork(t, idle) ==
  /\ IF ~ stop /\ n_graph # last[t]
       THEN last' = [last EXCEPT ![t] = n_graph] /\ Goto(t, "loop")
       ELSE UNCHANGED last /\ Goto(t, IF stop THEN "top" ELSE idle)
  /\ UNCHANGED <<node, cur, goal, seen, n_graph, n_barrier, n_barrier_passed,
                 current_chunk, stop, abort, done>>

\* Polling: some rounds without work are skipped, after the last the thread
\* takes the mutex to sleep.
Poll(t) == pc[t] = "poll" /\ CheckForWork(t, "lock")

\* With the mutex held: the check and the wait for the condition variable.
Lock(t) == pc[t] = "lock" /\ CheckForWork(t, "asleep")

\* A condition variable may wake a thread for no reason.
WakeSpuriously(t) ==
  /\ pc[t] = "asleep"
  /\ Goto(t, "lock")
  /\ UNCHANGED <<node, cur, goal, seen, last, n_graph, n_barrier,
                 n_barrier_passed, current_chunk, stop, abort, done>>

\* Thread 0 goes on at a, and the sleeping threads contend for the mutex.
Broadcast(a) ==
  pc' = [t \in Threads |-> IF t = 0 THEN a
                           ELSE IF pc[t] = "asleep" THEN "lock" ELSE pc[t]]

-----------------------------------------------------------------------------
(***************************************************************************)
(* The calling thread, before and after its part of the graph              *)
(***************************************************************************)

\* Mutant: the workers that sleep are not told of the new graph.
KickoffWithoutBroadcast ==
  /\ pc[0] = "kickoff"
  /\ n_graph' = n_graph + 1
  /\ Goto(0, "loop")
  /\ UNCHANGED <<node, cur, goal, seen, last, n_barrier, n_barrier_passed,
                 current_chunk, stop, abort, done>>

Kickoff ==
  /\ pc[0] = "kickoff"
  /\ n_graph' = n_graph + 1
  /\ Broadcast("loop")
  /\ UNCHANGED <<node, cur, goal, seen, last, n_barrier, n_barrier_passed,
                 current_chunk, stop, abort, done>>

\* ggml_threadpool_free: the workers are told to stop ...
Free ==
  /\ pc[0] = "free"
  /\ stop' = TRUE
  /\ Broadcast("join")
  /\ UNCHANGED <<node, cur, goal, seen, last, n_graph, n_barrier,
                 n_barrier_passed, current_chunk, abort, done>>

\* ... and joined, one after the other, before the memory is freed.
Join ==
  /\ pc[0] = "join"
  /\ \A t \in Workers : pc[t] = "exit"
  /\ Goto(0, "freed")
  /\ UNCHANGED <<node, cur, goal, seen, last, n_graph, n_barrier,
                 n_barrier_passed, current_chunk, stop, abort, done>>

-----------------------------------------------------------------------------
(***************************************************************************)
(* ggml_graph_compute_thread: the loop over the nodes                      *)
(***************************************************************************)

\* Mutant: the loop ends one node early.
LoopShort(t) ==
  /\ pc[t] = "loop"
  /\ IF node[t] < Nodes /\ ~ abort
       THEN IF node[t] \in Shared
              THEN Goto(t, "prepare") /\ UNCHANGED cur
              ELSE Goto(t, "chunk") /\ cur' = [cur EXCEPT ![t] = t]
       ELSE Goto(t, IF t = 0 THEN "free" ELSE "top") /\ UNCHANGED cur
  /\ UNCHANGED <<node, goal, seen, last, n_graph, n_barrier, n_barrier_passed,
                 current_chunk, stop, abort, done>>

Loop(t) ==
  /\ pc[t] = "loop"
  /\ IF node[t] <= Nodes /\ ~ abort
       THEN IF node[t] \in Shared
              THEN Goto(t, "prepare") /\ UNCHANGED cur
              ELSE Goto(t, "chunk") /\ cur' = [cur EXCEPT ![t] = t]
       ELSE Goto(t, IF t = 0 THEN "free" ELSE "top") /\ UNCHANGED cur
  /\ UNCHANGED <<node, goal, seen, last, n_graph, n_barrier, n_barrier_passed,
                 current_chunk, stop, abort, done>>

\* Mutant: the halves of mul_mat are not separated by a barrier.
PrepareWithoutBarrier(t) ==
  /\ pc[t] = "prepare"
  /\ current_chunk' = IF t = 0 THEN N ELSE current_chunk
  /\ cur' = [cur EXCEPT ![t] = t]
  /\ Goto(t, "chunk")
  /\ UNCHANGED <<node, goal, seen, last, n_graph, n_barrier, n_barrier_passed,
                 stop, abort, done>>

(***************************************************************************)
(* The first half of mul_mat: each thread converts its rows of src1 into   *)
(* the shared work buffer, and thread 0 resets the chunk counter.          *)
(***************************************************************************)
Prepare(t) ==
  /\ pc[t] = "prepare"
  /\ current_chunk' = IF t = 0 THEN N ELSE current_chunk
  /\ goal' = [goal EXCEPT ![t] = "chunk"]
  /\ Goto(t, "enter")
  /\ UNCHANGED <<node, cur, seen, last, n_graph, n_barrier, n_barrier_passed,
                 stop, abort, done>>

(***************************************************************************)
(* A thread that has nothing more to do in its node goes to the barrier,   *)
(* thread 0 after asking the abort callback.                               *)
(***************************************************************************)
LeaveNode(t) ==
  /\ abort' \in IF t = 0 /\ node[t] \in AbortNodes THEN {abort, TRUE} ELSE {abort}
  /\ goal' = [goal EXCEPT ![t] = "loop"]
  /\ Goto(t, "enter")

(***************************************************************************)
(* One part of a node.  A thread begins with the part of its number; in    *)
(* mul_mat it takes the next one from the counter, unless there are no     *)
(* more parts than threads.                                                *)
(***************************************************************************)
Compute(t) ==
  /\ pc[t] = "chunk" /\ cur[t] \in PartsOf(node[t])
  /\ done' = done \cup {<<node[t], cur[t]>>}
  /\ IF node[t] \in Shared /\ N < Chunks[node[t]]
       THEN /\ cur' = [cur EXCEPT ![t] = current_chunk]
            /\ current_chunk' = current_chunk + 1
            /\ UNCHANGED <<pc, goal, abort>>
       ELSE LeaveNode(t) /\ UNCHANGED <<cur, current_chunk>>
  /\ UNCHANGED <<node, seen, last, n_graph, n_barrier, n_barrier_passed, stop>>

NoMoreChunks(t) ==
  /\ pc[t] = "chunk" /\ cur[t] \notin PartsOf(node[t])
  /\ LeaveNode(t)
  /\ UNCHANGED <<node, cur, seen, last, n_graph, n_barrier, n_barrier_passed,
                 current_chunk, stop, done>>

-----------------------------------------------------------------------------
(***************************************************************************)
(* ggml_barrier                                                            *)
(***************************************************************************)

\* The thread has passed the barrier and goes to its goal.
PassBarrier(t) ==
  /\ Goto(t, goal[t])
  /\ IF goal[t] = "chunk"
       THEN cur' = [cur EXCEPT ![t] = t] /\ UNCHANGED node
       ELSE node' = [node EXCEPT ![t] = @ + 1] /\ UNCHANGED cur

\* n_passed is read before the thread is counted.
Enter(t) ==
  /\ pc[t] = "enter"
  /\ IF N = 1
       THEN PassBarrier(t) /\ UNCHANGED seen
       ELSE /\ seen' = [seen EXCEPT ![t] = n_barrier_passed]
            /\ Goto(t, "arrive")
            /\ UNCHANGED <<node, cur>>
  /\ UNCHANGED <<goal, last, n_graph, n_barrier, n_barrier_passed,
                 current_chunk, stop, abort, done>>

\* Mutant: the last thread but one opens the barrier.
ArriveOneEarly(t) ==
  /\ pc[t] = "arrive"
  /\ n_barrier' = n_barrier + 1
  /\ Goto(t, IF n_barrier = N - 2 THEN "reset" ELSE "spin")
  /\ UNCHANGED <<node, cur, goal, seen, last, n_graph, n_barrier_passed,
                 current_chunk, stop, abort, done>>

Arrive(t) ==
  /\ pc[t] = "arrive"
  /\ n_barrier' = n_barrier + 1
  /\ Goto(t, IF n_barrier = N - 1 THEN "reset" ELSE "spin")
  /\ UNCHANGED <<node, cur, goal, seen, last, n_graph, n_barrier_passed,
                 current_chunk, stop, abort, done>>

Reset(t) ==
  /\ pc[t] = "reset"
  /\ n_barrier' = 0
  /\ Goto(t, "release")
  /\ UNCHANGED <<node, cur, goal, seen, last, n_graph, n_barrier_passed,
                 current_chunk, stop, abort, done>>

Release(t) ==
  /\ pc[t] = "release"
  /\ n_barrier_passed' = n_barrier_passed + 1
  /\ PassBarrier(t)
  /\ UNCHANGED <<goal, seen, last, n_graph, n_barrier, current_chunk, stop,
                 abort, done>>

Spin(t) ==
  /\ pc[t] = "spin"
  /\ n_barrier_passed # seen[t]
  /\ PassBarrier(t)
  /\ UNCHANGED <<goal, seen, last, n_graph, n_barrier, n_barrier_passed,
                 current_chunk, stop, abort, done>>

-----------------------------------------------------------------------------

ThreadStep(t) ==
  \/ Top(t) \/ Poll(t) \/ Lock(t)
  \/ Loop(t) \/ Prepare(t) \/ Compute(t) \/ NoMoreChunks(t)
  \/ Enter(t) \/ Arrive(t) \/ Reset(t) \/ Release(t) \/ Spin(t)

CallerStep == Kickoff \/ Free \/ Join

PoolNext ==
  \/ CallerStep
  \/ \E t \in Threads : ThreadStep(t) \/ WakeSpuriously(t)

\* The operating system runs every thread that can run.
PoolSpec ==
  /\ PoolInit /\ [][PoolNext]_vars
  /\ WF_vars(CallerStep)
  /\ \A t \in Threads : WF_vars(ThreadStep(t))

-----------------------------------------------------------------------------

Places ==
  {"kickoff", "top", "poll", "lock", "asleep", "exit", "loop", "prepare",
   "chunk", "enter", "arrive", "reset", "release", "spin", "free", "join",
   "freed"}

PoolTypeOK ==
  /\ pc \in [Threads -> Places]
  /\ node \in [Threads -> 1 .. Nodes + 1]
  /\ cur \in [Threads -> Nat]
  /\ goal \in [Threads -> {"chunk", "loop"}]
  /\ seen \in [Threads -> Nat]
  /\ last \in [Threads -> {0, 1}]
  /\ n_graph \in {0, 1} /\ n_barrier \in 0 .. N /\ n_barrier_passed \in Nat
  /\ current_chunk \in Nat
  /\ stop \in BOOLEAN /\ abort \in BOOLEAN
  /\ done \subseteq (1 .. Nodes) \X Nat

\* The work buffer that mul_mat fills in its first half is not filled for a
\* node while a thread still computes from it, for this node or another.
WorkBufferStable ==
  \A t, u \in Threads : pc[t] = "prepare" => pc[u] # "chunk"

\* A graph that was not aborted is computed completely before the pool of
\* its threads is freed, and a freed pool has no thread at work.
FreedMeansComputed ==
  pc[0] \in {"free", "join", "freed"} /\ ~ abort =>
    \A n \in 1 .. Nodes : \A p \in PartsOf(n) : <<n, p>> \in done

\* The threads compute the graph as one thread would: in the order of its
\* nodes, every part once.
Order == INSTANCE NodeByNode WITH Parts <- [n \in 1 .. Nodes |-> PartsOf(n)]
ComputedInOrder == Order!OrderSpec

\* Thread t waits for no other: it does not sleep, spin at a barrier that is
\* still closed, or wait for the workers to end.
CanGoOn(t) ==
  /\ pc[t] \notin {"asleep", "exit", "freed"}
  /\ pc[t] = "spin" => n_barrier_passed # seen[t]
  /\ pc[t] = "join" => \A u \in Workers : pc[u] = "exit"

\* Until the pool is freed some thread can go on, without a wake-up for no
\* reason: the threads never all wait for each other.  (Of an aborted graph only
\* if the callback aborts after nodes whose halves a barrier separates.)
NobodyStuck ==
  pc[0] # "freed" /\ (abort => AbortNodes \subseteq Shared) =>
    \E t \in Threads : CanGoOn(t)

\* The call returns: no thread is left asleep, spinning or waiting.
GraphEnds == <>(pc[0] = "freed")

=============================================================================
