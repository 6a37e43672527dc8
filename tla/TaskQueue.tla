------------------------------ MODULE TaskQueue ------------------------------
(***************************************************************************)
(* task_queue.h (MUTEX_QUEUE): a mutex-protected LIFO list of join tasks.  *)
(* Its elements are slots of blocks that a second mutex hands out.  The    *)
(* threads use it as the second pass of prj_thread does: each adds its     *)
(* tasks, all meet at a barrier, then all take tasks until none is left.   *)
(***************************************************************************)
EXTENDS Integers, Sequences, FiniteSets

CONSTANTS
  Threads,
  Tasks,       (* the tasks to be queued                            *)
  Owner,       (* Owner[k]: the thread that adds task k             *)
  alloc_size,  (* slots in a block                                  *)
  NoThread,    (* nobody holds the mutex                            *)
  NoTask       (* the content of an unused slot                     *)

ASSUME QueueAssumption ==
  /\ IsFiniteSet(Tasks)
  /\ Owner \in [Tasks -> Threads]
  /\ alloc_size \in Nat \ {0}
  /\ NoThread \notin Threads
  /\ NoTask \notin Tasks

NULL == 0
(* Slot s is tasks[(s - 1) % alloc_size] of block (s - 1) / alloc_size. *)
Slots == 1 .. Cardinality(Tasks) + alloc_size

VARIABLES
  lock, alloc_lock,  (* the threads that hold the two mutexes            *)
  head, count,       (* the list                                         *)
  next, task,        (* task_t::next and the payload of each slot        *)
  blocks, curr,      (* blocks in free_list, slots used in the newest    *)
  todo,              (* tasks not yet written to a slot                  *)
  ret,               (* ret[t]: the slot in the hands of thread t        *)
  taken,             (* taken[k]: how often task k has been taken        *)
  pc,
  stack              (* history: the slots in the list, oldest first     *)

vars == << lock, alloc_lock, head, count, next, task, blocks, curr, todo, ret, taken, pc, stack >>

-----------------------------------------------------------------------------
(* task_queue_init allocates the first block. *)
Init ==
  /\ lock = NoThread /\ alloc_lock = NoThread
  /\ head = NULL /\ count = 0
  /\ next = [s \in Slots |-> NULL] /\ task = [s \in Slots |-> NoTask]
  /\ blocks = 1 /\ curr = 0
  /\ todo = Tasks
  /\ ret = [t \in Threads |-> NULL]
  /\ taken = [k \in Tasks |-> 0]
  /\ pc = [t \in Threads |-> "produce"]
  /\ stack = << >>

Mine(t) == {k \in todo : Owner[k] = t}

(* task_queue_get_slot_atomic: the next slot of the newest block, or the    *)
(* first one of a new block.                                                *)
LockAlloc(t) ==
  /\ pc[t] = "produce" /\ Mine(t) # {}
  /\ alloc_lock = NoThread
  /\ alloc_lock' = t
  /\ pc' = [pc EXCEPT ![t] = "slot"]
  /\ UNCHANGED << lock, head, count, next, task, blocks, curr, todo, ret, taken, stack >>

GetSlot(t) ==
  /\ pc[t] = "slot"
  /\ ret' = [ret EXCEPT ![t] =
       IF curr < alloc_size THEN (blocks - 1) * alloc_size + curr + 1
                            ELSE blocks * alloc_size + 1]
  /\ pc' = [pc EXCEPT ![t] = "bump"]
  /\ UNCHANGED << lock, alloc_lock, head, count, next, task, blocks, curr, todo, taken, stack >>

UseSlot(t) ==
  /\ pc[t] = "bump"
  /\ IF curr < alloc_size
       THEN curr' = curr + 1 /\ UNCHANGED blocks
       ELSE blocks' = blocks + 1 /\ curr' = 1
  /\ alloc_lock' = NoThread
  /\ pc' = [pc EXCEPT ![t] = "fill"]
  /\ UNCHANGED << lock, head, count, next, task, todo, ret, taken, stack >>

(* serial_radix_partition writes the task to the slot, without a lock.      *)
Fill(t) ==
  /\ pc[t] = "fill"
  /\ \E k \in Mine(t) :
       /\ task' = [task EXCEPT ![ret[t]] = k]
       /\ todo' = todo \ {k}
  /\ pc' = [pc EXCEPT ![t] = "add"]
  /\ UNCHANGED << lock, alloc_lock, head, count, next, blocks, curr, ret, taken, stack >>

(* Mutant: task_queue_add instead of task_queue_add_atomic. *)
MutLockAdd(t) ==
  /\ pc[t] = "add"
  /\ pc' = [pc EXCEPT ![t] = "link"]
  /\ UNCHANGED << lock, alloc_lock, head, count, next, task, blocks, curr, todo, ret, taken, stack >>

(* task_queue_add_atomic *)
LockAdd(t) ==
  /\ pc[t] = "add"
  /\ lock = NoThread
  /\ lock' = t
  /\ pc' = [pc EXCEPT ![t] = "link"]
  /\ UNCHANGED << alloc_lock, head, count, next, task, blocks, curr, todo, ret, taken, stack >>

Link(t) ==
  /\ pc[t] = "link"
  /\ next' = [next EXCEPT ![ret[t]] = head]
  /\ pc' = [pc EXCEPT ![t] = "push"]
  /\ UNCHANGED << lock, alloc_lock, head, count, task, blocks, curr, todo, ret, taken, stack >>

Push(t) ==
  /\ pc[t] = "push"
  /\ head' = ret[t]
  /\ count' = count + 1
  /\ stack' = Append(stack, ret[t])
  /\ ret' = [ret EXCEPT ![t] = NULL]
  /\ lock' = NoThread
  /\ pc' = [pc EXCEPT ![t] = "produce"]
  /\ UNCHANGED << alloc_lock, next, task, blocks, curr, todo, taken >>

(* The barrier between the producing and the draining loop. *)
Arrive(t) ==
  /\ pc[t] = "produce" /\ Mine(t) = {}
  /\ pc' = [pc EXCEPT ![t] = "barrier"]
  /\ UNCHANGED << lock, alloc_lock, head, count, next, task, blocks, curr, todo, ret, taken, stack >>

Producing == {"produce", "slot", "bump", "fill", "add", "link", "push"}

MutLeave(t) ==
  /\ pc[t] = "barrier"
  /\ pc' = [pc EXCEPT ![t] = "drain"]
  /\ UNCHANGED << lock, alloc_lock, head, count, next, task, blocks, curr, todo, ret, taken, stack >>

Leave(t) ==
  /\ pc[t] = "barrier"
  /\ \A u \in Threads : pc[u] \notin Producing
  /\ pc' = [pc EXCEPT ![t] = "drain"]
  /\ UNCHANGED << lock, alloc_lock, head, count, next, task, blocks, curr, todo, ret, taken, stack >>

(* task_queue_get_atomic; a NULL result ends the thread's loop. *)
LockGet(t) ==
  /\ pc[t] = "drain"
  /\ lock = NoThread
  /\ lock' = t
  /\ pc' = [pc EXCEPT ![t] = "get"]
  /\ UNCHANGED << alloc_lock, head, count, next, task, blocks, curr, todo, ret, taken, stack >>

GetHead(t) ==
  /\ pc[t] = "get" /\ count > 0
  /\ ret' = [ret EXCEPT ![t] = head]
  /\ pc' = [pc EXCEPT ![t] = "pop"]
  /\ UNCHANGED << lock, alloc_lock, head, count, next, task, blocks, curr, todo, taken, stack >>

(* Mutant: a thread without a task tries again. *)
MutGetNone(t) ==
  /\ pc[t] = "get" /\ count = 0
  /\ lock' = NoThread
  /\ pc' = [pc EXCEPT ![t] = "drain"]
  /\ UNCHANGED << alloc_lock, head, count, next, task, blocks, curr, todo, ret, taken, stack >>

GetNone(t) ==
  /\ pc[t] = "get" /\ count = 0
  /\ lock' = NoThread
  /\ pc' = [pc EXCEPT ![t] = "done"]
  /\ UNCHANGED << alloc_lock, head, count, next, task, blocks, curr, todo, ret, taken, stack >>

Pop(t) ==
  /\ pc[t] = "pop"
  /\ head' = next[ret[t]]
  /\ count' = count - 1
  /\ stack' = SubSeq(stack, 1, Len(stack) - 1)
  /\ lock' = NoThread
  /\ pc' = [pc EXCEPT ![t] = "run"]
  /\ UNCHANGED << alloc_lock, next, task, blocks, curr, todo, ret, taken >>

Run(t) ==
  /\ pc[t] = "run"
  /\ taken' = [taken EXCEPT ![task[ret[t]]] = IF @ = 2 THEN 2 ELSE @ + 1]
  /\ ret' = [ret EXCEPT ![t] = NULL]
  /\ pc' = [pc EXCEPT ![t] = "drain"]
  /\ UNCHANGED << lock, alloc_lock, head, count, next, task, blocks, curr, todo, stack >>

Step(t) ==
  \/ LockAlloc(t) \/ GetSlot(t) \/ UseSlot(t) \/ Fill(t)
  \/ LockAdd(t) \/ Link(t) \/ Push(t)
  \/ Arrive(t) \/ Leave(t)
  \/ LockGet(t) \/ GetHead(t) \/ GetNone(t) \/ Pop(t) \/ Run(t)

AllDone == \A t \in Threads : pc[t] = "done"
Terminated == AllDone /\ UNCHANGED vars

Next == (\E t \in Threads : Step(t)) \/ Terminated

Spec == Init /\ [][Next]_vars

(* Critical sections are short and the number of tasks is finite, so weak   *)
(* fairness of each thread is enough although a mutex is not fair.          *)
FairSpec == Spec /\ \A t \in Threads : WF_vars(Step(t))

-----------------------------------------------------------------------------
(* The slots that a thread is filling or queueing, or about to run. *)
Held(t) == pc[t] \in {"bump", "fill", "add", "link", "push", "run"}

InList == {stack[n] : n \in DOMAIN stack}

(* A slot is in the hands of one thread, or in the list once, or in neither *)
(* place; the allocator does not hand out one that is in use.               *)
SlotsExclusive ==
  /\ \A t, u \in Threads : Held(t) /\ Held(u) /\ t # u => ret[t] # ret[u]
  /\ \A t \in Threads : Held(t) => ret[t] \notin InList
  /\ Cardinality(InList) = Len(stack)

(* Whenever no thread is inside a critical section, head and the next       *)
(* pointers are a list of exactly count elements that ends in NULL.         *)
ListIntact ==
  lock = NoThread =>
    /\ count = Len(stack)
    /\ head = IF stack = << >> THEN NULL ELSE stack[Len(stack)]
    /\ \A n \in DOMAIN stack : next[stack[n]] = IF n = 1 THEN NULL ELSE stack[n - 1]

(* The list that the threads share is intact and holds nobody else's slot.  *)
QueueIntact == SlotsExclusive /\ ListIntact

(* Places where task k can be: still to do, in the list, in a thread's      *)
(* hands, run.                                                              *)
Places(k) ==
  (IF k \in todo THEN 1 ELSE 0)
  + Cardinality({n \in DOMAIN stack : task[stack[n]] = k})
  + Cardinality({t \in Threads : pc[t] \in {"add", "link", "push", "run"} /\ task[ret[t]] = k})
  + taken[k]

(* At any time a task is in exactly one place, once: no slot has two users  *)
(* and the list that the threads share stays a list.                        *)
TasksConserved == QueueIntact /\ \A k \in Tasks : Places(k) = 1

(* An empty answer after the barrier means that the work is distributed: a  *)
(* thread that stops leaves no task behind in the list.                     *)
StopsWhenEmpty ==
  (\E t \in Threads : pc[t] = "done") => stack = << >> /\ todo = {}

(* All tasks get run and all threads stop. *)
Drained == <>(AllDone /\ \A k \in Tasks : taken[k] = 1)
=============================================================================
