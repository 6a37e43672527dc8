--------------------------- MODULE TaskQueueProofs ---------------------------
(***************************************************************************)
(* The mutex-protected task queue is correct for any set of threads, any   *)
(* finite set of tasks, any distribution of them and any block size.       *)
(***************************************************************************)
EXTENDS TaskQueue, FiniteSetTheorems, SequenceTheorems, TLAPS

(* The positions of a thread: those of the producing loop, those inside the *)
(* critical sections of the two mutexes, those with a filled slot in hand.  *)
States == Producing \cup {"barrier", "drain", "get", "pop", "run", "done"}
InQueue == {"link", "push", "get", "pop"}
InAlloc == {"slot", "bump"}
Carrying == {"add", "link", "push", "run"}

(* Slots that the allocator has handed out; threads that have one to fill;  *)
(* slots that hold a task, in the list or in a thread's hands; tasks that   *)
(* are in such a slot.                                                      *)
Used == (blocks - 1) * alloc_size + curr
Filling == {t \in Threads : pc[t] = "fill"}
Filled == InList \cup {ret[t] : t \in {u \in Threads : pc[u] \in Carrying}}
Live == {k \in Tasks : k \notin todo /\ taken[k] = 0}

(* The variables have their types. That head, ret and next only name slots  *)
(* of the blocks the model provides rests on the rest of the invariant.     *)
TypeOK ==
  /\ lock \in Threads \cup {NoThread}
  /\ alloc_lock \in Threads \cup {NoThread}
  /\ head \in Slots \cup {NULL}
  /\ count \in Nat
  /\ next \in [Slots -> Slots \cup {NULL}]
  /\ task \in [Slots -> Tasks \cup {NoTask}]
  /\ blocks \in Nat \ {0}
  /\ curr \in 0 .. alloc_size
  /\ todo \subseteq Tasks
  /\ ret \in [Threads -> Slots \cup {NULL}]
  /\ taken \in [Tasks -> {0, 1}]
  /\ pc \in [Threads -> States]
  /\ stack \in Seq(Slots)

(* A mutex is held by the thread inside its critical section, and by none   *)
(* other.                                                                   *)
MutexInv ==
  /\ \A t \in Threads : lock = t <=> pc[t] \in InQueue
  /\ \A t \in Threads : alloc_lock = t <=> pc[t] \in InAlloc

(* The allocator has handed out one slot for each task that is written and  *)
(* each thread about to write one; every slot in use is one of them, and    *)
(* the one being handed out is the next. A thread that asks for a slot still *)
(* has a task to write, so there are never more slots than tasks.           *)
AllocInv ==
  /\ IsFiniteSet(Filling)
  /\ Used = Cardinality(Tasks \ todo) + Cardinality(Filling)
  /\ \A t \in Threads :
       /\ pc[t] \in {"slot", "bump", "fill"} => Mine(t) # {}
       /\ pc[t] = "bump" => ret[t] = Used + 1
       /\ pc[t] \in Carrying \cup {"fill"} => ret[t] \in 1 .. Used
  /\ \A n \in DOMAIN stack : stack[n] \in 1 .. Used

(* head and next are the list in the history variable, in every state and   *)
(* not only outside the critical sections: a slot is linked before it is    *)
(* pushed, and count and head change together. Slots are exclusive.         *)
ListInv ==
  /\ \A n, m \in DOMAIN stack : stack[n] = stack[m] => n = m
  /\ count = Len(stack)
  /\ head = IF stack = << >> THEN NULL ELSE stack[Len(stack)]
  /\ \A n \in DOMAIN stack : next[stack[n]] = IF n = 1 THEN NULL ELSE stack[n - 1]
  /\ \A t, u \in Threads : Held(t) /\ Held(u) /\ t # u => ret[t] # ret[u]
  /\ \A t \in Threads :
       /\ Held(t) => ret[t] \notin InList
       /\ pc[t] = "push" => next[ret[t]] = head
       /\ pc[t] = "pop" => stack # << >> /\ ret[t] = head

(* The filled slots and the tasks that are queued or carried correspond to  *)
(* each other one to one; the others are still to do or have run once.      *)
TaskInv ==
  /\ \A k \in todo : taken[k] = 0
  /\ \A s \in Filled : task[s] \in Live
  /\ \A s, r \in Filled : task[s] = task[r] => s = r
  /\ \A k \in Live : \E s \in Filled : task[s] = k

(* A thread leaves the producing loop without tasks of its own, nobody      *)
(* passes the barrier while another one produces, and an empty answer stays *)
(* true because nobody adds tasks any more.                                 *)
PhaseInv ==
  /\ \A t \in Threads : pc[t] \notin Producing => Mine(t) = {}
  /\ \A t, u \in Threads :
       pc[t] \notin Producing \cup {"barrier"} => pc[u] \notin Producing
  /\ \A t \in Threads : pc[t] = "done" => stack = << >>

(* The inductive invariant.                                                 *)
IInv == TypeOK /\ MutexInv /\ AllocInv /\ ListInv /\ TaskInv /\ PhaseInv

-----------------------------------------------------------------------------
(* The invariant holds initially.                                           *)
LEMMA InitInv == Init => IInv
<1> SUFFICES ASSUME Init PROVE IInv
  OBVIOUS
<1> USE QueueAssumption DEF Init
<1>1. InList = {} /\ Filled = {} /\ Filling = {} /\ Live = {}
  BY DEF InList, Filled, Filling, Live, Carrying
<1>2. Used = 0 /\ Cardinality(Filling) = 0 /\ Cardinality(Tasks \ todo) = 0 /\ IsFiniteSet(Filling)
  <2>1. blocks - 1 = 0 /\ curr = 0 /\ 0 * alloc_size = 0
    OBVIOUS
  <2>2. Used = 0
    BY <2>1 DEF Used
  <2>3. Tasks \ todo = {}
    OBVIOUS
  <2> QED  BY <1>1, <2>2, <2>3, FS_EmptySet
<1>3. TypeOK
  BY DEF TypeOK, States, Producing, NULL
<1>4. MutexInv
  BY DEF MutexInv, InQueue, InAlloc
<1>5. AllocInv
  BY <1>2 DEF AllocInv, Carrying
<1>6. ListInv
  BY DEF ListInv, Held
<1>7. TaskInv
  BY <1>1 DEF TaskInv
<1>8. PhaseInv
  BY DEF PhaseInv, Producing
<1> QED  BY <1>3, <1>4, <1>5, <1>6, <1>7, <1>8 DEF IInv

(* Entering the allocator preserves the invariant.                          *)
LEMMA LockAllocInv ==
  ASSUME IInv, NEW t \in Threads, LockAlloc(t)
  PROVE  IInv'
<1> USE QueueAssumption DEF LockAlloc, IInv
<1>1. TypeOK'
  BY DEF TypeOK, States, Producing
<1>2. MutexInv'
  BY DEF TypeOK, MutexInv, InQueue, InAlloc
<1>0. /\ Filling' = Filling /\ Filled' = Filled /\ Live' = Live
      /\ InList' = InList /\ Used' = Used
      /\ \A u \in Threads : (Held(u)' <=> Held(u)) /\ Mine(u)' = Mine(u)
  BY DEF TypeOK, Filling, Filled, Live, Carrying, InList, Used, Held, Mine
<1>3. AllocInv'
  BY <1>0 DEF TypeOK, AllocInv, Carrying, MutexInv, InAlloc
<1>4. ListInv'
  BY <1>0 DEF TypeOK, ListInv, Held
<1>5. TaskInv'
  BY <1>0 DEF TaskInv
<1>6. PhaseInv'
  BY <1>0 DEF TypeOK, PhaseInv, Producing
<1> QED  BY <1>1, <1>2, <1>3, <1>4, <1>5, <1>6

(* The number of slots handed out is a natural number.                      *)
LEMMA UsedType == IInv => Used \in Nat
<1> SUFFICES ASSUME IInv PROVE Used \in Nat
  OBVIOUS
<1>1. Cardinality(Tasks \ todo) \in Nat
  BY QueueAssumption, FS_Difference, FS_CardinalityType
<1>2. Cardinality(Filling) \in Nat
  BY FS_CardinalityType DEF IInv, AllocInv
<1> QED  BY <1>1, <1>2 DEF IInv, AllocInv

(* Another slot is there for whoever enters the allocator: the threads that *)
(* have a slot to fill and this one each have a task of their own to do.    *)
LEMMA SlotAvailable ==
  ASSUME IInv, NEW t \in Threads, pc[t] = "slot"
  PROVE  Used + 1 \in Slots
<1> USE QueueAssumption DEF IInv
<1> DEFINE F == Filling \cup {t}
           f == [u \in F |-> CHOOSE k \in todo : Owner[k] = u]
<1>1. IsFiniteSet(F) /\ Cardinality(F) = Cardinality(Filling) + 1
  BY FS_AddElement DEF AllocInv, Filling
<1>2. \A u \in F : f[u] \in todo /\ Owner[f[u]] = u
  <2> TAKE u \in F
  <2>1. \E k \in todo : Owner[k] = u
    BY DEF AllocInv, Mine, Filling
  <2> QED  BY <2>1
<1>3. f \in Injection(F, todo)
  <2>1. f \in [F -> todo]
    BY ONLY <1>2
  <2>2. \A u, v \in F : f[u] = f[v] => u = v
    BY ONLY <1>2
  <2>3. DOMAIN f = F
    BY ONLY <2>1
  <2> QED  BY ONLY <2>1, <2>2, <2>3 DEF Injection, IsInjective
<1>4. IsFiniteSet(todo) /\ todo \subseteq Tasks /\ Tasks \cap todo = todo
  BY FS_Subset DEF TypeOK
<1>5. Cardinality(F) <= Cardinality(todo)
  <2> HIDE DEF F, f
  <2> QED  BY <1>3, <1>4, FS_Injection
<1>6. Cardinality(Tasks \ todo) = Cardinality(Tasks) - Cardinality(todo)
  BY <1>4, FS_Difference
<1>7. /\ Cardinality(todo) \in Nat /\ Cardinality(Tasks) \in Nat
      /\ Cardinality(Filling) \in Nat /\ Cardinality(Tasks \ todo) \in Nat
  BY <1>4, FS_CardinalityType, FS_Difference DEF AllocInv
<1>8. Used + 1 <= Cardinality(Tasks) /\ Used \in Nat
  BY <1>1, <1>5, <1>6, <1>7 DEF AllocInv
<1> QED  BY <1>7, <1>8 DEF Slots

(* Choosing the next slot preserves the invariant.                          *)
LEMMA GetSlotInv ==
  ASSUME IInv, NEW t \in Threads, GetSlot(t)
  PROVE  IInv'
<1> USE QueueAssumption DEF GetSlot, IInv
<1>r. ret' = [ret EXCEPT ![t] = Used + 1] /\ Used \in Nat
  <2>1. CASE curr < alloc_size
    BY <2>1, UsedType DEF Used, TypeOK
  <2>2. CASE curr >= alloc_size
    <3>1. curr = alloc_size
      BY <2>2 DEF TypeOK
    <3>2. (blocks - 1) * alloc_size + alloc_size = blocks * alloc_size
      BY DEF TypeOK
    <3>3. Used = blocks * alloc_size /\ ~(curr < alloc_size)
      BY <2>2, <3>1, <3>2 DEF Used
    <3>4. ret' = [ret EXCEPT ![t] = blocks * alloc_size + 1]
      BY <3>3
    <3> QED  BY <3>3, <3>4, UsedType
  <2> QED  BY <2>1, <2>2 DEF TypeOK
<1>s. Used + 1 \in Slots
  BY SlotAvailable
<1>1. TypeOK'
  BY <1>r, <1>s DEF TypeOK, States, Producing
<1>2. MutexInv'
  BY DEF TypeOK, MutexInv, InQueue, InAlloc
<1>0. /\ Filling' = Filling /\ Filled' = Filled /\ Live' = Live
      /\ InList' = InList /\ Used' = Used
      /\ \A u \in Threads : Mine(u)' = Mine(u)
  BY DEF TypeOK, Filling, Filled, Live, Carrying, InList, Used, Held, Mine
<1>3. AllocInv'
  BY <1>0, <1>r DEF TypeOK, AllocInv, Carrying, MutexInv, InAlloc
<1>4. ListInv'
  <2>1. \A u \in Threads \ {t} : Held(u)' => Held(u) /\ ret'[u] = ret[u] /\ ret[u] \in 1 .. Used
    BY DEF TypeOK, Held, AllocInv, Carrying, MutexInv, InAlloc
  <2>2. ret'[t] = Used + 1
    BY <1>r DEF TypeOK
  <2>3. Used + 1 \notin InList
    <3>1. \A n \in DOMAIN stack : stack[n] \in 1 .. Used
      BY DEF AllocInv
    <3> QED  BY <1>r, <3>1 DEF InList
  <2>4. \A u, v \in Threads : Held(u)' /\ Held(v)' /\ u # v => ret'[u] # ret'[v]
    <3>1. \A u \in Threads \ {t} : Held(u)' => ret'[u] # ret'[t]
      BY <1>r, <2>1, <2>2
    <3> QED  BY <2>1, <3>1 DEF ListInv
  <2>5. \A u \in Threads : Held(u)' => ret'[u] \notin InList'
    BY <1>0, <2>1, <2>2, <2>3 DEF ListInv
  <2>6. \A u \in Threads : pc'[u] \in {"push", "pop"} => pc'[u] = pc[u] /\ ret'[u] = ret[u]
    BY DEF TypeOK
  <2> QED  BY <2>4, <2>5, <2>6 DEF ListInv
<1>5. TaskInv'
  BY <1>0 DEF TaskInv
<1>6. PhaseInv'
  BY <1>0 DEF TypeOK, PhaseInv, Producing
<1> QED  BY <1>1, <1>2, <1>3, <1>4, <1>5, <1>6
(* Marking the slot as used preserves the invariant.                        *)
LEMMA UseSlotInv ==
  ASSUME IInv, NEW t \in Threads, UseSlot(t)
  PROVE  IInv'
<1> USE QueueAssumption DEF UseSlot, IInv
<1>u. Used' = Used + 1 /\ Used \in Nat
  <2>1. CASE curr < alloc_size
    <3> DEFINE full == (blocks - 1) * alloc_size
    <3>1. Used = full + curr /\ Used' = full + (curr + 1) /\ full \in Int /\ curr \in Int
      BY <2>1 DEF Used, TypeOK
    <3> HIDE DEF full
    <3> QED  BY <3>1, UsedType
  <2>2. CASE curr >= alloc_size
    <3>1. curr = alloc_size
      BY <2>2 DEF TypeOK
    <3>2. (blocks - 1) * alloc_size + alloc_size = blocks * alloc_size /\ blocks' - 1 = blocks
      BY <2>2 DEF TypeOK
    <3>3. Used = blocks * alloc_size /\ Used' = blocks * alloc_size + 1
      BY <2>2, <3>1, <3>2 DEF Used, TypeOK
    <3> QED  BY <3>3, UsedType
  <2> QED  BY <2>1, <2>2 DEF TypeOK
<1>0. /\ Filling' = Filling \cup {t} /\ t \notin Filling /\ Filled' = Filled
      /\ Live' = Live /\ InList' = InList
      /\ \A u \in Threads : Mine(u)' = Mine(u)
  BY DEF TypeOK, Filling, Filled, Live, Carrying, InList, Used, Mine
<1>f. IsFiniteSet(Filling') /\ Cardinality(Filling') = Cardinality(Filling) + 1 /\ Cardinality(Filling) \in Nat
  BY <1>0, FS_AddElement, FS_CardinalityType DEF AllocInv
<1>g. IsFiniteSet(Tasks \ todo) /\ Cardinality(Tasks \ todo) \in Nat
  BY FS_Difference, FS_CardinalityType
<1>1. TypeOK'
  BY <1>u DEF TypeOK, States, Producing
<1>2. MutexInv'
  BY DEF TypeOK, MutexInv, InQueue, InAlloc
<1>3. AllocInv'
  <2>1. Used' = Cardinality((Tasks \ todo)') + Cardinality(Filling')
    BY <1>u, <1>f, <1>g DEF AllocInv
  <2>2. \A u \in Threads :
          /\ pc'[u] \in {"slot", "bump", "fill"} => Mine(u)' # {}
          /\ pc'[u] = "bump" => ret'[u] = Used' + 1
          /\ pc'[u] \in Carrying \cup {"fill"} => ret'[u] \in 1 .. Used'
    <3> TAKE u \in Threads
    <3>1. CASE u = t
      <4>1. ret[t] = Used + 1 /\ Mine(t) # {}
        BY DEF AllocInv
      <4>2. pc'[t] = "fill" /\ ret'[t] = ret[t]
        BY DEF TypeOK
      <4> QED  BY <3>1, <4>1, <4>2, <1>0, <1>u
    <3>2. CASE u # t
      <4>1. pc'[u] = pc[u] /\ ret'[u] = ret[u] /\ pc[u] # "bump"
        BY <3>2 DEF TypeOK, MutexInv, InAlloc
      <4> QED  BY <4>1, <1>0, <1>u DEF AllocInv
    <3> QED  BY <3>1, <3>2
  <2>3. \A n \in DOMAIN stack' : stack'[n] \in 1 .. Used'
    <3>1. \A n \in DOMAIN stack : stack[n] \in 1 .. Used
      BY DEF AllocInv
    <3> QED  BY <1>u, <3>1
  <2> QED  BY <1>f, <2>1, <2>2, <2>3 DEF AllocInv
<1>4. ListInv'
  BY <1>0 DEF TypeOK, ListInv, Held
<1>5. TaskInv'
  BY <1>0 DEF TaskInv
<1>6. PhaseInv'
  BY <1>0 DEF TypeOK, PhaseInv, Producing
<1> QED  BY <1>1, <1>2, <1>3, <1>4, <1>5, <1>6

(* Taking the mutex to add a task preserves the invariant.                  *)
LEMMA LockAddInv ==
  ASSUME IInv, NEW t \in Threads, LockAdd(t)
  PROVE  IInv'
<1> USE QueueAssumption DEF LockAdd, IInv
<1>0. /\ Filling' = Filling /\ Filled' = Filled /\ Live' = Live
      /\ InList' = InList /\ Used' = Used
      /\ \A u \in Threads : Mine(u)' = Mine(u)
  BY DEF TypeOK, Filling, Filled, Live, Carrying, InList, Used, Mine
<1>1. TypeOK'
  BY DEF TypeOK, States, Producing
<1>2. MutexInv'
  BY DEF TypeOK, MutexInv, InQueue, InAlloc
<1>3. AllocInv'
  BY <1>0 DEF TypeOK, AllocInv, Carrying, MutexInv, InAlloc
<1>4. ListInv'
  BY <1>0 DEF TypeOK, ListInv, Held
<1>5. TaskInv'
  BY <1>0 DEF TaskInv
<1>6. PhaseInv'
  BY <1>0 DEF TypeOK, PhaseInv, Producing
<1> QED  BY <1>1, <1>2, <1>3, <1>4, <1>5, <1>6

(* Linking the slot to the head preserves the invariant.                    *)
LEMMA LinkInv ==
  ASSUME IInv, NEW t \in Threads, Link(t)
  PROVE  IInv'
<1> USE QueueAssumption DEF Link, IInv
<1>r. ret[t] \in Slots /\ ret[t] \notin InList
  BY DEF TypeOK, AllocInv, ListInv, Held, Carrying, NULL
<1>0. /\ Filling' = Filling /\ Filled' = Filled /\ Live' = Live
      /\ InList' = InList /\ Used' = Used
      /\ \A u \in Threads : Mine(u)' = Mine(u)
  BY DEF TypeOK, Filling, Filled, Live, Carrying, InList, Used, Mine
<1>1. TypeOK'
  BY <1>r DEF TypeOK, States, Producing
<1>2. MutexInv'
  BY DEF TypeOK, MutexInv, InQueue, InAlloc
<1>3. AllocInv'
  BY <1>0 DEF TypeOK, AllocInv, Carrying, MutexInv, InAlloc
<1>4. ListInv'
  BY <1>r, <1>0 DEF TypeOK, ListInv, Held, MutexInv, InQueue, InList
<1>5. TaskInv'
  BY <1>0 DEF TaskInv
<1>6. PhaseInv'
  BY <1>0 DEF TypeOK, PhaseInv, Producing
<1> QED  BY <1>1, <1>2, <1>3, <1>4, <1>5, <1>6

(* Arriving at the barrier preserves the invariant.                         *)
LEMMA ArriveInv ==
  ASSUME IInv, NEW t \in Threads, Arrive(t)
  PROVE  IInv'
<1> USE QueueAssumption DEF Arrive, IInv
<1>0. /\ Filling' = Filling /\ Filled' = Filled /\ Live' = Live
      /\ InList' = InList /\ Used' = Used
      /\ \A u \in Threads : Mine(u)' = Mine(u)
  BY DEF TypeOK, Filling, Filled, Live, Carrying, InList, Used, Mine
<1>1. TypeOK'
  BY DEF TypeOK, States, Producing
<1>2. MutexInv'
  BY DEF TypeOK, MutexInv, InQueue, InAlloc
<1>3. AllocInv'
  BY <1>0 DEF TypeOK, AllocInv, Carrying, MutexInv, InAlloc
<1>4. ListInv'
  BY <1>0 DEF TypeOK, ListInv, Held
<1>5. TaskInv'
  BY <1>0 DEF TaskInv
<1>6. PhaseInv'
  BY <1>0 DEF TypeOK, PhaseInv, Producing
<1> QED  BY <1>1, <1>2, <1>3, <1>4, <1>5, <1>6

(* Leaving the barrier preserves the invariant.                             *)
LEMMA LeaveInv ==
  ASSUME IInv, NEW t \in Threads, Leave(t)
  PROVE  IInv'
<1> USE QueueAssumption DEF Leave, IInv
<1>0. /\ Filling' = Filling /\ Filled' = Filled /\ Live' = Live
      /\ InList' = InList /\ Used' = Used
      /\ \A u \in Threads : Mine(u)' = Mine(u)
  BY DEF TypeOK, Filling, Filled, Live, Carrying, InList, Used, Mine
<1>1. TypeOK'
  BY DEF TypeOK, States, Producing
<1>2. MutexInv'
  BY DEF TypeOK, MutexInv, InQueue, InAlloc
<1>3. AllocInv'
  BY <1>0 DEF TypeOK, AllocInv, Carrying, MutexInv, InAlloc
<1>4. ListInv'
  BY <1>0 DEF TypeOK, ListInv, Held
<1>5. TaskInv'
  BY <1>0 DEF TaskInv
<1>6. PhaseInv'
  BY <1>0 DEF TypeOK, PhaseInv, Producing
<1> QED  BY <1>1, <1>2, <1>3, <1>4, <1>5, <1>6

(* Taking the mutex to get a task preserves the invariant.                  *)
LEMMA LockGetInv ==
  ASSUME IInv, NEW t \in Threads, LockGet(t)
  PROVE  IInv'
<1> USE QueueAssumption DEF LockGet, IInv
<1>0. /\ Filling' = Filling /\ Filled' = Filled /\ Live' = Live
      /\ InList' = InList /\ Used' = Used
      /\ \A u \in Threads : Mine(u)' = Mine(u)
  BY DEF TypeOK, Filling, Filled, Live, Carrying, InList, Used, Mine
<1>1. TypeOK'
  BY DEF TypeOK, States, Producing
<1>2. MutexInv'
  BY DEF TypeOK, MutexInv, InQueue, InAlloc
<1>3. AllocInv'
  BY <1>0 DEF TypeOK, AllocInv, Carrying, MutexInv, InAlloc
<1>4. ListInv'
  BY <1>0 DEF TypeOK, ListInv, Held
<1>5. TaskInv'
  BY <1>0 DEF TaskInv
<1>6. PhaseInv'
  BY <1>0 DEF TypeOK, PhaseInv, Producing
<1> QED  BY <1>1, <1>2, <1>3, <1>4, <1>5, <1>6

(* Reading the head preserves the invariant.                                *)
LEMMA GetHeadInv ==
  ASSUME IInv, NEW t \in Threads, GetHead(t)
  PROVE  IInv'
<1> USE QueueAssumption DEF GetHead, IInv
<1>0. /\ Filling' = Filling /\ Filled' = Filled /\ Live' = Live
      /\ InList' = InList /\ Used' = Used
      /\ \A u \in Threads : Mine(u)' = Mine(u)
  BY DEF TypeOK, Filling, Filled, Live, Carrying, InList, Used, Mine
<1>1. TypeOK'
  BY DEF TypeOK, States, Producing
<1>2. MutexInv'
  BY DEF TypeOK, MutexInv, InQueue, InAlloc
<1>3. AllocInv'
  BY <1>0 DEF TypeOK, AllocInv, Carrying, MutexInv, InAlloc
<1>4. ListInv'
  BY <1>0 DEF TypeOK, ListInv, Held, InList
<1>5. TaskInv'
  BY <1>0 DEF TaskInv
<1>6. PhaseInv'
  BY <1>0 DEF TypeOK, PhaseInv, Producing
<1> QED  BY <1>1, <1>2, <1>3, <1>4, <1>5, <1>6

(* Finding the list empty preserves the invariant.                          *)
LEMMA GetNoneInv ==
  ASSUME IInv, NEW t \in Threads, GetNone(t)
  PROVE  IInv'
<1> USE QueueAssumption DEF GetNone, IInv
<1>0. /\ Filling' = Filling /\ Filled' = Filled /\ Live' = Live
      /\ InList' = InList /\ Used' = Used
      /\ \A u \in Threads : Mine(u)' = Mine(u)
  BY DEF TypeOK, Filling, Filled, Live, Carrying, InList, Used, Mine
<1>1. TypeOK'
  BY DEF TypeOK, States, Producing
<1>2. MutexInv'
  BY DEF TypeOK, MutexInv, InQueue, InAlloc
<1>3. AllocInv'
  BY <1>0 DEF TypeOK, AllocInv, Carrying, MutexInv, InAlloc
<1>4. ListInv'
  BY <1>0 DEF TypeOK, ListInv, Held
<1>5. TaskInv'
  BY <1>0 DEF TaskInv
<1>6. PhaseInv'
  <2>1. stack = << >>
    BY EmptySeq DEF TypeOK, ListInv
  <2> QED  BY <1>0, <2>1 DEF TypeOK, PhaseInv, Producing
<1> QED  BY <1>1, <1>2, <1>3, <1>4, <1>5, <1>6

(* Writing a task to a slot moves it from the tasks to do to the filled     *)
(* slots.                                                                   *)
LEMMA FillInv ==
  ASSUME IInv, NEW t \in Threads, Fill(t)
  PROVE  IInv'
<1> USE QueueAssumption DEF Fill, IInv
<1>k. PICK k \in Mine(t) : task' = [task EXCEPT ![ret[t]] = k] /\ todo' = todo \ {k}
  OBVIOUS
<1>r. /\ ret[t] \in Slots /\ ret[t] \notin InList
      /\ \A u \in Threads : pc[u] \in Carrying => u # t /\ ret[u] # ret[t]
      /\ \A n \in DOMAIN stack : stack[n] \in Slots
  BY DEF TypeOK, AllocInv, ListInv, Held, Carrying, NULL
<1>0. /\ Filling' = Filling \ {t} /\ t \in Filling /\ Used' = Used
      /\ Filled' = Filled \cup {ret[t]} /\ ret[t] \notin Filled
      /\ InList' = InList
      /\ Live' = Live \cup {k} /\ k \notin Live /\ k \in Tasks /\ k \in todo /\ taken[k] = 0
      /\ Tasks \ todo' = (Tasks \ todo) \cup {k}
      /\ \A u \in Threads : u # t => Mine(u)' = Mine(u)
      /\ \A u \in Threads : Mine(u)' \subseteq Mine(u)
  <2>1. k \in Tasks /\ k \in todo /\ Owner[k] = t /\ taken[k] = 0
    BY <1>k DEF Mine, TypeOK, TaskInv
  <2>2. Filling' = Filling \ {t} /\ t \in Filling /\ Used' = Used /\ InList' = InList
    BY DEF TypeOK, Filling, Used, InList
  <2>3. Filled' = Filled \cup {ret[t]} /\ ret[t] \notin Filled
    BY <1>r, <2>2 DEF Filled, Carrying, TypeOK
  <2>4. Live' = Live \cup {k} /\ k \notin Live /\ Tasks \ todo' = (Tasks \ todo) \cup {k}
    BY <1>k, <2>1 DEF Live
  <2>5. \A u \in Threads : (u # t => Mine(u)' = Mine(u)) /\ Mine(u)' \subseteq Mine(u)
    BY <1>k, <2>1 DEF Mine
  <2> QED  BY <2>1, <2>2, <2>3, <2>4, <2>5
<1>f. IsFiniteSet(Filling') /\ Cardinality(Filling') = Cardinality(Filling) - 1 /\ Cardinality(Filling) \in Nat
  BY <1>0, FS_RemoveElement, FS_CardinalityType DEF AllocInv
<1>g. Cardinality(Tasks \ todo') = Cardinality(Tasks \ todo) + 1 /\ Cardinality(Tasks \ todo) \in Nat
  <2>1. IsFiniteSet(Tasks \ todo)
    BY FS_Difference
  <2>2. k \notin Tasks \ todo
    BY <1>0
  <2>3. Cardinality((Tasks \ todo) \cup {k}) = Cardinality(Tasks \ todo) + 1
    BY ONLY <2>1, <2>2, FS_AddElement
  <2>4. Cardinality(Tasks \ todo) \in Nat
    BY ONLY <2>1, FS_CardinalityType
  <2> QED  BY ONLY <1>0, <2>3, <2>4
<1>1. TypeOK'
  BY <1>k, <1>r, <1>0 DEF TypeOK, States, Producing
<1>2. MutexInv'
  BY DEF TypeOK, MutexInv, InQueue, InAlloc
<1>3. AllocInv'
  <2>1. Used' = Cardinality((Tasks \ todo)') + Cardinality(Filling')
    BY <1>0, <1>f, <1>g DEF AllocInv
  <2>2. \A u \in Threads :
          /\ pc'[u] \in {"slot", "bump", "fill"} => Mine(u)' # {}
          /\ pc'[u] = "bump" => ret'[u] = Used' + 1
          /\ pc'[u] \in Carrying \cup {"fill"} => ret'[u] \in 1 .. Used'
    BY <1>0 DEF TypeOK, AllocInv, Carrying
  <2>3. \A n \in DOMAIN stack' : stack'[n] \in 1 .. Used'
    BY <1>0 DEF AllocInv
  <2> QED  BY <1>f, <2>1, <2>2, <2>3 DEF AllocInv
<1>4. ListInv'
  BY <1>r, <1>0 DEF TypeOK, ListInv, Held
<1>5. TaskInv'
  <2>1. \A s \in Filled : s # ret[t] /\ task'[s] = task[s]
    BY <1>0, <1>k DEF TypeOK
  <2>2. task'[ret[t]] = k
    BY <1>k, <1>r DEF TypeOK
  <2> QED  BY <2>1, <2>2, <1>0, <1>k DEF TaskInv
<1>6. PhaseInv'
  BY <1>0 DEF TypeOK, PhaseInv, Producing
<1> QED  BY <1>1, <1>2, <1>3, <1>4, <1>5, <1>6

(* Pushing the slot moves it from the hands of a thread to the list.        *)
LEMMA PushInv ==
  ASSUME IInv, NEW t \in Threads, Push(t)
  PROVE  IInv'
<1> USE QueueAssumption DEF Push, IInv
<1>r. ret[t] \in Slots /\ ret[t] \notin InList /\ next[ret[t]] = head /\ ret[t] # NULL
  BY DEF TypeOK, AllocInv, ListInv, Held, Carrying, NULL
<1>s. /\ stack' \in Seq(Slots) /\ Len(stack') = Len(stack) + 1 /\ Len(stack) \in Nat
      /\ DOMAIN stack = 1 .. Len(stack) /\ DOMAIN stack' = 1 .. Len(stack) + 1
      /\ \A n \in DOMAIN stack : stack'[n] = stack[n] /\ stack[n] \in Slots
      /\ stack'[Len(stack) + 1] = ret[t]
      /\ stack' # << >>
  BY <1>r DEF TypeOK
<1>i. InList' = InList \cup {ret[t]}
  BY <1>s DEF InList
<1>0. /\ Filling' = Filling /\ Filled' = Filled /\ Live' = Live /\ Used' = Used
      /\ \A u \in Threads : Mine(u)' = Mine(u)
  BY <1>i DEF TypeOK, Filling, Filled, Live, Carrying, Used, Mine
<1>1. TypeOK'
  BY <1>r, <1>s DEF TypeOK, States, Producing, NULL
<1>2. MutexInv'
  BY DEF TypeOK, MutexInv, InQueue, InAlloc
<1>3. AllocInv'
  <2>1. \A u \in Threads :
          /\ pc'[u] \in {"slot", "bump", "fill"} => Mine(u)' # {}
          /\ pc'[u] = "bump" => ret'[u] = Used' + 1
          /\ pc'[u] \in Carrying \cup {"fill"} => ret'[u] \in 1 .. Used'
    BY <1>0 DEF TypeOK, AllocInv, Carrying
  <2>2. ret[t] \in 1 .. Used
    BY DEF AllocInv, Carrying
  <2>3. \A n \in DOMAIN stack' : stack'[n] \in 1 .. Used'
    <3>1. \A n \in DOMAIN stack : stack[n] \in 1 .. Used
      BY DEF AllocInv
    <3> QED  BY <1>0, <1>s, <2>2, <3>1
  <2> QED  BY <1>0, <2>1, <2>3 DEF AllocInv
<1>4. ListInv'
  <2>1. \A n \in DOMAIN stack : stack[n] # ret[t]
    BY <1>r DEF InList
  <2>2. \A n, m \in DOMAIN stack' : stack'[n] = stack'[m] => n = m
    BY <2>1, <1>s DEF ListInv
  <2>3. count' = Len(stack') /\ head' = stack'[Len(stack')]
    BY <1>s DEF ListInv
  <2>4. \A n \in DOMAIN stack' : next'[stack'[n]] = IF n = 1 THEN NULL ELSE stack'[n - 1]
    <3> TAKE n \in DOMAIN stack'
    <3>1. CASE n = Len(stack) + 1
      BY <3>1, <1>r, <1>s DEF ListInv
    <3>2. CASE n \in DOMAIN stack
      BY <3>2, <1>s DEF ListInv
    <3> QED  BY <3>1, <3>2, <1>s
  <2>5. \A u \in Threads : u # t => pc[u] \notin {"push", "pop"}
    BY DEF MutexInv, InQueue
  <2>6. \A u \in Threads : Held(u)' => u # t /\ Held(u) /\ ret'[u] = ret[u]
    BY DEF Held, TypeOK
  <2>7. Held(t)
    BY DEF Held
  <2>8. \A u, v \in Threads : Held(u)' /\ Held(v)' /\ u # v => ret'[u] # ret'[v]
    BY <2>6 DEF ListInv
  <2>9. \A u \in Threads : Held(u)' => ret'[u] \notin InList'
    BY <2>6, <2>7, <1>i DEF ListInv
  <2>10. \A u \in Threads : pc'[u] \notin {"push", "pop"}
    BY <2>5 DEF TypeOK
  <2> QED  BY <1>s, <2>2, <2>3, <2>4, <2>8, <2>9, <2>10 DEF ListInv
<1>5. TaskInv'
  BY <1>0 DEF TaskInv
<1>6. PhaseInv'
  BY <1>0 DEF TypeOK, PhaseInv, Producing
<1> QED  BY <1>1, <1>2, <1>3, <1>4, <1>5, <1>6

(* Popping the head moves it from the list to the hands of a thread.        *)
LEMMA PopInv ==
  ASSUME IInv, NEW t \in Threads, Pop(t)
  PROVE  IInv'
<1> USE QueueAssumption DEF Pop, IInv
<1>s. /\ stack # << >> /\ Len(stack) \in Nat \ {0} /\ ret[t] = stack[Len(stack)]
      /\ stack' \in Seq(Slots) /\ Len(stack') = Len(stack) - 1
      /\ DOMAIN stack = 1 .. Len(stack) /\ DOMAIN stack' = 1 .. Len(stack) - 1
      /\ \A n \in DOMAIN stack' : stack'[n] = stack[n]
      /\ \A n \in DOMAIN stack : stack[n] \in Slots
      /\ (stack' = << >> <=> Len(stack) = 1)
  BY DEF TypeOK, ListInv
<1>r. /\ ret[t] \in InList /\ ret[t] \in Slots /\ ret[t] \in 1 .. Used
      /\ head' = IF Len(stack) = 1 THEN NULL ELSE stack[Len(stack) - 1]
  <2>1. Len(stack) \in DOMAIN stack
    BY <1>s
  <2>2. ret[t] \in InList /\ ret[t] \in Slots /\ ret[t] \in 1 .. Used
    BY <1>s, <2>1 DEF InList, AllocInv
  <2>3. next[stack[Len(stack)]] = IF Len(stack) = 1 THEN NULL ELSE stack[Len(stack) - 1]
    BY <2>1 DEF ListInv
  <2> QED  BY <1>s, <2>2, <2>3
<1>i. InList' = InList \ {ret[t]}
  <2>1. \A n \in DOMAIN stack : n \in DOMAIN stack' \/ n = Len(stack)
    BY <1>s
  <2>2. \A n \in DOMAIN stack' : n \in DOMAIN stack /\ n # Len(stack) /\ Len(stack) \in DOMAIN stack
    BY <1>s
  <2>3. \A n \in DOMAIN stack' : stack[n] # ret[t]
    BY <1>s, <2>2 DEF ListInv
  <2>4. InList' \subseteq InList \ {ret[t]}
    BY <1>s, <2>2, <2>3 DEF InList
  <2>5. ASSUME NEW z \in InList, z # ret[t] PROVE z \in InList'
    <3>1. PICK n \in DOMAIN stack : z = stack[n]
      BY DEF InList
    <3>2. n # Len(stack)
      BY ONLY <1>s, <2>5, <3>1
    <3>3. n \in DOMAIN stack' /\ stack'[n] = z
      BY ONLY <1>s, <2>1, <3>1, <3>2
    <3> QED  BY ONLY <3>3 DEF InList
  <2> QED  BY <2>4, <2>5
<1>0. /\ Filling' = Filling /\ Filled' = Filled /\ Live' = Live /\ Used' = Used
      /\ \A u \in Threads : Mine(u)' = Mine(u)
  BY <1>i, <1>r DEF TypeOK, Filling, Filled, Live, Carrying, Used, Mine
<1>p. \A u \in Threads : u # t => pc[u] \notin {"push", "pop"}
    BY DEF MutexInv, InQueue
<1>1. TypeOK'
  BY <1>r, <1>s DEF TypeOK, States, Producing, NULL, ListInv
<1>2. MutexInv'
  BY DEF TypeOK, MutexInv, InQueue, InAlloc
<1>3. AllocInv'
  <2>1. \A u \in Threads :
          /\ pc'[u] \in {"slot", "bump", "fill"} => Mine(u)' # {}
          /\ pc'[u] = "bump" => ret'[u] = Used' + 1
          /\ pc'[u] \in Carrying \cup {"fill"} => ret'[u] \in 1 .. Used'
    BY <1>0, <1>r DEF TypeOK, AllocInv, Carrying
  <2>2. \A n \in DOMAIN stack' : n \in DOMAIN stack /\ stack'[n] = stack[n]
    BY <1>s
  <2>3. \A n \in DOMAIN stack' : stack'[n] \in 1 .. Used'
    BY <1>0, <2>2 DEF AllocInv
  <2> QED  BY <1>0, <2>1, <2>3 DEF AllocInv
<1>4. ListInv'
  <2>2. \A n, m \in DOMAIN stack' : stack'[n] = stack'[m] => n = m
    BY <1>s DEF ListInv
  <2>3. count' = Len(stack')
    BY <1>s DEF ListInv
  <2>4. head' = IF stack' = << >> THEN NULL ELSE stack'[Len(stack')]
    BY <1>s, <1>r
  <2>5. \A n \in DOMAIN stack' : next'[stack'[n]] = IF n = 1 THEN NULL ELSE stack'[n - 1]
    BY <1>s DEF ListInv
  <2>6. \A u \in Threads : Held(u)' => (u = t \/ Held(u)) /\ ret'[u] = ret[u]
    BY DEF Held, TypeOK
  <2>7. \A u \in Threads : Held(u) => ret[u] # ret[t] /\ ret[u] \notin InList
    BY <1>r DEF ListInv
  <2>8. \A u, v \in Threads : Held(u)' /\ Held(v)' /\ u # v => ret'[u] # ret'[v]
    BY <2>6, <2>7 DEF ListInv
  <2>9. \A u \in Threads : Held(u)' => ret'[u] \notin InList'
    BY <2>6, <2>7, <1>i
  <2>10. \A u \in Threads : pc'[u] \notin {"push", "pop"}
    BY <1>p DEF TypeOK
  <2> QED  BY <2>2, <2>3, <2>4, <2>5, <2>8, <2>9, <2>10 DEF ListInv
<1>5. TaskInv'
  BY <1>0 DEF TaskInv
<1>6. PhaseInv'
  BY <1>0, <1>s DEF TypeOK, PhaseInv, Producing
<1> QED  BY <1>1, <1>2, <1>3, <1>4, <1>5, <1>6

(* Running a task empties its slot.                                         *)
LEMMA RunInv ==
  ASSUME IInv, NEW t \in Threads, Run(t)
  PROVE  IInv'
<1> USE QueueAssumption DEF Run, IInv
<1>r. /\ ret[t] \in Slots /\ ret[t] \notin InList /\ ret[t] \in Filled
      /\ \A u \in Threads : pc[u] \in Carrying /\ u # t => ret[u] # ret[t]
  BY DEF TypeOK, AllocInv, ListInv, Held, Carrying, NULL, Filled
<1>k. /\ task[ret[t]] \in Live
      /\ taken' = [taken EXCEPT ![task[ret[t]]] = 1]
      /\ Live' = Live \ {task[ret[t]]}
  <2>1. task[ret[t]] \in Live
    BY <1>r DEF TaskInv
  <2>2. task[ret[t]] \in Tasks /\ taken[task[ret[t]]] = 0
    BY <2>1 DEF Live
  <2>3. taken' = [taken EXCEPT ![task[ret[t]]] = 1]
    BY <2>2 DEF TypeOK
  <2>4. Live' = Live \ {task[ret[t]]}
    BY <2>2, <2>3 DEF TypeOK, Live
  <2> QED  BY <2>1, <2>3, <2>4
<1>0. /\ Filling' = Filling /\ Used' = Used /\ InList' = InList
      /\ Filled' = Filled \ {ret[t]}
      /\ \A u \in Threads : Mine(u)' = Mine(u)
  <2>1. Filling' = Filling /\ Used' = Used /\ InList' = InList
        /\ \A u \in Threads : Mine(u)' = Mine(u)
    BY DEF TypeOK, Filling, Used, InList, Mine
  <2>2. \A u \in Threads : pc'[u] \in Carrying <=> pc[u] \in Carrying /\ u # t
    BY DEF TypeOK, Carrying
  <2>3. \A u \in Threads : u # t => ret'[u] = ret[u]
    BY DEF TypeOK
  <2>4. Filled' = Filled \ {ret[t]}
    BY <1>r, <2>1, <2>2, <2>3 DEF Filled
  <2> QED  BY <2>1, <2>4
<1>1. TypeOK'
  BY <1>k DEF TypeOK, States, Producing, NULL, Live
<1>2. MutexInv'
  BY DEF TypeOK, MutexInv, InQueue, InAlloc
<1>3. AllocInv'
  BY <1>0 DEF TypeOK, AllocInv, Carrying
<1>4. ListInv'
  BY <1>0, <1>r DEF TypeOK, ListInv, Held
<1>5. TaskInv'
  BY <1>0, <1>k, <1>r DEF TaskInv, TypeOK, Live
<1>6. PhaseInv'
  BY <1>0 DEF TypeOK, PhaseInv, Producing
<1> QED  BY <1>1, <1>2, <1>3, <1>4, <1>5, <1>6

-----------------------------------------------------------------------------
(* Every step preserves the invariant.                                      *)
LEMMA NextInv == IInv /\ [Next]_vars => IInv'
<1> SUFFICES ASSUME IInv, [Next]_vars PROVE IInv'
  OBVIOUS
<1>1. ASSUME NEW t \in Threads, Step(t) PROVE IInv'
  BY <1>1, LockAllocInv, GetSlotInv, UseSlotInv, FillInv, LockAddInv, LinkInv,
     PushInv, ArriveInv, LeaveInv, LockGetInv, GetHeadInv, GetNoneInv, PopInv, RunInv DEF Step
<1>2. CASE UNCHANGED vars
  <2> USE <1>2 DEF vars
  <2>1. InList' = InList /\ Filled' = Filled /\ Filling' = Filling /\ Live' = Live /\ Used' = Used
        /\ \A t \in Threads : Mine(t)' = Mine(t) /\ (Held(t)' <=> Held(t))
    BY DEF InList, Filled, Filling, Live, Used, Mine, Held
  <2>2. TypeOK' /\ MutexInv' /\ AllocInv'
    BY <2>1 DEF IInv, TypeOK, MutexInv, AllocInv
  <2>3. ListInv' /\ TaskInv' /\ PhaseInv'
    BY <2>1 DEF IInv, ListInv, TaskInv, PhaseInv
  <2> QED  BY <2>2, <2>3 DEF IInv
<1> QED  BY <1>1, <1>2 DEF Next, Terminated

(* The invariant holds in every reachable state.                            *)
LEMMA Invariance == Spec => []IInv
BY InitInv, NextInv, PTL DEF Spec

(* The variables keep their types: threads never run out of slots, and the  *)
(* list never reaches a slot that was not handed out.                       *)
THEOREM TypeCorrect == Spec => []TypeOK
<1>1. IInv => TypeOK
  BY DEF IInv
<1> QED  BY <1>1, Invariance, PTL

(* As many slots are in the list as it is long.                             *)
LEMMA InjectiveCount ==
  ASSUME IInv PROVE Cardinality(InList) = Len(stack)
<1> USE DEF IInv, TypeOK
<1>1. Len(stack) \in Nat /\ DOMAIN stack = 1 .. Len(stack)
  OBVIOUS
<1>2. stack \in [1 .. Len(stack) -> InList]
  BY <1>1 DEF InList
<1>3. \A y \in InList : \E n \in 1 .. Len(stack) : stack[n] = y
  BY <1>1 DEF InList
<1>4. \A n, m \in 1 .. Len(stack) : stack[n] = stack[m] => n = m
  BY <1>1 DEF ListInv
<1>5. stack \in Bijection(1 .. Len(stack), InList)
  BY <1>2, <1>3, <1>4 DEF Bijection, Injection, Surjection, IsInjective
<1> QED  BY <1>1, <1>5, FS_CountingElements DEF ExistsBijection

(* A task is in exactly one place.                                          *)
LEMMA OnePlace ==
  ASSUME IInv, NEW k \in Tasks PROVE Places(k) = 1
<1> USE DEF IInv
<1> DEFINE L == {n \in DOMAIN stack : task[stack[n]] = k}
           C == {t \in Threads : pc[t] \in {"add", "link", "push", "run"} /\ task[ret[t]] = k}
<1>0. Places(k) = (IF k \in todo THEN 1 ELSE 0) + Cardinality(L) + Cardinality(C) + taken[k]
  BY DEF Places
<1>1. \A n \in L : k \in Live /\ stack[n] \in Filled /\ stack[n] \in InList
  BY DEF TaskInv, Filled, InList
<1>2. \A t \in C : k \in Live /\ ret[t] \in Filled /\ Held(t)
  BY DEF TaskInv, Filled, Carrying, Held
<1>3. CASE k \notin Live
  <2>1. L = {} /\ C = {}
    BY <1>1, <1>2, <1>3
  <2>2. (k \in todo /\ taken[k] = 0) \/ (k \notin todo /\ taken[k] = 1)
    BY <1>3 DEF Live, TypeOK, TaskInv
  <2> HIDE DEF L, C
  <2>3. Cardinality(L) = 0 /\ Cardinality(C) = 0
    BY <2>1, FS_EmptySet
  <2> QED  BY <1>0, <2>2, <2>3
<1>4. CASE k \in Live
  <2>1. PICK s \in Filled : task[s] = k
    BY <1>4 DEF TaskInv
  <2>2. k \notin todo /\ taken[k] = 0
    BY <1>4 DEF Live
  <2>3. \A n \in L : stack[n] = s
    BY <1>1, <2>1 DEF TaskInv
  <2>4. \A t \in C : ret[t] = s
    BY <1>2, <2>1 DEF TaskInv
  <2>5. CASE s \in InList
    <3>1. PICK n \in DOMAIN stack : stack[n] = s
      BY <2>5 DEF InList
    <3>2. L = {n}
      BY <2>1, <2>3, <3>1 DEF ListInv
    <3>3. C = {}
      BY <1>2, <2>4, <2>5 DEF ListInv
    <3> HIDE DEF L, C
    <3>4. Cardinality(L) = 1 /\ Cardinality(C) = 0
      BY <3>2, <3>3, FS_Singleton, FS_EmptySet
    <3> QED  BY <1>0, <2>2, <3>4
  <2>6. CASE s \notin InList
    <3>1. PICK t \in Threads : pc[t] \in Carrying /\ ret[t] = s
      BY <2>6 DEF Filled
    <3>2. L = {}
      BY <1>1, <2>3, <2>6
    <3>3. t \in C
      BY <2>1, <3>1 DEF Carrying
    <3>4. C = {t}
      BY <1>2, <2>4, <3>3, <3>1 DEF ListInv
    <3> HIDE DEF L, C
    <3>5. Cardinality(L) = 0 /\ Cardinality(C) = 1
      BY <3>2, <3>4, FS_Singleton, FS_EmptySet
    <3> QED  BY <1>0, <2>2, <3>5
  <2> QED  BY <2>5, <2>6
<1> QED  BY <1>3, <1>4

(* No task is lost or run twice and no slot is shared: task_queue_add_atomic *)
(* and task_queue_get_atomic keep the list intact for every interleaving.   *)
THEOREM Conservation == Spec => []TasksConserved
<1>1. IInv => TasksConserved
  <2> SUFFICES ASSUME IInv PROVE TasksConserved
    OBVIOUS
  <2>1. SlotsExclusive
    BY InjectiveCount DEF IInv, ListInv, SlotsExclusive
  <2>2. ListIntact
    BY DEF IInv, ListInv, ListIntact
  <2> QED  BY <2>1, <2>2, OnePlace DEF TasksConserved, QueueIntact
<1> QED  BY <1>1, Invariance, PTL

(* A thread that finds the queue empty after the barrier leaves no task     *)
(* behind.                                                                  *)
THEOREM NothingLeft == Spec => []StopsWhenEmpty
<1>1. IInv => StopsWhenEmpty
  <2> SUFFICES ASSUME IInv, NEW t \in Threads, pc[t] = "done"
               PROVE  stack = << >> /\ todo = {}
    BY DEF StopsWhenEmpty
  <2>1. stack = << >>
    BY DEF IInv, PhaseInv
  <2>2. \A u \in Threads : Mine(u) = {}
    BY DEF IInv, PhaseInv, Producing
  <2>3. \A k \in todo : Owner[k] \in Threads /\ k \in Mine(Owner[k])
    BY QueueAssumption DEF IInv, TypeOK, Mine
  <2> QED  BY <2>1, <2>2, <2>3
<1> QED  BY <1>1, Invariance, PTL
==============================================================================
