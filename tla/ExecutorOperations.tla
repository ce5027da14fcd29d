------------------------- MODULE ExecutorOperations -------------------------
(***************************************************************************)
(* Proofs about the operations of Executor: none is lost or duplicated,    *)
(* and job_count_ counts them.                                             *)
(***************************************************************************)
EXTENDS ExecutorProofs

-----------------------------------------------------------------------------
(* No operation is lost or duplicated.                                     *)

Occurs(queue, j) == \E i \in 1..Len(queue) : queue[i] = j

(* Every operation is at most once in a queue. *)
NoRepeats(queue) == \A i, k \in 1..Len(queue) : queue[i] = queue[k] /\ queue[i] # NullTask => i = k

LEMMA PushOccurs ==
  ASSUME NEW S, NEW q \in Seq(S), NEW x \in S
  PROVE  /\ \A j : Occurs(Append(q, x), j) <=> Occurs(q, j) \/ x = j
         /\ NoRepeats(q) /\ (x = NullTask \/ ~Occurs(q, x)) => NoRepeats(Append(q, x))
  <1>1. /\ Len(Append(q, x)) = Len(q) + 1 /\ Append(q, x)[Len(q) + 1] = x
        /\ \A i \in 1..Len(q) : Append(q, x)[i] = q[i]
        /\ Len(q) \in Nat
    OBVIOUS
  <1>2. ASSUME NEW j PROVE Occurs(Append(q, x), j) <=> Occurs(q, j) \/ x = j
    BY <1>1 DEF Occurs
  <1>3. ASSUME NoRepeats(q), x = NullTask \/ ~Occurs(q, x) PROVE NoRepeats(Append(q, x))
    BY <1>1, <1>3 DEF NoRepeats, Occurs
  <1>4. QED
    BY <1>2, <1>3, Zenon

LEMMA PopOccurs ==
  ASSUME NEW S, NEW q \in Seq(S), q # <<>>, NoRepeats(q)
  PROVE  /\ \A j : j # NullTask => (Occurs(Tail(q), j) <=> Occurs(q, j) /\ j # Head(q))
         /\ Occurs(q, Head(q)) /\ NoRepeats(Tail(q))
  <1>1. /\ Len(Tail(q)) = Len(q) - 1 /\ \A i \in 1..Len(q) - 1 : Tail(q)[i] = q[i + 1]
        /\ Len(q) \in Nat \ {0} /\ Head(q) = q[1]
    OBVIOUS
  <1>2. ASSUME NEW j, j # NullTask PROVE Occurs(Tail(q), j) <=> Occurs(q, j) /\ j # Head(q)
    <2>1. ASSUME NEW i \in 1..Len(Tail(q)), Tail(q)[i] = j PROVE Occurs(q, j) /\ j # Head(q)
      <3>1. i + 1 \in 1..Len(q) /\ q[i + 1] = j /\ i + 1 # 1 /\ 1 \in 1..Len(q)
        BY <1>1, <2>1
      <3>2. QED
        BY <1>1, <1>2, <3>1, Zenon DEF Occurs, NoRepeats
    <2>2. ASSUME NEW i \in 1..Len(q), q[i] = j, j # Head(q) PROVE Occurs(Tail(q), j)
      <3>1. i - 1 \in 1..Len(q) - 1 /\ (i - 1) + 1 = i
        BY <1>1, <2>2
      <3>2. Tail(q)[i - 1] = j
        BY <1>1, <2>2, <3>1, Zenon
      <3>3. QED
        BY <1>1, <3>1, <3>2, Zenon DEF Occurs
    <2>3. QED
      BY <2>1, <2>2, Zenon DEF Occurs
  <1>3. NoRepeats(Tail(q))
    BY <1>1 DEF NoRepeats
  <1>4. QED
    BY <1>1, <1>2, <1>3 DEF Occurs

LEMMA TransferOccurs ==
  ASSUME NEW S, NEW q \in Seq(S), NEW r \in Seq(S)
  PROVE  /\ \A j : Occurs(q \o r, j) <=> Occurs(q, j) \/ Occurs(r, j)
         /\ NoRepeats(q) /\ NoRepeats(r) /\ (\A j : Occurs(r, j) => ~Occurs(q, j)) => NoRepeats(q \o r)
  <1>1. /\ Len(q \o r) = Len(q) + Len(r) /\ Len(q) \in Nat /\ Len(r) \in Nat
        /\ \A i \in 1..Len(q) : (q \o r)[i] = q[i]
        /\ \A i \in Len(q) + 1..Len(q) + Len(r) : (q \o r)[i] = r[i - Len(q)]
    OBVIOUS
  <1>2. ASSUME NEW j PROVE Occurs(q \o r, j) <=> Occurs(q, j) \/ Occurs(r, j)
    <2>1. ASSUME NEW i \in 1..Len(r), r[i] = j PROVE Occurs(q \o r, j)
      <3>1. Len(q) + i \in Len(q) + 1..Len(q) + Len(r) /\ (Len(q) + i) - Len(q) = i
        BY <1>1
      <3>2. Len(q) + i \in 1..Len(q \o r) /\ (q \o r)[Len(q) + i] = j
        BY <1>1, <2>1, <3>1
      <3>3. QED
        BY <3>2, Zenon DEF Occurs
    <2>2. Occurs(q, j) => Occurs(q \o r, j)
      BY <1>1 DEF Occurs
    <2>3. ASSUME NEW i \in 1..Len(q \o r), (q \o r)[i] = j PROVE Occurs(q, j) \/ Occurs(r, j)
      <3>1. CASE i \in 1..Len(q)
        BY <1>1, <2>3, <3>1, Zenon DEF Occurs
      <3>2. CASE i \notin 1..Len(q)
        <4>1. i \in Len(q) + 1..Len(q) + Len(r) /\ i - Len(q) \in 1..Len(r)
          BY <1>1, <3>2
        <4>2. r[i - Len(q)] = j
          BY <1>1, <2>3, <4>1, Zenon
        <4>3. QED
          BY <4>1, <4>2, Zenon DEF Occurs
      <3>3. QED
        BY <3>1, <3>2, Zenon
    <2>4. QED
      BY <2>1, <2>2, <2>3, Zenon DEF Occurs
  <1>3. ASSUME NoRepeats(q), NoRepeats(r), \A j : Occurs(r, j) => ~Occurs(q, j)
        PROVE  NoRepeats(q \o r)
    <2> SUFFICES ASSUME NEW i \in 1..Len(q \o r), NEW k \in 1..Len(q \o r), (q \o r)[i] = (q \o r)[k],
                        (q \o r)[i] # NullTask
                 PROVE  i = k
      BY Zenon DEF NoRepeats
    <2>1. \A n \in 1..Len(q \o r) : n \notin 1..Len(q) =>
             n - Len(q) \in 1..Len(r) /\ (q \o r)[n] = r[n - Len(q)]
      BY <1>1
    <2>2. CASE i \in 1..Len(q) /\ k \in 1..Len(q)
      BY <1>1, <1>3, <2>2, Zenon DEF NoRepeats
    <2>3. CASE i \notin 1..Len(q) /\ k \notin 1..Len(q)
      <3>1. i - Len(q) = k - Len(q)
        BY <1>3, <2>1, <2>3, Zenon DEF NoRepeats
      <3>2. QED
        BY <1>1, <3>1
    <2>4. CASE i \in 1..Len(q) /\ k \notin 1..Len(q)
      BY <1>1, <1>3, <2>1, <2>4, Zenon DEF Occurs
    <2>5. CASE i \notin 1..Len(q) /\ k \in 1..Len(q)
      BY <1>1, <1>3, <2>1, <2>5, Zenon DEF Occurs
    <2>6. QED
      BY <2>2, <2>3, <2>4, <2>5, Zenon
  <1>4. QED
    BY <1>2, <1>3, Zenon

(* Where an operation is, and with which thread. *)
Kinds == {"queue", "private", "hand", "armed", "fresh", "done"}
Owners == Threads \cup {NoThread}

Lives(j, k, t) ==
    \/ k = "queue" /\ t = NoThread /\ Occurs(operation_queue_, j)
    \/ k = "private" /\ t \in Threads /\ Occurs(private_op_queue_[t], j)
    \/ k = "hand" /\ t \in Threads /\ op[t] = j
    \/ k = "armed" /\ t = NoThread /\ j \in armed
    \/ k = "fresh" /\ t = NoThread /\ j \in fresh
    \/ k = "done" /\ t = NoThread /\ j \in done

OneHome(j) ==
    \E k \in Kinds, t \in Owners : \A l \in Kinds, u \in Owners : Lives(j, l, u) <=> l = k /\ u = t

(* Every operation has one home, and is there once. *)
OperationInv ==
    /\ NoRepeats(operation_queue_) /\ \A t \in Threads : NoRepeats(private_op_queue_[t])
    /\ \A j \in Jobs : OneHome(j)

LEMMA OnlyHome ==
  ASSUME OperationInv, NEW j \in Jobs, NEW k \in Kinds, NEW l \in Kinds, NEW t \in Owners,
         NEW u \in Owners, Lives(j, k, t), Lives(j, l, u)
  PROVE  k = l /\ t = u
  BY Zenon DEF OperationInv, OneHome

LEMMA HomesKept ==
  ASSUME OperationInv,
         \A j \in Jobs : \A m \in Kinds, v \in Owners : Lives(j, m, v)' <=> Lives(j, m, v)
  PROVE  \A j \in Jobs : OneHome(j)'
  <1> SUFFICES ASSUME NEW j \in Jobs PROVE OneHome(j)'
    BY Zenon
  <1>1. PICK k \in Kinds, t \in Owners :
          \A l \in Kinds, u \in Owners : Lives(j, l, u) <=> l = k /\ u = t
    BY Zenon DEF OperationInv, OneHome
  <1>2. \A l \in Kinds, u \in Owners : Lives(j, l, u)' <=> l = k /\ u = t
    BY <1>1, Zenon
  <1>3. QED
    BY <1>2, Zenon DEF OneHome

(* One operation moves from one home to another. *)
MoveOnly(j0, k, t, l, u) ==
    \A j \in Jobs : \A m \in Kinds, v \in Owners :
        Lives(j, m, v)' <=> (Lives(j, m, v) /\ ~(j = j0 /\ m = k /\ v = t)) \/ (j = j0 /\ m = l /\ v = u)

LEMMA OneMoves ==
  ASSUME OperationInv, NEW j0 \in Jobs, NEW k \in Kinds, NEW t \in Owners, NEW l \in Kinds,
         NEW u \in Owners, Lives(j0, k, t), MoveOnly(j0, k, t, l, u)
  PROVE  \A j \in Jobs : OneHome(j)'
  <1> SUFFICES ASSUME NEW j \in Jobs PROVE OneHome(j)'
    BY Zenon
  <1>1. CASE j # j0
    <2>1. PICK k1 \in Kinds, t1 \in Owners :
            \A m \in Kinds, v \in Owners : Lives(j, m, v) <=> m = k1 /\ v = t1
      BY Zenon DEF OperationInv, OneHome
    <2>2. \A m \in Kinds, v \in Owners : Lives(j, m, v)' <=> m = k1 /\ v = t1
      BY <1>1, <2>1, Zenon DEF MoveOnly
    <2>3. QED
      BY <2>2, Zenon DEF OneHome
  <1>2. CASE j = j0
    <2>1. \A m \in Kinds, v \in Owners : Lives(j, m, v)' <=> m = l /\ v = u
      <3>1. \A m \in Kinds, v \in Owners : Lives(j, m, v) => m = k /\ v = t
        BY <1>2, OnlyHome, Zenon
      <3>2. QED
        BY <1>2, <3>1, Zenon DEF MoveOnly
    <2>2. QED
      BY <2>1, Zenon DEF OneHome
  <1>3. QED
    BY <1>1, <1>2, Zenon

(* An operation moves to the shared queue. *)
LEMMA PushHome ==
  ASSUME TypeInv, OperationInv, NEW j0 \in Jobs, NEW k \in Kinds \ {"queue"}, NEW t \in Owners,
         Lives(j0, k, t), operation_queue_' = Append(operation_queue_, j0),
         \A j \in Jobs : \A m \in Kinds \ {"queue"}, v \in Owners :
             Lives(j, m, v)' <=> Lives(j, m, v) /\ ~(j = j0 /\ m = k /\ v = t),
         \A u \in Threads : NoRepeats(private_op_queue_[u])'
  PROVE  OperationInv'
  <1>1. operation_queue_ \in Seq(Operations) /\ j0 \in Operations
    BY Zenon DEF TypeInv, TypeOK, Operations
  <1>2. ~Occurs(operation_queue_, j0)
    <2>1. ASSUME Occurs(operation_queue_, j0) PROVE FALSE
      <3>1. Lives(j0, "queue", NoThread)
        BY <2>1, Zenon DEF Lives
      <3>2. QED
        BY <3>1, OnlyHome DEF Kinds, Owners
    <2>2. QED
      BY <2>1, Zenon
  <1>3. NoRepeats(operation_queue_)' /\ \A j : Occurs(operation_queue_', j) <=> Occurs(operation_queue_, j) \/ j0 = j
    BY <1>1, <1>2, PushOccurs DEF OperationInv, NoRepeats
  <1>4. MoveOnly(j0, k, t, "queue", NoThread)
    <2>1. \A j \in Jobs, v \in Owners :
              Lives(j, "queue", v)' <=> Lives(j, "queue", v) \/ (j = j0 /\ v = NoThread)
      BY <1>3, Zenon DEF Lives
    <2>2. QED
      BY <2>1, Zenon DEF MoveOnly
  <1>5. \A j \in Jobs : OneHome(j)'
    BY <1>4, OneMoves DEF Kinds, Owners
  <1>6. QED
    BY <1>3, <1>5, Zenon DEF OperationInv

LEMMA OperationClient ==
  ASSUME TypeInv, OperationInv, NEW c \in Clients, Client(c)
  PROVE  OperationInv'
  <1>1. private_op_queue_' = private_op_queue_ /\ \A t \in Threads : NoRepeats(private_op_queue_[t])'
    BY Zenon DEF Client, Post, PostEnqueue, GuardCreate, GuardDestroy, Restart, local, OperationInv,
       NoRepeats
  <1>2. CASE GuardCreate(c) \/ GuardDestroy(c) \/ Restart(c)
    <2>1. UNCHANGED <<operation_queue_, op, armed, fresh, done>>
      BY <1>2, Zenon DEF GuardCreate, GuardDestroy, Restart, local, env
    <2>2. \A j \in Jobs : \A m \in Kinds, v \in Owners : Lives(j, m, v)' <=> Lives(j, m, v)
      BY <1>1, <2>1 DEF Lives
    <2>3. QED
      BY <1>1, <2>1, <2>2, HomesKept, Zenon DEF OperationInv
  <1>3. ASSUME NEW j0 \in Jobs, Post(c, j0) PROVE OperationInv'
    <2>1. /\ op' = [op EXCEPT ![c] = j0] /\ fresh' = fresh \ {j0} /\ j0 \in fresh
          /\ op[c] = NoJob /\ UNCHANGED <<operation_queue_, armed, done>> /\ c \in Owners
      BY <1>3, Zenon DEF Post, Outside, TypeInv, OperationInHand, Threads, Owners
    <2>2. op'[c] = j0 /\ \A t \in Threads \ {c} : op'[t] = op[t]
      BY <2>1, Zenon DEF TypeInv, TypeOK, Threads
    <2>3. MoveOnly(j0, "fresh", NoThread, "hand", c) /\ Lives(j0, "fresh", NoThread)
      BY <1>1, <2>1, <2>2, JobsAssumption DEF MoveOnly, Lives, Kinds, Owners, Threads
    <2>4. \A j \in Jobs : OneHome(j)'
      BY <2>1, <2>3, OneMoves, Zenon DEF Kinds, Owners
    <2>5. QED
      BY <1>1, <2>1, <2>4, Zenon DEF OperationInv
  <1>4. CASE PostEnqueue(c)
    <2>0. PICK j0 \in Jobs : op[c] = j0
      BY <1>4, Zenon DEF PostEnqueue, TypeInv, TypeOK, OperationInHand, Threads
    <2>1. /\ op' = [op EXCEPT ![c] = NoJob] /\ UNCHANGED <<armed, fresh, done>>
          /\ operation_queue_' = Append(operation_queue_, j0) /\ c \in Threads
      BY <1>4, <2>0, Zenon DEF PostEnqueue, EnqueueLocked, env, Threads
    <2>2. Lives(j0, "hand", c)
      BY <2>0, <2>1, Zenon DEF Lives
    <2>3. op'[c] = NoJob /\ \A t \in Threads \ {c} : op'[t] = op[t]
      BY <2>1, Zenon DEF TypeInv, TypeOK, Threads
    <2>4. \A j \in Jobs : \A m \in Kinds \ {"queue"}, v \in Owners :
              Lives(j, m, v)' <=> Lives(j, m, v) /\ ~(j = j0 /\ m = "hand" /\ v = c)
      BY <1>1, <2>0, <2>1, <2>3, JobsAssumption DEF Lives
    <2>5. QED
      BY <1>1, <2>1, <2>2, <2>4, PushHome DEF Kinds, Owners
  <1>5. QED
    BY <1>2, <1>3, <1>4, Zenon DEF Client

(* An operation moves to the private queue of a thread. *)
LEMMA PrivateHome ==
  ASSUME TypeInv, OperationInv, NEW j0 \in Jobs, NEW k \in Kinds \ {"private"}, Lives(j0, k, NoThread),
         NEW w \in Threads, private_op_queue_' = [private_op_queue_ EXCEPT ![w] = Append(@, j0)],
         UNCHANGED operation_queue_,
         \A j \in Jobs : \A m \in Kinds \ {"private"}, v \in Owners :
             Lives(j, m, v)' <=> Lives(j, m, v) /\ ~(j = j0 /\ m = k /\ v = NoThread)
  PROVE  OperationInv'
  <1>1. /\ private_op_queue_[w] \in Seq(Jobs) /\ private_op_queue_'[w] = Append(private_op_queue_[w], j0)
        /\ \A v \in Threads \ {w} : private_op_queue_'[v] = private_op_queue_[v]
    BY Zenon DEF TypeInv, TypeOK
  <1>2. ~Occurs(private_op_queue_[w], j0)
    <2>1. ASSUME Occurs(private_op_queue_[w], j0) PROVE FALSE
      <3>1. Lives(j0, "private", w)
        BY <2>1, Zenon DEF Lives
      <3>2. QED
        BY <3>1, OnlyHome DEF Kinds, Owners
    <2>2. QED
      BY <2>1, Zenon
  <1>3. /\ NoRepeats(Append(private_op_queue_[w], j0))
        /\ \A j : Occurs(private_op_queue_'[w], j) <=> Occurs(private_op_queue_[w], j) \/ j0 = j
    BY <1>1, <1>2, PushOccurs DEF OperationInv
  <1>4. \A v \in Threads : NoRepeats(private_op_queue_'[v])
    BY <1>1, <1>3, Zenon DEF OperationInv
  <1>5. MoveOnly(j0, k, NoThread, "private", w)
    <2>1. \A j \in Jobs, v \in Owners :
              Lives(j, "private", v)' <=> Lives(j, "private", v) \/ (j = j0 /\ v = w)
      BY <1>1, <1>3 DEF Lives
    <2>2. QED
      BY <2>1, Zenon DEF MoveOnly
  <1>6. \A j \in Jobs : OneHome(j)'
    BY <1>5, OneMoves, Zenon DEF Kinds, Owners
  <1>7. QED
    BY <1>4, <1>6, Zenon DEF OperationInv, NoRepeats

(* A null task is pushed or popped: no operation moves. *)
LEMMA TokenHome ==
  ASSUME OperationInv, UNCHANGED <<private_op_queue_, op, armed, fresh, done>>,
         NoRepeats(operation_queue_'),
         \A j \in Jobs : Occurs(operation_queue_', j) <=> Occurs(operation_queue_, j)
  PROVE  OperationInv'
  <1>1. \A j \in Jobs : \A m \in Kinds, v \in Owners : Lives(j, m, v)' <=> Lives(j, m, v)
    BY DEF Lives
  <1>2. QED
    BY <1>1, HomesKept, Zenon DEF OperationInv, NoRepeats

LEMMA OperationCaller ==
  ASSUME TypeInv, OperationInv, NEW t \in Threads, Caller(t)
  PROVE  OperationInv'
  <1>1. ASSUME NEW j0 \in Jobs, StartAsync(t, j0) PROVE OperationInv'
    <2>1. /\ armed' = armed \cup {j0} /\ fresh' = fresh \ {j0} /\ j0 \in fresh
          /\ UNCHANGED <<operation_queue_, private_op_queue_, op, done>>
      BY <1>1, Zenon DEF StartAsync, local
    <2>2. MoveOnly(j0, "fresh", NoThread, "armed", NoThread) /\ Lives(j0, "fresh", NoThread)
      BY <2>1 DEF MoveOnly, Lives
    <2>3. \A j \in Jobs : OneHome(j)'
      BY <2>2, OneMoves, Zenon DEF Kinds, Owners
    <2>4. QED
      BY <2>1, <2>3, Zenon DEF OperationInv, NoRepeats
  <1>2. ASSUME NEW j0 \in Jobs, EnqueuePostJobArrival(t, j0) PROVE OperationInv'
    <2>1. armed' = armed \ {j0} /\ j0 \in armed /\ UNCHANGED <<op, fresh, done>>
      BY <1>2, Zenon DEF EnqueuePostJobArrival
    <2>2. Lives(j0, "armed", NoThread)
      BY <2>1, Zenon DEF Lives
    <2>3. CASE UNCHANGED operation_queue_ /\ private_op_queue_' = [private_op_queue_ EXCEPT ![t] = Append(@, j0)]
      <3>1. \A j \in Jobs : \A m \in Kinds \ {"private"}, v \in Owners :
               Lives(j, m, v)' <=> Lives(j, m, v) /\ ~(j = j0 /\ m = "armed" /\ v = NoThread)
        BY <2>1, <2>3 DEF Lives
      <3>2. QED
        BY <2>2, <2>3, <3>1, PrivateHome, Zenon DEF Kinds
    <2>4. CASE UNCHANGED private_op_queue_ /\ operation_queue_' = Append(operation_queue_, j0)
      <3>1. \A j \in Jobs : \A m \in Kinds \ {"queue"}, v \in Owners :
               Lives(j, m, v)' <=> Lives(j, m, v) /\ ~(j = j0 /\ m = "armed" /\ v = NoThread)
        BY <2>1, <2>4 DEF Lives
      <3>2. \A u \in Threads : NoRepeats(private_op_queue_[u])'
        BY <2>4, Zenon DEF OperationInv, NoRepeats
      <3>3. QED
        BY <2>2, <2>4, <3>1, <3>2, PushHome DEF Kinds, Owners
    <2>5. QED
      BY <1>2, <2>3, <2>4, Zenon DEF EnqueuePostJobArrival, EnqueueLocked
  <1>3. ASSUME NEW j0 \in Jobs, PostImmediate(t, j0) PROVE OperationInv'
    <2>1. /\ fresh' = fresh \ {j0} /\ j0 \in fresh /\ UNCHANGED <<private_op_queue_, op, armed, done>>
          /\ operation_queue_' = Append(operation_queue_, j0)
      BY <1>3, Zenon DEF PostImmediate, EnqueueLocked, local
    <2>2. Lives(j0, "fresh", NoThread)
      BY <2>1, Zenon DEF Lives
    <2>3. \A j \in Jobs : \A m \in Kinds \ {"queue"}, v \in Owners :
             Lives(j, m, v)' <=> Lives(j, m, v) /\ ~(j = j0 /\ m = "fresh" /\ v = NoThread)
      BY <2>1 DEF Lives
    <2>4. \A u \in Threads : NoRepeats(private_op_queue_[u])'
      BY <2>1, Zenon DEF OperationInv, NoRepeats
    <2>5. QED
      BY <2>1, <2>2, <2>3, <2>4, PushHome DEF Kinds, Owners
  <1>4. CASE Stop(t) \/ UseReactorService(t)
    <2>1. /\ UNCHANGED <<private_op_queue_, op, armed, fresh, done>>
          /\ UNCHANGED operation_queue_ \/ operation_queue_' = Append(operation_queue_, NullTask)
      BY <1>4, Zenon DEF Stop, UseReactorService, StartReactorTask, local, env
    <2>2. operation_queue_ \in Seq(Operations) /\ NullTask \in Operations
      BY Zenon DEF TypeInv, TypeOK, Operations
    <2>3. /\ NoRepeats(operation_queue_')
          /\ \A j \in Jobs : Occurs(operation_queue_', j) <=> Occurs(operation_queue_, j)
      <3>1. CASE UNCHANGED operation_queue_
        BY <3>1, Zenon DEF OperationInv
      <3>2. CASE operation_queue_' = Append(operation_queue_, NullTask)
        <4>1. /\ NoRepeats(Append(operation_queue_, NullTask))
              /\ \A j : Occurs(Append(operation_queue_, NullTask), j)
                          <=> Occurs(operation_queue_, j) \/ NullTask = j
          BY <2>2, PushOccurs, Zenon DEF OperationInv
        <4>2. QED
          BY <3>2, <4>1, JobsAssumption, Zenon
      <3>3. QED
        BY <2>1, <3>1, <3>2, Zenon
    <2>4. QED
      BY <2>1, <2>3, TokenHome, Zenon
  <1>5. QED
    BY <1>1, <1>2, <1>3, <1>4, Zenon DEF Caller

(* The private queue of a worker moves to the shared queue, followed by    *)
(* the null task when the worker had it.                                   *)
LEMMA TransferHome ==
  ASSUME TypeInv, OperationInv, NEW w \in Workers, ClearPrivate(w),
         \/ operation_queue_' = Transferred(w)
         \/ operation_queue_' = TokenReturned(Transferred(w)),
         UNCHANGED <<op, armed, fresh, done>>
  PROVE  OperationInv'
  <1>1. /\ operation_queue_ \in Seq(Operations) /\ private_op_queue_[w] \in Seq(Operations)
        /\ Transferred(w) \in Seq(Operations) /\ NullTask \in Operations
        /\ w \in Threads
    BY TransferType DEF TypeInv, TypeOK, Operations, Threads
  <1>2. \A j : Occurs(private_op_queue_[w], j) => j \in Jobs /\ ~Occurs(operation_queue_, j)
    <2> SUFFICES ASSUME NEW j, Occurs(private_op_queue_[w], j)
                 PROVE  j \in Jobs /\ ~Occurs(operation_queue_, j)
      BY Zenon
    <2>1. j \in Jobs
      BY <1>1 DEF Occurs, TypeInv, TypeOK
    <2>2. Lives(j, "private", w)
      BY <1>1, Zenon DEF Lives
    <2>3. ASSUME Occurs(operation_queue_, j) PROVE FALSE
      <3>1. Lives(j, "queue", NoThread)
        BY <2>3, Zenon DEF Lives
      <3>2. QED
        BY <1>1, <2>1, <2>2, <3>1, OnlyHome, Zenon DEF Kinds, Owners
    <2>4. QED
      BY <2>1, <2>3, Zenon
  <1>3. /\ NoRepeats(Transferred(w))
        /\ \A j : Occurs(Transferred(w), j) <=> Occurs(operation_queue_, j) \/ Occurs(private_op_queue_[w], j)
    BY <1>1, <1>2, TransferOccurs, Zenon DEF OperationInv, Transferred
  <1>4. /\ NoRepeats(TokenReturned(Transferred(w)))
        /\ \A j : Occurs(TokenReturned(Transferred(w)), j) <=> Occurs(Transferred(w), j) \/ NullTask = j
    BY <1>1, <1>3, PushOccurs, Zenon DEF TokenReturned
  <1>5. /\ NoRepeats(operation_queue_')
        /\ \A j \in Jobs : Occurs(operation_queue_', j)
                             <=> Occurs(operation_queue_, j) \/ Occurs(private_op_queue_[w], j)
    BY <1>3, <1>4, JobsAssumption, Zenon
  <1>6. /\ private_op_queue_'[w] = <<>> /\ (\A j : ~Occurs(<<>>, j)) /\ NoRepeats(<<>>)
        /\ \A v \in Threads \ {w} : private_op_queue_'[v] = private_op_queue_[v]
    <2>1. (\A j : ~Occurs(<<>>, j)) /\ NoRepeats(<<>>)
      BY DEF Occurs, NoRepeats
    <2>2. QED
      BY <1>1, <2>1, Zenon DEF ClearPrivate, TypeInv, TypeOK
  <1>7. ASSUME NEW j \in Jobs PROVE OneHome(j)'
    <2>1. PICK k \in Kinds, t \in Owners :
            \A l \in Kinds, u \in Owners : Lives(j, l, u) <=> l = k /\ u = t
      BY Zenon DEF OperationInv, OneHome
    <2>2. CASE Occurs(private_op_queue_[w], j)
      <3>1. \A l \in Kinds, u \in Owners : Lives(j, l, u) => l = "private" /\ u = w
        BY <1>1, <2>1, <2>2 DEF Lives, Kinds, Owners
      <3>2. \A l \in Kinds, u \in Owners : Lives(j, l, u)' <=> l = "queue" /\ u = NoThread
        BY <1>5, <1>6, <2>2, <3>1, Zenon DEF Lives
      <3>3. QED
        BY <3>2, Zenon DEF OneHome, Kinds, Owners
    <2>3. CASE ~Occurs(private_op_queue_[w], j)
      <3>1. \A l \in Kinds, u \in Owners : Lives(j, l, u)' <=> Lives(j, l, u)
        BY <1>5, <1>6, <2>3 DEF Lives
      <3>2. \A l \in Kinds, u \in Owners : Lives(j, l, u)' <=> l = k /\ u = t
        BY <2>1, <3>1, Zenon
      <3>3. QED
        BY <3>2, Zenon DEF OneHome
    <2>4. QED
      BY <2>2, <2>3, Zenon
  <1>8. \A v \in Threads : NoRepeats(private_op_queue_'[v])
    BY <1>6, Zenon DEF OperationInv
  <1>9. QED
    BY <1>5, <1>7, <1>8, Zenon DEF OperationInv, NoRepeats

LEMMA OperationPop ==
  ASSUME TypeInv, OperationInv, NEW w \in Workers, StartOperation(w) \/ StartReactor(w)
  PROVE  OperationInv'
  <1>1. /\ operation_queue_ # <<>> /\ operation_queue_' = Tail(operation_queue_)
        /\ pc[w] = "loop" /\ UNCHANGED <<private_op_queue_, armed, fresh, done>> /\ w \in Threads
    BY Zenon DEF StartOperation, StartReactor, PopFront, AtLoop, env, Threads
  <1>2. operation_queue_ \in Seq(Operations) /\ Head(operation_queue_) \in Operations
    BY <1>1, PopType, Zenon DEF TypeInv, TypeOK
  <1>3. /\ NoRepeats(operation_queue_') /\ Occurs(operation_queue_, Head(operation_queue_))
        /\ \A j \in Jobs : Occurs(operation_queue_', j)
                             <=> Occurs(operation_queue_, j) /\ j # Head(operation_queue_)
    BY <1>1, <1>2, PopOccurs, JobsAssumption, Zenon DEF OperationInv
  <1>4. CASE StartReactor(w)
    <2>1. Head(operation_queue_) = NullTask /\ UNCHANGED op
      BY <1>4, Zenon DEF StartReactor
    <2>2. QED
      BY <1>1, <1>3, <2>1, TokenHome, JobsAssumption, Zenon
  <1>5. CASE StartOperation(w)
    <2>1. PICK j0 \in Jobs : Head(operation_queue_) = j0
      BY <1>2, <1>5, Zenon DEF StartOperation, Operations
    <2>2. op' = [op EXCEPT ![w] = j0] /\ op[w] = NoJob
      BY <1>1, <1>5, <2>1, Zenon DEF StartOperation, TypeInv, OperationInHand
    <2>3. op'[w] = j0 /\ \A v \in Threads \ {w} : op'[v] = op[v]
      BY <1>1, <2>2, Zenon DEF TypeInv, TypeOK
    <2>4. MoveOnly(j0, "queue", NoThread, "hand", w) /\ Lives(j0, "queue", NoThread)
      BY <1>1, <1>3, <2>1, <2>2, <2>3, JobsAssumption DEF MoveOnly, Lives
    <2>5. \A j \in Jobs : OneHome(j)'
      BY <1>1, <2>4, OneMoves, Zenon DEF Kinds, Owners
    <2>6. QED
      BY <1>1, <1>3, <2>5, Zenon DEF OperationInv, NoRepeats
  <1>6. QED
    BY <1>4, <1>5, Zenon

LEMMA OperationWithin ==
  ASSUME TypeInv, OperationInv, NEW w \in Workers, NEW j0 \in Jobs,
         PostPrivate(w, j0) \/ DispatchInline(w, j0) \/ ReactorReady(w, j0)
  PROVE  OperationInv'
  <1>1. /\ UNCHANGED <<operation_queue_, op>> /\ w \in Threads /\ fresh' = fresh \ {j0}
        /\ j0 \in armed \/ j0 \in fresh
    BY Zenon DEF PostPrivate, DispatchInline, ReactorReady, shared, local, Threads
  <1>2. j0 \in armed => j0 \notin fresh
    <2>1. j0 \in armed => Lives(j0, "armed", NoThread)
      BY Zenon DEF Lives
    <2>2. j0 \in fresh => Lives(j0, "fresh", NoThread)
      BY Zenon DEF Lives
    <2>3. QED
      BY <2>1, <2>2, OnlyHome, Zenon DEF Kinds, Owners
  <1>3. CASE DispatchInline(w, j0)
    <2>1. j0 \in fresh /\ done' = done \cup {j0} /\ UNCHANGED <<armed, private_op_queue_>>
      BY <1>3, Zenon DEF DispatchInline, local
    <2>2. MoveOnly(j0, "fresh", NoThread, "done", NoThread) /\ Lives(j0, "fresh", NoThread)
      BY <1>1, <2>1 DEF MoveOnly, Lives
    <2>3. \A j \in Jobs : OneHome(j)'
      BY <2>2, OneMoves, Zenon DEF Kinds, Owners
    <2>4. QED
      BY <1>1, <2>1, <2>3, Zenon DEF OperationInv, NoRepeats
  <1>4. CASE PostPrivate(w, j0) \/ ReactorReady(w, j0)
    <2>1. /\ private_op_queue_' = [private_op_queue_ EXCEPT ![w] = Append(@, j0)] /\ UNCHANGED done
          /\ armed' = armed \ {j0}
      BY <1>2, <1>4, Zenon DEF PostPrivate, ReactorReady
    <2>2. PICK k \in {"armed", "fresh"} : Lives(j0, k, NoThread)
      BY <1>1, Zenon DEF Lives
    <2>3. (k = "armed" <=> j0 \in armed) /\ (k = "fresh" <=> j0 \in fresh)
      BY <1>1, <1>2, <2>2, Zenon DEF Lives
    <2>4. \A j \in Jobs : \A m \in Kinds \ {"private"}, v \in Owners :
               Lives(j, m, v)' <=> Lives(j, m, v) /\ ~(j = j0 /\ m = k /\ v = NoThread)
      BY <1>1, <2>1, <2>3 DEF Lives
    <2>5. QED
      BY <1>1, <2>1, <2>2, <2>4, PrivateHome, Zenon DEF Kinds
  <1>5. QED
    BY <1>3, <1>4, Zenon

LEMMA OperationFinish ==
  ASSUME TypeInv, OperationInv, NEW w \in Workers, FinishOperation(w)
  PROVE  OperationInv'
  <1>1. PICK j0 \in Jobs : op[w] = j0
    BY Zenon DEF FinishOperation, InOperation, TypeInv, TypeOK, OperationInHand, Threads
  <1>2. /\ done' = done \cup {j0} /\ op' = [op EXCEPT ![w] = NoJob] /\ w \in Threads
        /\ UNCHANGED <<operation_queue_, private_op_queue_, armed, fresh>>
    BY <1>1, Zenon DEF FinishOperation, Threads
  <1>3. op'[w] = NoJob /\ \A v \in Threads \ {w} : op'[v] = op[v]
    BY <1>2, Zenon DEF TypeInv, TypeOK
  <1>4. MoveOnly(j0, "hand", w, "done", NoThread) /\ Lives(j0, "hand", w)
    BY <1>1, <1>2, <1>3, JobsAssumption DEF MoveOnly, Lives
  <1>5. \A j \in Jobs : OneHome(j)'
    BY <1>2, <1>4, OneMoves, Zenon DEF Kinds, Owners
  <1>6. QED
    BY <1>2, <1>5, Zenon DEF OperationInv, NoRepeats

LEMMA OperationNext == TypeInv /\ OperationInv /\ [Next]_vars => OperationInv'
  <1> SUFFICES ASSUME TypeInv, OperationInv, [Next]_vars PROVE OperationInv'
    BY Zenon
  <1>1. ASSUME UNCHANGED <<operation_queue_, private_op_queue_, op, armed, fresh, done>> PROVE OperationInv'
    BY <1>1, TokenHome, Zenon DEF OperationInv
  <1>2. ASSUME NEW w \in Workers, Worker(w) PROVE OperationInv'
    <2>1. CASE FinishReactor(w) \/ AfterOperation(w)
      BY <2>1, TransferHome, Zenon DEF FinishReactor, AfterOperation, env
    <2>2. CASE (\E one \in BOOLEAN : Run(w, one)) \/ Lock(w) \/ Leave(w) \/ WaitForWork(w) \/ Woken(w)
      BY <1>1, <2>2, Zenon DEF Run, Lock, Leave, WaitForWork, Woken, shared, env
    <2>3. CASE ReactorReturn(w) \/ SpuriousWake(w) \/ ReactorFail(w)
      BY <1>1, <2>3, Zenon DEF ReactorReturn, SpuriousWake, ReactorFail, shared, local, env
    <2>4. QED
      BY <1>2, <2>1, <2>2, <2>3, OperationPop, OperationWithin, OperationFinish, Zenon
      DEF Worker, Step
  <1>3. ASSUME NEW t \in Threads, StopForLackOfJobs(t) PROVE OperationInv'
    BY <1>1, <1>3, Zenon DEF StopForLackOfJobs, env
  <1>4. CASE UNCHANGED vars
    BY <1>1, <1>4, Zenon DEF vars, shared, local, env
  <1>5. QED
    BY <1>2, <1>3, <1>4, OperationClient, OperationCaller, Zenon DEF Next

LEMMA OperationInit == Init => OperationInv
  <1> SUFFICES ASSUME Init PROVE OperationInv
    BY Zenon
  <1>1. \A j \in Jobs : ~Occurs(<<>>, j) /\ ~Occurs(<<NullTask>>, j)
    BY JobsAssumption DEF Occurs
  <1>2. NoRepeats(<<>>) /\ NoRepeats(<<NullTask>>)
    BY DEF NoRepeats
  <1>3. \A j \in Jobs : ~Occurs(operation_queue_, j)
    BY <1>1, Zenon DEF Init
  <1>4. \A t \in Threads : private_op_queue_[t] = <<>> /\ op[t] = NoJob
    BY Zenon DEF Init
  <1>5. ASSUME NEW j \in Jobs PROVE OneHome(j)
    <2>1. \A l \in Kinds, u \in Owners : Lives(j, l, u) <=> l = "fresh" /\ u = NoThread
      BY <1>1, <1>3, <1>4, JobsAssumption, Zenon DEF Lives, Init
    <2>2. QED
      BY <2>1, Zenon DEF OneHome, Kinds, Owners
  <1>6. QED
    BY <1>2, <1>4, <1>5, Zenon DEF OperationInv, Init

(* An operation with one home is in one place. *)
LEMMA HomeIsPlace ==
  ASSUME OperationInv, NEW j \in Jobs
  PROVE  Cardinality(Places(j)) = 1
  <1>1. PICK k \in Kinds, t \in Owners :
          \A l \in Kinds, u \in Owners : Lives(j, l, u) <=> l = k /\ u = t
    BY Zenon DEF OperationInv, OneHome
  <1>2. /\ Positions(operation_queue_, j) # {} <=> k = "queue" /\ t = NoThread
        /\ \A u \in Threads : Positions(private_op_queue_[u], j) # {} <=> k = "private" /\ u = t
        /\ \A u \in Threads : op[u] = j <=> k = "hand" /\ u = t
        /\ j \in armed <=> k = "armed" /\ t = NoThread
        /\ j \in fresh <=> k = "fresh" /\ t = NoThread
        /\ j \in done <=> k = "done" /\ t = NoThread
    <2>1. /\ Occurs(operation_queue_, j) <=> Lives(j, "queue", NoThread)
          /\ \A u \in Threads : Occurs(private_op_queue_[u], j) <=> Lives(j, "private", u)
          /\ \A u \in Threads : op[u] = j <=> Lives(j, "hand", u)
          /\ j \in armed <=> Lives(j, "armed", NoThread)
          /\ j \in fresh <=> Lives(j, "fresh", NoThread)
          /\ j \in done <=> Lives(j, "done", NoThread)
      BY Zenon DEF Lives
    <2>2. \A queue : Positions(queue, j) # {} <=> Occurs(queue, j)
      BY Zenon DEF Positions, Occurs
    <2>3. QED
      BY <1>1, <2>1, <2>2, Zenon DEF Kinds, Owners
  <1>3. \A queue : NoRepeats(queue) => \A a, b \in Positions(queue, j) : a = b
    BY JobsAssumption, Zenon DEF NoRepeats, Positions
  <1>4. /\ Lives(j, k, t)
        /\ k \in {"queue", "armed", "fresh", "done"} => t = NoThread
        /\ k \in {"private", "hand"} => t \in Threads
    <2>1. Lives(j, k, t)
      BY <1>1, Zenon
    <2>2. QED
      BY <2>1, Zenon DEF Lives
  <1>5. \E p : Places(j) = {p}
    <2> DEFINE Q == {<<"queue", NoThread, i>> : i \in Positions(operation_queue_, j)}
               P == UNION {{<<"private", u, i>> : i \in Positions(private_op_queue_[u], j)} : u \in Threads}
               H == {<<"hand", u, 0>> : u \in {v \in Threads : op[v] = j}}
               A == {<<"armed", NoThread, 0>> : x \in {j} \cap armed}
               F == {<<"fresh", NoThread, 0>> : x \in {j} \cap fresh}
               D == {<<"done", NoThread, 0>> : x \in {j} \cap done}
    <2>1. Places(j) = Q \cup P \cup H \cup A \cup F \cup D
      <3>1. \A p : p \in Places(j) <=> p \in Q \/ p \in P \/ p \in H \/ p \in A \/ p \in F \/ p \in D
        BY Zenon DEF Places
      <3>2. QED
        BY <3>1, Zenon
    <2>2. /\ k # "queue" => Q = {}
          /\ k # "private" => P = {}
          /\ k # "hand" => H = {}
          /\ k # "armed" => A = {}
          /\ k # "fresh" => F = {}
          /\ k # "done" => D = {}
      BY <1>2, Zenon
    <2>3. CASE k = "queue"
      <3>1. Positions(operation_queue_, j) # {}
        BY <1>2, <1>4, <2>3, Zenon
      <3>2. \A a, b \in Positions(operation_queue_, j) : a = b
        BY <1>3, Zenon DEF OperationInv
      <3>3. PICK i : Positions(operation_queue_, j) = {i}
        BY <3>1, <3>2, Zenon
      <3>4. Q = {<<"queue", NoThread, i>>}
        BY <3>3, Zenon
      <3>5. QED
        BY <2>1, <2>2, <2>3, <3>4, Zenon
    <2>4. CASE k = "private"
      <3>1. Positions(private_op_queue_[t], j) # {}
        BY <1>2, <1>4, <2>4, Zenon
      <3>2. \A a, b \in Positions(private_op_queue_[t], j) : a = b
        BY <1>3, <1>4, <2>4, Zenon DEF OperationInv
      <3>3. PICK i : Positions(private_op_queue_[t], j) = {i}
        BY <3>1, <3>2, Zenon
      <3>4. P = {<<"private", t, i>>}
        <4>1. \A u \in Threads \ {t} : Positions(private_op_queue_[u], j) = {}
          BY <1>2, Zenon
        <4>2. QED
          BY <1>4, <2>4, <3>3, <4>1
      <3>5. QED
        BY <2>1, <2>2, <2>4, <3>4, Zenon
    <2>5. CASE k = "hand"
      <3>1. {v \in Threads : op[v] = j} = {t}
        BY <1>2, <1>4, <2>5, Zenon
      <3>2. H = {<<"hand", t, 0>>}
        BY <3>1, Zenon
      <3>3. QED
        BY <2>1, <2>2, <2>5, <3>2, Zenon
    <2>6. CASE k \in {"armed", "fresh", "done"}
      <3>1. /\ k = "armed" => A = {<<"armed", NoThread, 0>>}
            /\ k = "fresh" => F = {<<"fresh", NoThread, 0>>}
            /\ k = "done" => D = {<<"done", NoThread, 0>>}
        BY <1>2, <1>4, Zenon
      <3>2. QED
        BY <2>1, <2>2, <2>6, <3>1, Zenon
    <2>7. QED
      BY <2>3, <2>4, <2>5, <2>6, Zenon DEF Kinds
  <1>6. QED
    BY <1>5, FS_Singleton, Zenon

(* No operation is lost or duplicated on its way through the shared queue, *)
(* the private queues and the threads' hands, in any configuration.        *)
THEOREM ExecutorNoOperationLost == Spec => []NoOperationLost
  <1>1. Init => TypeInv /\ OperationInv
    BY TypeInit, OperationInit, Zenon
  <1>2. TypeInv /\ OperationInv /\ [Next]_vars => (TypeInv /\ OperationInv)'
    BY TypeNext, OperationNext, Zenon
  <1>3. OperationInv => NoOperationLost
    BY HomeIsPlace, Zenon DEF NoOperationLost
  <1>4. QED
    BY <1>1, <1>2, <1>3, PTL DEF Spec

-----------------------------------------------------------------------------
(* The count of the jobs.                                                  *)

Congruent(a, b) == \E k \in Int : a = b + k * JobCountMod

(* What AddJobs() does to job_count_ is an addition, up to a multiple of   *)
(* its width.                                                              *)
LEMMA Remainder ==
  ASSUME NEW a \in Int, NEW m \in Nat \ {0}
  PROVE  \E k \in Int : a % m = a + k * m
  <1>1. a = m * (a \div m) + (a % m) /\ a \div m \in Int /\ a % m \in Int
    BY Z3
  <1>2. PICK d \in Int : d = a \div m
    BY <1>1, Zenon
  <1>3. -d \in Int /\ a % m = a + (-d) * m
    BY <1>1, <1>2, Z3
  <1>4. QED
    BY <1>3, Zenon

LEMMA CongruentRemainder ==
  ASSUME NEW a \in Int, NEW b \in Int, Congruent(a, b)
  PROVE  a % JobCountMod = b % JobCountMod
  <1>1. PICK m \in Nat \ {0} : m = JobCountMod
    BY NumbersAssumption, Zenon
  <1>2. PICK k \in Int : a = b + k * m
    BY <1>1, Zenon DEF Congruent
  <1>3. PICK p \in Int : a % m = a + p * m
    BY Remainder, Zenon
  <1>4. PICK q \in Int : b % m = b + q * m
    BY Remainder, Zenon
  <1>5. a % m \in 0..m - 1 /\ b % m \in 0..m - 1
    BY ModRange, Zenon
  <1>6. PICK d \in Int : d = k + p - q
    OBVIOUS
  <1>7. d * m = (a % m) - (b % m)
    <2>1. (a % m) - (b % m) = (k + p - q) * m
      BY <1>2, <1>3, <1>4, Z3
    <2>2. QED
      BY <1>6, <2>1, Zenon
  <1>8. (d >= 1 => d * m >= m) /\ (d <= -1 => d * m <= -m)
    BY Z3
  <1>9. d = 0
    BY <1>5, <1>7, <1>8
  <1>10. a % m = b % m
    BY <1>5, <1>7, <1>9
  <1>11. QED
    BY <1>1, <1>10, Zenon

LEMMA CountsMove ==
  ASSUME NEW jc \in Int, NEW u \in Int, NEW o \in Int, NEW n \in Int, NEW u1 \in Int, NEW o1 \in Int,
         Congruent(jc + u, o), (u1 - u) + n = o1 - o
  PROVE  Congruent(((jc + n) % JobCountMod) + u1, o1)
  <1>0. JobCountMod \in Nat \ {0}
    BY NumbersAssumption, Zenon
  <1>1. PICK k \in Int : jc + u = o + k * JobCountMod
    BY Zenon DEF Congruent
  <1>2. PICK p \in Int : (jc + n) % JobCountMod = (jc + n) + p * JobCountMod
    <2>1. jc + n \in Int
      OBVIOUS
    <2>2. QED
      BY <1>0, <2>1, Remainder, Zenon
  <1>3. PICK x \in Int, y \in Int : x = k * JobCountMod /\ y = p * JobCountMod
    BY <1>0
  <1>4. ((jc + n) % JobCountMod) + u1 = o1 + (x + y)
    BY <1>1, <1>2, <1>3
  <1>5. x + y = (k + p) * JobCountMod
    BY <1>0, <1>3, Z3
  <1>6. QED
    BY <1>4, <1>5 DEF Congruent

-----------------------------------------------------------------------------
(* Cardinalities. *)
LEMMA DisjointUnion ==
  ASSUME NEW S, NEW T, IsFiniteSet(S), IsFiniteSet(T), S \cap T = {}
  PROVE  /\ IsFiniteSet(S \cup T) /\ Cardinality(S \cup T) = Cardinality(S) + Cardinality(T)
         /\ Cardinality(S) \in Nat /\ Cardinality(T) \in Nat
  <1>1. Cardinality(S) \in Nat /\ Cardinality(T) \in Nat
    BY FS_CardinalityType, Zenon
  <1>2. IsFiniteSet(S \cup T) /\ Cardinality(S \cup T) = Cardinality(S) + Cardinality(T) - Cardinality(S \cap T)
    BY FS_Union, Zenon
  <1>3. Cardinality(S \cap T) = 0
    BY FS_EmptySet, Zenon
  <1>4. QED
    BY <1>1, <1>2, <1>3

LEMMA SubsetTaken ==
  ASSUME NEW S, NEW T, IsFiniteSet(S), T \subseteq S
  PROVE  /\ IsFiniteSet(S \ T) /\ Cardinality(S \ T) = Cardinality(S) - Cardinality(T)
         /\ Cardinality(S) \in Nat /\ Cardinality(T) \in Nat /\ IsFiniteSet(T)
  <1>1. IsFiniteSet(T)
    BY FS_Subset, Zenon
  <1>2. Cardinality(S) \in Nat /\ Cardinality(T) \in Nat
    BY <1>1, FS_CardinalityType, Zenon
  <1>3. IsFiniteSet(S \ T) /\ Cardinality(S \ T) = Cardinality(S) - Cardinality(S \cap T)
    BY FS_Difference, Zenon
  <1>4. S \cap T = T
    BY Zenon
  <1>5. QED
    BY <1>1, <1>2, <1>3, <1>4, Zenon

LEMMA FirstNumbers ==
  ASSUME NEW i \in Nat
  PROVE  IsFiniteSet(1..i) /\ Cardinality(1..i) = i
  <1>1. IsFiniteSet(1..i) /\ Cardinality(1..i) = IF 1 > i THEN 0 ELSE i - 1 + 1
    BY FS_Interval
  <1>2. QED
    BY <1>1

(* The jobs in a queue. *)
Counted(queue) == {i \in 1..Len(queue) : queue[i] # NullTask}

LEMMA CountedFinite ==
  ASSUME NEW S, NEW q \in Seq(S)
  PROVE  IsFiniteSet(Counted(q)) /\ Cardinality(Counted(q)) \in Nat
  <1>1. IsFiniteSet(1..Len(q))
    BY FS_Interval
  <1>2. IsFiniteSet(Counted(q))
    BY <1>1, FS_Subset, Zenon DEF Counted
  <1>3. QED
    BY <1>2, FS_CardinalityType, Zenon

LEMMA CountedPush ==
  ASSUME NEW S, NEW q \in Seq(S), NEW x \in S
  PROVE  Cardinality(Counted(Append(q, x)))
           = IF x = NullTask THEN Cardinality(Counted(q)) ELSE Cardinality(Counted(q)) + 1
  <1>1. /\ Len(Append(q, x)) = Len(q) + 1 /\ Append(q, x)[Len(q) + 1] = x
        /\ \A i \in 1..Len(q) : Append(q, x)[i] = q[i]
        /\ Len(q) \in Nat
    OBVIOUS
  <1>2. CASE x = NullTask
    <2>1. Counted(Append(q, x)) = Counted(q)
      BY <1>1, <1>2 DEF Counted
    <2>2. QED
      BY <1>2, <2>1, Zenon
  <1>3. CASE x # NullTask
    <2>1. Counted(Append(q, x)) = Counted(q) \cup {Len(q) + 1} /\ Len(q) + 1 \notin Counted(q)
      BY <1>1, <1>3 DEF Counted
    <2>2. QED
      BY <1>3, <2>1, CountedFinite, FS_AddElement, Zenon
  <1>4. QED
    BY <1>2, <1>3, Zenon

LEMMA CountedPop ==
  ASSUME NEW S, NEW q \in Seq(S), q # <<>>
  PROVE  Cardinality(Counted(Tail(q)))
           = IF Head(q) = NullTask THEN Cardinality(Counted(q)) ELSE Cardinality(Counted(q)) - 1
  <1>1. /\ Len(Tail(q)) = Len(q) - 1 /\ \A i \in 1..Len(q) - 1 : Tail(q)[i] = q[i + 1]
        /\ Len(q) \in Nat \ {0} /\ Head(q) = q[1]
    OBVIOUS
  <1> DEFINE T == Counted(q) \ {1}
             f == [i \in T |-> i - 1]
  <1>2. IsFiniteSet(T) /\ Cardinality(T) = IF 1 \in Counted(q) THEN Cardinality(Counted(q)) - 1
                                                            ELSE Cardinality(Counted(q))
    BY CountedFinite, FS_RemoveElement, Zenon
  <1>3. 1 \in Counted(q) <=> Head(q) # NullTask
    BY <1>1 DEF Counted
  <1>4. f \in Bijection(T, Counted(Tail(q)))
    <2>1. \A i \in T : f[i] \in Counted(Tail(q))
      BY <1>1 DEF Counted
    <2>2. \A i \in Counted(Tail(q)) : i + 1 \in T /\ f[i + 1] = i
      BY <1>1 DEF Counted
    <2>3. \A a, b \in T : f[a] = f[b] => a = b
      BY <1>1 DEF Counted
    <2>4. f \in [T -> Counted(Tail(q))]
      BY <2>1, Zenon
    <2>5. f \in Injection(T, Counted(Tail(q)))
      BY <2>3, <2>4, Zenon DEF Injection, IsInjective
    <2>6. f \in Surjection(T, Counted(Tail(q)))
      BY <2>2, <2>4, Zenon DEF Surjection
    <2>7. QED
      BY <2>5, <2>6, Zenon DEF Bijection
  <1>5. ExistsBijection(T, Counted(Tail(q)))
    BY <1>4, Zenon DEF ExistsBijection
  <1>6. Cardinality(Counted(Tail(q))) = Cardinality(T)
    BY <1>2, <1>5, FS_Bijection, Zenon
  <1>7. QED
    BY <1>2, <1>3, <1>6, Zenon

LEMMA CountedTransfer ==
  ASSUME NEW S, NEW q \in Seq(S), NEW r \in Seq(Jobs)
  PROVE  Cardinality(Counted(q \o r)) = Cardinality(Counted(q)) + Len(r)
  <1>1. /\ Len(q \o r) = Len(q) + Len(r) /\ Len(q) \in Nat /\ Len(r) \in Nat
        /\ \A i \in 1..Len(q) : (q \o r)[i] = q[i]
        /\ \A i \in Len(q) + 1..Len(q) + Len(r) : (q \o r)[i] = r[i - Len(q)]
    <2>1. q \in Seq(S \cup Jobs) /\ r \in Seq(S \cup Jobs)
      OBVIOUS
    <2>2. QED
      BY <2>1
  <1> DEFINE N == Len(q) + 1..Len(q) + Len(r)
  <1>2. Counted(q \o r) = Counted(q) \cup N
    <2>1. \A i \in N : i - Len(q) \in 1..Len(r)
      BY <1>1
    <2>2. \A i \in N : (q \o r)[i] # NullTask
      BY <1>1, <2>1, JobsAssumption
    <2>3. QED
      BY <1>1, <2>2 DEF Counted
  <1>3. Counted(q) \cap N = {}
    BY <1>1 DEF Counted
  <1>4. IsFiniteSet(N) /\ Cardinality(N) = Len(r)
    <2>1. PICK a \in Int, b \in Int : a = Len(q) + 1 /\ b = Len(q) + Len(r)
      BY <1>1
    <2>2. IsFiniteSet(a..b) /\ Cardinality(a..b) = IF a > b THEN 0 ELSE b - a + 1
      BY FS_Interval, Zenon
    <2>3. QED
      BY <1>1, <2>1, <2>2
  <1>5. Cardinality(Counted(q) \cup N) = Cardinality(Counted(q)) + Cardinality(N)
    BY <1>3, <1>4, CountedFinite, DisjointUnion, Zenon
  <1>6. QED
    BY <1>2, <1>4, <1>5, Zenon

-----------------------------------------------------------------------------
(* What the threads hold: n[t] of them each. *)
Slots(n) == UNION {{t} \X (1..n[t]) : t \in Threads}

LEMMA SlotsChange ==
  ASSUME NEW n \in [Threads -> Nat], NEW w \in Threads, NEW k \in Nat, IsFiniteSet(Slots(n)),
         NEW n1 \in [Threads -> Nat], n1 = [n EXCEPT ![w] = k]
  PROVE  IsFiniteSet(Slots(n1)) /\ Cardinality(Slots(n1)) = Cardinality(Slots(n)) + (k - n[w])
  <1> DEFINE Old == {w} \X (1..n[w])
             New == {w} \X (1..k)
             Rest == Slots(n) \ Old
  <1>1. n1[w] = k /\ \A v \in Threads \ {w} : n1[v] = n[v]
    BY Zenon
  <1>2. \A i \in Nat : IsFiniteSet({w} \X (1..i)) /\ Cardinality({w} \X (1..i)) = i
    <2> SUFFICES ASSUME NEW i \in Nat PROVE IsFiniteSet({w} \X (1..i)) /\ Cardinality({w} \X (1..i)) = i
      BY Zenon
    <2>1. IsFiniteSet(1..i) /\ Cardinality(1..i) = i
      BY FirstNumbers, Zenon
    <2>2. IsFiniteSet({w}) /\ Cardinality({w}) = 1
      BY FS_Singleton, Zenon
    <2>3. IsFiniteSet({w} \X (1..i)) /\ Cardinality({w} \X (1..i)) = Cardinality({w}) * Cardinality(1..i)
      BY <2>1, <2>2, FS_Product, Zenon
    <2>4. QED
      BY <2>1, <2>2, <2>3
  <1>3. n[w] \in Nat /\ Slots(n) \cap Old = Old
    BY Zenon DEF Slots
  <1>4. Slots(n1) = Rest \cup New /\ Rest \cap New = {}
    <2>1. \A p : p \in Slots(n) <=> \E t \in Threads : \E i \in 1..n[t] : p = <<t, i>>
      BY DEF Slots
    <2>2. \A p : p \in Slots(n1) <=> \E t \in Threads : \E i \in 1..n1[t] : p = <<t, i>>
      BY DEF Slots
    <2>3. /\ \A p : p \in Old <=> \E i \in 1..n[w] : p = <<w, i>>
          /\ \A p : p \in New <=> \E i \in 1..k : p = <<w, i>>
      OBVIOUS
    <2>4. \A p : p \in Rest <=> \E t \in Threads \ {w} : \E i \in 1..n[t] : p = <<t, i>>
      BY <2>1, <2>3
    <2>5. \A p : p \in Slots(n1) <=> p \in Rest \/ p \in New
      <3> HIDE DEF Rest, New
      <3>1. ASSUME NEW p, p \in Slots(n1) PROVE p \in Rest \/ p \in New
        <4>1. PICK t \in Threads : \E i \in 1..n1[t] : p = <<t, i>>
          BY <2>2, <3>1, Zenon
        <4>2. QED
          BY <1>1, <2>3, <2>4, <4>1, Zenon
      <3>2. ASSUME NEW p, p \in Rest \/ p \in New PROVE p \in Slots(n1)
        BY <1>1, <2>2, <2>3, <2>4, <3>2, Zenon
      <3>3. QED
        BY <3>1, <3>2, Zenon
    <2>6. Rest \cap New = {}
      BY <2>3, <2>4, Zenon
    <2>7. QED
      BY <2>5, <2>6, Zenon
  <1>5. IsFiniteSet(Rest) /\ Cardinality(Rest) = Cardinality(Slots(n)) - n[w]
    <2>1. Old \subseteq Slots(n) /\ Cardinality(Old) = n[w]
      BY <1>2, <1>3, Zenon
    <2>2. QED
      BY <2>1, SubsetTaken, Zenon
  <1>6. IsFiniteSet(New) /\ Cardinality(New) = k
    BY <1>2, Zenon
  <1>7. IsFiniteSet(Rest \cup New) /\ Cardinality(Rest \cup New) = Cardinality(Rest) + Cardinality(New)
    BY <1>4, <1>5, <1>6, DisjointUnion, Zenon
  <1>8. Cardinality(Slots(n)) \in Nat
    BY FS_CardinalityType, Zenon
  <1>9. IsFiniteSet(Slots(n1)) /\ Cardinality(Slots(n1)) = (Cardinality(Slots(n)) - n[w]) + k
    BY <1>4, <1>5, <1>6, <1>7, Zenon
  <1>10. QED
    <2> HIDE DEF Old, New, Rest
    <2>1. QED
      BY <1>3, <1>8, <1>9

-----------------------------------------------------------------------------
Lengths == [t \in Threads |-> Len(private_op_queue_[t])]
Holders == {t \in Threads : op[t] # NoJob}

InQueue == Cardinality(Counted(operation_queue_))
InPrivate == Cardinality(Slots(Lengths))
InHand == Cardinality(Holders)
InReactor == Cardinality(armed)
ToPublish == Cardinality(Slots(private_job_count_))

CountedAreFinite ==
    IsFiniteSet(Slots(Lengths)) /\ IsFiniteSet(Holders) /\ IsFiniteSet(armed)
    /\ IsFiniteSet(Slots(private_job_count_))

(* The count, and that there are finitely many of everything it counts. *)
CountInv ==
    /\ CountedAreFinite
    /\ Congruent(job_count_ + ToPublish, InQueue + InPrivate + InHand + InReactor + guards)

LEMMA CountTypes ==
  ASSUME TypeInv, CountedAreFinite
  PROVE  /\ InQueue \in Int /\ InPrivate \in Int /\ InHand \in Int /\ InReactor \in Int
         /\ ToPublish \in Int /\ guards \in Int /\ job_count_ \in Int
  <1>1. InQueue \in Nat
    BY CountedFinite, Zenon DEF TypeInv, TypeOK, InQueue
  <1>2. InPrivate \in Nat /\ InHand \in Nat /\ InReactor \in Nat /\ ToPublish \in Nat
    BY FS_CardinalityType, Zenon DEF CountedAreFinite, InPrivate, InHand, InReactor, ToPublish
  <1>3. QED
    BY <1>1, <1>2, NumbersAssumption DEF TypeInv, TypeOK

(* A step that changes both sides of the count by the same amount. *)
Balanced(n) ==
    ToPublish' + n + (InQueue + InPrivate + InHand + InReactor + guards)
      = ToPublish + (InQueue' + InPrivate' + InHand' + InReactor' + guards')

LEMMA CountStep ==
  ASSUME TypeInv, TypeInv', CountInv, CountedAreFinite', NEW n \in Int,
         AddJobs(n) \/ (n = 0 /\ UNCHANGED job_count_), Balanced(n)
  PROVE  CountInv'
  <1>1. PICK jc \in Int, u \in Int, o \in Int :
          /\ jc = job_count_ /\ u = ToPublish /\ o = InQueue + InPrivate + InHand + InReactor + guards
    <2>1. CountedAreFinite
      BY Zenon DEF CountInv
    <2>2. /\ InQueue \in Int /\ InPrivate \in Int /\ InHand \in Int /\ InReactor \in Int
          /\ ToPublish \in Int /\ guards \in Int /\ job_count_ \in Int
      BY <2>1, CountTypes, Zenon
    <2>3. QED
      BY <2>2
  <1>2. /\ InQueue' \in Int /\ InPrivate' \in Int /\ InHand' \in Int /\ InReactor' \in Int
        /\ ToPublish' \in Int /\ guards' \in Int
    <2>1. IsFiniteSet(Counted(operation_queue_')) /\ Cardinality(Counted(operation_queue_')) \in Nat
      <3>1. operation_queue_' \in Seq(Operations)
        BY Zenon DEF TypeInv, TypeOK
      <3>2. QED
        BY <3>1, CountedFinite, Zenon
    <2>2. InPrivate' \in Nat /\ InHand' \in Nat /\ InReactor' \in Nat /\ ToPublish' \in Nat
      BY FS_CardinalityType, Zenon DEF CountedAreFinite, InPrivate, InHand, InReactor, ToPublish
    <2>3. QED
      BY <2>1, <2>2 DEF InQueue, TypeInv, TypeOK
  <1>3. PICK u1 \in Int, o1 \in Int :
          /\ u1 = ToPublish' /\ o1 = InQueue' + InPrivate' + InHand' + InReactor' + guards'
    <2>1. InQueue' + InPrivate' + InHand' + InReactor' + guards' \in Int
      BY <1>2
    <2>2. QED
      BY <1>2, <2>1, Zenon
  <1>4. Congruent(jc + u, o)
    BY <1>1, Zenon DEF CountInv
  <1>5. (u1 - u) + n = o1 - o
    <2>1. u1 + n + o = u + o1
      BY <1>1, <1>3, Zenon DEF Balanced
    <2>2. QED
      BY <2>1
  <1>6. CASE AddJobs(n)
    <2>1. Congruent(((jc + n) % JobCountMod) + u1, o1)
      BY <1>4, <1>5, CountsMove, Zenon
    <2>2. QED
      BY <1>1, <1>3, <1>6, <2>1, Zenon DEF AddJobs, CountInv, Congruent
  <1>7. CASE n = 0 /\ UNCHANGED job_count_
    <2>1. PICK k \in Int : jc + u = o + k * JobCountMod
      BY <1>4, Zenon DEF Congruent
    <2>2. jc + u1 = o1 + k * JobCountMod
      <3>1. PICK x \in Int : x = k * JobCountMod
        BY NumbersAssumption
      <3>2. jc + u = o + x
        BY <2>1, <3>1, Zenon
      <3>3. jc + u1 = o1 + x
        BY <1>5, <1>7, <3>2
      <3>4. QED
        BY <3>1, <3>3, Zenon
    <2>3. QED
      BY <1>1, <1>3, <1>7, <2>2, Zenon DEF CountInv, Congruent
  <1>8. QED
    BY <1>6, <1>7, Zenon

LEMMA QueueKept == ASSUME UNCHANGED operation_queue_ PROVE InQueue' = InQueue
  BY Zenon DEF InQueue, Counted

LEMMA QueuePush ==
  ASSUME TypeInv, NEW x \in Operations, operation_queue_' = Append(operation_queue_, x)
  PROVE  InQueue' = IF x = NullTask THEN InQueue ELSE InQueue + 1
  <1>1. operation_queue_ \in Seq(Operations)
    BY Zenon DEF TypeInv, TypeOK
  <1>2. Cardinality(Counted(Append(operation_queue_, x))) = IF x = NullTask THEN InQueue ELSE InQueue + 1
    BY <1>1, CountedPush, Zenon DEF InQueue
  <1>3. QED
    BY <1>2, Zenon DEF InQueue, Counted

LEMMA PrivateKept ==
  ASSUME CountedAreFinite, UNCHANGED private_op_queue_
  PROVE  IsFiniteSet(Slots(Lengths))' /\ InPrivate' = InPrivate
  <1>1. Lengths' = Lengths
    BY Zenon DEF Lengths
  <1>2. QED
    BY <1>1, Zenon DEF CountedAreFinite, InPrivate, Slots

(* The private queue of t gets length k. *)
LEMMA PrivateChange ==
  ASSUME TypeInv, CountedAreFinite, NEW t \in Threads, NEW queue \in Seq(Jobs),
         private_op_queue_' = [private_op_queue_ EXCEPT ![t] = queue]
  PROVE  IsFiniteSet(Slots(Lengths))' /\ InPrivate' = InPrivate + (Len(queue) - Len(private_op_queue_[t]))
  <1>1. Lengths \in [Threads -> Nat] /\ Len(queue) \in Nat /\ Lengths[t] = Len(private_op_queue_[t])
    BY DEF Lengths, TypeInv, TypeOK
  <1>2. Lengths' = [Lengths EXCEPT ![t] = Len(queue)] /\ Lengths' \in [Threads -> Nat]
    BY <1>1, Zenon DEF Lengths, TypeInv, TypeOK
  <1>3. IsFiniteSet(Slots(Lengths')) /\ Cardinality(Slots(Lengths')) = Cardinality(Slots(Lengths)) + (Len(queue) - Lengths[t])
    <2>1. PICK n \in [Threads -> Nat], n1 \in [Threads -> Nat] : n = Lengths /\ n1 = Lengths'
      BY <1>1, <1>2, Zenon
    <2>2. PICK k \in Nat : k = Len(queue)
      BY <1>1, Zenon
    <2>3. n1 = [n EXCEPT ![t] = k] /\ IsFiniteSet(Slots(n))
      BY <1>2, <2>1, <2>2, Zenon DEF CountedAreFinite
    <2>4. IsFiniteSet(Slots(n1)) /\ Cardinality(Slots(n1)) = Cardinality(Slots(n)) + (k - n[t])
      BY <2>3, SlotsChange, Zenon
    <2>5. QED
      BY <2>1, <2>2, <2>4, Zenon
  <1>4. QED
    BY <1>1, <1>3, Zenon DEF InPrivate

LEMMA PublishKept ==
  ASSUME CountedAreFinite, UNCHANGED private_job_count_
  PROVE  IsFiniteSet(Slots(private_job_count_))' /\ ToPublish' = ToPublish
  BY Zenon DEF CountedAreFinite, ToPublish, Slots

LEMMA PublishChange ==
  ASSUME TypeInv, CountedAreFinite, NEW t \in Threads, NEW k \in Nat,
         private_job_count_' = [private_job_count_ EXCEPT ![t] = k]
  PROVE  IsFiniteSet(Slots(private_job_count_))' /\ ToPublish' = ToPublish + (k - private_job_count_[t])
  <1>1. private_job_count_ \in [Threads -> Nat] /\ private_job_count_' \in [Threads -> Nat]
    BY Zenon DEF TypeInv, TypeOK
  <1>2. /\ IsFiniteSet(Slots(private_job_count_'))
        /\ Cardinality(Slots(private_job_count_')) = Cardinality(Slots(private_job_count_)) + (k - private_job_count_[t])
    <2>1. PICK n \in [Threads -> Nat], n1 \in [Threads -> Nat] :
            n = private_job_count_ /\ n1 = private_job_count_'
      BY <1>1, Zenon
    <2>2. n1 = [n EXCEPT ![t] = k] /\ IsFiniteSet(Slots(n))
      BY <2>1, Zenon DEF CountedAreFinite
    <2>3. IsFiniteSet(Slots(n1)) /\ Cardinality(Slots(n1)) = Cardinality(Slots(n)) + (k - n[t])
      BY <2>2, SlotsChange, Zenon
    <2>4. QED
      BY <2>1, <2>3, Zenon
  <1>3. QED
    BY <1>2, Zenon DEF ToPublish

LEMMA HandKept ==
  ASSUME CountedAreFinite, UNCHANGED op
  PROVE  IsFiniteSet(Holders)' /\ InHand' = InHand
  BY Zenon DEF CountedAreFinite, InHand, Holders

LEMMA HandTakes ==
  ASSUME TypeInv, CountedAreFinite, NEW t \in Threads, NEW j \in Jobs, op[t] = NoJob,
         op' = [op EXCEPT ![t] = j]
  PROVE  IsFiniteSet(Holders)' /\ InHand' = InHand + 1
  <1>1. Holders' = Holders \cup {t} /\ t \notin Holders
    BY JobsAssumption, Zenon DEF Holders, TypeInv, TypeOK
  <1>2. QED
    BY <1>1, FS_AddElement, Zenon DEF CountedAreFinite, InHand

LEMMA HandGives ==
  ASSUME TypeInv, CountedAreFinite, NEW t \in Threads, op[t] # NoJob, op' = [op EXCEPT ![t] = NoJob]
  PROVE  IsFiniteSet(Holders)' /\ InHand' = InHand - 1
  <1>1. Holders' = Holders \ {t} /\ t \in Holders
    BY Zenon DEF Holders, TypeInv, TypeOK
  <1>2. QED
    BY <1>1, FS_RemoveElement, Zenon DEF CountedAreFinite, InHand

LEMMA ReactorKept ==
  ASSUME CountedAreFinite, UNCHANGED armed
  PROVE  IsFiniteSet(armed)' /\ InReactor' = InReactor
  BY Zenon DEF CountedAreFinite, InReactor

LEMMA ReactorTakes ==
  ASSUME CountedAreFinite, NEW j, j \notin armed, armed' = armed \cup {j}
  PROVE  IsFiniteSet(armed)' /\ InReactor' = InReactor + 1
  BY FS_AddElement, Zenon DEF CountedAreFinite, InReactor

LEMMA ReactorGives ==
  ASSUME CountedAreFinite, NEW j \in armed, armed' = armed \ {j}
  PROVE  IsFiniteSet(armed)' /\ InReactor' = InReactor - 1
  BY FS_RemoveElement, Zenon DEF CountedAreFinite, InReactor

LEMMA CountClient ==
  ASSUME TypeInv, TypeInv', CountInv, NEW c \in Clients, Client(c)
  PROVE  CountInv'
  <1>1. CountedAreFinite /\ UNCHANGED <<private_op_queue_, private_job_count_, armed>> /\ c \in Threads
    BY Zenon DEF Client, Post, PostEnqueue, GuardCreate, GuardDestroy, Restart, local, env, CountInv, Threads
  <1>2. /\ IsFiniteSet(Slots(Lengths))' /\ IsFiniteSet(armed)' /\ IsFiniteSet(Slots(private_job_count_))'
        /\ InPrivate' = InPrivate /\ InReactor' = InReactor /\ ToPublish' = ToPublish
    BY <1>1, PrivateKept, PublishKept, ReactorKept, Zenon
  <1>3. /\ InQueue \in Int /\ InPrivate \in Int /\ InHand \in Int /\ InReactor \in Int
        /\ ToPublish \in Int /\ guards \in Int
    BY <1>1, CountTypes, Zenon
  <1>4. ASSUME NEW j \in Jobs, Post(c, j) PROVE CountInv'
    <2>1. /\ AddJobs(1) /\ op' = [op EXCEPT ![c] = j] /\ UNCHANGED <<operation_queue_, guards>>
          /\ op[c] = NoJob
      BY <1>1, <1>4, Zenon DEF Post, Outside, TypeInv, OperationInHand
    <2>2. IsFiniteSet(Holders)' /\ InHand' = InHand + 1 /\ InQueue' = InQueue
      BY <1>1, <2>1, HandTakes, QueueKept, Zenon
    <2>3. CountedAreFinite'
      BY <1>2, <2>2, Zenon DEF CountedAreFinite
    <2>4. Balanced(1)
      BY <1>2, <1>3, <2>1, <2>2 DEF Balanced
    <2>5. QED
      BY <2>1, <2>3, <2>4, CountStep
  <1>5. CASE PostEnqueue(c)
    <2>1. /\ UNCHANGED <<job_count_, guards>> /\ op' = [op EXCEPT ![c] = NoJob]
          /\ operation_queue_' = Append(operation_queue_, op[c]) /\ op[c] \in Jobs /\ op[c] # NoJob
      BY <1>1, <1>5, Zenon DEF PostEnqueue, EnqueueLocked, env, TypeInv, TypeOK, OperationInHand
    <2>2. IsFiniteSet(Holders)' /\ InHand' = InHand - 1
      BY <1>1, <2>1, HandGives, Zenon
    <2>3. InQueue' = InQueue + 1
      <3>1. PICK j \in Operations : j = op[c] /\ j # NullTask
        BY <2>1, JobsAssumption, Zenon DEF Operations
      <3>2. QED
        BY <2>1, <3>1, QueuePush, Zenon
    <2>4. CountedAreFinite'
      BY <1>2, <2>2, Zenon DEF CountedAreFinite
    <2>5. Balanced(0)
      BY <1>2, <1>3, <2>1, <2>2, <2>3 DEF Balanced
    <2>6. QED
      BY <2>1, <2>4, <2>5, CountStep
  <1>6. CASE GuardCreate(c) \/ GuardDestroy(c) \/ Restart(c)
    <2>1. PICK n \in Int : /\ AddJobs(n) \/ (n = 0 /\ UNCHANGED job_count_)
                           /\ guards' = guards + n /\ UNCHANGED <<op, operation_queue_>>
      BY <1>6, <1>3 DEF GuardCreate, GuardDestroy, Restart, local, env
    <2>2. IsFiniteSet(Holders)' /\ InHand' = InHand /\ InQueue' = InQueue
      BY <1>1, <2>1, HandKept, QueueKept, Zenon
    <2>3. CountedAreFinite'
      BY <1>2, <2>2, Zenon DEF CountedAreFinite
    <2>4. Balanced(n)
      BY <1>2, <1>3, <2>1, <2>2 DEF Balanced
    <2>5. QED
      BY <2>1, <2>3, <2>4, CountStep, Zenon
  <1>7. QED
    BY <1>4, <1>5, <1>6, Zenon DEF Client

(* The parts that a step does not change. *)
Framed ==
    /\ CountedAreFinite
    /\ InQueue \in Int /\ InPrivate \in Int /\ InHand \in Int /\ InReactor \in Int
    /\ ToPublish \in Int /\ guards \in Int
    /\ UNCHANGED operation_queue_ => InQueue' = InQueue
    /\ UNCHANGED private_op_queue_ => IsFiniteSet(Slots(Lengths))' /\ InPrivate' = InPrivate
    /\ UNCHANGED op => IsFiniteSet(Holders)' /\ InHand' = InHand
    /\ UNCHANGED armed => IsFiniteSet(armed)' /\ InReactor' = InReactor
    /\ UNCHANGED private_job_count_ => IsFiniteSet(Slots(private_job_count_))' /\ ToPublish' = ToPublish

LEMMA CountFrame == TypeInv /\ CountInv => Framed
  <1> SUFFICES ASSUME TypeInv, CountInv PROVE Framed
    BY Zenon
  <1>1. CountedAreFinite
    BY Zenon DEF CountInv
  <1>2. /\ InQueue \in Int /\ InPrivate \in Int /\ InHand \in Int /\ InReactor \in Int
        /\ ToPublish \in Int /\ guards \in Int
    BY <1>1, CountTypes, Zenon
  <1>3. QED
    BY <1>1, <1>2, QueueKept, PrivateKept, HandKept, ReactorKept, PublishKept, Zenon DEF Framed

(* Nothing that is counted changes. *)
LEMMA CountStays ==
  ASSUME TypeInv, TypeInv', CountInv, InQueue' = InQueue,
         UNCHANGED <<private_op_queue_, op, armed, private_job_count_, guards, job_count_>>
  PROVE  CountInv'
  <1>1. Framed
    BY CountFrame, Zenon
  <1>2. CountedAreFinite'
    BY <1>1, Zenon DEF CountedAreFinite, Framed
  <1>3. Balanced(0)
    BY <1>1 DEF Framed, Balanced
  <1>4. QED
    BY <1>2, <1>3, CountStep

LEMMA PrivatePush ==
  ASSUME TypeInv, CountInv, NEW t \in Threads, NEW j \in Jobs,
         private_op_queue_' = [private_op_queue_ EXCEPT ![t] = Append(@, j)]
  PROVE  IsFiniteSet(Slots(Lengths))' /\ InPrivate' = InPrivate + 1
  <1>1. PICK queue \in Seq(Jobs) : queue = Append(private_op_queue_[t], j)
    <2>1. Append(private_op_queue_[t], j) \in Seq(Jobs)
      BY DEF TypeInv, TypeOK
    <2>2. QED
      BY <2>1, Zenon
  <1>2. private_op_queue_' = [private_op_queue_ EXCEPT ![t] = queue]
    BY <1>1, Zenon
  <1>3. Len(queue) = Len(private_op_queue_[t]) + 1 /\ Len(private_op_queue_[t]) \in Nat
    BY <1>1 DEF TypeInv, TypeOK
  <1>4. IsFiniteSet(Slots(Lengths))' /\ InPrivate' = InPrivate + (Len(queue) - Len(private_op_queue_[t]))
    BY <1>2, PrivateChange, Zenon DEF CountInv
  <1>5. InPrivate \in Int
    BY CountTypes, Zenon DEF CountInv
  <1>6. QED
    BY <1>3, <1>4, <1>5

LEMMA CountCaller ==
  ASSUME TypeInv, TypeInv', CountInv, armed \cap fresh = {}, NEW t \in Threads, Caller(t)
  PROVE  CountInv'
  <1>0. Framed
    BY CountFrame, Zenon
  <1>1. ASSUME NEW j \in Jobs, StartAsync(t, j) PROVE CountInv'
    <2>1. /\ AddJobs(1) /\ armed' = armed \cup {j} /\ j \notin armed
          /\ UNCHANGED <<operation_queue_, private_op_queue_, op, private_job_count_, guards>>
      BY <1>1, Zenon DEF StartAsync, local
    <2>2. IsFiniteSet(armed)' /\ InReactor' = InReactor + 1
      BY <1>0, <2>1, ReactorTakes, Zenon DEF Framed
    <2>3. CountedAreFinite'
      BY <2>1, <2>2, <1>0, Zenon DEF CountedAreFinite, Framed
    <2>4. Balanced(1)
      BY <1>0, <2>1, <2>2 DEF Framed, Balanced
    <2>5. QED
      BY <2>1, <2>3, <2>4, CountStep
  <1>2. ASSUME NEW j \in Jobs, EnqueuePostJobArrival(t, j) PROVE CountInv'
    <2>1. /\ armed' = armed \ {j} /\ j \in armed
          /\ UNCHANGED <<op, private_job_count_, guards, job_count_>>
      BY <1>2, Zenon DEF EnqueuePostJobArrival
    <2>2. IsFiniteSet(armed)' /\ InReactor' = InReactor - 1
      BY <1>0, <2>1, ReactorGives, Zenon DEF Framed
    <2>3. CASE UNCHANGED operation_queue_ /\ private_op_queue_' = [private_op_queue_ EXCEPT ![t] = Append(@, j)]
      <3>1. IsFiniteSet(Slots(Lengths))' /\ InPrivate' = InPrivate + 1
        BY <2>3, PrivatePush, Zenon
      <3>2. CountedAreFinite'
        BY <2>1, <2>2, <3>1, <1>0, Zenon DEF CountedAreFinite, Framed
      <3>3. Balanced(0)
        BY <1>0, <2>1, <2>2, <2>3, <3>1 DEF Framed, Balanced
      <3>4. QED
        BY <2>1, <3>2, <3>3, CountStep
    <2>4. CASE UNCHANGED private_op_queue_ /\ operation_queue_' = Append(operation_queue_, j)
      <3>1. InQueue' = InQueue + 1
        BY <2>4, QueuePush, JobsAssumption DEF Operations
      <3>2. CountedAreFinite'
        BY <2>1, <2>2, <2>4, <1>0, Zenon DEF CountedAreFinite, Framed
      <3>3. Balanced(0)
        BY <1>0, <2>1, <2>2, <2>4, <3>1 DEF Framed, Balanced
      <3>4. QED
        BY <2>1, <3>2, <3>3, CountStep
    <2>5. QED
      BY <1>2, <2>3, <2>4, Zenon DEF EnqueuePostJobArrival, EnqueueLocked
  <1>3. ASSUME NEW j \in Jobs, PostImmediate(t, j) PROVE CountInv'
    <2>1. /\ AddJobs(1) /\ operation_queue_' = Append(operation_queue_, j)
          /\ UNCHANGED <<armed, private_op_queue_, op, private_job_count_, guards>>
      BY <1>3, Zenon DEF PostImmediate, EnqueueLocked, local
    <2>2. InQueue' = InQueue + 1
      BY <2>1, QueuePush, JobsAssumption DEF Operations
    <2>3. CountedAreFinite'
      BY <2>1, <1>0, Zenon DEF CountedAreFinite, Framed
    <2>4. Balanced(1)
      BY <1>0, <2>1, <2>2 DEF Framed, Balanced
    <2>5. QED
      BY <2>1, <2>3, <2>4, CountStep
  <1>4. CASE Stop(t) \/ UseReactorService(t)
    <2>1. /\ UNCHANGED <<private_op_queue_, op, armed, private_job_count_, guards, job_count_>>
          /\ UNCHANGED operation_queue_ \/ operation_queue_' = Append(operation_queue_, NullTask)
      BY <1>4, Zenon DEF Stop, UseReactorService, StartReactorTask, local, env
    <2>2. InQueue' = InQueue
      BY <2>1, QueueKept, QueuePush, Zenon DEF Operations
    <2>3. QED
      BY <2>1, <2>2, CountStays, Zenon
  <1>5. QED
    BY <1>1, <1>2, <1>3, <1>4, Zenon DEF Caller

LEMMA CountWithin ==
  ASSUME TypeInv, TypeInv', CountInv, TimerTicks = {}, NEW w \in Workers, NEW j \in Jobs,
         PostPrivate(w, j) \/ DispatchInline(w, j) \/ ReactorReady(w, j)
  PROVE  CountInv'
  <1>0. Framed /\ w \in Threads
    BY CountFrame, Zenon DEF Threads
  <1>1. UNCHANGED <<operation_queue_, op, guards, job_count_>>
    BY Zenon DEF PostPrivate, DispatchInline, ReactorReady, shared, local
  <1>2. CASE DispatchInline(w, j)
    <2>1. UNCHANGED <<private_op_queue_, armed, private_job_count_>>
      BY <1>2, Zenon DEF DispatchInline, local
    <2>2. QED
      BY <1>0, <1>1, <2>1, CountStays, Zenon DEF Framed
  <1>3. CASE PostPrivate(w, j)
    <2>1. /\ private_job_count_' = [private_job_count_ EXCEPT ![w] = @ + 1] /\ UNCHANGED armed
          /\ private_op_queue_' = [private_op_queue_ EXCEPT ![w] = Append(@, j)]
      BY <1>3, Zenon DEF PostPrivate
    <2>2. IsFiniteSet(Slots(Lengths))' /\ InPrivate' = InPrivate + 1
      BY <1>0, <2>1, PrivatePush, Zenon
    <2>3. IsFiniteSet(Slots(private_job_count_))' /\ ToPublish' = ToPublish + 1
      <3>1. PICK k \in Nat : k = private_job_count_[w] + 1 /\ k - private_job_count_[w] = 1
        <4>1. private_job_count_[w] \in Nat
          BY <1>0, Zenon DEF TypeInv, TypeOK
        <4>2. /\ private_job_count_[w] + 1 \in Nat
              /\ (private_job_count_[w] + 1) - private_job_count_[w] = 1
          BY <4>1
        <4>3. QED
          BY <4>2, Zenon
      <3>2. private_job_count_' = [private_job_count_ EXCEPT ![w] = k]
        BY <2>1, <3>1, Zenon
      <3>3. IsFiniteSet(Slots(private_job_count_))' /\ ToPublish' = ToPublish + (k - private_job_count_[w])
        BY <1>0, <3>2, PublishChange, Zenon DEF Framed
      <3>4. QED
        BY <3>1, <3>3, Zenon
    <2>4. CountedAreFinite'
      BY <1>0, <1>1, <2>1, <2>2, <2>3, Zenon DEF Framed, CountedAreFinite
    <2>5. Balanced(0)
      BY <1>0, <1>1, <2>1, <2>2, <2>3 DEF Framed, Balanced
    <2>6. QED
      BY <1>1, <2>4, <2>5, CountStep
  <1>4. CASE ReactorReady(w, j)
    <2>1. /\ armed' = armed \ {j} /\ j \in armed /\ UNCHANGED private_job_count_
          /\ private_op_queue_' = [private_op_queue_ EXCEPT ![w] = Append(@, j)]
      BY <1>4, Zenon DEF ReactorReady
    <2>2. IsFiniteSet(Slots(Lengths))' /\ InPrivate' = InPrivate + 1
      BY <1>0, <2>1, PrivatePush, Zenon
    <2>3. IsFiniteSet(armed)' /\ InReactor' = InReactor - 1
      BY <1>0, <2>1, ReactorGives, Zenon DEF Framed
    <2>4. CountedAreFinite'
      BY <1>0, <1>1, <2>1, <2>2, <2>3, Zenon DEF Framed, CountedAreFinite
    <2>5. Balanced(0)
      BY <1>0, <1>1, <2>1, <2>2, <2>3 DEF Framed, Balanced
    <2>6. QED
      BY <1>1, <2>4, <2>5, CountStep
  <1>5. QED
    BY <1>2, <1>3, <1>4, Zenon

LEMMA CountPop ==
  ASSUME TypeInv, TypeInv', CountInv, NEW w \in Workers, StartOperation(w) \/ StartReactor(w)
  PROVE  CountInv'
  <1>0. Framed /\ w \in Threads
    BY CountFrame, Zenon DEF Threads
  <1>1. /\ operation_queue_ # <<>> /\ operation_queue_' = Tail(operation_queue_) /\ pc[w] = "loop"
        /\ UNCHANGED <<private_op_queue_, armed, private_job_count_, guards, job_count_>>
    BY Zenon DEF StartOperation, StartReactor, PopFront, AtLoop, env
  <1>2. InQueue' = IF Head(operation_queue_) = NullTask THEN InQueue ELSE InQueue - 1
    <2>1. operation_queue_ \in Seq(Operations)
      BY Zenon DEF TypeInv, TypeOK
    <2>2. Cardinality(Counted(Tail(operation_queue_)))
            = IF Head(operation_queue_) = NullTask THEN InQueue ELSE InQueue - 1
      BY <1>1, <2>1, CountedPop, Zenon DEF InQueue
    <2>3. QED
      BY <1>1, <2>2, Zenon DEF InQueue
  <1>3. CASE StartReactor(w)
    <2>1. Head(operation_queue_) = NullTask /\ UNCHANGED op
      BY <1>3, Zenon DEF StartReactor
    <2>2. QED
      BY <1>1, <1>2, <2>1, CountStays, Zenon
  <1>4. CASE StartOperation(w)
    <2>1. PICK j \in Jobs : op' = [op EXCEPT ![w] = j] /\ op[w] = NoJob /\ Head(operation_queue_) # NullTask
      BY <1>0, <1>1, <1>4, PopType, Zenon DEF StartOperation, TypeInv, OperationInHand, Operations
    <2>2. IsFiniteSet(Holders)' /\ InHand' = InHand + 1
      BY <1>0, <2>1, HandTakes, Zenon DEF Framed
    <2>3. CountedAreFinite'
      BY <1>0, <1>1, <2>2, Zenon DEF Framed, CountedAreFinite
    <2>4. Balanced(0)
      BY <1>0, <1>1, <1>2, <2>1, <2>2 DEF Framed, Balanced
    <2>5. QED
      BY <1>1, <2>3, <2>4, CountStep
  <1>5. QED
    BY <1>3, <1>4, Zenon

LEMMA CountTransfer ==
  ASSUME TypeInv, TypeInv', CountInv, NEW w \in Workers, ClearPrivate(w),
         \/ operation_queue_' = Transferred(w)
         \/ operation_queue_' = TokenReturned(Transferred(w)),
         UNCHANGED <<op, armed, private_job_count_, guards, job_count_>>
  PROVE  CountInv'
  <1>0. Framed /\ w \in Threads
    BY CountFrame, Zenon DEF Threads
  <1>1. /\ operation_queue_ \in Seq(Operations) /\ private_op_queue_[w] \in Seq(Jobs)
        /\ Transferred(w) \in Seq(Operations) /\ NullTask \in Operations
    BY <1>0, TransferType, Zenon DEF TypeInv, TypeOK, Operations
  <1>2. Cardinality(Counted(Transferred(w))) = InQueue + Len(private_op_queue_[w])
    BY <1>1, CountedTransfer, Zenon DEF Transferred, InQueue
  <1>3. Cardinality(Counted(TokenReturned(Transferred(w)))) = InQueue + Len(private_op_queue_[w])
    BY <1>1, <1>2, CountedPush, Zenon DEF TokenReturned
  <1>4. InQueue' = InQueue + Len(private_op_queue_[w])
    BY <1>2, <1>3, Zenon DEF InQueue
  <1>5. IsFiniteSet(Slots(Lengths))' /\ InPrivate' = InPrivate - Len(private_op_queue_[w])
    <2>1. PICK queue \in Seq(Jobs) : queue = <<>> /\ Len(queue) = 0
      <3>1. <<>> \in Seq(Jobs) /\ Len(<<>>) = 0
        OBVIOUS
      <3>2. QED
        BY <3>1, Zenon
    <2>2. IsFiniteSet(Slots(Lengths))' /\ InPrivate' = InPrivate + (Len(queue) - Len(private_op_queue_[w]))
      BY <1>0, <2>1, PrivateChange, Zenon DEF ClearPrivate, Framed
    <2>3. QED
      BY <1>0, <1>1, <2>1, <2>2 DEF Framed
  <1>6. CountedAreFinite'
    BY <1>0, <1>5, Zenon DEF Framed, CountedAreFinite
  <1>7. Balanced(0)
    BY <1>0, <1>1, <1>4, <1>5 DEF Framed, Balanced
  <1>8. QED
    BY <1>6, <1>7, CountStep

LEMMA CountPublish ==
  ASSUME TypeInv, TypeInv', CountInv, NEW w \in Workers, ReactorReturn(w) \/ FinishOperation(w)
  PROVE  CountInv'
  <1>0. Framed /\ w \in Threads
    BY CountFrame, Zenon DEF Threads
  <1>1. PICK n \in Nat : n = private_job_count_[w]
    BY <1>0, Zenon DEF TypeInv, TypeOK
  <1>2. /\ private_job_count_' = [private_job_count_ EXCEPT ![w] = 0]
        /\ UNCHANGED <<operation_queue_, private_op_queue_, armed, guards>>
    BY Zenon DEF ReactorReturn, FinishOperation, env
  <1>3. IsFiniteSet(Slots(private_job_count_))' /\ ToPublish' = ToPublish - n
    <2>1. PICK k \in Nat : k = 0
      BY Zenon
    <2>2. IsFiniteSet(Slots(private_job_count_))' /\ ToPublish' = ToPublish + (k - private_job_count_[w])
      BY <1>0, <1>2, <2>1, PublishChange, Zenon DEF Framed
    <2>3. QED
      BY <1>0, <1>1, <2>1, <2>2 DEF Framed
  <1>4. CASE ReactorReturn(w)
    <2>1. AddJobs(n) /\ UNCHANGED op
      BY <1>1, <1>4, Zenon DEF ReactorReturn
    <2>2. CountedAreFinite'
      BY <1>0, <1>2, <1>3, <2>1, Zenon DEF Framed, CountedAreFinite
    <2>3. Balanced(n)
      BY <1>0, <1>2, <1>3, <2>1 DEF Framed, Balanced
    <2>4. QED
      BY <2>1, <2>2, <2>3, CountStep
  <1>5. CASE FinishOperation(w)
    <2>1. AddJobs(n - 1) /\ op' = [op EXCEPT ![w] = NoJob] /\ op[w] # NoJob
      BY <1>0, <1>1, <1>5, Zenon DEF FinishOperation, Completed, InOperation, TypeInv, OperationInHand
    <2>2. IsFiniteSet(Holders)' /\ InHand' = InHand - 1
      BY <1>0, <2>1, HandGives, Zenon DEF Framed
    <2>3. CountedAreFinite'
      BY <1>0, <1>2, <1>3, <2>2, Zenon DEF Framed, CountedAreFinite
    <2>4. Balanced(n - 1)
      BY <1>0, <1>2, <1>3, <2>2 DEF Framed, Balanced
    <2>5. QED
      BY <2>1, <2>3, <2>4, CountStep
  <1>6. QED
    BY <1>4, <1>5, Zenon

LEMMA CountNext ==
  TimerTicks = {} /\ TypeInv /\ armed \cap fresh = {} /\ CountInv /\ [Next]_vars => CountInv'
  <1> SUFFICES ASSUME TimerTicks = {}, TypeInv, armed \cap fresh = {}, CountInv, [Next]_vars PROVE CountInv'
    BY Zenon
  <1>1. TypeInv' /\ Framed
    BY TypeNext, CountFrame, Zenon
  <1>2. ASSUME UNCHANGED <<operation_queue_, private_op_queue_, op, armed, private_job_count_, guards, job_count_>>
        PROVE  CountInv'
    BY <1>1, <1>2, CountStays, Zenon DEF Framed
  <1>3. ASSUME NEW w \in Workers, Worker(w) PROVE CountInv'
    <2>1. CASE FinishReactor(w) \/ AfterOperation(w)
      BY <1>1, <2>1, CountTransfer, Zenon DEF FinishReactor, AfterOperation, env
    <2>2. CASE (\E one \in BOOLEAN : Run(w, one)) \/ Lock(w) \/ Leave(w) \/ WaitForWork(w) \/ Woken(w)
      BY <1>2, <2>2, Zenon DEF Run, Lock, Leave, WaitForWork, Woken, shared, env
    <2>3. CASE SpuriousWake(w) \/ ReactorFail(w)
      BY <1>2, <2>3, Zenon DEF SpuriousWake, ReactorFail, shared, local, env
    <2>4. QED
      BY <1>1, <1>3, <2>1, <2>2, <2>3, CountPop, CountWithin, CountPublish, Zenon DEF Worker, Step
  <1>4. ASSUME NEW t \in Threads, StopForLackOfJobs(t) PROVE CountInv'
    BY <1>2, <1>4, Zenon DEF StopForLackOfJobs, env
  <1>5. CASE UNCHANGED vars
    BY <1>2, <1>5, Zenon DEF vars, shared, local, env
  <1>6. QED
    BY <1>1, <1>3, <1>4, <1>5, CountClient, CountCaller, Zenon DEF Next

LEMMA CountInit == Init => CountInv
  <1> SUFFICES ASSUME Init PROVE CountInv
    BY Zenon
  <1>1. IsFiniteSet({}) /\ Cardinality({}) = 0
    BY FS_EmptySet, Zenon
  <1>2. Slots(Lengths) = {} /\ Slots(private_job_count_) = {} /\ Holders = {} /\ armed = {}
    <2>1. \A t \in Threads : 1..Lengths[t] = {} /\ 1..private_job_count_[t] = {}
      BY DEF Lengths, Init
    <2>2. \A t \in Threads : op[t] = NoJob
      BY Zenon DEF Init
    <2>3. Slots(Lengths) = {} /\ Slots(private_job_count_) = {}
      BY <2>1, Zenon DEF Slots
    <2>4. QED
      BY <2>2, <2>3, Zenon DEF Holders, Init
  <1>3. Counted(operation_queue_) = {}
    <2>1. Counted(<<>>) = {} /\ Counted(<<NullTask>>) = {}
      BY DEF Counted
    <2>2. QED
      BY <2>1, Zenon DEF Init
  <1>4. CountedAreFinite
    BY <1>1, <1>2, Zenon DEF CountedAreFinite
  <1>5. InQueue = 0 /\ InPrivate = 0 /\ InHand = 0 /\ InReactor = 0 /\ ToPublish = 0
    BY <1>1, <1>2, <1>3, Zenon DEF InQueue, InPrivate, InHand, InReactor, ToPublish
  <1>6. Congruent(job_count_ + ToPublish, InQueue + InPrivate + InHand + InReactor + guards)
    <2>1. job_count_ + ToPublish = 0 /\ InQueue + InPrivate + InHand + InReactor + guards = 0
      BY <1>5 DEF Init
    <2>2. 0 \in Int /\ 0 = 0 + 0 * JobCountMod
      BY NumbersAssumption
    <2>3. QED
      BY <2>1, <2>2, Zenon DEF Congruent
  <1>7. QED
    BY <1>4, <1>6, Zenon DEF CountInv

LEMMA CountIsOutstanding ==
  ASSUME TypeInv, CountInv
  PROVE  JobCountIsOutstanding
  <1>1. Framed
    BY CountFrame, Zenon
  <1>2. ToPublish = Unpublished
    BY Zenon DEF ToPublish, Unpublished, Slots
  <1>3. InQueue + InPrivate + InHand + InReactor + guards = Outstanding
    <2>1. \A t \in Threads : {t} \X (1..Lengths[t]) = {t} \X (1..Len(private_op_queue_[t]))
      BY Zenon DEF Lengths
    <2>2. Slots(Lengths) = UNION {{t} \X (1..Len(private_op_queue_[t])) : t \in Threads}
      BY <2>1, Zenon DEF Slots
    <2>3. QED
      BY <2>2, Zenon DEF Outstanding, InQueue, Counted, InPrivate, InHand, Holders, InReactor
  <1>4. PICK a \in Int, b \in Int : a = job_count_ + Unpublished /\ b = Outstanding
    <2>1. job_count_ + ToPublish \in Int /\ InQueue + InPrivate + InHand + InReactor + guards \in Int
      BY <1>1, NumbersAssumption DEF Framed, TypeInv, TypeOK
    <2>2. QED
      BY <1>2, <1>3, <2>1, Zenon
  <1>5. Congruent(a, b)
    BY <1>2, <1>3, <1>4, Zenon DEF CountInv
  <1>6. a % JobCountMod = b % JobCountMod
    BY <1>5, CongruentRemainder, Zenon
  <1>7. QED
    BY <1>4, <1>6, Zenon DEF JobCountIsOutstanding

LEMMA ArmedIsNotFresh == OperationInv /\ TypeInv => armed \cap fresh = {}
  <1> SUFFICES ASSUME OperationInv, TypeInv, NEW j \in armed, j \in fresh PROVE FALSE
    BY Zenon
  <1>1. j \in Jobs
    BY Zenon DEF TypeInv, TypeOK
  <1>2. Lives(j, "armed", NoThread) /\ Lives(j, "fresh", NoThread)
    BY Zenon DEF Lives
  <1>3. QED
    BY <1>1, <1>2, OnlyHome, Zenon DEF Kinds, Owners

(* job_count_, with what the workers have not published yet, is the number *)
(* of arrivals without completion modulo its width, whatever is posted,    *)
(* transferred or completed in which order, unless there are timers, whose *)
(* expiries are not counted.                                               *)
THEOREM ExecutorJobCount == Spec => []JobCountIsOutstanding
  <1> DEFINE Inv == TypeInv /\ OperationInv /\ (TimerTicks = {} => CountInv)
  <1>1. Init => Inv
    BY TypeInit, OperationInit, CountInit, Zenon
  <1>2. Inv /\ [Next]_vars => Inv'
    <2> SUFFICES ASSUME Inv, [Next]_vars PROVE Inv'
      BY Zenon
    <2>1. TypeInv' /\ OperationInv'
      BY TypeNext, OperationNext, Zenon
    <2>2. ASSUME TimerTicks = {} PROVE CountInv'
      BY <2>2, ArmedIsNotFresh, CountNext, Zenon
    <2>3. QED
      BY <2>1, <2>2, Zenon
  <1>3. Inv => JobCountIsOutstanding
    BY CountIsOutstanding, Zenon DEF JobCountIsOutstanding
  <1>4. QED
    BY <1>1, <1>2, <1>3, PTL DEF Spec
=============================================================================
